--------------------------- MODULE StartupProofs ---------------------------
(***************************************************************************)
(* Proofs about Startup and Catalogue, for any number of gateways, calls,  *)
(* providers, keys, groups and children.                                   *)
(***************************************************************************)
EXTENDS Startup, SequenceTheorems, WellFoundedInduction, TLAPS

-----------------------------------------------------------------------------
(* What a write does to the tables: from c to d.                           *)

\* AdminDecides, of the step that write w makes.
Decides(c, d, w) ==
  /\ \A k \in c.keys \cap d.keys : c.auth[k] = "direct" =>
       /\ d.auth[k] = "direct"
       /\ \/ d.allowed[k] = c.allowed[k] \cap d.providers
          \/ w.do = "allowed" /\ w.id = k
  /\ \A o \in Owners :
       (c.model[o].present /\ ~ c.model[o].enabled /\ d.model[o].enabled) =>
         w.do \in {"enabled", "gateway"} /\ w.id = o

\* Ids are given out by the writes that create, and a child keeps its provider.
Bears(c, d, w) ==
  /\ c.born \subseteq d.born
  /\ d.born \subseteq c.born \cup (IF w.do \in Creates THEN {w.id} ELSE {})
  /\ \A x \in Children \cap c.born :
       d.child[x] # NoChild => c.child[x] # NoChild /\ d.child[x].of = c.child[x].of

\* The keys whose groups w changes.
Affected(w) == CASE w.do = "key_groups" -> {w.id} [] w.do = "memberships" -> Keys [] OTHER -> {}

FollowOn(c, d, w) ==
  \A k \in d.keys \ Affected(w) : (k \in c.keys => Follows(c, k)) => Follows(d, k)

Effect(c, d, w, rd) ==
  /\ Sound(d, rd)
  /\ d.route # NoRoute
  /\ Decides(c, d, w)
  /\ Bears(c, d, w)
  /\ FollowOn(c, d, w)

\* AdminDecides, of this step.
Decided ==
  /\ \A k \in cat.keys \cap cat'.keys : cat.auth[k] = "direct" =>
       /\ cat'.auth[k] = "direct"
       /\ \/ cat'.allowed[k] = cat.allowed[k] \cap cat'.providers
          \/ \E a \in Admins : Due(a, "allowed") /\ Current(a).id = k
          \/ \E a \in Admins : (Due(a, "refresh") \/ Due(a, "bundle")) /\ k \in Touches(a) /\ seen'[a] = Nothing
  /\ \A o \in Owners :
       (cat.model[o].present /\ ~ cat.model[o].enabled /\ cat'.model[o].enabled) =>
         \E a \in Admins : (Due(a, "enabled") \/ Due(a, "gateway")) /\ Current(a).id = o

LEMMA DecidesDecided ==
  ASSUME NEW a \in Admins, Busy(a), Decides(cat, cat', Current(a))
  PROVE  Decided
<1>1. \A do : Current(a).do = do => Due(a, do)
  BY DEF Due, Current
<1> QED BY <1>1 DEF Decides, Decided

\* A write that leaves providers, keys, groups and references alone.
LEMMA MinorEffect ==
  ASSUME NEW c, NEW rc, NEW d, NEW w, Sound(c, rc), c.route # NoRoute, d \in CatalogueRows,
         d.providers = c.providers, d.born = c.born, d.keys = c.keys,
         d.member = c.member, d.keygroup = c.keygroup, d.auth = c.auth, d.allowed = c.allowed,
         d.route = c.route, d.special = c.special, d.alias = c.alias, d.targets = c.targets,
         d.child = c.child, d.enabled \subseteq d.providers, d.live \subseteq d.keys,
         \A o \in Owners : (c.model[o].present /\ ~ c.model[o].enabled /\ d.model[o].enabled) =>
           w.do \in {"enabled", "gateway"} /\ w.id = o
  PROVE  Effect(c, d, w, rc)
<1>1. Sound(d, rc)
  BY DEF Sound, Rooted, Refers
<1>2. Decides(c, d, w)
  <2>1. \A k \in c.keys : c.allowed[k] = c.allowed[k] \cap d.providers
    BY DEF Sound, Refers, CatalogueRows
  <2> QED BY <2>1 DEF Decides
<1>3. Bears(c, d, w)
  BY DEF Bears
<1>4. FollowOn(c, d, w)
  BY DEF FollowOn, Follows, Union
<1> QED BY <1>1, <1>2, <1>3, <1>4 DEF Effect

\* A write that changes routes, aliases or children, and neither providers,
\* keys nor what a key may use.
LEMMA ReferenceEffect ==
  ASSUME NEW c, NEW rc, NEW d, NEW w, Sound(c, rc), d \in CatalogueRows,
         d.providers = c.providers, d.keys = c.keys, d.enabled = c.enabled, d.live = c.live,
         d.member = c.member, d.keygroup = c.keygroup, d.auth = c.auth, d.allowed = c.allowed,
         \A o \in Owners : d.model[o] \in {c.model[o], NoModel},
         Refers(d, rc), d.route # NoRoute, Bears(c, d, w),
         \A x \in Children : d.child[x] # NoChild => x \in d.born
  PROVE  Effect(c, d, w, rc)
<1>1. Sound(d, rc)
  BY DEF Sound, Rooted, Bears
<1>2. Decides(c, d, w)
  <2>1. \A k \in c.keys : c.allowed[k] = c.allowed[k] \cap d.providers
    BY DEF Sound, Refers, CatalogueRows
  <2> QED BY <2>1 DEF Decides, NoModel
<1>4. FollowOn(c, d, w)
  BY DEF FollowOn, Follows, Union
<1> QED BY <1>1, <1>2, <1>4 DEF Effect

-----------------------------------------------------------------------------
(* The writes, one lemma for each.                                         *)

\* A call at a write that is in order.
AtWrite(a) ==
  /\ a \in Admins
  /\ Sound(cat, raced)
  /\ cat.route # NoRoute
  /\ WriteOK(Current(a))
  /\ StillValid(Current(a), cat, raced)

\* The write is made; what it does, and that the call goes on.
Success(a) ==
  /\ Busy(a)
  /\ Current(a).do \notin {"refresh", "insert_key"}
  /\ Effect(cat, cat', Current(a), raced)
  /\ cat.providers \subseteq cat'.providers
  /\ admin' = [admin EXCEPT ![a] = IF Len(@.todo) = 1 THEN Idle ELSE [admin[a] EXCEPT !.todo = Tail(@)]]
  /\ UNCHANGED <<missed, raced, edits>>

\* The same of a transaction that read before: keys may be left without the
\* refresh they need.
Committed(a) ==
  /\ Busy(a)
  /\ Current(a).do \notin {"refresh", "insert_key"}
  /\ Sound(cat', raced)
  /\ cat'.route # NoRoute
  /\ Decided
  /\ Bears(cat, cat', Current(a))
  /\ ~ missed' => ~ missed /\ FollowOn(cat, cat', Current(a))
  /\ cat.providers \subseteq cat'.providers
  /\ admin' = [admin EXCEPT ![a] = IF Len(@.todo) = 1 THEN Idle ELSE [admin[a] EXCEPT !.todo = Tail(@)]]
  /\ UNCHANGED <<raced, edits>>

LEMMA SuccessCommitted ==
  ASSUME NEW a \in Admins, Success(a)
  PROVE  Committed(a)
<1>1. Decided
  BY DecidesDecided DEF Success, Effect
<1> QED BY <1>1 DEF Success, Effect, Committed

LEMMA AtWriteFacts ==
  ASSUME NEW a, AtWrite(a)
  PROVE  /\ cat \in CatalogueRows
         /\ Sound(cat, raced) /\ Rooted(cat) /\ Refers(cat, raced)
         /\ cat.route \in SUBSET Providers /\ cat.route # NoRoute
         /\ cat.route \subseteq cat.providers \cup raced
<1>1. cat.route \in SUBSET Providers
  BY DEF AtWrite, Sound, CatalogueRows, Policies
<1> QED BY <1>1 DEF AtWrite, Sound, Refers

LEMMA BundleFinds ==
  ASSUME NEW w, NEW c, w.do = "bundle", NEW k \in Keys
  PROVE  /\ FindsAll(w, c).deletes[k] = {}
         /\ FindsAll(w, c).inserts[k] =
              IF k \in Followers(c, {}) /\ c.keygroup[k] \cap w.arg # {} THEN {w.id} ELSE {}
<1> DEFINE X == [j \in Keys |-> IF j \in Followers(c, {}) /\ c.keygroup[j] \cap w.arg # {} THEN {w.id} ELSE {}]
<1>1. FindsAll(w, c) = [Nothing EXCEPT !.n = 1, !.inserts = X]
  BY DEF FindsAll, Finds
<1>2. X[k] = IF k \in Followers(c, {}) /\ c.keygroup[k] \cap w.arg # {} THEN {w.id} ELSE {}
  OBVIOUS
<1>3. NoRows[k] = {}
  BY DEF NoRows
<1> HIDE DEF X
<1>4. [Nothing EXCEPT !.n = 1, !.inserts = X].deletes = NoRows /\ [Nothing EXCEPT !.n = 1, !.inserts = X].inserts = X
  BY DEF Nothing
<1> QED BY <1>1, <1>2, <1>3, <1>4

LEMMA RefreshFinds ==
  ASSUME NEW w, NEW c, w.do = "refresh", NEW new, new = {k \in c.keys : c.auth[k] = "none"}, NEW k \in Keys
  PROVE  /\ FindsAll(w, c).makes = new
         /\ FindsAll(w, c).deletes[k] = IF k \in Followers(c, new) THEN c.allowed[k] ELSE {}
         /\ FindsAll(w, c).inserts[k] = IF k \in Followers(c, new) THEN Union(c, k) ELSE {}
<1> DEFINE D == [j \in Keys |-> IF j \in Followers(c, new) THEN c.allowed[j] ELSE {}]
           f == [Nothing EXCEPT !.n = 1, !.makes = new, !.deletes = D]
           I == [j \in Keys |-> IF j \in Followers(c, f.makes) THEN Union(c, j) ELSE {}]
<1>1. Finds(w, c) = f
  BY DEF Finds
<1>2. FindsAll(w, c) = [f EXCEPT !.n = 2, !.inserts = I]
  BY <1>1 DEF FindsAll, FindsMore
<1>3. f.makes = new
  <2> HIDE DEF D
  <2> QED BY DEF Nothing
<1>4. D[k] = IF k \in Followers(c, new) THEN c.allowed[k] ELSE {}
  OBVIOUS
<1>5. I[k] = IF k \in Followers(c, new) THEN Union(c, k) ELSE {}
  <2>1. I[k] = IF k \in Followers(c, f.makes) THEN Union(c, k) ELSE {}
    OBVIOUS
  <2> HIDE DEF f, I
  <2> QED BY <2>1, <1>3
<1> HIDE DEF I, D
<1>6. [f EXCEPT !.n = 2, !.inserts = I].makes = new /\ [f EXCEPT !.n = 2, !.inserts = I].deletes = D
      /\ [f EXCEPT !.n = 2, !.inserts = I].inserts = I
  BY DEF Nothing
<1> HIDE DEF f
<1> QED BY <1>2, <1>4, <1>5, <1>6

\* A key with a list of its own is left alone by what was not found before it
\* was given the list.
LEMMA UntouchedKeys ==
  ASSUME NEW a, Current(a).do \in {"bundle", "refresh"},
         NEW k \in Keys, cat.auth[k] = "direct", k \notin Touches(a)
  PROVE  Found(a).deletes[k] = {} /\ Found(a).inserts[k] = {}
<1>1. CASE seen[a].n = 0
  <2> DEFINE new == {j \in cat.keys : cat.auth[j] = "none"}
  <2>1. k \notin Followers(cat, {}) /\ k \notin Followers(cat, new)
    BY DEF Followers
  <2> HIDE DEF new
  <2>2. Found(a) = FindsAll(Current(a), cat)
    BY <1>1 DEF Found
  <2>3. CASE Current(a).do = "bundle"
    BY <2>1, <2>2, <2>3, BundleFinds
  <2>4. CASE Current(a).do = "refresh"
    BY <2>1, <2>2, <2>4, RefreshFinds DEF new
  <2> QED BY <2>3, <2>4
<1>2. CASE seen[a].n # 0
  <2>1. Found(a) = seen[a]
    BY <1>2 DEF Found
  <2>2. seen[a].deletes[k] \cup seen[a].inserts[k] = {}
    BY DEF Touches
  <2> QED BY <2>1, <2>2
<1> QED BY <1>1, <1>2

LEMMA BundleEffect ==
  ASSUME NEW a, AtWrite(a), Bundle(a)
  PROVE  Committed(a) \/ (Busy(a) /\ Refused(a))
<1> DEFINE w == Current(a)  c == cat  f == Found(a)  d == insert_provider_bundle(cat, w.id, w.arg, f)
           legal == /\ w.arg \subseteq cat.groups
                    /\ \A k \in Keys : f.inserts[k] \subseteq (IF k \in cat.keys THEN {w.id} ELSE {})
<1>0. Busy(a) /\ w.do = "bundle" /\ a \in Admins
  BY DEF Bundle, Commit, Due, Current, AtWrite
<1>1. CASE ~ legal
  BY <1>0, <1>1 DEF Bundle, Commit
<1>2. CASE legal
  <2>1. c \in CatalogueRows /\ w.id \in Providers /\ w.arg \in SUBSET Groups /\ w.id \notin c.providers
        /\ Rooted(c) /\ Refers(c, raced)
    BY <1>0 DEF AtWrite, Sound, WriteOK, StillValid, Rooted, Creates
  <2> DEFINE A == [k \in Keys |-> c.allowed[k] \cup f.inserts[k]]
             M == [c.member EXCEPT ![w.id] = w.arg]
  <2>2. c.route \cup {w.id} \in SUBSET Providers /\ c.route \in SUBSET Providers
    BY <2>1 DEF AtWrite, CatalogueRows, Policies
  <2>0. \A k \in Keys : f.inserts[k] \subseteq {w.id}
    BY <1>2
  <2> HIDE DEF f
  <2>3. M \in [Providers -> SUBSET Groups] /\ A \in [Keys -> SUBSET Providers]
    BY <2>0, <2>1 DEF CatalogueRows
  <2>4. /\ d.providers = c.providers \cup {w.id} /\ d.born = c.born \cup {w.id}
        /\ d.enabled = c.enabled \cup {w.id} /\ d.route = c.route \cup {w.id}
        /\ d.allowed = A /\ d.member = M /\ d.auth = c.auth /\ d.child = c.child /\ d.keys = c.keys
        /\ d.live = c.live /\ d.special = c.special /\ d.targets = c.targets /\ d.alias = c.alias
        /\ d.model = c.model /\ d.keygroup = c.keygroup /\ d.groups = c.groups
    BY <2>1 DEF CatalogueRows, insert_provider_bundle
  <2>5. d \in CatalogueRows
    <3>1. c.route \cup {w.id} \in Policies
      BY <2>2 DEF Policies
    <3> QED BY <2>1, <3>1, <2>3, ZenonT(60) DEF CatalogueRows, insert_provider_bundle
  <2>13. cat' = d /\ seen' = Rewritten(a, Found(a)) /\ missed' = (missed \/ Overtaken(a)) /\ UNCHANGED <<raced, edits>>
         /\ admin' = [admin EXCEPT ![a] = IF Len(@.todo) = 1 THEN Idle ELSE [admin[a] EXCEPT !.todo = Tail(@)]]
    BY <1>2 DEF Bundle, Commit, Done, d, f
  <2> HIDE DEF d
  <2>6. Rooted(d)
    BY <2>1, <2>4 DEF Rooted
  <2>7. Refers(d, raced)
    <3>1. c.route \subseteq c.providers \cup raced
      BY <2>1 DEF Refers, AtWrite
    <3>2. \A k \in Keys : d.allowed[k] \subseteq d.providers
      BY <2>0, <2>1, <2>4 DEF Refers
    <3>3. d.targets \subseteq (IF d.alias THEN d.providers ELSE {})
      BY <2>1, <2>4 DEF Refers
    <3> QED BY <3>1, <3>2, <3>3, <2>1, <2>4 DEF Refers
  <2>8. Decided
    <3>1. \A k \in c.keys : k \in Keys /\ c.allowed[k] = c.allowed[k] \cap d.providers
      BY <2>1, <2>4 DEF Refers, CatalogueRows
    <3>2. Due(a, "bundle") /\ seen'[a] = Nothing
      BY <1>0, <2>13 DEF Due, Current, Rewritten
    <3>3. ASSUME NEW k \in c.keys, c.auth[k] = "direct"
          PROVE  d.allowed[k] = c.allowed[k] \cap d.providers \/ k \in Touches(a)
      <4>1. k \in Touches(a) \/ f.inserts[k] = {}
        BY <1>0, <3>1, <3>3, UntouchedKeys DEF f
      <4>2. d.allowed[k] = c.allowed[k] \cup f.inserts[k]
        BY <2>4, <3>1
      <4> QED BY <3>1, <4>1, <4>2
    <3> QED BY <1>0, <3>2, <3>3, <2>4, <2>13 DEF Decided
  <2>9. Bears(c, d, w)
    BY <2>4, <1>0 DEF Bears, Creates
  <2>10. ASSUME ~ missed' PROVE FollowOn(c, d, w)
    <3> SUFFICES ASSUME NEW k \in c.keys, c.auth[k] = "compat", c.allowed[k] = Union(c, k)
                 PROVE  A[k] = Union(d, k)
      BY <2>4 DEF FollowOn, Follows
    <3>1. \A q \in c.providers : M[q] = c.member[q]
      BY <2>1 DEF CatalogueRows
    <3>2. M[w.id] = w.arg /\ k \in Keys
      BY <2>1 DEF CatalogueRows
    <3>3. A[k] = IF c.keygroup[k] \cap w.arg # {} THEN c.allowed[k] \cup {w.id} ELSE c.allowed[k]
      <4>1. f = FindsAll(w, c)
        BY <2>10, <2>13 DEF Overtaken, f
      <4>2. k \in Followers(c, {})
        BY <3>2 DEF Followers
      <4>3. f.inserts[k] = IF c.keygroup[k] \cap w.arg # {} THEN {w.id} ELSE {}
        BY <1>0, <3>2, <4>1, <4>2, BundleFinds
      <4> QED BY <3>2, <4>3
    <3>4. Union(d, k) = {q \in c.providers \cup {w.id} : c.keygroup[k] \cap M[q] # {}}
      BY <2>4 DEF Union
    <3>5. c.allowed[k] = {q \in c.providers : c.keygroup[k] \cap c.member[q] # {}}
      BY DEF Union
    <3> HIDE DEF M, A
    <3> QED BY <3>1, <3>2, <3>3, <3>4, <3>5, <2>1
  <2>11. d.route # NoRoute
    BY <2>2, <2>4, CatalogueAssumption DEF NoRoute
  <2>12. Sound(cat', raced)
    BY <2>5, <2>6, <2>7, <2>13 DEF Sound
  <2> QED BY <2>4, <2>8, <2>9, <2>10, <2>11, <2>12, <2>13, <1>0 DEF Committed
<1> QED BY <1>1, <1>2

\* Writes that MinorEffect covers.
LEMMA ProviderRowEffect ==
  ASSUME NEW a, AtWrite(a), update_upstream_provider(a)
  PROVE  Success(a)
<1> DEFINE w == Current(a)
<1>0. Busy(a) /\ w.do = "provider"
  BY DEF update_upstream_provider, Make, Due, Current
<1>1. cat \in CatalogueRows /\ Rooted(cat) /\ w.arg \in SUBSET Providers
  BY <1>0, AtWriteFacts DEF AtWrite, WriteOK
<1>2. /\ cat' \in CatalogueRows
      /\ cat'.enabled = (cat.enabled \ {w.id}) \cup (w.arg \cap cat.providers)
      /\ cat'.providers = cat.providers /\ cat'.born = cat.born /\ cat'.member = cat.member /\ cat'.keys = cat.keys
      /\ cat'.live = cat.live /\ cat'.keygroup = cat.keygroup /\ cat'.auth = cat.auth /\ cat'.allowed = cat.allowed
      /\ cat'.route = cat.route /\ cat'.special = cat.special /\ cat'.model = cat.model /\ cat'.alias = cat.alias
      /\ cat'.targets = cat.targets /\ cat'.child = cat.child
  BY <1>1 DEF update_upstream_provider, Make, Done, CatalogueRows
<1>3. cat'.enabled \subseteq cat'.providers /\ cat'.live \subseteq cat'.keys
  BY <1>1, <1>2 DEF Rooted
<1>4. Effect(cat, cat', w, raced)
  BY <1>2, <1>3, AtWriteFacts, MinorEffect
<1> QED BY <1>0, <1>2, <1>4 DEF Success, update_upstream_provider, Make, Done

LEMMA KeyRowEffect ==
  ASSUME NEW a, AtWrite(a), KeyRow(a)
  PROVE  Success(a)
<1> DEFINE w == Current(a)
<1>0. Busy(a) /\ w.do = "key"
  BY DEF KeyRow, Make, Due, Current
<1>1. cat \in CatalogueRows /\ Rooted(cat) /\ w.arg \in SUBSET Keys
  BY <1>0, AtWriteFacts DEF AtWrite, WriteOK
<1>2. /\ cat' \in CatalogueRows
      /\ cat'.live = (cat.live \ {w.id}) \cup (w.arg \cap cat.keys)
      /\ cat'.providers = cat.providers /\ cat'.born = cat.born /\ cat'.enabled = cat.enabled /\ cat'.member = cat.member
      /\ cat'.keys = cat.keys /\ cat'.keygroup = cat.keygroup /\ cat'.auth = cat.auth /\ cat'.allowed = cat.allowed
      /\ cat'.route = cat.route /\ cat'.special = cat.special /\ cat'.model = cat.model /\ cat'.alias = cat.alias
      /\ cat'.targets = cat.targets /\ cat'.child = cat.child
  BY <1>1 DEF KeyRow, Make, Done, CatalogueRows
<1>3. cat'.enabled \subseteq cat'.providers /\ cat'.live \subseteq cat'.keys
  BY <1>1, <1>2 DEF Rooted
<1>4. Effect(cat, cat', w, raced)
  BY <1>2, <1>3, AtWriteFacts, MinorEffect
<1> QED BY <1>0, <1>2, <1>4 DEF Success, KeyRow, Make, Done

LEMMA SameEffect ==
  ASSUME NEW a, AtWrite(a), cat' = cat
  PROVE  Effect(cat, cat', Current(a), raced)
<1>1. cat \in CatalogueRows /\ Rooted(cat)
  BY AtWriteFacts
<1>2. cat.enabled \subseteq cat.providers /\ cat.live \subseteq cat.keys
  BY <1>1 DEF Rooted
<1> QED BY <1>1, <1>2, AtWriteFacts, MinorEffect

\* The group goes, and whoever has joined it leaves it.
LEMMA DeleteGroupEffect ==
  ASSUME NEW a, AtWrite(a), DeleteGroup(a)
  PROVE  Committed(a)
<1> DEFINE w == Current(a)  gone == Found(a).groups
           M == [p \in Providers |-> cat.member[p] \ gone]
           G == [k \in Keys |-> cat.keygroup[k] \ gone]
           X == cat.groups \ gone
<1>0. Busy(a) /\ w.do = "delete_group" /\ a \in Admins
  BY DEF AtWrite, DeleteGroup, Commit, Due, Current
<1>1. cat \in CatalogueRows /\ Rooted(cat) /\ Refers(cat, raced) /\ cat.route # NoRoute
  BY AtWriteFacts
<1>2. /\ M \in [Providers -> SUBSET Groups] /\ \A p \in Providers : M[p] = cat.member[p] \ gone
      /\ G \in [Keys -> SUBSET Groups] /\ \A k \in Keys : G[k] = cat.keygroup[k] \ gone
      /\ X \in SUBSET Groups
  BY <1>1 DEF CatalogueRows
<1>3. /\ cat' = [cat EXCEPT !.groups = X, !.member = M, !.keygroup = G]
      /\ missed' = (missed \/ \E x \in gone : Assigned(cat, x))
      /\ UNCHANGED <<raced, edits>>
      /\ admin' = [admin EXCEPT ![a] = IF Len(@.todo) = 1 THEN Idle ELSE [admin[a] EXCEPT !.todo = Tail(@)]]
  <2>1. /\ cat' = [cat EXCEPT !.groups = @ \ gone, !.member = [p \in Providers |-> @[p] \ gone],
                              !.keygroup = [k \in Keys |-> @[k] \ gone]]
        /\ missed' = (missed \/ \E x \in gone : Assigned(cat, x))
        /\ UNCHANGED <<raced, edits>>
        /\ admin' = [admin EXCEPT ![a] = IF Len(@.todo) = 1 THEN Idle ELSE [admin[a] EXCEPT !.todo = Tail(@)]]
    BY DEF DeleteGroup, Commit, Done
  <2> HIDE DEF gone
  <2> QED BY <1>1, <2>1 DEF CatalogueRows
<1> HIDE DEF M, G, X, gone
<1>4. /\ cat' \in CatalogueRows
      /\ cat'.member = M /\ cat'.keygroup = G
      /\ cat'.providers = cat.providers /\ cat'.born = cat.born /\ cat'.enabled = cat.enabled
      /\ cat'.keys = cat.keys /\ cat'.live = cat.live /\ cat'.auth = cat.auth
      /\ cat'.allowed = cat.allowed /\ cat'.route = cat.route /\ cat'.special = cat.special /\ cat'.model = cat.model
      /\ cat'.alias = cat.alias /\ cat'.targets = cat.targets /\ cat'.child = cat.child
  BY <1>1, <1>2, <1>3, ZenonT(60) DEF CatalogueRows
<1>5. Rooted(cat') /\ Refers(cat', raced)
  BY <1>1, <1>4 DEF Rooted, Refers
<1>6. Decides(cat, cat', w)
  <2>1. \A k \in cat.keys : cat.allowed[k] = cat.allowed[k] \cap cat'.providers
    BY <1>1, <1>4 DEF Refers, CatalogueRows
  <2> QED BY <2>1, <1>4 DEF Decides
<1>7. Bears(cat, cat', w)
  BY <1>4 DEF Bears
<1>8. ASSUME ~ missed' PROVE FollowOn(cat, cat', w)
  <2>1. \A x \in gone : ~ Assigned(cat, x)
    BY <1>3, <1>8
  <2>2. (\A p \in Providers : M[p] = cat.member[p]) /\ \A k \in Keys : G[k] = cat.keygroup[k]
    BY <1>2, <2>1 DEF Assigned
  <2>3. \A k \in cat'.keys : Union(cat', k) = Union(cat, k)
    BY <1>1, <1>4, <2>2 DEF Union, CatalogueRows
  <2> QED BY <1>4, <2>3 DEF FollowOn, Follows
<1>9. Decided
  BY <1>0, <1>6, DecidesDecided
<1> QED BY <1>0, <1>1, <1>3, <1>4, <1>5, <1>7, <1>8, <1>9 DEF Committed, Sound

LEMMA ModelRouteEffect ==
  ASSUME NEW a, AtWrite(a), ModelRoute(a)
  PROVE  Success(a) \/ (Busy(a) /\ Refused(a))
<1> DEFINE w == Current(a)
<1>0. Busy(a) /\ w.do = "model_route"
  BY DEF ModelRoute, Make, Due, Current
<1>1. CASE ~ w.arg \subseteq cat.providers
  BY <1>0, <1>1 DEF ModelRoute, Make
<1>2. CASE w.arg \subseteq cat.providers
  BY <1>0, <1>2, SameEffect DEF Success, ModelRoute, Make, Done
<1> QED BY <1>1, <1>2

\* The switches of a model: a row of provider_models, upstream_key_models or
\* gateway_model_policies is replaced by m.
PutModel(c, o, m) == [c EXCEPT !.model = [c.model EXCEPT ![o] = m]]

LEMMA ModelEffect ==
  ASSUME NEW a, AtWrite(a), NEW o \in Owners, NEW m \in ModelRows,
         cat' = PutModel(cat, o, m),
         (cat.model[o].present /\ ~ cat.model[o].enabled /\ m.enabled) =>
           Current(a).do \in {"enabled", "gateway"} /\ Current(a).id = o
  PROVE  Effect(cat, cat', Current(a), raced) /\ cat'.providers = cat.providers
<1>1. cat \in CatalogueRows /\ Rooted(cat)
  BY AtWriteFacts
<1>2. [cat.model EXCEPT ![o] = m] \in [Owners -> ModelRows]
  BY <1>1 DEF CatalogueRows
<1>3. /\ cat' \in CatalogueRows
      /\ cat'.model = [cat.model EXCEPT ![o] = m]
      /\ cat'.providers = cat.providers /\ cat'.born = cat.born /\ cat'.enabled = cat.enabled /\ cat'.member = cat.member
      /\ cat'.groups = cat.groups /\ cat'.keys = cat.keys /\ cat'.live = cat.live /\ cat'.keygroup = cat.keygroup
      /\ cat'.auth = cat.auth /\ cat'.allowed = cat.allowed /\ cat'.route = cat.route /\ cat'.special = cat.special
      /\ cat'.alias = cat.alias /\ cat'.targets = cat.targets /\ cat'.child = cat.child
  BY <1>1, <1>2 DEF CatalogueRows, PutModel
<1>4. cat'.enabled \subseteq cat'.providers /\ cat'.live \subseteq cat'.keys
  BY <1>1, <1>3 DEF Rooted
<1>5. \A q \in Owners : (cat.model[q].present /\ ~ cat.model[q].enabled /\ cat'.model[q].enabled) =>
           Current(a).do \in {"enabled", "gateway"} /\ Current(a).id = q
  BY <1>1, <1>3 DEF CatalogueRows
<1> QED BY <1>3, <1>4, <1>5, AtWriteFacts, MinorEffect

LEMMA ProviderModelsEffect ==
  ASSUME NEW a, AtWrite(a), ProviderModels(a)
  PROVE  Success(a) \/ (Busy(a) /\ Refused(a))
<1> DEFINE w == Current(a)
           r == cat.model[w.id]
           m == IF w.arg THEN [r EXCEPT !.present = TRUE, !.available = TRUE, !.enabled = r.enabled \/ ~ r.present]
                ELSE [r EXCEPT !.available = FALSE]
<1>0. Busy(a) /\ w.do = "models"
  BY DEF ProviderModels, Make, Due, Current
<1>1. cat \in CatalogueRows /\ w.id \in Owners /\ w.arg \in BOOLEAN
  BY <1>0, AtWriteFacts DEF AtWrite, WriteOK, Owners
<1>2. CASE ~ (w.id \in cat.providers \/ ~ w.arg)
  BY <1>0, <1>2 DEF ProviderModels, Make
<1>3. CASE w.id \in cat.providers \/ ~ w.arg
  <2>1. r \in ModelRows
    BY <1>1 DEF CatalogueRows
  <2>2. m \in ModelRows /\ ((r.present /\ ~ r.enabled) => ~ m.enabled)
    BY <2>1, <1>1 DEF ModelRows
  <2>3. cat' = PutModel(cat, w.id, m)
    BY <1>3, <1>1 DEF ProviderModels, Make, Done, upsert_provider_models, PutModel
  <2> HIDE DEF m
  <2>4. Effect(cat, cat', w, raced) /\ cat'.providers = cat.providers
    BY <1>1, <2>2, <2>3, ModelEffect
  <2> QED BY <1>0, <1>3, <2>4 DEF Success, ProviderModels, Make, Done
<1> QED BY <1>2, <1>3

LEMMA ModelSwitchEffect ==
  ASSUME NEW a, AtWrite(a), update_provider_model(a)
  PROVE  Success(a)
<1> DEFINE w == Current(a)
           r == cat.model[w.id]
<1>0. Busy(a) /\ w.do \in {"enabled", "alias"}
  BY DEF update_provider_model, Make, Due, Current
<1>1. cat \in CatalogueRows /\ w.id \in Owners /\ w.arg \in BOOLEAN
  BY <1>0, AtWriteFacts DEF AtWrite, WriteOK
<1>2. r \in ModelRows
  BY <1>1 DEF CatalogueRows
<1>3. CASE w.do = "enabled"
  <2> DEFINE m == [r EXCEPT !.enabled = w.arg /\ r.present]
  <2>1. m \in ModelRows
    BY <1>1, <1>2 DEF ModelRows
  <2>2. cat' = PutModel(cat, w.id, m)
    BY <1>1, <1>2, <1>3 DEF update_provider_model, Make, Done, PutModel, CatalogueRows, ModelRows, Due, Current
  <2> HIDE DEF m
  <2>3. Effect(cat, cat', w, raced) /\ cat'.providers = cat.providers
    BY <1>1, <1>3, <2>1, <2>2, ModelEffect
  <2> QED BY <1>0, <2>3 DEF Success, update_provider_model, Make, Done
<1>4. CASE w.do = "alias"
  <2> DEFINE m == [r EXCEPT !.alias = w.arg /\ r.present]
  <2>1. m \in ModelRows /\ m.enabled = r.enabled
    BY <1>1, <1>2 DEF ModelRows
  <2>2. cat' = PutModel(cat, w.id, m)
    BY <1>1, <1>2, <1>4 DEF update_provider_model, Make, Done, PutModel, CatalogueRows, ModelRows, Due, Current
  <2> HIDE DEF m
  <2>3. Effect(cat, cat', w, raced) /\ cat'.providers = cat.providers
    BY <1>1, <1>4, <2>1, <2>2, ModelEffect
  <2> QED BY <1>0, <2>3 DEF Success, update_provider_model, Make, Done
<1> QED BY <1>0, <1>3, <1>4

LEMMA DeleteModelEffect ==
  ASSUME NEW a, AtWrite(a), DeleteModel(a)
  PROVE  Success(a)
<1> DEFINE w == Current(a)
<1>0. Busy(a) /\ w.do = "delete_model"
  BY DEF DeleteModel, Make, Due, Current
<1>1. cat \in CatalogueRows /\ w.id \in Owners
  BY <1>0, AtWriteFacts DEF AtWrite, WriteOK
<1>2. NoModel \in ModelRows /\ NoModel.enabled = FALSE
  BY DEF NoModel, ModelRows
<1>3. cat' = PutModel(cat, w.id, NoModel)
  BY <1>1 DEF DeleteModel, Make, Done, PutModel
<1>4. Effect(cat, cat', w, raced) /\ cat'.providers = cat.providers
  BY <1>1, <1>2, <1>3, ModelEffect
<1> QED BY <1>0, <1>4 DEF Success, DeleteModel, Make, Done

LEMMA KeyModelsEffect ==
  ASSUME NEW a, AtWrite(a), KeyModels(a)
  PROVE  Success(a) \/ (Busy(a) /\ Refused(a))
<1> DEFINE w == Current(a)
           r == cat.model[w.id]
           m == [r EXCEPT !.present = TRUE, !.available = TRUE, !.enabled = r.enabled \/ ~ r.present]
<1>0. Busy(a) /\ w.do = "key_models"
  BY DEF KeyModels, Make, Due, Current
<1>1. cat \in CatalogueRows /\ w.id \in Owners
  BY <1>0, AtWriteFacts DEF AtWrite, WriteOK, Owners
<1>2. CASE cat.child[w.id] = NoChild
  BY <1>0, <1>2 DEF KeyModels, Make
<1>3. CASE cat.child[w.id] # NoChild
  <2>1. r \in ModelRows
    BY <1>1 DEF CatalogueRows
  <2>2. m \in ModelRows /\ ((r.present /\ ~ r.enabled) => ~ m.enabled)
    BY <2>1, <1>1 DEF ModelRows
  <2>3. cat' = PutModel(cat, w.id, m)
    BY <1>3, <1>1 DEF KeyModels, Make, Done, upsert_upstream_key_models, PutModel
  <2> HIDE DEF m
  <2>4. Effect(cat, cat', w, raced) /\ cat'.providers = cat.providers
    BY <1>1, <2>2, <2>3, ModelEffect
  <2> QED BY <1>0, <1>3, <2>4 DEF Success, KeyModels, Make, Done
<1> QED BY <1>2, <1>3

LEMMA GatewayEffect ==
  ASSUME NEW a, AtWrite(a), upsert_gateway_model_policy(a)
  PROVE  Success(a)
<1> DEFINE w == Current(a)
           m == [NoModel EXCEPT !.present = TRUE, !.enabled = w.arg]
<1>0. Busy(a) /\ w.do = "gateway"
  BY DEF upsert_gateway_model_policy, Make, Due, Current
<1>1. cat \in CatalogueRows /\ w.id \in Owners /\ w.arg \in BOOLEAN
  BY <1>0, AtWriteFacts DEF AtWrite, WriteOK
<1>2. m \in ModelRows
  BY <1>1 DEF NoModel, ModelRows
<1>3. cat' = PutModel(cat, w.id, m)
  BY <1>1 DEF upsert_gateway_model_policy, Make, Done, PutModel
<1> HIDE DEF m
<1>4. Effect(cat, cat', w, raced) /\ cat'.providers = cat.providers
  BY <1>0, <1>1, <1>2, <1>3, ModelEffect
<1> QED BY <1>0, <1>4 DEF Success, upsert_gateway_model_policy, Make, Done

\* Routes, aliases and children.
LEMMA DefaultTargetEffect ==
  ASSUME NEW a, AtWrite(a), DefaultTarget(a)
  PROVE  Success(a)
<1> DEFINE w == Current(a)
<1>0. Busy(a) /\ w.do = "route_target"
  BY DEF DefaultTarget, Make, Due, Current
<1>1. /\ cat \in CatalogueRows /\ Rooted(cat) /\ Refers(cat, raced) /\ Sound(cat, raced)
      /\ cat.route \in SUBSET Providers /\ cat.route # NoRoute /\ cat.route \subseteq cat.providers \cup raced
      /\ w.id \in Providers /\ w.id \in cat.providers \cup raced
  BY <1>0, AtWriteFacts DEF AtWrite, WriteOK, StillValid
<1>4. /\ cat' \in CatalogueRows
      /\ cat'.route = cat.route \cup {w.id}
      /\ cat'.providers = cat.providers /\ cat'.born = cat.born /\ cat'.enabled = cat.enabled /\ cat'.member = cat.member
      /\ cat'.groups = cat.groups /\ cat'.keys = cat.keys /\ cat'.live = cat.live /\ cat'.keygroup = cat.keygroup
      /\ cat'.auth = cat.auth /\ cat'.allowed = cat.allowed /\ cat'.special = cat.special /\ cat'.model = cat.model
      /\ cat'.alias = cat.alias /\ cat'.targets = cat.targets /\ cat'.child = cat.child
  <2>1. cat.route \cup {w.id} \in Policies
    BY <1>1 DEF Policies
  <2>8. cat' = [cat EXCEPT !.route = cat.route \cup {w.id}]
    BY <1>1 DEF DefaultTarget, Make, Done, update_default_route_target
  <2> QED BY <1>1, <2>8, <2>1 DEF CatalogueRows
<1>5. Refers(cat', raced) /\ cat'.route # NoRoute
  BY <1>1, <1>4, CatalogueAssumption DEF Refers, NoRoute
<1>6. Bears(cat, cat', w)
  BY <1>4 DEF Bears
<1>7. \A x \in Children : cat'.child[x] # NoChild => x \in cat'.born
  BY <1>1, <1>4 DEF Rooted
<1>8. \A o \in Owners : cat'.model[o] \in {cat.model[o], NoModel}
  BY <1>1, <1>4 DEF CatalogueRows
<1>9. Effect(cat, cat', w, raced)
  BY <1>1, <1>4, <1>5, <1>6, <1>7, <1>8, ReferenceEffect
<1> QED BY <1>0, <1>4, <1>9 DEF Success, DefaultTarget, Make, Done

LEMMA RoutePolicyEffect ==
  ASSUME NEW a, AtWrite(a), save_route_policy(a)
  PROVE  Success(a)
<1> DEFINE w == Current(a)
<1>0. Busy(a) /\ w.do = "save_route"
  BY DEF save_route_policy, Make, Due, Current
<1>1. /\ cat \in CatalogueRows /\ Rooted(cat) /\ Refers(cat, raced) /\ Sound(cat, raced)
      /\ cat.route # NoRoute
      /\ w.arg = NoRoute \/ w.arg \subseteq cat.providers \cup raced
      /\ w.arg \in Policies /\ (w.id = "*" => w.arg \in SUBSET Providers)
  BY <1>0, AtWriteFacts DEF AtWrite, WriteOK, StillValid, Policies
<1>2. /\ cat' \in CatalogueRows
      /\ cat'.route = IF w.id = "*" THEN w.arg ELSE cat.route
      /\ cat'.special = IF w.id = "*" THEN cat.special ELSE w.arg
      /\ cat'.providers = cat.providers /\ cat'.born = cat.born /\ cat'.enabled = cat.enabled /\ cat'.member = cat.member
      /\ cat'.groups = cat.groups /\ cat'.keys = cat.keys /\ cat'.live = cat.live /\ cat'.keygroup = cat.keygroup
      /\ cat'.auth = cat.auth /\ cat'.allowed = cat.allowed /\ cat'.model = cat.model /\ cat'.alias = cat.alias
      /\ cat'.targets = cat.targets /\ cat'.child = cat.child
  BY <1>1 DEF save_route_policy, Make, Done, CatalogueRows
<1>3. cat'.route # NoRoute
  BY <1>1, <1>2, CatalogueAssumption DEF NoRoute
<1>4. Refers(cat', raced)
  BY <1>1, <1>2 DEF Refers
<1>5. Bears(cat, cat', w)
  BY <1>2 DEF Bears
<1>6. \A x \in Children : cat'.child[x] # NoChild => x \in cat'.born
  BY <1>1, <1>2 DEF Rooted
<1>7. \A o \in Owners : cat'.model[o] \in {cat.model[o], NoModel}
  BY <1>2
<1>8. Effect(cat, cat', w, raced)
  BY <1>1, <1>2, <1>3, <1>4, <1>5, <1>6, <1>7, ReferenceEffect
<1> QED BY <1>0, <1>2, <1>8 DEF Success, save_route_policy, Make, Done

LEMMA InsertAliasEffect ==
  ASSUME NEW a, AtWrite(a), insert_model_alias(a)
  PROVE  Success(a) \/ (Busy(a) /\ Refused(a))
<1> DEFINE w == Current(a)
<1>0. Busy(a) /\ w.do = "insert_alias"
  BY DEF insert_model_alias, Make, Due, Current
<1>1. /\ cat \in CatalogueRows /\ Rooted(cat) /\ Refers(cat, raced) /\ Sound(cat, raced)
      /\ cat.route \in SUBSET Providers /\ cat.route # NoRoute /\ cat.route \subseteq cat.providers \cup raced
      /\ TRUE
  BY <1>0, AtWriteFacts DEF AtWrite, WriteOK, StillValid
<1>2. CASE ~ (~ cat.alias)
  BY <1>0, <1>2 DEF insert_model_alias, Make
<1>3. CASE ~ cat.alias
  <2>4. /\ cat' \in CatalogueRows
        /\ cat'.alias = TRUE
        /\ cat'.providers = cat.providers /\ cat'.born = cat.born /\ cat'.enabled = cat.enabled /\ cat'.member = cat.member
        /\ cat'.groups = cat.groups /\ cat'.keys = cat.keys /\ cat'.live = cat.live /\ cat'.keygroup = cat.keygroup
        /\ cat'.auth = cat.auth /\ cat'.allowed = cat.allowed /\ cat'.route = cat.route /\ cat'.special = cat.special
        /\ cat'.model = cat.model /\ cat'.targets = cat.targets /\ cat'.child = cat.child
    <3>8. cat' = [cat EXCEPT !.alias = TRUE]
      BY <1>1, <1>3 DEF insert_model_alias, Make, Done
    <3> QED BY <1>1, <3>8 DEF CatalogueRows
  <2>5. Refers(cat', raced) /\ cat'.route # NoRoute
    BY <1>1, <1>3, <2>4 DEF Refers
  <2>6. Bears(cat, cat', w)
    BY <2>4 DEF Bears
  <2>7. \A x \in Children : cat'.child[x] # NoChild => x \in cat'.born
    BY <1>1, <2>4 DEF Rooted
  <2>8. \A o \in Owners : cat'.model[o] \in {cat.model[o], NoModel}
    BY <1>1, <2>4 DEF CatalogueRows
  <2>9. Effect(cat, cat', w, raced)
    BY <1>1, <2>4, <2>5, <2>6, <2>7, <2>8, ReferenceEffect
  <2> QED BY <1>0, <1>3, <2>4, <2>9 DEF Success, insert_model_alias, Make, Done
<1> QED BY <1>2, <1>3

LEMMA DeleteAliasEffect ==
  ASSUME NEW a, AtWrite(a), DeleteAlias(a)
  PROVE  Success(a)
<1> DEFINE w == Current(a)
<1>0. Busy(a) /\ w.do = "delete_alias"
  BY DEF DeleteAlias, Make, Due, Current
<1>1. /\ cat \in CatalogueRows /\ Rooted(cat) /\ Refers(cat, raced) /\ Sound(cat, raced)
      /\ cat.route \in SUBSET Providers /\ cat.route # NoRoute /\ cat.route \subseteq cat.providers \cup raced
      /\ TRUE
  BY <1>0, AtWriteFacts DEF AtWrite, WriteOK, StillValid
<1>4. /\ cat' \in CatalogueRows
      /\ cat'.alias = FALSE /\ cat'.targets = {}
      /\ cat'.providers = cat.providers /\ cat'.born = cat.born /\ cat'.enabled = cat.enabled /\ cat'.member = cat.member
      /\ cat'.groups = cat.groups /\ cat'.keys = cat.keys /\ cat'.live = cat.live /\ cat'.keygroup = cat.keygroup
      /\ cat'.auth = cat.auth /\ cat'.allowed = cat.allowed /\ cat'.route = cat.route /\ cat'.special = cat.special
      /\ cat'.model = cat.model /\ cat'.child = cat.child
  <2>8. cat' = [cat EXCEPT !.alias = FALSE, !.targets = {}]
    BY <1>1 DEF DeleteAlias, Make, Done
  <2> QED BY <1>1, <2>8 DEF CatalogueRows
<1>5. Refers(cat', raced) /\ cat'.route # NoRoute
  BY <1>1, <1>4 DEF Refers
<1>6. Bears(cat, cat', w)
  BY <1>4 DEF Bears
<1>7. \A x \in Children : cat'.child[x] # NoChild => x \in cat'.born
  BY <1>1, <1>4 DEF Rooted
<1>8. \A o \in Owners : cat'.model[o] \in {cat.model[o], NoModel}
  BY <1>1, <1>4 DEF CatalogueRows
<1>9. Effect(cat, cat', w, raced)
  BY <1>1, <1>4, <1>5, <1>6, <1>7, <1>8, ReferenceEffect
<1> QED BY <1>0, <1>4, <1>9 DEF Success, DeleteAlias, Make, Done

LEMMA InsertTargetEffect ==
  ASSUME NEW a, AtWrite(a), insert_model_alias_target(a)
  PROVE  Success(a) \/ (Busy(a) /\ Refused(a))
<1> DEFINE w == Current(a)
<1>0. Busy(a) /\ w.do = "insert_target"
  BY DEF insert_model_alias_target, Make, Due, Current
<1>1. /\ cat \in CatalogueRows /\ Rooted(cat) /\ Refers(cat, raced) /\ Sound(cat, raced)
      /\ cat.route \in SUBSET Providers /\ cat.route # NoRoute /\ cat.route \subseteq cat.providers \cup raced
      /\ w.id \in Providers
  BY <1>0, AtWriteFacts DEF AtWrite, WriteOK, StillValid
<1>2. CASE ~ (w.id \in cat.providers /\ cat.alias)
  BY <1>0, <1>2 DEF insert_model_alias_target, Make
<1>3. CASE w.id \in cat.providers /\ cat.alias
  <2>4. /\ cat' \in CatalogueRows
        /\ cat'.targets = cat.targets \cup {w.id}
        /\ cat'.providers = cat.providers /\ cat'.born = cat.born /\ cat'.enabled = cat.enabled /\ cat'.member = cat.member
        /\ cat'.groups = cat.groups /\ cat'.keys = cat.keys /\ cat'.live = cat.live /\ cat'.keygroup = cat.keygroup
        /\ cat'.auth = cat.auth /\ cat'.allowed = cat.allowed /\ cat'.route = cat.route /\ cat'.special = cat.special
        /\ cat'.model = cat.model /\ cat'.alias = cat.alias /\ cat'.child = cat.child
    <3>8. cat' = [cat EXCEPT !.targets = cat.targets \cup {w.id}]
      BY <1>1, <1>3 DEF insert_model_alias_target, Make, Done
    <3> QED BY <1>1, <3>8 DEF CatalogueRows
  <2>5. Refers(cat', raced) /\ cat'.route # NoRoute
    BY <1>1, <1>3, <2>4 DEF Refers
  <2>6. Bears(cat, cat', w)
    BY <2>4 DEF Bears
  <2>7. \A x \in Children : cat'.child[x] # NoChild => x \in cat'.born
    BY <1>1, <2>4 DEF Rooted
  <2>8. \A o \in Owners : cat'.model[o] \in {cat.model[o], NoModel}
    BY <1>1, <2>4 DEF CatalogueRows
  <2>9. Effect(cat, cat', w, raced)
    BY <1>1, <2>4, <2>5, <2>6, <2>7, <2>8, ReferenceEffect
  <2> QED BY <1>0, <1>3, <2>4, <2>9 DEF Success, insert_model_alias_target, Make, Done
<1> QED BY <1>2, <1>3

LEMMA DeleteTargetEffect ==
  ASSUME NEW a, AtWrite(a), delete_model_alias_target(a)
  PROVE  Success(a)
<1> DEFINE w == Current(a)
<1>0. Busy(a) /\ w.do = "delete_target"
  BY DEF delete_model_alias_target, Make, Due, Current
<1>1. /\ cat \in CatalogueRows /\ Rooted(cat) /\ Refers(cat, raced) /\ Sound(cat, raced)
      /\ cat.route \in SUBSET Providers /\ cat.route # NoRoute /\ cat.route \subseteq cat.providers \cup raced
      /\ w.id \in Providers
  BY <1>0, AtWriteFacts DEF AtWrite, WriteOK, StillValid
<1>4. /\ cat' \in CatalogueRows
      /\ cat'.targets = cat.targets \ {w.id}
      /\ cat'.providers = cat.providers /\ cat'.born = cat.born /\ cat'.enabled = cat.enabled /\ cat'.member = cat.member
      /\ cat'.groups = cat.groups /\ cat'.keys = cat.keys /\ cat'.live = cat.live /\ cat'.keygroup = cat.keygroup
      /\ cat'.auth = cat.auth /\ cat'.allowed = cat.allowed /\ cat'.route = cat.route /\ cat'.special = cat.special
      /\ cat'.model = cat.model /\ cat'.alias = cat.alias /\ cat'.child = cat.child
  <2>8. cat' = [cat EXCEPT !.targets = cat.targets \ {w.id}]
    BY <1>1 DEF delete_model_alias_target, Make, Done
  <2> QED BY <1>1, <2>8 DEF CatalogueRows
<1>5. Refers(cat', raced) /\ cat'.route # NoRoute
  BY <1>1, <1>4 DEF Refers
<1>6. Bears(cat, cat', w)
  BY <1>4 DEF Bears
<1>7. \A x \in Children : cat'.child[x] # NoChild => x \in cat'.born
  BY <1>1, <1>4 DEF Rooted
<1>8. \A o \in Owners : cat'.model[o] \in {cat.model[o], NoModel}
  BY <1>1, <1>4 DEF CatalogueRows
<1>9. Effect(cat, cat', w, raced)
  BY <1>1, <1>4, <1>5, <1>6, <1>7, <1>8, ReferenceEffect
<1> QED BY <1>0, <1>4, <1>9 DEF Success, delete_model_alias_target, Make, Done

LEMMA ChildRowFacts ==
  NoChild.of \notin Providers /\ \A r \in ChildRows : r # NoChild /\ r.of \in Providers
<1>1. NoChild.of = "nobody" /\ "nobody" \notin Providers
  BY CatalogueAssumption DEF NoChild
<1>2. \A r \in ChildRows : r.of \in Providers
  BY DEF ChildRows
<1> QED BY <1>1, <1>2

LEMMA InsertChildEffect ==
  ASSUME NEW a, AtWrite(a), insert_child(a)
  PROVE  Success(a) \/ (Busy(a) /\ Refused(a))
<1> DEFINE w == Current(a)
           C == [cat.child EXCEPT ![w.id] = w.arg]
<1>0. Busy(a) /\ w.do = "insert_child"
  BY DEF insert_child, Make, Due, Current
<1>1. /\ cat \in CatalogueRows /\ Rooted(cat) /\ Refers(cat, raced) /\ Sound(cat, raced)
      /\ cat.route # NoRoute /\ cat.child \in [Children -> ChildRows \cup {NoChild}]
      /\ w.id \in Children /\ w.arg \in ChildRows /\ w.id \notin cat.born
  BY <1>0, AtWriteFacts DEF AtWrite, WriteOK, StillValid, CatalogueRows, Creates
<1>2. CASE ~ (w.arg.of \in cat.providers)
  BY <1>0, <1>2 DEF insert_child, Make
<1>3. CASE w.arg.of \in cat.providers
  <2>1. C \in [Children -> ChildRows \cup {NoChild}]
    BY <1>1
  <2>2. /\ cat' \in CatalogueRows
        /\ cat'.child = C /\ cat'.born = cat.born \cup {w.id}
        /\ cat'.providers = cat.providers /\ cat'.enabled = cat.enabled /\ cat'.member = cat.member /\ cat'.groups = cat.groups
        /\ cat'.keys = cat.keys /\ cat'.live = cat.live /\ cat'.keygroup = cat.keygroup /\ cat'.auth = cat.auth
        /\ cat'.allowed = cat.allowed /\ cat'.route = cat.route /\ cat'.special = cat.special /\ cat'.model = cat.model
        /\ cat'.alias = cat.alias /\ cat'.targets = cat.targets
    <3>1. cat' = [cat EXCEPT !.child = C, !.born = cat.born \cup {w.id}]
      BY <1>1, <1>3 DEF insert_child, Make, Done, CatalogueRows
    <3> HIDE DEF C
    <3> QED BY <1>1, <2>1, <3>1 DEF CatalogueRows
  <2>3. \A x \in Children : C[x] = IF x = w.id THEN w.arg ELSE cat.child[x]
    BY <1>1
  <2> HIDE DEF C
  <2>4. Refers(cat', raced)
    BY <1>1, <1>3, <2>2, <2>3 DEF Refers
  <2>5. Bears(cat, cat', w)
    BY <1>0, <1>1, <2>2, <2>3 DEF Bears, Creates
  <2>6. \A x \in Children : cat'.child[x] # NoChild => x \in cat'.born
    BY <1>1, <2>2, <2>3 DEF Rooted
  <2>7. \A o \in Owners : cat'.model[o] \in {cat.model[o], NoModel}
    BY <2>2
  <2>8. Effect(cat, cat', w, raced)
    BY <1>1, <2>2, <2>4, <2>5, <2>6, <2>7, ReferenceEffect
  <2> QED BY <1>0, <1>3, <2>2, <2>8 DEF Success, insert_child, Make, Done
<1> QED BY <1>2, <1>3

LEMMA ChildRowEffect ==
  ASSUME NEW a, AtWrite(a), update_child_row(a)
  PROVE  Success(a)
<1> DEFINE w == Current(a)
           C == [cat.child EXCEPT ![w.id] = w.arg]
<1>0. Busy(a) /\ w.do = "child"
  BY DEF update_child_row, Make, Due, Current
<1>1. /\ cat \in CatalogueRows /\ Rooted(cat) /\ Refers(cat, raced) /\ Sound(cat, raced)
      /\ cat.route # NoRoute /\ cat.child \in [Children -> ChildRows \cup {NoChild}]
      /\ w.id \in Children /\ w.arg \in ChildRows
      /\ cat.child[w.id] # NoChild => cat.child[w.id].of = w.arg.of
  BY <1>0, AtWriteFacts DEF AtWrite, WriteOK, StillValid, CatalogueRows, Creates
<1>2. CASE cat.child[w.id] = NoChild
  <2>1. cat' = cat
    BY <1>2 DEF update_child_row, Make, Done
  <2> QED BY <1>0, <2>1, SameEffect DEF Success, update_child_row, Make, Done
<1>3. CASE cat.child[w.id] # NoChild
  <2>1. C \in [Children -> ChildRows \cup {NoChild}]
    BY <1>1
  <2>2. /\ cat' \in CatalogueRows
        /\ cat'.child = C
        /\ cat'.providers = cat.providers /\ cat'.born = cat.born /\ cat'.enabled = cat.enabled /\ cat'.member = cat.member
        /\ cat'.groups = cat.groups /\ cat'.keys = cat.keys /\ cat'.live = cat.live /\ cat'.keygroup = cat.keygroup
        /\ cat'.auth = cat.auth /\ cat'.allowed = cat.allowed /\ cat'.route = cat.route /\ cat'.special = cat.special
        /\ cat'.model = cat.model /\ cat'.alias = cat.alias /\ cat'.targets = cat.targets
    <3>1. cat' = [cat EXCEPT !.child = C]
      BY <1>1, <1>3 DEF update_child_row, Make, Done, CatalogueRows
    <3> HIDE DEF C
    <3> QED BY <1>1, <2>1, <3>1 DEF CatalogueRows
  <2>3. \A x \in Children : C[x] = IF x = w.id THEN w.arg ELSE cat.child[x]
    BY <1>1
  <2> HIDE DEF C
  <2>4. Refers(cat', raced)
    BY <1>1, <1>3, <2>2, <2>3 DEF Refers
  <2>5. Bears(cat, cat', w)
    BY <1>0, <1>1, <1>3, <2>2, <2>3 DEF Bears
  <2>6. \A x \in Children : cat'.child[x] # NoChild => x \in cat'.born
    BY <1>1, <1>3, <2>2, <2>3 DEF Rooted
  <2>7. \A o \in Owners : cat'.model[o] \in {cat.model[o], NoModel}
    BY <2>2
  <2>8. Effect(cat, cat', w, raced)
    BY <1>1, <2>2, <2>4, <2>5, <2>6, <2>7, ReferenceEffect
  <2> QED BY <1>0, <1>3, <2>2, <2>8 DEF Success, update_child_row, Make, Done
<1> QED BY <1>2, <1>3

LEMMA DeleteChildEffect ==
  ASSUME NEW a, AtWrite(a), DeleteChild(a)
  PROVE  Success(a)
<1> DEFINE w == Current(a)
           C == [cat.child EXCEPT ![w.id] = NoChild]
           M == [cat.model EXCEPT ![w.id] = NoModel]
<1>0. Busy(a) /\ w.do = "delete_child"
  BY DEF DeleteChild, Make, Due, Current
<1>1. /\ cat \in CatalogueRows /\ Rooted(cat) /\ Refers(cat, raced) /\ Sound(cat, raced)
      /\ cat.route # NoRoute /\ cat.child \in [Children -> ChildRows \cup {NoChild}]
      /\ w.id \in Children /\ w.id \in Owners /\ cat.model \in [Owners -> ModelRows]
  BY <1>0, AtWriteFacts DEF AtWrite, WriteOK, StillValid, CatalogueRows, Owners
<1>2. NoModel \in ModelRows
  BY DEF NoModel, ModelRows
<1>3. C \in [Children -> ChildRows \cup {NoChild}] /\ M \in [Owners -> ModelRows]
  BY <1>1, <1>2
<1>4. /\ cat' \in CatalogueRows
      /\ cat'.child = C /\ cat'.model = M
      /\ cat'.providers = cat.providers /\ cat'.born = cat.born /\ cat'.enabled = cat.enabled /\ cat'.member = cat.member
      /\ cat'.groups = cat.groups /\ cat'.keys = cat.keys /\ cat'.live = cat.live /\ cat'.keygroup = cat.keygroup
      /\ cat'.auth = cat.auth /\ cat'.allowed = cat.allowed /\ cat'.route = cat.route /\ cat'.special = cat.special
      /\ cat'.alias = cat.alias /\ cat'.targets = cat.targets
  <2>1. cat' = [cat EXCEPT !.child = C, !.model = M]
    BY <1>1 DEF DeleteChild, Make, Done, CatalogueRows
  <2> HIDE DEF C, M
  <2> QED BY <1>1, <1>3, <2>1 DEF CatalogueRows
<1>5. /\ \A x \in Children : C[x] = IF x = w.id THEN NoChild ELSE cat.child[x]
      /\ \A o \in Owners : M[o] \in {cat.model[o], NoModel}
  BY <1>1
<1> HIDE DEF C, M
<1>6. Refers(cat', raced)
  BY <1>1, <1>4, <1>5 DEF Refers
<1>7. Bears(cat, cat', w)
  BY <1>0, <1>1, <1>4, <1>5 DEF Bears
<1>8. \A x \in Children : cat'.child[x] # NoChild => x \in cat'.born
  BY <1>1, <1>4, <1>5 DEF Rooted
<1>9. Effect(cat, cat', w, raced)
  BY <1>1, <1>4, <1>5, <1>6, <1>7, <1>8, ReferenceEffect
<1> QED BY <1>0, <1>4, <1>9 DEF Success, DeleteChild, Make, Done

LEMMA ReorderEffect ==
  ASSUME NEW a, AtWrite(a), Reorder(a)
  PROVE  Success(a)
<1> DEFINE w == Current(a)
           C == [x \in Children |-> IF x \in DOMAIN w.arg THEN [cat.child[x] EXCEPT !.priority = w.arg[x]]
                                    ELSE cat.child[x]]
<1>0. Busy(a) /\ w.do = "reorder"
  BY DEF Reorder, Make, Due, Current
<1>1. /\ cat \in CatalogueRows /\ Rooted(cat) /\ Refers(cat, raced) /\ Sound(cat, raced)
      /\ cat.route # NoRoute /\ cat.child \in [Children -> ChildRows \cup {NoChild}]
      /\ w.id \in Providers /\ \E S \in SUBSET Children : w.arg \in [S -> Nat]
  BY <1>0, AtWriteFacts DEF AtWrite, WriteOK, StillValid, CatalogueRows, Creates
<1>2. CASE {x \in Children : cat.child[x].of = w.id} # DOMAIN w.arg
  <2>1. cat' = cat
    BY <1>2 DEF Reorder, reorder_provider_children, Make, Done
  <2> QED BY <1>0, <2>1, SameEffect DEF Success, Reorder, Make, Done
<1>3. CASE {x \in Children : cat.child[x].of = w.id} = DOMAIN w.arg
  <2>1. \A x \in DOMAIN w.arg : cat.child[x] \in ChildRows /\ w.arg[x] \in Nat /\ x \in Children
    <3>1. PICK S \in SUBSET Children : w.arg \in [S -> Nat]
      BY <1>1
    <3> QED BY <1>1, <1>3, <3>1, ChildRowFacts
  <2>2. \A x \in DOMAIN w.arg :
          LET r == [cat.child[x] EXCEPT !.priority = w.arg[x]]
          IN  r \in ChildRows /\ r.of = cat.child[x].of
    BY <2>1 DEF ChildRows
  <2>3. /\ \A x \in Children : C[x] \in ChildRows \cup {NoChild}
        /\ \A x \in Children : C[x] # NoChild => cat.child[x] # NoChild /\ C[x].of = cat.child[x].of
    BY <1>1, <2>1, <2>2, ChildRowFacts
  <2>4. C \in [Children -> ChildRows \cup {NoChild}]
    BY <2>3
  <2>5. /\ cat' \in CatalogueRows
        /\ cat'.child = C
        /\ cat'.providers = cat.providers /\ cat'.born = cat.born /\ cat'.enabled = cat.enabled /\ cat'.member = cat.member
        /\ cat'.groups = cat.groups /\ cat'.keys = cat.keys /\ cat'.live = cat.live /\ cat'.keygroup = cat.keygroup
        /\ cat'.auth = cat.auth /\ cat'.allowed = cat.allowed /\ cat'.route = cat.route /\ cat'.special = cat.special
        /\ cat'.model = cat.model /\ cat'.alias = cat.alias /\ cat'.targets = cat.targets
    <3>1. cat' = [cat EXCEPT !.child = C]
      BY <1>1, <1>3 DEF Reorder, reorder_provider_children, Make, Done, CatalogueRows
    <3> HIDE DEF C
    <3> QED BY <1>1, <2>4, <3>1 DEF CatalogueRows
  <2> HIDE DEF C
  <2>6. Refers(cat', raced)
    BY <1>1, <2>3, <2>5 DEF Refers
  <2>7. Bears(cat, cat', w)
    BY <1>0, <1>1, <2>3, <2>5 DEF Bears
  <2>8. \A x \in Children : cat'.child[x] # NoChild => x \in cat'.born
    BY <1>1, <2>3, <2>5 DEF Rooted
  <2>9. \A o \in Owners : cat'.model[o] \in {cat.model[o], NoModel}
    BY <2>5
  <2>10. Effect(cat, cat', w, raced)
    BY <1>1, <2>5, <2>6, <2>7, <2>8, <2>9, ReferenceEffect
  <2> QED BY <1>0, <2>5, <2>10 DEF Success, Reorder, Make, Done
<1> QED BY <1>2, <1>3

\* Groups, and what the keys may use.
LEMMA InsertGroupEffect ==
  ASSUME NEW a, AtWrite(a), insert_provider_group(a)
  PROVE  Success(a)
<1> DEFINE w == Current(a)
<1>0. Busy(a) /\ w.do = "insert_group"
  BY DEF insert_provider_group, Make, Due, Current
<1>1. /\ cat \in CatalogueRows /\ Rooted(cat) /\ Refers(cat, raced) /\ cat.route # NoRoute
      /\ w.id \in Groups
  BY <1>0, AtWriteFacts DEF AtWrite, WriteOK, StillValid, Creates
<1>2. /\ cat' \in CatalogueRows
      /\ cat'.born = cat.born \cup {w.id}
      /\ cat'.providers = cat.providers /\ cat'.enabled = cat.enabled /\ cat'.member = cat.member /\ cat'.keys = cat.keys
      /\ cat'.live = cat.live /\ cat'.keygroup = cat.keygroup /\ cat'.auth = cat.auth /\ cat'.allowed = cat.allowed
      /\ cat'.route = cat.route /\ cat'.special = cat.special /\ cat'.model = cat.model /\ cat'.alias = cat.alias
      /\ cat'.targets = cat.targets /\ cat'.child = cat.child
  <2> DEFINE B == cat.born \cup {w.id}  G == cat.groups \cup {w.id}
  <2>1. B \in SUBSET (Providers \cup Keys \cup Groups \cup Children) /\ G \in SUBSET Groups
    BY <1>1 DEF CatalogueRows
  <2>2. cat' = [cat EXCEPT !.groups = G, !.born = B]
    BY <1>1 DEF insert_provider_group, Make, Done, CatalogueRows
  <2> HIDE DEF B, G
  <2> QED BY <1>1, <2>1, <2>2 DEF CatalogueRows, B
<1>3. Rooted(cat') /\ Refers(cat', raced)
  BY <1>1, <1>2 DEF Rooted, Refers
<1>4. Decides(cat, cat', w)
  <2>1. \A k \in cat.keys : cat.allowed[k] = cat.allowed[k] \cap cat'.providers
    BY <1>1, <1>2 DEF Refers, CatalogueRows
  <2> QED BY <2>1, <1>2 DEF Decides
<1>5. Bears(cat, cat', w)
  BY <1>0, <1>2 DEF Bears, Creates
<1>6. FollowOn(cat, cat', w)
  BY <1>2 DEF FollowOn, Follows, Union
<1>7. Effect(cat, cat', w, raced)
  BY <1>1, <1>2, <1>3, <1>4, <1>5, <1>6 DEF Effect, Sound
<1> QED BY <1>0, <1>2, <1>7 DEF Success, insert_provider_group, Make, Done

LEMMA MembershipsEffect ==
  ASSUME NEW a, AtWrite(a), Memberships(a)
  PROVE  Committed(a) \/ (Busy(a) /\ Refused(a))
<1> DEFINE w == Current(a)  f == Found(a)
           legal == /\ w.id \in cat.providers
                    /\ w.arg \subseteq cat.groups
                    /\ w.arg \cap cat.member[w.id] \subseteq f.groups
           M == [cat.member EXCEPT ![w.id] = (cat.member[w.id] \ f.groups) \cup w.arg]
<1>0. Busy(a) /\ w.do = "memberships" /\ a \in Admins
  BY DEF AtWrite, Memberships, Commit, Due, Current
<1>1. /\ cat \in CatalogueRows /\ Rooted(cat) /\ Refers(cat, raced) /\ cat.route # NoRoute
      /\ w.id \in Providers /\ w.arg \in SUBSET Groups
  BY <1>0, AtWriteFacts DEF AtWrite, WriteOK, StillValid, Creates
<1>2. CASE ~ legal
  BY <1>0, <1>2 DEF Memberships, Commit
<1>3. CASE legal
  <2>1. M \in [Providers -> SUBSET Groups]
    BY <1>1 DEF CatalogueRows
  <2>2. /\ cat' \in CatalogueRows
        /\ cat'.member = M
        /\ cat'.providers = cat.providers /\ cat'.born = cat.born /\ cat'.enabled = cat.enabled /\ cat'.groups = cat.groups
        /\ cat'.keys = cat.keys /\ cat'.live = cat.live /\ cat'.keygroup = cat.keygroup /\ cat'.auth = cat.auth
        /\ cat'.allowed = cat.allowed /\ cat'.route = cat.route /\ cat'.special = cat.special /\ cat'.model = cat.model
        /\ cat'.alias = cat.alias /\ cat'.targets = cat.targets /\ cat'.child = cat.child
    <3>1. cat' = [cat EXCEPT !.member = M]
      BY <1>1, <1>3 DEF Memberships, replace_provider_group_memberships, Commit, Done, CatalogueRows
    <3> HIDE DEF M
    <3> QED BY <1>1, <2>1, <3>1 DEF CatalogueRows
  <2> HIDE DEF M
  <2>3. Rooted(cat') /\ Refers(cat', raced)
    BY <1>1, <2>2 DEF Rooted, Refers
  <2>4. Decides(cat, cat', w)
    <3>1. \A k \in cat.keys : cat.allowed[k] = cat.allowed[k] \cap cat'.providers
      BY <1>1, <2>2 DEF Refers, CatalogueRows
    <3> QED BY <3>1, <2>2 DEF Decides
  <2>5. Bears(cat, cat', w)
    BY <2>2 DEF Bears
  <2>6. FollowOn(cat, cat', w)
    <3>1. Affected(w) = Keys /\ cat'.keys \subseteq Keys
      BY <1>0, <2>2 DEF Affected, CatalogueRows
    <3> QED BY <3>1 DEF FollowOn
  <2>7. Decided
    BY <1>0, <2>4, DecidesDecided
  <2>8. missed' = missed /\ UNCHANGED <<raced, edits>>
        /\ admin' = [admin EXCEPT ![a] = IF Len(@.todo) = 1 THEN Idle ELSE [admin[a] EXCEPT !.todo = Tail(@)]]
    BY <1>3 DEF Memberships, Commit, Done
  <2> QED BY <1>0, <1>1, <2>2, <2>3, <2>5, <2>6, <2>7, <2>8 DEF Committed, Sound
<1> QED BY <1>2, <1>3

LEMMA KeyGroupsEffect ==
  ASSUME NEW a, AtWrite(a), KeyGroups(a)
  PROVE  Committed(a) \/ (Busy(a) /\ Refused(a))
<1> DEFINE w == Current(a)  f == Found(a)
           legal == /\ w.id \in cat.keys
                    /\ w.arg \subseteq cat.groups
                    /\ w.arg \cap cat.keygroup[w.id] \subseteq f.groups
           M == [cat.keygroup EXCEPT ![w.id] = (cat.keygroup[w.id] \ f.groups) \cup w.arg]
<1>0. Busy(a) /\ w.do = "key_groups" /\ a \in Admins
  BY DEF AtWrite, KeyGroups, Commit, Due, Current
<1>1. /\ cat \in CatalogueRows /\ Rooted(cat) /\ Refers(cat, raced) /\ cat.route # NoRoute
      /\ w.id \in Keys /\ w.arg \in SUBSET Groups
  BY <1>0, AtWriteFacts DEF AtWrite, WriteOK, StillValid, Creates
<1>2. CASE ~ legal
  BY <1>0, <1>2 DEF KeyGroups, Commit
<1>3. CASE legal
  <2>1. M \in [Keys -> SUBSET Groups] /\ \A k \in Keys \ {w.id} : M[k] = cat.keygroup[k]
    BY <1>1 DEF CatalogueRows
  <2>2. /\ cat' \in CatalogueRows
        /\ cat'.keygroup = M
        /\ cat'.providers = cat.providers /\ cat'.born = cat.born /\ cat'.enabled = cat.enabled /\ cat'.member = cat.member
        /\ cat'.groups = cat.groups /\ cat'.keys = cat.keys /\ cat'.live = cat.live /\ cat'.auth = cat.auth
        /\ cat'.allowed = cat.allowed /\ cat'.route = cat.route /\ cat'.special = cat.special /\ cat'.model = cat.model
        /\ cat'.alias = cat.alias /\ cat'.targets = cat.targets /\ cat'.child = cat.child
    <3>1. cat' = [cat EXCEPT !.keygroup = M]
      BY <1>1, <1>3 DEF KeyGroups, replace_api_key_provider_groups, Commit, Done, CatalogueRows
    <3> HIDE DEF M
    <3> QED BY <1>1, <2>1, <3>1 DEF CatalogueRows
  <2> HIDE DEF M
  <2>3. Rooted(cat') /\ Refers(cat', raced)
    BY <1>1, <2>2 DEF Rooted, Refers
  <2>4. Decides(cat, cat', w)
    <3>1. \A k \in cat.keys : cat.allowed[k] = cat.allowed[k] \cap cat'.providers
      BY <1>1, <2>2 DEF Refers, CatalogueRows
    <3> QED BY <3>1, <2>2 DEF Decides
  <2>5. Bears(cat, cat', w)
    BY <2>2 DEF Bears
  <2>6. FollowOn(cat, cat', w)
    <3>1. Affected(w) = {w.id} /\ cat'.keys \subseteq Keys
      BY <1>0, <2>2 DEF Affected, CatalogueRows
    <3>2. \A k \in cat'.keys \ Affected(w) : Union(cat', k) = Union(cat, k)
      BY <3>1, <2>1, <2>2 DEF Union
    <3> QED BY <3>2, <2>2 DEF FollowOn, Follows
  <2>7. Decided
    BY <1>0, <2>4, DecidesDecided
  <2>8. missed' = missed /\ UNCHANGED <<raced, edits>>
        /\ admin' = [admin EXCEPT ![a] = IF Len(@.todo) = 1 THEN Idle ELSE [admin[a] EXCEPT !.todo = Tail(@)]]
    BY <1>3 DEF KeyGroups, Commit, Done
  <2> QED BY <1>0, <1>1, <2>2, <2>3, <2>5, <2>6, <2>7, <2>8 DEF Committed, Sound
<1> QED BY <1>2, <1>3

LEMMA AllowedEffect ==
  ASSUME NEW a, AtWrite(a), Allowed(a)
  PROVE  Committed(a) \/ (Busy(a) /\ Refused(a))
<1> DEFINE w == Current(a)  f == Found(a)
           legal == /\ w.id \in cat.keys
                    /\ w.arg \subseteq cat.providers
                    /\ w.arg \cap cat.allowed[w.id] \subseteq f.deletes[w.id]
           U == [cat.auth EXCEPT ![w.id] = "direct"]
           X == (cat.allowed[w.id] \ f.deletes[w.id]) \cup w.arg
           A == [cat.allowed EXCEPT ![w.id] = X]
<1>0. Busy(a) /\ w.do = "allowed" /\ a \in Admins
  BY DEF AtWrite, Allowed, Commit, Due, Current
<1>1. /\ cat \in CatalogueRows /\ Rooted(cat) /\ Refers(cat, raced) /\ cat.route # NoRoute
      /\ w.id \in Keys /\ w.arg \in SUBSET Providers
  BY <1>0, AtWriteFacts DEF AtWrite, WriteOK, StillValid, Creates
<1>2. CASE ~ legal
  BY <1>0, <1>2 DEF Allowed, Commit
<1>3. CASE legal
  <2>0. X \in SUBSET Providers /\ X \subseteq cat.providers
    BY <1>1, <1>3 DEF CatalogueRows, Refers
  <2>1. /\ U \in [Keys -> {"none", "compat", "direct"}] /\ A \in [Keys -> SUBSET Providers]
        /\ \A k \in Keys : U[k] = IF k = w.id THEN "direct" ELSE cat.auth[k]
        /\ \A k \in Keys : A[k] = IF k = w.id THEN X ELSE cat.allowed[k]
    BY <1>1, <2>0 DEF CatalogueRows
  <2>2. /\ cat' \in CatalogueRows
        /\ cat'.auth = U /\ cat'.allowed = A
        /\ cat'.providers = cat.providers /\ cat'.born = cat.born /\ cat'.enabled = cat.enabled /\ cat'.member = cat.member
        /\ cat'.groups = cat.groups /\ cat'.keys = cat.keys /\ cat'.live = cat.live /\ cat'.keygroup = cat.keygroup
        /\ cat'.route = cat.route /\ cat'.special = cat.special /\ cat'.model = cat.model /\ cat'.alias = cat.alias
        /\ cat'.targets = cat.targets /\ cat'.child = cat.child
    <3>1. cat' = [cat EXCEPT !.auth = U, !.allowed = A]
      BY <1>1, <1>3 DEF Allowed, replace_allowed_providers, Commit, Done, CatalogueRows
    <3> HIDE DEF U, A
    <3> QED BY <1>1, <2>1, <3>1 DEF CatalogueRows
  <2> HIDE DEF U, A, X
  <2>3. Rooted(cat')
    BY <1>1, <1>3, <2>1, <2>2 DEF Rooted
  <2>4. Refers(cat', raced)
    BY <1>1, <2>0, <2>1, <2>2 DEF Refers
  <2>5. Decides(cat, cat', w)
    <3>1. \A k \in cat.keys : k \in Keys /\ cat.allowed[k] = cat.allowed[k] \cap cat'.providers
      BY <1>1, <2>2 DEF Refers, CatalogueRows
    <3> QED BY <1>0, <3>1, <2>1, <2>2 DEF Decides
  <2>6. Bears(cat, cat', w)
    BY <2>2 DEF Bears
  <2>7. FollowOn(cat, cat', w)
    <3>1. \A k \in cat'.keys : k \in Keys /\ Union(cat', k) = Union(cat, k)
      BY <2>2 DEF Union, CatalogueRows
    <3> QED BY <3>1, <2>1, <2>2 DEF FollowOn, Follows
  <2>8. Decided
    BY <1>0, <2>5, DecidesDecided
  <2>9. missed' = missed /\ UNCHANGED <<raced, edits>>
        /\ admin' = [admin EXCEPT ![a] = IF Len(@.todo) = 1 THEN Idle ELSE [admin[a] EXCEPT !.todo = Tail(@)]]
    BY <1>3 DEF Allowed, Commit, Done
  <2> QED BY <1>0, <1>1, <2>2, <2>3, <2>4, <2>6, <2>7, <2>8, <2>9 DEF Committed, Sound
<1> QED BY <1>2, <1>3

\* A key is deleted, by its administrator or by the call that failed to make it.
LEMMA KeyGone ==
  ASSUME NEW k \in Keys, NEW w, Sound(cat, raced), cat.route # NoRoute, cat' = delete_api_key(cat, k)
  PROVE  Effect(cat, cat', w, raced) /\ cat'.providers = cat.providers /\ cat'.keys = cat.keys \ {k}
<1> DEFINE U == [cat.auth EXCEPT ![k] = "none"]
           A == [cat.allowed EXCEPT ![k] = {}]
           G == [cat.keygroup EXCEPT ![k] = {}]
<1>1. cat \in CatalogueRows /\ Rooted(cat) /\ Refers(cat, raced)
  BY DEF Sound
<1>2. /\ U \in [Keys -> {"none", "compat", "direct"}] /\ A \in [Keys -> SUBSET Providers]
      /\ G \in [Keys -> SUBSET Groups]
      /\ \A j \in Keys : U[j] = IF j = k THEN "none" ELSE cat.auth[j]
      /\ \A j \in Keys : A[j] = IF j = k THEN {} ELSE cat.allowed[j]
      /\ \A j \in Keys : G[j] = IF j = k THEN {} ELSE cat.keygroup[j]
  BY <1>1 DEF CatalogueRows
<1>3. /\ cat' \in CatalogueRows
      /\ cat'.auth = U /\ cat'.allowed = A /\ cat'.keygroup = G
      /\ cat'.keys = cat.keys \ {k} /\ cat'.live = cat.live \ {k}
      /\ cat'.providers = cat.providers /\ cat'.born = cat.born /\ cat'.enabled = cat.enabled /\ cat'.member = cat.member
      /\ cat'.groups = cat.groups /\ cat'.route = cat.route /\ cat'.special = cat.special /\ cat'.model = cat.model
      /\ cat'.alias = cat.alias /\ cat'.targets = cat.targets /\ cat'.child = cat.child
  <2> DEFINE K == cat.keys \ {k}  L == cat.live \ {k}
  <2>1. cat' = [cat EXCEPT !.keys = K, !.live = L, !.keygroup = G, !.auth = U, !.allowed = A]
    BY <1>1 DEF delete_api_key, CatalogueRows
  <2>2. K \in SUBSET Keys /\ L \in SUBSET Keys
    BY <1>1 DEF CatalogueRows
  <2> HIDE DEF U, A, G, K, L
  <2> QED BY <1>1, <1>2, <2>1, <2>2, ZenonT(60) DEF CatalogueRows, K, L
<1> HIDE DEF U, A, G
<1>4. Rooted(cat')
  BY <1>1, <1>2, <1>3 DEF Rooted
<1>5. Refers(cat', raced)
  BY <1>1, <1>2, <1>3 DEF Refers
<1>6. Decides(cat, cat', w)
  <2>1. \A j \in cat.keys : j \in Keys /\ cat.allowed[j] = cat.allowed[j] \cap cat'.providers
    BY <1>1, <1>3 DEF Refers, CatalogueRows
  <2> QED BY <2>1, <1>2, <1>3 DEF Decides
<1>7. Bears(cat, cat', w)
  BY <1>3 DEF Bears
<1>8. FollowOn(cat, cat', w)
  <2>1. \A j \in cat'.keys : /\ j \in cat.keys /\ j \in Keys /\ j # k
                             /\ cat'.keygroup[j] = cat.keygroup[j]
                             /\ cat'.auth[j] = cat.auth[j] /\ cat'.allowed[j] = cat.allowed[j]
    BY <1>1, <1>2, <1>3 DEF CatalogueRows
  <2>2. \A j \in cat'.keys : Union(cat', j) = Union(cat, j)
    BY <2>1, <1>3 DEF Union
  <2> QED BY <2>1, <2>2 DEF FollowOn, Follows
<1> QED BY <1>3, <1>4, <1>5, <1>6, <1>7, <1>8 DEF Effect, Sound

LEMMA DeleteKeyEffect ==
  ASSUME NEW a, AtWrite(a), DeleteKey(a)
  PROVE  Success(a)
<1> DEFINE w == Current(a)
<1>0. Busy(a) /\ w.do = "delete_key"
  BY DEF DeleteKey, Make, Due, Current
<1>1. w.id \in Keys /\ Sound(cat, raced) /\ cat.route # NoRoute
  BY <1>0 DEF AtWrite, WriteOK
<1>2. cat' = delete_api_key(cat, w.id)
  BY DEF DeleteKey, Make, Done
<1>3. Effect(cat, cat', w, raced) /\ cat'.providers = cat.providers
  BY <1>1, <1>2, KeyGone
<1> QED BY <1>0, <1>3 DEF Success, DeleteKey, Make, Done

\* The refresh, whatever it found: rows that refer to nothing are refused.
LEMMA RefreshEffect ==
  ASSUME NEW f, NEW w, Sound(cat, raced), cat.route # NoRoute, f.makes \subseteq cat.keys,
         \A k \in Keys : f.inserts[k] \subseteq (IF k \in cat.keys THEN cat.providers ELSE {}),
         cat' = refresh_compat_authorizations(cat, f)
  PROVE  /\ Sound(cat', raced) /\ cat'.route # NoRoute /\ Bears(cat, cat', w)
         /\ cat'.providers = cat.providers /\ cat'.keys = cat.keys
         /\ \A k \in cat'.keys : k \in Keys /\ Union(cat', k) = Union(cat, k)
         /\ \A k \in Keys : cat'.auth[k] = IF k \in f.makes /\ cat.auth[k] = "none" THEN "compat" ELSE cat.auth[k]
         /\ \A k \in Keys : /\ cat'.allowed[k] = (cat.allowed[k] \ f.deletes[k]) \cup f.inserts[k]
                            /\ cat.allowed[k] = cat.allowed[k] \cap cat'.providers
         /\ cat'.model = cat.model
<1> DEFINE U == [k \in Keys |-> IF k \in f.makes /\ cat.auth[k] = "none" THEN "compat" ELSE cat.auth[k]]
           A == [k \in Keys |-> (cat.allowed[k] \ f.deletes[k]) \cup f.inserts[k]]
<1>1. cat \in CatalogueRows /\ Rooted(cat) /\ Refers(cat, raced)
  BY DEF Sound
<1>3. /\ U \in [Keys -> {"none", "compat", "direct"}]
      /\ A \in [Keys -> SUBSET Providers] /\ \A k \in Keys : A[k] \subseteq cat.providers
      /\ \A k \in Keys : U[k] = IF k \in f.makes /\ cat.auth[k] = "none" THEN "compat" ELSE cat.auth[k]
      /\ \A k \in Keys : A[k] = (cat.allowed[k] \ f.deletes[k]) \cup f.inserts[k]
  <2>1. U \in [Keys -> {"none", "compat", "direct"}]
    BY <1>1 DEF CatalogueRows
  <2>2. \A k \in Keys : (cat.allowed[k] \ f.deletes[k]) \cup f.inserts[k] \subseteq cat.providers
    BY <1>1 DEF Refers
  <2>3. cat.providers \in SUBSET Providers
    BY <1>1 DEF CatalogueRows
  <2> QED BY <2>1, <2>2, <2>3
<1>4. /\ cat' \in CatalogueRows
      /\ cat'.auth = U /\ cat'.allowed = A
      /\ cat'.providers = cat.providers /\ cat'.born = cat.born /\ cat'.enabled = cat.enabled /\ cat'.member = cat.member
      /\ cat'.groups = cat.groups /\ cat'.keys = cat.keys /\ cat'.live = cat.live /\ cat'.keygroup = cat.keygroup
      /\ cat'.route = cat.route /\ cat'.special = cat.special /\ cat'.model = cat.model /\ cat'.alias = cat.alias
      /\ cat'.targets = cat.targets /\ cat'.child = cat.child
  <2>1. cat' = [cat EXCEPT !.auth = U, !.allowed = A]
    BY <1>1 DEF refresh_compat_authorizations, CatalogueRows
  <2> HIDE DEF U, A
  <2> QED BY <1>1, <1>3, <2>1 DEF CatalogueRows
<1> HIDE DEF U, A
<1>5. Rooted(cat')
  BY <1>1, <1>3, <1>4 DEF Rooted
<1>6. Refers(cat', raced)
  BY <1>1, <1>3, <1>4 DEF Refers
<1>7. \A k \in Keys : cat.allowed[k] = cat.allowed[k] \cap cat'.providers
  BY <1>1, <1>4 DEF Refers
<1>8. Bears(cat, cat', w)
  BY <1>4 DEF Bears
<1>9. \A k \in cat'.keys : k \in Keys /\ Union(cat', k) = Union(cat, k)
  BY <1>1, <1>4 DEF Union, CatalogueRows
<1> QED BY <1>3, <1>4, <1>5, <1>6, <1>7, <1>8, <1>9 DEF Sound

\* The provider goes with everything that hangs on it; a route on its way to
\* the database may bring its id back.
LEMMA DeleteProviderEffect ==
  ASSUME NEW p \in Providers, NEW w, NEW rd, Sound(cat, raced), cat.route # NoRoute, raced \subseteq rd,
         cat' = delete_upstream_provider(cat, p)
  PROVE  Effect(cat, cat', w, rd) /\ cat'.providers = cat.providers \ {p}
<1> DEFINE MM == [cat.member EXCEPT ![p] = {}]
           A == [k \in Keys |-> cat.allowed[k] \ {p}]
           O == [o \in Owners |-> IF o = p \/ (o \in Children /\ cat.child[o].of = p) THEN NoModel
                                  ELSE cat.model[o]]
           C == [x \in Children |-> IF cat.child[x].of = p THEN NoChild ELSE cat.child[x]]
           R == Sweep(cat.route, p)
           S == Sweep(cat.special, p)
           T == cat.targets \ {p}
           P == cat.providers \ {p}
           E == cat.enabled \ {p}
<1>1. cat \in CatalogueRows /\ Rooted(cat) /\ Refers(cat, raced)
  BY DEF Sound
<1>2. /\ MM \in [Providers -> SUBSET Groups]
      /\ \A q \in Providers \ {p} : MM[q] = cat.member[q]
  BY <1>1 DEF CatalogueRows
<1>3. A \in [Keys -> SUBSET Providers] /\ \A k \in Keys : A[k] = cat.allowed[k] \ {p}
  BY <1>1 DEF CatalogueRows
<1>4. O \in [Owners -> ModelRows] /\ \A o \in Owners : O[o] \in {cat.model[o], NoModel}
  BY <1>1 DEF CatalogueRows, NoModel, ModelRows
<1>5. /\ C \in [Children -> ChildRows \cup {NoChild}]
      /\ \A x \in Children : C[x] = IF cat.child[x].of = p THEN NoChild ELSE cat.child[x]
  BY <1>1 DEF CatalogueRows
<1>6. /\ R \in Policies /\ S \in Policies
      /\ R = cat.route \ {p} /\ R \in SUBSET Providers /\ R # NoRoute
      /\ S = NoRoute \/ (S = cat.special \ {p} /\ cat.special # NoRoute)
  <2>1. cat.route \in SUBSET Providers /\ (cat.special = NoRoute \/ cat.special \in SUBSET Providers)
    BY <1>1 DEF CatalogueRows, Policies
  <2>2. R = cat.route \ {p} /\ R \in SUBSET Providers
    BY <2>1 DEF Sweep
  <2>3. R # NoRoute
    BY <2>2, CatalogueAssumption DEF NoRoute
  <2>4. S = NoRoute \/ (S = cat.special \ {p} /\ cat.special # NoRoute /\ S \in SUBSET Providers)
    BY <2>1 DEF Sweep
  <2> HIDE DEF R, S
  <2> QED BY <2>2, <2>3, <2>4 DEF Policies
<1>7. T \in SUBSET Providers /\ P \in SUBSET Providers /\ E \in SUBSET Providers
  BY <1>1 DEF CatalogueRows
<1>8. /\ cat' \in CatalogueRows
      /\ cat'.providers = P /\ cat'.enabled = E /\ cat'.member = MM /\ cat'.allowed = A
      /\ cat'.targets = T /\ cat'.model = O /\ cat'.child = C /\ cat'.route = R /\ cat'.special = S
      /\ cat'.born = cat.born /\ cat'.groups = cat.groups /\ cat'.keys = cat.keys /\ cat'.live = cat.live
      /\ cat'.keygroup = cat.keygroup /\ cat'.auth = cat.auth /\ cat'.alias = cat.alias
  <2> DEFINE D == [cat EXCEPT !.providers = P, !.enabled = E, !.member = MM, !.allowed = A, !.targets = T,
                              !.model = O, !.child = C]
  <2>1. Cascade(cat, p) = D
    BY <1>1 DEF Cascade, CatalogueRows
  <2> HIDE DEF MM, A, O, C, T, P, E
  <2>2. /\ D \in CatalogueRows
        /\ D.providers = P /\ D.enabled = E /\ D.member = MM /\ D.allowed = A
        /\ D.targets = T /\ D.model = O /\ D.child = C
        /\ D.route = cat.route /\ D.special = cat.special
        /\ D.born = cat.born /\ D.groups = cat.groups /\ D.keys = cat.keys /\ D.live = cat.live
        /\ D.keygroup = cat.keygroup /\ D.auth = cat.auth /\ D.alias = cat.alias
    BY <1>1, <1>2, <1>3, <1>4, <1>5, <1>7 DEF CatalogueRows
  <2> HIDE DEF D
  <2>3. cat' = [D EXCEPT !.route = R, !.special = S]
    BY <2>1, <2>2 DEF delete_upstream_provider, CatalogueRows
  <2> HIDE DEF R, S
  <2> QED BY <2>2, <2>3, <1>6, ZenonT(60) DEF CatalogueRows
<1> HIDE DEF MM, A, O, C, R, S
<1>9. Rooted(cat')
  BY <1>1, <1>5, <1>8 DEF Rooted
<1>10. Refers(cat', rd)
  <2>1. \A k \in Keys : cat'.allowed[k] \subseteq cat'.providers
    BY <1>1, <1>3, <1>8 DEF Refers
  <2>2. cat'.targets \subseteq (IF cat'.alias THEN cat'.providers ELSE {})
    BY <1>1, <1>8 DEF Refers
  <2>3. \A x \in Children : cat'.child[x] # NoChild => cat'.child[x].of \in cat'.providers
    BY <1>1, <1>5, <1>8 DEF Refers
  <2>4. \A r \in {cat'.route, cat'.special} \ {NoRoute} : r \subseteq cat'.providers \cup rd
    BY <1>1, <1>6, <1>8 DEF Refers
  <2> QED BY <2>1, <2>2, <2>3, <2>4 DEF Refers
<1>11. Decides(cat, cat', w)
  <2>1. \A k \in cat.keys : k \in Keys /\ cat.allowed[k] \ {p} = cat.allowed[k] \cap cat'.providers
    BY <1>1, <1>8 DEF Refers, CatalogueRows
  <2> QED BY <2>1, <1>3, <1>4, <1>8 DEF Decides, NoModel
<1>12. Bears(cat, cat', w)
  BY <1>5, <1>8 DEF Bears
<1>13. FollowOn(cat, cat', w)
  <2>1. \A k \in cat'.keys : k \in Keys /\ Union(cat', k) = Union(cat, k) \ {p}
    BY <1>1, <1>2, <1>8 DEF Union, CatalogueRows
  <2> QED BY <2>1, <1>3, <1>8, ZenonT(60) DEF FollowOn, Follows
<1> QED BY <1>6, <1>8, <1>9, <1>10, <1>11, <1>12, <1>13 DEF Effect, Sound

LEMMA InsertKeyEffect ==
  ASSUME NEW a, AtWrite(a), insert_api_key(a)
  PROVE  /\ Busy(a) /\ Current(a).do = "insert_key"
         /\ Effect(cat, cat', Current(a), raced)
         /\ cat'.providers = cat.providers
<1> DEFINE w == Current(a)
<1>0. Busy(a) /\ w.do = "insert_key"
  BY DEF insert_api_key, Due, Current
<1>1. /\ cat \in CatalogueRows /\ Rooted(cat) /\ Refers(cat, raced) /\ cat.route # NoRoute
      /\ w.id \in Keys /\ w.id \notin cat.born
  BY <1>0, AtWriteFacts DEF AtWrite, WriteOK, StillValid, Creates
<1>2. /\ cat' \in CatalogueRows
      /\ cat'.born = cat.born \cup {w.id} /\ cat'.keys = cat.keys \cup {w.id}
      /\ cat'.live = cat.live \cup {w.id}
      /\ cat'.providers = cat.providers /\ cat'.enabled = cat.enabled /\ cat'.member = cat.member /\ cat'.groups = cat.groups
      /\ cat'.keygroup = cat.keygroup /\ cat'.auth = cat.auth /\ cat'.allowed = cat.allowed /\ cat'.route = cat.route
      /\ cat'.special = cat.special /\ cat'.model = cat.model /\ cat'.alias = cat.alias /\ cat'.targets = cat.targets
      /\ cat'.child = cat.child
  <2> DEFINE B == cat.born \cup {w.id}  K == cat.keys \cup {w.id}  L == cat.live \cup {w.id}
  <2>1. /\ B \in SUBSET (Providers \cup Keys \cup Groups \cup Children)
        /\ K \in SUBSET Keys /\ L \in SUBSET Keys
    BY <1>1 DEF CatalogueRows
  <2>2. cat' = [cat EXCEPT !.keys = K, !.born = B, !.live = L]
    BY <1>1 DEF insert_api_key, CatalogueRows
  <2> HIDE DEF B, K, L
  <2> QED BY <1>1, <2>1, <2>2 DEF CatalogueRows, B, K, L
<1>3. Rooted(cat') /\ Refers(cat', raced)
  BY <1>1, <1>2 DEF Rooted, Refers
<1>4. Decides(cat, cat', w)
  <2>1. \A k \in cat.keys : cat.allowed[k] = cat.allowed[k] \cap cat'.providers
    BY <1>1, <1>2 DEF Refers, CatalogueRows
  <2> QED BY <2>1, <1>2 DEF Decides
<1>5. Bears(cat, cat', w)
  BY <1>0, <1>2 DEF Bears, Creates
<1>6. FollowOn(cat, cat', w)
  <2>1. cat'.auth[w.id] = "none"
    BY <1>1, <1>2 DEF Rooted
  <2>2. \A k \in cat.keys : Union(cat', k) = Union(cat, k)
    BY <1>2 DEF Union
  <2> QED BY <2>1, <2>2, <1>2 DEF FollowOn, Follows
<1> QED BY <1>0, <1>1, <1>2, <1>3, <1>4, <1>5, <1>6 DEF Effect, Sound

\* upsert_model_route without providers: the model's policy goes.
LEMMA AdaptEffect ==
  ASSUME NEW a, AtWrite(a), adapt_legacy_route(a), Current(a).arg = {}
  PROVE  Success(a)
<1> DEFINE w == Current(a)
           S == IF w.id = "*" THEN cat.special ELSE NoRoute
<1>0. Busy(a) /\ w.do = "adapt"
  BY DEF adapt_legacy_route, Due, Current
<1>1. /\ cat \in CatalogueRows /\ Rooted(cat) /\ Refers(cat, raced) /\ Sound(cat, raced)
      /\ cat.route # NoRoute
  BY AtWriteFacts
<1>2. S \in Policies
  BY <1>1 DEF CatalogueRows, Policies
<1>3. /\ cat' \in CatalogueRows
      /\ cat'.special = S
      /\ cat'.providers = cat.providers /\ cat'.born = cat.born /\ cat'.enabled = cat.enabled /\ cat'.member = cat.member
      /\ cat'.groups = cat.groups /\ cat'.keys = cat.keys /\ cat'.live = cat.live /\ cat'.keygroup = cat.keygroup
      /\ cat'.auth = cat.auth /\ cat'.allowed = cat.allowed /\ cat'.route = cat.route /\ cat'.model = cat.model
      /\ cat'.alias = cat.alias /\ cat'.targets = cat.targets /\ cat'.child = cat.child
  <2>1. cat' = [cat EXCEPT !.special = S]
    BY <1>1 DEF adapt_legacy_route, Done, CatalogueRows
  <2> HIDE DEF S
  <2> QED BY <1>1, <1>2, <2>1 DEF CatalogueRows
<1>4. Refers(cat', raced)
  BY <1>1, <1>3 DEF Refers
<1>5. Bears(cat, cat', w)
  BY <1>3 DEF Bears
<1>6. \A x \in Children : cat'.child[x] # NoChild => x \in cat'.born
  BY <1>1, <1>3 DEF Rooted
<1>7. \A o \in Owners : cat'.model[o] \in {cat.model[o], NoModel}
  BY <1>3
<1>8. Effect(cat, cat', w, raced)
  BY <1>1, <1>3, <1>4, <1>5, <1>6, <1>7, ReferenceEffect
<1> QED BY <1>0, <1>3, <1>8 DEF Success, adapt_legacy_route, Done

-----------------------------------------------------------------------------
(* The calls.                                                              *)

Advanced(r) == IF Len(r.todo) = 1 THEN Idle ELSE [r EXCEPT !.todo = Tail(@)]

LEMMA IdleCall == CallOK(Idle) /\ Idle.todo = <<>> /\ Idle.new = Nobody /\ DOMAIN Idle.todo = {}
<1>1. Idle = [at |-> Nobody, todo |-> <<>>, new |-> Nobody] /\ Idle.todo = <<>> /\ Idle.new = Nobody
  BY DEF Idle
<1>2. DOMAIN Idle.todo = {}
  BY <1>1
<1>3. Idle.todo \in Seq(Range(Idle.todo))
  BY <1>1
<1> QED BY <1>1, <1>2, <1>3 DEF CallOK, Idle

\* A sequence is one over its own elements.
LEMMA OwnElements ==
  ASSUME NEW S, NEW s \in Seq(S)
  PROVE  s \in Seq(Range(s))
<1>1. s \in [1 .. Len(s) -> Range(s)] /\ Len(s) \in Nat
  BY LenProperties DEF Range
<1> QED BY <1>1, SeqDef

LEMMA TodoFacts ==
  ASSUME NEW r, CallOK(r), r.todo # <<>>
  PROVE  /\ Len(r.todo) \in Nat \ {0} /\ DOMAIN r.todo = 1 .. Len(r.todo)
         /\ 1 \in DOMAIN r.todo /\ Head(r.todo) = r.todo[1] /\ WriteOK(r.todo[1])
<1> DEFINE S == Range(r.todo)
<1>1. r.todo \in Seq(S)
  BY DEF CallOK
<1>2. Len(r.todo) \in Nat \ {0} /\ DOMAIN r.todo = 1 .. Len(r.todo)
  BY <1>1, LenProperties, EmptySeq
<1>3. 1 \in DOMAIN r.todo /\ Head(r.todo) = r.todo[1]
  BY <1>1, <1>2
<1> QED BY <1>2, <1>3 DEF CallOK

\* The rest of the call is in order once the current write is made; the new
\* key is noted by the write that made it.
LEMMA TailCallOK ==
  ASSUME NEW r, NEW k, CallOK(r), r.todo # <<>>, Len(r.todo) # 1,
         k = IF r.todo[1].do = "insert_key" THEN r.todo[1].id ELSE r.new
  PROVE  LET q == [at |-> r.at, todo |-> Tail(r.todo), new |-> k]
         IN  /\ CallOK(q) /\ q.todo # <<>> /\ q.new = k
             /\ \A i \in DOMAIN q.todo : /\ i + 1 \in DOMAIN r.todo /\ q.todo[i] = r.todo[i + 1]
                                         /\ q.todo[i].do \notin Creates
             /\ Head(q.todo) = r.todo[2]
<1> DEFINE q == [at |-> r.at, todo |-> Tail(r.todo), new |-> k]
           S == Range(r.todo)
<1>0. WriteOK(r.todo[1])
  BY TodoFacts
<1>1. r.todo \in Seq(S) /\ r.new \in Keys \cup {Nobody} /\ k \in Keys \cup {Nobody}
  <2>1. r.todo[1].do = "insert_key" => r.todo[1].id \in Keys
    BY <1>0 DEF WriteOK
  <2>2. r.todo \in Seq(S) /\ r.new \in Keys \cup {Nobody}
    BY DEF CallOK
  <2> QED BY <2>1, <2>2
<1>2. Len(r.todo) \in Nat /\ Len(r.todo) > 1 /\ DOMAIN r.todo = 1 .. Len(r.todo)
  <2>1. Len(r.todo) \in Nat \ {0} /\ DOMAIN r.todo = 1 .. Len(r.todo)
    BY TodoFacts
  <2>2. \A n \in Nat \ {0} : n # 1 => n > 1 /\ n \in Nat
    OBVIOUS
  <2> QED BY <2>1, <2>2
<1>3. /\ Tail(r.todo) \in Seq(S) /\ Len(Tail(r.todo)) = Len(r.todo) - 1
      /\ \A i \in 1 .. Len(Tail(r.todo)) : Tail(r.todo)[i] = r.todo[i + 1]
  BY <1>1, HeadTailProperties
<1>4. DOMAIN Tail(r.todo) = 1 .. Len(r.todo) - 1
  BY <1>3, LenProperties
<1>5. q.todo = Tail(r.todo) /\ q.new = k /\ q.at = r.at
  OBVIOUS
<1>6. q.todo \in Seq(Range(q.todo))
  BY <1>3, <1>5, OwnElements
<1>7. \A i \in DOMAIN q.todo : i \in Nat /\ i + 1 # 1 /\ i + 1 \in DOMAIN r.todo /\ q.todo[i] = r.todo[i + 1]
  BY <1>2, <1>3, <1>4, <1>5
<1>8. \A i \in DOMAIN q.todo : WriteOK(q.todo[i]) /\ q.todo[i].do \notin Creates
  BY <1>7 DEF CallOK
<1>9. 1 \in DOMAIN q.todo /\ q.todo[1] = r.todo[2] /\ Head(q.todo) = q.todo[1]
  BY <1>2, <1>3, <1>4, <1>5
<1>10. q.todo[1].do # "insert_key"
  BY <1>8, <1>9 DEF Creates
<1>11. ASSUME NEW i \in DOMAIN q.todo, q.todo[i].do \in {"memberships", "key_groups"}
       PROVE  i + 1 \in DOMAIN q.todo /\ q.todo[i + 1] = Refresh
  <2>1. (i + 1) + 1 \in DOMAIN r.todo /\ r.todo[(i + 1) + 1] = Refresh
    BY <1>7, <1>11 DEF CallOK
  <2>2. i + 1 \in DOMAIN q.todo
    BY <1>2, <1>4, <1>5, <1>7, <2>1
  <2> QED BY <1>7, <2>1, <2>2
<1>12. ASSUME NEW i \in DOMAIN q.todo, q.todo[i].do = "memberships"
       PROVE  q.new = Nobody
  BY <1>5, <1>7, <1>12 DEF CallOK
<1>13. ASSUME NEW i \in DOMAIN q.todo, q.todo[i].do = "key_groups", q.new # Nobody
       PROVE  q.todo[i].id = q.new
  BY <1>5, <1>7, <1>13 DEF CallOK
<1> HIDE DEF q
<1>14. q = [at |-> q.at, todo |-> q.todo, new |-> q.new]
  BY DEF q
<1>15. CallOK(q)
  <2>1. \A i \in DOMAIN q.todo : q.todo[i].do # "insert_key"
    BY <1>8 DEF Creates
  <2>2. q.todo # <<>>
    BY <1>9
  <2> QED BY <1>1, <1>5, <1>6, <1>8, <1>10, <1>11, <1>12, <1>13, <1>14, <2>1, <2>2 DEF CallOK
<1> QED BY <1>5, <1>7, <1>8, <1>9, <1>15 DEF q

LEMMA AdvancedOK ==
  ASSUME NEW r, CallOK(r), r.todo # <<>>, r.todo[1].do # "insert_key"
  PROVE  /\ CallOK(Advanced(r))
         /\ \A i \in DOMAIN Advanced(r).todo : /\ i + 1 \in DOMAIN r.todo
                                               /\ Advanced(r).todo[i] = r.todo[i + 1]
                                               /\ Advanced(r).todo[i].do \notin Creates
         /\ r.todo[1].do \in {"memberships", "key_groups"} =>
               /\ Advanced(r).new = r.new
               /\ Advanced(r).todo # <<>> /\ Head(Advanced(r).todo) = Refresh
<1>1. CASE Len(r.todo) = 1
  <2>1. Advanced(r) = Idle
    BY <1>1 DEF Advanced
  <2>2. r.todo[1].do \notin {"memberships", "key_groups"}
    BY <1>1, TodoFacts DEF CallOK
  <2> QED BY <2>1, <2>2, IdleCall
<1>2. CASE Len(r.todo) # 1
  <2> DEFINE q == [at |-> r.at, todo |-> Tail(r.todo), new |-> r.new]
  <2>1. r = [at |-> r.at, todo |-> r.todo, new |-> r.new]
    BY DEF CallOK
  <2>2. [r EXCEPT !.todo = Tail(@)] = q
    BY <2>1
  <2>3. Advanced(r) = q
    BY <1>2, <2>2 DEF Advanced
  <2>4. /\ CallOK(q) /\ q.todo # <<>> /\ q.new = r.new
        /\ \A i \in DOMAIN q.todo : /\ i + 1 \in DOMAIN r.todo /\ q.todo[i] = r.todo[i + 1]
                                    /\ q.todo[i].do \notin Creates
        /\ Head(q.todo) = r.todo[2]
    BY <1>2, TailCallOK
  <2>5. r.todo[1].do \in {"memberships", "key_groups"} => r.todo[2] = Refresh
    BY TodoFacts DEF CallOK
  <2> HIDE DEF q
  <2> QED BY <2>3, <2>4, <2>5
<1> QED BY <1>1, <1>2

\* Only call a changes, to r.
OneCall(a, r) ==
  /\ admin' = [b \in Admins |-> admin'[b]]
  /\ admin'[a] = r
  /\ \A b \in Admins \ {a} : admin'[b] = admin[b]

\* A provider that a route on its way names is still there, or noted as deleted.
RouteStays(v) ==
  /\ v.do = "save_route" => v.arg \cap (cat.providers \cup raced) \subseteq cat'.providers \cup raced'
  /\ (v.do = "route_target" /\ v.id \in cat.providers \cup raced) => v.id \in cat'.providers \cup raced'

RoutesStay == \A b \in Admins : \A i \in DOMAIN admin[b].todo : RouteStays(admin[b].todo[i])

LEMMA CurrentFacts ==
  ASSUME CatalogueInv, NEW a \in Admins, Busy(a)
  PROVE  /\ CallOK(admin[a]) /\ admin[a].todo # <<>>
         /\ 1 \in DOMAIN admin[a].todo /\ Current(a) = admin[a].todo[1]
         /\ WriteOK(Current(a)) /\ StillValid(Current(a), cat, raced)
<1>1. CallOK(admin[a]) /\ admin[a].todo # <<>>
  BY DEF CatalogueInv, CallsOK, Busy
<1>2. 1 \in DOMAIN admin[a].todo /\ Current(a) = admin[a].todo[1] /\ WriteOK(admin[a].todo[1])
  BY <1>1, TodoFacts DEF Current
<1>3. StillValid(admin[a].todo[1], cat, raced)
  BY <1>2 DEF CatalogueInv, CallsOK
<1> QED BY <1>1, <1>2, <1>3

LEMMA StaysValid ==
  ASSUME NEW v, NEW w, WriteOK(v), StillValid(v, cat, raced), RouteStays(v), Bears(cat, cat', w),
         ~ (v.do \in Creates /\ w.do \in Creates /\ v.id = w.id)
  PROVE  StillValid(v, cat', raced')
<1>1. ASSUME v.do = "save_route" PROVE v.arg = NoRoute \/ v.arg \subseteq cat'.providers \cup raced'
  BY <1>1 DEF StillValid, RouteStays
<1>2. ASSUME v.do = "route_target" PROVE v.id \in cat'.providers \cup raced'
  BY <1>2 DEF StillValid, RouteStays
<1>3. ASSUME v.do = "child"
      PROVE  v.id \in cat'.born /\ (cat'.child[v.id] # NoChild => cat'.child[v.id].of = v.arg.of)
  BY <1>3 DEF StillValid, Bears, WriteOK
<1>4. ASSUME v.do \in Creates PROVE v.id \notin cat'.born
  BY <1>4 DEF StillValid, Bears
<1> QED BY <1>1, <1>2, <1>3, <1>4 DEF StillValid

\* What write w of call a leaves valid: everything the other calls carry, and
\* what call a carries apart from its current write.
LEMMA OthersValid ==
  ASSUME CatalogueInv, NEW a \in Admins, NEW w, RoutesStay, Bears(cat, cat', w),
         w.do \in Creates => Busy(a) /\ w = Current(a)
  PROVE  /\ \A b \in Admins \ {a} : \A i \in DOMAIN admin[b].todo : StillValid(admin[b].todo[i], cat', raced')
         /\ \A i \in DOMAIN admin[a].todo :
              admin[a].todo[i].do \notin Creates => StillValid(admin[a].todo[i], cat', raced')
<1>1. ASSUME NEW b \in Admins \ {a}, NEW i \in DOMAIN admin[b].todo
      PROVE  StillValid(admin[b].todo[i], cat', raced')
  <2> DEFINE v == admin[b].todo[i]
  <2>1. CallOK(admin[b]) /\ WriteOK(v) /\ StillValid(v, cat, raced) /\ RouteStays(v)
    BY DEF CatalogueInv, CallsOK, CallOK, RoutesStay
  <2>2. ~ (v.do \in Creates /\ w.do \in Creates /\ v.id = w.id)
    <3> SUFFICES ASSUME v.do \in Creates, w.do \in Creates PROVE v.id # w.id
      OBVIOUS
    <3>1. i = 1 /\ admin[b].todo # <<>>
      BY <2>1 DEF CallOK
    <3>2. Busy(b) /\ v = Current(b)
      BY <3>1, CurrentFacts DEF Busy
    <3> QED BY <3>2 DEF CatalogueInv, NewIds
  <2> QED BY <2>1, <2>2, StaysValid
<1>2. ASSUME NEW i \in DOMAIN admin[a].todo, admin[a].todo[i].do \notin Creates
      PROVE  StillValid(admin[a].todo[i], cat', raced')
  <2>1. WriteOK(admin[a].todo[i]) /\ StillValid(admin[a].todo[i], cat, raced) /\ RouteStays(admin[a].todo[i])
    BY DEF CatalogueInv, CallsOK, CallOK, RoutesStay
  <2> QED BY <1>2, <2>1, StaysValid
<1> QED BY <1>1, <1>2

\* Call a goes to a record r that is in order and creates nothing that another
\* call creates.
LEMMA CallsFrame ==
  ASSUME CatalogueInv, NEW a \in Admins, NEW r, OneCall(a, r), CallOK(r),
         \A i \in DOMAIN r.todo : StillValid(r.todo[i], cat', raced'),
         \A b \in Admins \ {a} : \A i \in DOMAIN admin[b].todo : StillValid(admin[b].todo[i], cat', raced'),
         \A b \in Admins \ {a} : (Busy(b) /\ r.todo # <<>>) =>
            ~ (Head(r.todo).do \in Creates /\ Current(b).do \in Creates /\ Current(b).id = Head(r.todo).id)
  PROVE  CallsOK' /\ NewIds'
<1>1. CallsOK'
  BY DEF CallsOK, CatalogueInv, OneCall
<1>2. NewIds'
  BY DEF NewIds, CatalogueInv, OneCall, Busy, Current
<1> QED BY <1>1, <1>2

\* The write of call a is made and the call goes on.
Moved(a) ==
  /\ Busy(a)
  /\ Current(a).do \notin {"refresh", "insert_key"}
  /\ Sound(cat', raced')
  /\ cat'.route # NoRoute
  /\ Bears(cat, cat', Current(a))
  /\ raced' \in SUBSET Providers
  /\ RoutesStay
  /\ OneCall(a, Advanced(admin[a]))
  /\ ~ missed' => ~ missed /\ FollowOn(cat, cat', Current(a))

LEMMA MovedKeeps ==
  ASSUME CatalogueInv, NEW a \in Admins, Moved(a)
  PROVE  CatalogueInv'
<1> DEFINE w == Current(a)  r == Advanced(admin[a])
<1>1. CallOK(admin[a]) /\ admin[a].todo # <<>> /\ w = admin[a].todo[1]
  BY CurrentFacts DEF Moved
<1>2. Sound(cat', raced') /\ Bears(cat, cat', w)
  BY DEF Moved
<1>3. /\ CallOK(r)
      /\ \A i \in DOMAIN r.todo : /\ i + 1 \in DOMAIN admin[a].todo /\ r.todo[i] = admin[a].todo[i + 1]
                                  /\ r.todo[i].do \notin Creates
      /\ w.do \in {"memberships", "key_groups"} =>
            r.new = admin[a].new /\ r.todo # <<>> /\ Head(r.todo) = Refresh
  BY <1>1, AdvancedOK DEF Moved
<1>4. /\ \A b \in Admins \ {a} : \A i \in DOMAIN admin[b].todo : StillValid(admin[b].todo[i], cat', raced')
      /\ \A i \in DOMAIN admin[a].todo :
           admin[a].todo[i].do \notin Creates => StillValid(admin[a].todo[i], cat', raced')
  BY <1>2, OthersValid DEF Moved
<1>5. \A i \in DOMAIN r.todo : StillValid(r.todo[i], cat', raced')
  BY <1>3, <1>4
<1>6. r.todo # <<>> => Head(r.todo).do \notin Creates
  BY <1>3, TodoFacts
<1>7. CallsOK' /\ NewIds'
  BY <1>3, <1>4, <1>5, <1>6, CallsFrame DEF Moved
<1>8. CompatFollowsOrWaits'
  <2> SUFFICES ASSUME ~ missed', ~ \E b \in Admins : Due(b, "refresh")' /\ admin'[b].new = Nobody,
                      NEW k \in cat'.keys
               PROVE  Follows(cat', k) \/ \E b \in Admins : Due(b, "refresh")' /\ admin'[b].new = k
    BY DEF CompatFollowsOrWaits
  <2>1. ~ Due(a, "refresh") /\ \A b \in Admins \ {a} : Due(b, "refresh")' <=> Due(b, "refresh")
    BY DEF Moved, Due, Current, OneCall, Busy
  <2>2. \A j \in cat.keys : Follows(cat, j) \/ \E b \in Admins \ {a} : Due(b, "refresh") /\ admin[b].new = j
    BY <2>1 DEF CatalogueInv, CompatFollowsOrWaits, Moved, OneCall
  <2>3. w.do \in {"memberships", "key_groups"} => Due(a, "refresh")' /\ admin'[a].new = admin[a].new
    BY <1>3 DEF Moved, OneCall, Due, Busy, Refresh, Write
  <2>4. /\ w.do = "memberships" => admin[a].new = Nobody
        /\ (w.do = "key_groups" /\ admin[a].new # Nobody) => w.id = admin[a].new
    BY <1>1, CurrentFacts DEF CallOK, Moved
  <2>5. w.do # "memberships" /\ (w.do = "key_groups" => w.id = admin[a].new)
    BY <2>3, <2>4
  <2>6. CASE k \in Affected(w)
    <3>1. w.do = "key_groups" /\ k = w.id
      BY <2>5, <2>6 DEF Affected
    <3> QED BY <3>1, <2>3, <2>5
  <2>7. CASE k \notin Affected(w) /\ (k \in cat.keys => Follows(cat, k))
    BY <2>7 DEF FollowOn, Moved
  <2>8. CASE k \in cat.keys /\ ~ Follows(cat, k)
    BY <2>1, <2>2, <2>8 DEF Moved, OneCall
  <2> QED BY <2>6, <2>7, <2>8
<1> QED BY <1>2, <1>7, <1>8 DEF CatalogueInv, Moved, OneCall

\* The refresh is made; afterwards every key that follows its groups has what
\* they give, unless it was overtaken.
Refreshed(a) ==
  LET f == Found(a)
  IN  /\ f.makes \subseteq cat.keys
      /\ \A k \in Keys : f.inserts[k] \subseteq (IF k \in cat.keys THEN cat.providers ELSE {})
      /\ Done(a, refresh_compat_authorizations(cat, f))
      /\ seen'[a] = Nothing
      /\ missed' = Overtaken(a)
      /\ UNCHANGED <<raced, edits>>

LEMMA RefreshedGood ==
  ASSUME CatalogueInv, cat.route # NoRoute, NEW a \in Admins, Due(a, "refresh"), Refreshed(a)
  PROVE  CatalogueInv' /\ cat'.route # NoRoute /\ Decided
<1> DEFINE w == Current(a)  r == Advanced(admin[a])  f == Found(a)
<1>0. Busy(a) /\ w.do = "refresh"
  BY DEF Due, Current
<1>1. CallOK(admin[a]) /\ admin[a].todo # <<>> /\ w = admin[a].todo[1]
  BY <1>0, CurrentFacts
<1>2. /\ Sound(cat', raced) /\ cat'.route # NoRoute /\ Bears(cat, cat', w)
      /\ cat'.providers = cat.providers /\ cat'.keys = cat.keys
      /\ \A k \in cat'.keys : k \in Keys /\ Union(cat', k) = Union(cat, k)
      /\ \A k \in Keys : cat'.auth[k] = IF k \in f.makes /\ cat.auth[k] = "none" THEN "compat" ELSE cat.auth[k]
      /\ \A k \in Keys : /\ cat'.allowed[k] = (cat.allowed[k] \ f.deletes[k]) \cup f.inserts[k]
                         /\ cat.allowed[k] = cat.allowed[k] \cap cat'.providers
      /\ cat'.model = cat.model
  <2>1. /\ f.makes \subseteq cat.keys
        /\ \A k \in Keys : f.inserts[k] \subseteq (IF k \in cat.keys THEN cat.providers ELSE {})
        /\ cat' = refresh_compat_authorizations(cat, f)
    BY DEF Refreshed, Done
  <2>2. Sound(cat, raced)
    BY DEF CatalogueInv
  <2> HIDE DEF f, w
  <2> QED BY <2>1, <2>2, RefreshEffect
<1>3. raced' = raced /\ RoutesStay
  BY <1>2 DEF Refreshed, RoutesStay, RouteStays
<1>4. OneCall(a, r)
  BY DEF Refreshed, Done, Advanced, OneCall, CatalogueInv
<1>5. /\ CallOK(r)
      /\ \A i \in DOMAIN r.todo : /\ i + 1 \in DOMAIN admin[a].todo /\ r.todo[i] = admin[a].todo[i + 1]
                                  /\ r.todo[i].do \notin Creates
  BY <1>0, <1>1, AdvancedOK
<1>6. /\ \A b \in Admins \ {a} : \A i \in DOMAIN admin[b].todo : StillValid(admin[b].todo[i], cat', raced')
      /\ \A i \in DOMAIN admin[a].todo :
           admin[a].todo[i].do \notin Creates => StillValid(admin[a].todo[i], cat', raced')
  BY <1>0, <1>2, <1>3, OthersValid
<1>7. \A i \in DOMAIN r.todo : StillValid(r.todo[i], cat', raced')
  BY <1>5, <1>6
<1>8. r.todo # <<>> => Head(r.todo).do \notin Creates
  BY <1>5, TodoFacts
<1>9. CallsOK' /\ NewIds'
  BY <1>4, <1>5, <1>6, <1>7, <1>8, CallsFrame
<1>10. ASSUME ~ missed', NEW k \in cat'.keys PROVE Follows(cat', k)
  <2> DEFINE new == {j \in cat.keys : cat.auth[j] = "none"}
  <2> SUFFICES ASSUME cat'.auth[k] = "compat" PROVE cat'.allowed[k] = Union(cat, k)
    BY <1>2 DEF Follows
  <2>1. f = FindsAll(w, cat)
    BY <1>10 DEF Refreshed, Overtaken
  <2>0. k \in Keys
    BY <1>2
  <2>2. /\ f.makes = new
        /\ f.deletes[k] = IF k \in Followers(cat, new) THEN cat.allowed[k] ELSE {}
        /\ f.inserts[k] = IF k \in Followers(cat, new) THEN Union(cat, k) ELSE {}
    BY <1>0, <2>0, <2>1, RefreshFinds
  <2> HIDE DEF new, f
  <2>3. k \in new \/ cat.auth[k] = "compat"
    BY <1>2, <2>0, <2>2
  <2>4. k \in Followers(cat, new)
    BY <2>0, <2>3 DEF Followers
  <2>5. f.deletes[k] = cat.allowed[k] /\ f.inserts[k] = Union(cat, k)
    BY <2>2, <2>4
  <2> QED BY <1>2, <2>0, <2>5
<1>11. CompatFollowsOrWaits'
  BY <1>10 DEF CompatFollowsOrWaits
<1>12. Decided
  <2>1. ASSUME NEW k \in cat.keys \cap cat'.keys, cat.auth[k] = "direct", k \notin Touches(a)
        PROVE  cat'.allowed[k] = cat.allowed[k] \cap cat'.providers
    <3>1. k \in Keys
      BY <1>2
    <3>2. f.deletes[k] = {} /\ f.inserts[k] = {}
      BY <1>0, <2>1, <3>1, UntouchedKeys
    <3> HIDE DEF f
    <3> QED BY <1>2, <3>1, <3>2
  <2>2. seen'[a] = Nothing
    BY DEF Refreshed
  <2> QED BY <1>2, <2>1, <2>2 DEF Decided
<1> QED BY <1>2, <1>3, <1>4, <1>9, <1>11, <1>12 DEF CatalogueInv, OneCall

LEMMA RefreshKeeps ==
  ASSUME CatalogueInv, cat.route # NoRoute, NEW a \in Admins, RefreshAll(a)
  PROVE  (CatalogueInv' /\ cat'.route # NoRoute /\ Decided) \/ Refused(a)
<1> DEFINE f == Found(a)
           legal == /\ f.makes \subseteq cat.keys
                    /\ \A k \in Keys :
                         /\ f.inserts[k] \subseteq (IF k \in cat.keys THEN cat.providers ELSE {})
                         /\ f.inserts[k] \cap cat.allowed[k] \subseteq f.deletes[k]
<1>0. Due(a, "refresh")
  BY DEF RefreshAll, Commit
<1>1. CASE ~ legal
  BY <1>1 DEF RefreshAll, Commit
<1>2. CASE legal
  <2>1. /\ Done(a, refresh_compat_authorizations(cat, f)) /\ seen' = Rewritten(a, f)
        /\ missed' = Overtaken(a) /\ UNCHANGED <<raced, edits>>
    BY <1>2 DEF RefreshAll, Commit
  <2>2. seen'[a] = Nothing
    BY <2>1 DEF Rewritten
  <2>3. Refreshed(a)
    BY <1>2, <2>1, <2>2 DEF Refreshed
  <2> QED BY <1>0, <2>3, RefreshedGood
<1> QED BY <1>1, <1>2

SetCall(r, t, k) == [[r EXCEPT !.todo = t] EXCEPT !.new = k]

LEMMA SetCallFields ==
  ASSUME NEW r, NEW t, NEW k, r = [at |-> r.at, todo |-> r.todo, new |-> r.new]
  PROVE  SetCall(r, t, k) = [at |-> r.at, todo |-> t, new |-> k]
<1>1. PICK x, y, z : r = [at |-> x, todo |-> y, new |-> z]
  OBVIOUS
<1>2. [[at |-> x, todo |-> y, new |-> z] EXCEPT !.todo = t] = [at |-> x, todo |-> t, new |-> z]
  OBVIOUS
<1>3. [r EXCEPT !.todo = t] = [at |-> x, todo |-> t, new |-> z]
  BY <1>1, <1>2
<1>4. [[at |-> x, todo |-> t, new |-> z] EXCEPT !.new = k] = [at |-> x, todo |-> t, new |-> k]
  OBVIOUS
<1>5. r.at = x
  BY <1>1
<1> QED BY <1>3, <1>4, <1>5 DEF SetCall

LEMMA InsertKeyKeeps ==
  ASSUME CatalogueInv, cat.route # NoRoute, NEW a \in Admins, insert_api_key(a)
  PROVE  CatalogueInv' /\ cat'.route # NoRoute /\ Decides(cat, cat', Current(a)) /\ Busy(a)
<1> DEFINE w == Current(a)
           r == [at |-> admin[a].at, todo |-> Tail(admin[a].todo), new |-> w.id]
<1>0. Busy(a) /\ w.do = "insert_key"
  BY DEF insert_api_key, Due, Current
<1>1. CallOK(admin[a]) /\ admin[a].todo # <<>> /\ w = admin[a].todo[1] /\ AtWrite(a)
  BY <1>0, CurrentFacts DEF AtWrite, CatalogueInv
<1>2. Effect(cat, cat', w, raced) /\ cat'.providers = cat.providers
  BY <1>1, InsertKeyEffect
<1>3. raced' = raced /\ missed' = missed /\ RoutesStay
  BY <1>2 DEF insert_api_key, RoutesStay, RouteStays
<1>4. OneCall(a, r)
  <2>1. admin[a] = [at |-> admin[a].at, todo |-> admin[a].todo, new |-> admin[a].new]
    BY <1>1 DEF CallOK
  <2> DEFINE T == Tail(admin[a].todo)
             m == [admin EXCEPT ![a] = [admin[a] EXCEPT !.todo = T]]
  <2>2. admin' = [m EXCEPT ![a] = [m[a] EXCEPT !.new = w.id]]
    BY DEF insert_api_key
  <2>3. /\ m = [b \in Admins |-> m[b]] /\ m[a] = [admin[a] EXCEPT !.todo = T]
        /\ \A b \in Admins \ {a} : m[b] = admin[b]
    BY DEF CatalogueInv
  <2>4. SetCall(admin[a], T, w.id) = r
    BY <2>1, SetCallFields
  <2>5. [m[a] EXCEPT !.new = w.id] = r
    BY <2>3, <2>4 DEF SetCall
  <2> HIDE DEF m, T, r
  <2> QED BY <2>2, <2>3, <2>5 DEF OneCall
<1>5. CASE Len(admin[a].todo) = 1
  BY <1>0, <1>1, <1>5, TodoFacts DEF CallOK
<1>6. CASE Len(admin[a].todo) # 1
  <2>1. /\ CallOK(r) /\ r.todo # <<>> /\ r.new = w.id
        /\ \A i \in DOMAIN r.todo : /\ i + 1 \in DOMAIN admin[a].todo /\ r.todo[i] = admin[a].todo[i + 1]
                                    /\ r.todo[i].do \notin Creates
        /\ Head(r.todo) = admin[a].todo[2]
    BY <1>0, <1>1, <1>6, TailCallOK
  <2>2. /\ \A b \in Admins \ {a} : \A i \in DOMAIN admin[b].todo : StillValid(admin[b].todo[i], cat', raced')
        /\ \A i \in DOMAIN admin[a].todo :
             admin[a].todo[i].do \notin Creates => StillValid(admin[a].todo[i], cat', raced')
    BY <1>0, <1>2, <1>3, OthersValid DEF Effect
  <2> HIDE DEF r
  <2>3. \A i \in DOMAIN r.todo : StillValid(r.todo[i], cat', raced')
    BY <2>1, <2>2
  <2>4. Head(r.todo).do \notin Creates
    BY <2>1, TodoFacts
  <2>5. CallsOK' /\ NewIds'
    BY <1>4, <2>1, <2>2, <2>3, <2>4, CallsFrame
  <2>6. CompatFollowsOrWaits'
    <3> SUFFICES ASSUME ~ missed', ~ \E b \in Admins : Due(b, "refresh")' /\ admin'[b].new = Nobody,
                        NEW k \in cat'.keys
                 PROVE  Follows(cat', k) \/ \E b \in Admins : Due(b, "refresh")' /\ admin'[b].new = k
      BY DEF CompatFollowsOrWaits
    <3>1. ~ Due(a, "refresh") /\ \A b \in Admins \ {a} : Due(b, "refresh")' <=> Due(b, "refresh")
      BY <1>0, <1>4 DEF Due, Current, OneCall, Busy
    <3>2. \A j \in cat.keys : Follows(cat, j) \/ \E b \in Admins \ {a} : Due(b, "refresh") /\ admin[b].new = j
      BY <1>3, <1>4, <3>1 DEF CatalogueInv, CompatFollowsOrWaits, OneCall
    <3>3. Affected(w) = {}
      BY <1>0 DEF Affected
    <3>4. CASE k \in cat.keys => Follows(cat, k)
      BY <1>2, <3>3, <3>4 DEF FollowOn, Effect
    <3>5. CASE k \in cat.keys /\ ~ Follows(cat, k)
      BY <1>4, <3>1, <3>2, <3>5 DEF OneCall
    <3> QED BY <3>4, <3>5
  <2> QED BY <1>0, <1>2, <1>3, <1>4, <2>5, <2>6 DEF CatalogueInv, OneCall, Effect
<1> QED BY <1>5, <1>6

\* What a write leaves: the invariant, a default route, and what the
\* administrator decided.
GoodWrite == CatalogueInv' /\ cat'.route # NoRoute /\ (Decided \/ cat' = cat)

LEMMA MovedGood ==
  ASSUME CatalogueInv, NEW a \in Admins, Moved(a), Decided
  PROVE  GoodWrite
<1>1. CatalogueInv'
  BY MovedKeeps
<1> QED BY <1>1 DEF GoodWrite, Moved

LEMMA CommittedGood ==
  ASSUME CatalogueInv, NEW a \in Admins, Committed(a)
  PROVE  GoodWrite
<1>1. OneCall(a, Advanced(admin[a]))
  BY DEF Committed, OneCall, Advanced, CatalogueInv
<1>2. RoutesStay /\ raced' = raced
  BY DEF Committed, RoutesStay, RouteStays
<1>3. Moved(a)
  BY <1>1, <1>2 DEF Moved, Committed, CatalogueInv
<1> QED BY <1>3, MovedGood DEF Committed

LEMMA SuccessGood ==
  ASSUME CatalogueInv, NEW a \in Admins, Success(a)
  PROVE  GoodWrite
BY SuccessCommitted, CommittedGood

LEMMA DeleteProviderGood ==
  ASSUME CatalogueInv, cat.route # NoRoute, NEW a \in Admins, DeleteProvider(a)
  PROVE  GoodWrite
<1> DEFINE w == Current(a)
<1>0. Busy(a) /\ w.do = "delete_provider"
  BY DEF DeleteProvider, Due, Current
<1>1. w.id \in Providers
  BY <1>0, CurrentFacts DEF WriteOK
<1>2. /\ cat' = delete_upstream_provider(cat, w.id)
      /\ raced' = raced \cup {q \in {w.id} : \E b \in Admins : \E v \in Pending(b) : Routes(v, q)}
      /\ missed' = missed
  BY DEF DeleteProvider, Done
<1>3. Effect(cat, cat', w, raced') /\ cat'.providers = cat.providers \ {w.id}
  BY <1>1, <1>2, DeleteProviderEffect DEF CatalogueInv
<1>4. raced' \in SUBSET Providers
  BY <1>1, <1>2 DEF CatalogueInv
<1>5. RoutesStay
  <2> SUFFICES ASSUME NEW b \in Admins, NEW i \in DOMAIN admin[b].todo PROVE RouteStays(admin[b].todo[i])
    BY DEF RoutesStay
  <2>1. admin[b].todo[i] \in Pending(b)
    BY DEF Pending
  <2>2. \A q : (q = w.id /\ Routes(admin[b].todo[i], q)) => q \in raced'
    BY <1>2, <2>1
  <2> QED BY <1>2, <1>3, <2>2 DEF RouteStays, Routes
<1>6. OneCall(a, Advanced(admin[a]))
  BY DEF DeleteProvider, Done, OneCall, Advanced, CatalogueInv
<1>7. Moved(a)
  BY <1>0, <1>2, <1>3, <1>4, <1>5, <1>6 DEF Moved, Effect
<1>8. Decided
  BY <1>0, <1>3, DecidesDecided DEF Effect
<1> QED BY <1>7, <1>8, MovedGood

\* The call goes to Idle or to another write; the tables and the refreshes
\* that are due stay.
LEMMA SameTables ==
  ASSUME CatalogueInv, NEW a \in Admins, NEW r, OneCall(a, r), CallOK(r), cat' = cat, raced' = raced,
         \A i \in DOMAIN r.todo : StillValid(r.todo[i], cat, raced),
         \A b \in Admins \ {a} : (Busy(b) /\ r.todo # <<>>) =>
            ~ (Head(r.todo).do \in Creates /\ Current(b).do \in Creates /\ Current(b).id = Head(r.todo).id),
         ~ missed' => ~ missed /\ ~ Due(a, "refresh"),
         r.todo # <<>> => Head(r.todo).do # "refresh"
  PROVE  CatalogueInv'
<1>1. \A b \in Admins \ {a} : \A i \in DOMAIN admin[b].todo : StillValid(admin[b].todo[i], cat', raced')
  BY DEF CatalogueInv, CallsOK
<1>2. \A i \in DOMAIN r.todo : StillValid(r.todo[i], cat', raced')
  OBVIOUS
<1>3. CallsOK' /\ NewIds'
  BY <1>1, <1>2, CallsFrame
<1>4. CompatFollowsOrWaits'
  <2> SUFFICES ASSUME ~ missed', ~ \E b \in Admins : Due(b, "refresh")' /\ admin'[b].new = Nobody,
                      NEW k \in cat'.keys
               PROVE  Follows(cat', k) \/ \E b \in Admins : Due(b, "refresh")' /\ admin'[b].new = k
    BY DEF CompatFollowsOrWaits
  <2>1. /\ ~ Due(a, "refresh") /\ ~ missed
        /\ \A b \in Admins \ {a} : (Due(b, "refresh")' <=> Due(b, "refresh")) /\ admin'[b].new = admin[b].new
    BY DEF Due, OneCall, Busy
  <2>2. Follows(cat, k) \/ \E b \in Admins \ {a} : Due(b, "refresh") /\ admin[b].new = k
    BY <2>1 DEF CatalogueInv, CompatFollowsOrWaits
  <2> QED BY <2>1, <2>2
<1> QED BY <1>3, <1>4 DEF CatalogueInv, OneCall

LEMMA RefusedGood ==
  ASSUME CatalogueInv, cat.route # NoRoute, NEW a \in Admins, Busy(a), Refused(a)
  PROVE  GoodWrite
<1>1. CASE cat' = cat /\ Stops(a)
  <2>1. OneCall(a, Idle)
    BY <1>1 DEF Stops, OneCall, CatalogueInv
  <2>2. CatalogueInv'
    BY <1>1, <2>1, IdleCall, SameTables DEF Stops
  <2> QED BY <1>1, <2>2 DEF GoodWrite
<1>2. CASE /\ admin[a].new # Nobody
           /\ cat' = delete_api_key(cat, admin[a].new)
           /\ admin' = [admin EXCEPT ![a] = Idle]
           /\ UNCHANGED <<missed, raced, edits>>
  <2> DEFINE w == Write("delete_key", admin[a].new, {})
  <2>1. admin[a].new \in Keys
    BY <1>2, CurrentFacts DEF CallOK
  <2>2. /\ Effect(cat, cat', w, raced) /\ cat'.providers = cat.providers
        /\ cat'.keys = cat.keys \ {admin[a].new}
    BY <1>2, <2>1, KeyGone DEF CatalogueInv
  <2>3. OneCall(a, Idle)
    BY <1>2 DEF OneCall, CatalogueInv
  <2>4. RoutesStay
    BY <1>2, <2>2 DEF RoutesStay, RouteStays
  <2>5. w.do = "delete_key" /\ Affected(w) = {}
    BY DEF Write, Affected
  <2>6. \A b \in Admins \ {a} : \A i \in DOMAIN admin[b].todo : StillValid(admin[b].todo[i], cat', raced')
    BY <2>2, <2>4, <2>5, OthersValid DEF Effect, Creates
  <2>7. CallsOK' /\ NewIds'
    BY <2>3, <2>6, IdleCall, CallsFrame
  <2>8. CompatFollowsOrWaits'
    <3> SUFFICES ASSUME ~ missed', ~ \E b \in Admins : Due(b, "refresh")' /\ admin'[b].new = Nobody,
                        NEW k \in cat'.keys
                 PROVE  Follows(cat', k) \/ \E b \in Admins : Due(b, "refresh")' /\ admin'[b].new = k
      BY DEF CompatFollowsOrWaits
    <3>1. \A b \in Admins \ {a} : (Due(b, "refresh")' <=> Due(b, "refresh")) /\ admin'[b].new = admin[b].new
      BY <2>3 DEF Due, OneCall, Busy
    <3>2. k # admin[a].new /\ k \in cat.keys
      BY <2>2
    <3>3. Follows(cat, k) \/ \E b \in Admins \ {a} : Due(b, "refresh") /\ admin[b].new = k
      BY <1>2, <3>1, <3>2 DEF CatalogueInv, CompatFollowsOrWaits
    <3>4. CASE Follows(cat, k)
      BY <2>2, <2>5, <3>4 DEF Effect, FollowOn
    <3>5. CASE \E b \in Admins \ {a} : Due(b, "refresh") /\ admin[b].new = k
      BY <3>1, <3>5
    <3> QED BY <3>3, <3>4, <3>5
  <2>9. Decided
    BY <2>2, <2>5 DEF Effect, Decides, Decided
  <2> QED BY <1>2, <2>2, <2>3, <2>7, <2>8, <2>9 DEF GoodWrite, CatalogueInv, OneCall, Effect
<1> QED BY <1>1, <1>2 DEF Refused

LEMMA OneWriteCall ==
  ASSUME NEW g, NEW k \in Keys \cup {Nobody}, NEW w, WriteOK(w),
         w.do \notin {"memberships", "key_groups", "insert_key"}
  PROVE  LET r == [at |-> g, todo |-> <<w>>, new |-> k]
         IN  CallOK(r) /\ DOMAIN r.todo = {1} /\ r.todo[1] = w /\ Head(r.todo) = w /\ r.todo # <<>>
<1> DEFINE r == [at |-> g, todo |-> <<w>>, new |-> k]
<1>1. r.todo = <<w>> /\ r.new = k
  OBVIOUS
<1>2. DOMAIN r.todo = {1} /\ r.todo[1] = w /\ Head(r.todo) = w /\ r.todo # <<>>
  BY <1>1
<1>3. r.todo \in Seq({w})
  BY <1>1
<1>4. r.todo \in Seq(Range(r.todo))
  BY <1>3, OwnElements
<1>5. r = [at |-> r.at, todo |-> r.todo, new |-> r.new]
  OBVIOUS
<1> HIDE DEF r
<1>6. CallOK(r)
  BY <1>1, <1>2, <1>4, <1>5 DEF CallOK
<1> QED BY <1>2, <1>6 DEF r

LEMMA AdaptGood ==
  ASSUME CatalogueInv, cat.route # NoRoute, NEW a \in Admins, adapt_legacy_route(a)
  PROVE  GoodWrite
<1> DEFINE w == Current(a)
<1>0. Busy(a) /\ w.do = "adapt"
  BY DEF adapt_legacy_route, Due, Current
<1>1. AtWrite(a) /\ CallOK(admin[a]) /\ w.arg \in SUBSET Providers
  BY <1>0, CurrentFacts DEF AtWrite, CatalogueInv, WriteOK
<1>2. CASE w.arg = {}
  BY <1>1, <1>2, AdaptEffect, SuccessGood
<1>3. CASE w.arg # {}
  <2> DEFINE v == Write("save_route", w.id, cat.route \cap w.arg)
             r == [at |-> admin[a].at, todo |-> <<v>>, new |-> admin[a].new]
  <2>1. cat' = cat /\ missed' = missed /\ raced' = raced
        /\ admin' = [admin EXCEPT ![a].todo = <<v>>]
    BY <1>3 DEF adapt_legacy_route
  <2>2. v.do = "save_route" /\ v.id = w.id /\ v.arg = cat.route \cap w.arg /\ v = Write(v.do, v.id, v.arg)
    BY DEF Write
  <2>3. cat.route \in SUBSET Providers /\ cat.route \subseteq cat.providers \cup raced
    BY <1>1, AtWriteFacts
  <2> HIDE DEF v
  <2>4. WriteOK(v)
    <3>1. v.arg \in SUBSET Providers /\ v.arg \in Policies
      BY <2>2, <2>3 DEF Policies
    <3> QED BY <2>2, <3>1 DEF WriteOK
  <2>5. StillValid(v, cat, raced)
    BY <2>2, <2>3 DEF StillValid, Creates
  <2>6. admin[a].new \in Keys \cup {Nobody}
        /\ admin[a] = [at |-> admin[a].at, todo |-> admin[a].todo, new |-> admin[a].new]
    BY <1>1 DEF CallOK
  <2>7. CallOK(r) /\ DOMAIN r.todo = {1} /\ r.todo[1] = v /\ Head(r.todo) = v /\ r.todo # <<>>
    BY <2>2, <2>4, <2>6, OneWriteCall
  <2>8. OneCall(a, r)
    <3> DEFINE T == <<v>>
    <3>1. [admin[a] EXCEPT !.todo = T] = r
      <4>1. PICK x, y, z : admin[a] = [at |-> x, todo |-> y, new |-> z]
        BY <2>6
      <4>2. [[at |-> x, todo |-> y, new |-> z] EXCEPT !.todo = T] = [at |-> x, todo |-> T, new |-> z]
        OBVIOUS
      <4>3. admin[a].at = x /\ admin[a].new = z
        BY <4>1
      <4>4. [admin[a] EXCEPT !.todo = T] = [at |-> x, todo |-> T, new |-> z]
        BY <4>1, <4>2
      <4> QED BY <4>3, <4>4
    <3>2. admin' = [admin EXCEPT ![a] = [admin[a] EXCEPT !.todo = T]]
      BY <2>1
    <3> HIDE DEF r, T
    <3> QED BY <3>1, <3>2 DEF OneCall, CatalogueInv
  <2> HIDE DEF r
  <2>9. ~ Due(a, "refresh")
    BY <1>0 DEF Due, Current
  <2>10. CatalogueInv'
    BY <2>1, <2>2, <2>5, <2>7, <2>8, <2>9, SameTables DEF Creates
  <2> QED BY <2>1, <2>10 DEF GoodWrite
<1> QED BY <1>2, <1>3

\* Every write of a call that serves leaves the catalogue in order.
LEMMA MakeWriteGood ==
  ASSUME CatalogueInv, cat.route # NoRoute, NEW a \in Admins, MakeWrite(a)
  PROVE  GoodWrite
<1>0. Busy(a)
  BY DEF MakeWrite, Bundle, update_upstream_provider, Memberships, DefaultTarget, RefreshAll, DeleteProvider,
         insert_api_key, KeyGroups, Allowed, KeyRow, DeleteKey, insert_provider_group, DeleteGroup,
         save_route_policy, ModelRoute, adapt_legacy_route, ProviderModels, update_provider_model, DeleteModel,
         KeyModels, upsert_gateway_model_policy, insert_model_alias, DeleteAlias, insert_model_alias_target,
         delete_model_alias_target, insert_child, update_child_row, DeleteChild, Reorder, Make, Commit, Due
<1>1. AtWrite(a)
  BY <1>0, CurrentFacts DEF AtWrite, CatalogueInv
<1>2. CASE RefreshAll(a)
  BY <1>0, <1>2, RefreshKeeps, RefusedGood DEF GoodWrite
<1>3. CASE insert_api_key(a)
  BY <1>3, InsertKeyKeeps, DecidesDecided DEF GoodWrite
<1>4. CASE DeleteProvider(a)
  BY <1>4, DeleteProviderGood
<1>5. CASE adapt_legacy_route(a)
  BY <1>5, AdaptGood
<1>6. CASE Success(a) \/ Committed(a) \/ Refused(a)
  BY <1>0, <1>6, SuccessGood, CommittedGood, RefusedGood
<1>7. CASE Bundle(a) \/ update_upstream_provider(a) \/ Memberships(a) \/ DefaultTarget(a)
  BY <1>1, <1>6, <1>7, BundleEffect, ProviderRowEffect, MembershipsEffect, DefaultTargetEffect
<1>8. CASE KeyGroups(a) \/ Allowed(a) \/ KeyRow(a) \/ DeleteKey(a) \/ insert_provider_group(a) \/ DeleteGroup(a)
  BY <1>1, <1>6, <1>8, KeyGroupsEffect, AllowedEffect, KeyRowEffect, DeleteKeyEffect, InsertGroupEffect,
     DeleteGroupEffect
<1>9. CASE save_route_policy(a) \/ ModelRoute(a)
  BY <1>1, <1>6, <1>9, RoutePolicyEffect, ModelRouteEffect
<1>10. CASE ProviderModels(a) \/ update_provider_model(a) \/ DeleteModel(a) \/ KeyModels(a)
            \/ upsert_gateway_model_policy(a)
  BY <1>1, <1>6, <1>10, ProviderModelsEffect, ModelSwitchEffect, DeleteModelEffect, KeyModelsEffect, GatewayEffect
<1>11. CASE insert_model_alias(a) \/ DeleteAlias(a) \/ insert_model_alias_target(a) \/ delete_model_alias_target(a)
  BY <1>1, <1>6, <1>11, InsertAliasEffect, DeleteAliasEffect, InsertTargetEffect, DeleteTargetEffect
<1>12. CASE insert_child(a) \/ update_child_row(a) \/ DeleteChild(a) \/ Reorder(a)
  BY <1>1, <1>6, <1>12, InsertChildEffect, ChildRowEffect, DeleteChildEffect, ReorderEffect
<1> QED BY <1>2, <1>3, <1>4, <1>5, <1>7, <1>8, <1>9, <1>10, <1>11, <1>12 DEF MakeWrite

-----------------------------------------------------------------------------
(* A call begins: what it read is valid when its writes are queued.        *)

LEMMA BeginGood ==
  ASSUME CatalogueInv, NEW a \in Admins, NEW g, NEW todo, NEW r, Begin(a, g, todo),
         r = [at |-> g, todo |-> todo, new |-> Nobody], CallOK(r), todo # <<>>,
         \A i \in DOMAIN todo : StillValid(todo[i], cat, raced),
         Head(todo).do # "refresh", Head(todo).do \in Creates => Head(todo).id \notin Creating
  PROVE  CatalogueInv' /\ cat' = cat
<1>1. cat' = cat /\ raced' = raced /\ missed' = missed /\ ~ Due(a, "refresh")
  BY DEF Begin, Due
<1>2. OneCall(a, r)
  BY DEF Begin, OneCall, CatalogueInv
<1>3. r.todo = todo
  OBVIOUS
<1>4. ASSUME NEW b \in Admins, Busy(b) PROVE Current(b).id \in Creating
  BY <1>4, CurrentFacts DEF Creating, Pending
<1>5. CatalogueInv'
  BY <1>1, <1>2, <1>3, <1>4, SameTables
<1> QED BY <1>1, <1>5

LEMMA BeginOne ==
  ASSUME CatalogueInv, NEW a \in Admins, NEW g, NEW w, Begin(a, g, <<w>>), WriteOK(w), StillValid(w, cat, raced),
         w.do \notin {"memberships", "key_groups", "insert_key", "refresh"},
         w.do \in Creates => w.id \notin Creating
  PROVE  CatalogueInv' /\ cat' = cat
<1> DEFINE r == [at |-> g, todo |-> <<w>>, new |-> Nobody]
<1>1. CallOK(r)
  BY OneWriteCall
<1>2. <<w>> # <<>> /\ Head(<<w>>) = w /\ \A i \in DOMAIN <<w>> : <<w>>[i] = w
  OBVIOUS
<1> HIDE DEF r
<1> QED BY <1>1, <1>2, BeginGood DEF r

LEMMA BeginTwo ==
  ASSUME CatalogueInv, NEW a \in Admins, NEW g, NEW v, NEW w, Begin(a, g, <<v, w>>),
         WriteOK(v), WriteOK(w), StillValid(v, cat, raced), StillValid(w, cat, raced),
         v.do \notin Creates \cup {"memberships", "key_groups", "refresh"},
         w.do \notin Creates \cup {"memberships", "key_groups"}
  PROVE  CatalogueInv' /\ cat' = cat
<1> DEFINE T == <<v, w>>  r == [at |-> g, todo |-> T, new |-> Nobody]
<1>1. /\ DOMAIN T = {1, 2} /\ T[1] = v /\ T[2] = w /\ T # <<>> /\ Head(T) = v
      /\ T \in Seq({v, w})
  OBVIOUS
<1>2. r.todo = T /\ r.new = Nobody /\ r = [at |-> r.at, todo |-> r.todo, new |-> r.new]
  OBVIOUS
<1> HIDE DEF T
<1>3. r.todo \in Seq(Range(r.todo))
  BY <1>1, <1>2, OwnElements
<1> HIDE DEF r
<1>4. CallOK(r)
  BY <1>1, <1>2, <1>3 DEF CallOK, Creates
<1> QED BY <1>1, <1>2, <1>4, BeginGood DEF r, T

LEMMA RefreshWrite == WriteOK(Refresh) /\ Refresh.do = "refresh" /\ StillValid(Refresh, cat, raced)
BY DEF Refresh, Write, WriteOK, StillValid, Creates

LEMMA BeginThree ==
  ASSUME CatalogueInv, NEW a \in Admins, NEW g, NEW v, NEW w, Begin(a, g, <<v, w, Refresh>>),
         WriteOK(v), WriteOK(w), StillValid(v, cat, raced), StillValid(w, cat, raced),
         v.do \notin {"memberships", "key_groups", "refresh"}, w.do \notin Creates,
         v.do \in Creates => v.id \notin Creating,
         v.do = "insert_key" => w.do = "key_groups" /\ w.id = v.id
  PROVE  CatalogueInv' /\ cat' = cat
<1> DEFINE T == <<v, w, Refresh>>  r == [at |-> g, todo |-> T, new |-> Nobody]
<1>1. /\ DOMAIN T = {1, 2, 3} /\ T[1] = v /\ T[2] = w /\ T[3] = Refresh /\ T # <<>> /\ Head(T) = v
      /\ T \in Seq({v, w, Refresh})
  OBVIOUS
<1>2. r.todo = T /\ r.new = Nobody /\ r = [at |-> r.at, todo |-> r.todo, new |-> r.new]
  OBVIOUS
<1> HIDE DEF T
<1>3. r.todo \in Seq(Range(r.todo))
  BY <1>1, <1>2, OwnElements
<1> HIDE DEF r
<1>4. CallOK(r)
  BY <1>1, <1>2, <1>3, RefreshWrite DEF CallOK, Creates
<1>5. \A i \in DOMAIN T : StillValid(T[i], cat, raced)
  BY <1>1, RefreshWrite
<1> QED BY <1>1, <1>2, <1>4, <1>5, BeginGood DEF r, T

LEMMA BeginFour ==
  ASSUME CatalogueInv, NEW a \in Admins, NEW g, NEW v, NEW w, NEW u, Begin(a, g, <<v, w, Refresh, u>>),
         WriteOK(v), WriteOK(w), WriteOK(u),
         StillValid(v, cat, raced), StillValid(w, cat, raced), StillValid(u, cat, raced),
         v.do = "insert_key", w.do = "key_groups", w.id = v.id, u.do = "allowed", v.id \notin Creating
  PROVE  CatalogueInv' /\ cat' = cat
<1> DEFINE T == <<v, w, Refresh, u>>  r == [at |-> g, todo |-> T, new |-> Nobody]
<1>1. /\ DOMAIN T = {1, 2, 3, 4} /\ T[1] = v /\ T[2] = w /\ T[3] = Refresh /\ T[4] = u
      /\ T # <<>> /\ Head(T) = v /\ T \in Seq({v, w, Refresh, u})
  OBVIOUS
<1>2. r.todo = T /\ r.new = Nobody /\ r = [at |-> r.at, todo |-> r.todo, new |-> r.new]
  OBVIOUS
<1> HIDE DEF T
<1>3. r.todo \in Seq(Range(r.todo))
  BY <1>1, <1>2, OwnElements
<1> HIDE DEF r
<1>4. CallOK(r)
  BY <1>1, <1>2, <1>3, RefreshWrite DEF CallOK, Creates
<1>5. \A i \in DOMAIN T : StillValid(T[i], cat, raced)
  BY <1>1, RefreshWrite
<1> QED BY <1>1, <1>2, <1>4, <1>5, BeginGood DEF r, T

LEMMA WriteFields ==
  ASSUME NEW do, NEW id, NEW arg
  PROVE  LET w == Write(do, id, arg)
         IN  w.do = do /\ w.id = id /\ w.arg = arg /\ w = Write(w.do, w.id, w.arg)
BY DEF Write

\* One write whose validity no other write can end.
LEMMA PlainCall ==
  ASSUME CatalogueInv, NEW a \in Admins, NEW g, NEW do, NEW id, NEW arg, Begin(a, g, <<Write(do, id, arg)>>),
         WriteOK(Write(do, id, arg)),
         do \in {"provider", "delete_provider", "key", "delete_key", "delete_group", "models", "enabled", "alias",
                 "delete_model", "key_models", "gateway", "insert_alias", "delete_alias", "insert_target",
                 "delete_target", "delete_child", "reorder"}
  PROVE  CatalogueInv' /\ cat' = cat
<1> DEFINE w == Write(do, id, arg)
<1>1. w.do = do
  BY WriteFields
<1> HIDE DEF w
<1>2. StillValid(w, cat, raced)
  BY <1>1 DEF StillValid, Creates
<1> QED BY <1>1, <1>2, BeginOne DEF w, Creates

LEMMA CatFacts ==
  ASSUME CatalogueInv
  PROVE  /\ cat \in CatalogueRows /\ Rooted(cat) /\ Refers(cat, raced)
         /\ ValidGroups \subseteq SUBSET Groups
         /\ ValidAllowed \subseteq SUBSET Providers
         /\ cat.providers \subseteq Providers /\ cat.keys \subseteq Keys
BY DEF CatalogueInv, Sound, CatalogueRows, ValidGroups, ValidAllowed

LEMMA ProviderCalls ==
  ASSUME CatalogueInv, NEW a \in Admins, NEW g,
         create_provider(a, g) \/ update_provider(a, g) \/ delete_provider(a, g)
  PROVE  CatalogueInv' /\ cat' = cat
<1>1. CASE create_provider(a, g)
  <2>1. PICK p \in Providers \ (cat.born \cup Creating), G \in ValidGroups : Begin(a, g, <<Write("bundle", p, G)>>)
    BY <1>1 DEF create_provider
  <2> DEFINE w == Write("bundle", p, G)
  <2>2. w.do = "bundle" /\ w.id = p /\ w.arg = G /\ w = Write(w.do, w.id, w.arg)
    BY WriteFields
  <2>3. p \in Providers /\ p \notin cat.born /\ p \notin Creating /\ G \in SUBSET Groups
    BY <2>1, CatFacts
  <2> HIDE DEF w
  <2>4. WriteOK(w) /\ StillValid(w, cat, raced)
    BY <2>2, <2>3 DEF WriteOK, StillValid
  <2> QED BY <2>1, <2>2, <2>3, <2>4, BeginOne DEF w
<1>2. CASE update_provider(a, g)
  <2>1. PICK p \in cat.providers :
          \/ \E e \in SUBSET {p} : Begin(a, g, <<Write("provider", p, e)>>)
          \/ \E G \in ValidGroups :
               Begin(a, g, <<Write("provider", p, cat.enabled \cap {p}), Write("memberships", p, G), Refresh>>)
          \/ Begin(a, g, <<Write("provider", p, cat.enabled \cap {p}), Write("route_target", p, {}), Refresh>>)
    BY <1>2 DEF update_provider
  <2>2. p \in Providers /\ p \in cat.providers
    BY CatFacts
  <2>3. ASSUME NEW e \in SUBSET {p} PROVE WriteOK(Write("provider", p, e))
    <3> DEFINE w == Write("provider", p, e)
    <3>1. w.do = "provider" /\ w.id = p /\ w.arg = e /\ w = Write(w.do, w.id, w.arg)
      BY WriteFields
    <3>2. e \in SUBSET Providers
      BY <2>2
    <3> HIDE DEF w
    <3>3. WriteOK(w)
      BY <2>2, <3>1, <3>2 DEF WriteOK
    <3> QED BY <3>3 DEF w
  <2>4. CASE \E e \in SUBSET {p} : Begin(a, g, <<Write("provider", p, e)>>)
    BY <2>3, <2>4, PlainCall
  <2> DEFINE v == Write("provider", p, cat.enabled \cap {p})
  <2>5. WriteOK(v) /\ v.do = "provider"
    BY <2>3, WriteFields
  <2>6. StillValid(v, cat, raced)
    BY <2>5 DEF StillValid, Creates
  <2> HIDE DEF v
  <2>7. ASSUME NEW G \in ValidGroups, Begin(a, g, <<v, Write("memberships", p, G), Refresh>>)
        PROVE  CatalogueInv' /\ cat' = cat
    <3> DEFINE w == Write("memberships", p, G)
    <3>1. w.do = "memberships" /\ w.id = p /\ w.arg = G /\ w = Write(w.do, w.id, w.arg)
      BY WriteFields
    <3>2. G \in SUBSET Groups
      BY CatFacts
    <3> HIDE DEF w
    <3>3. WriteOK(w) /\ StillValid(w, cat, raced)
      BY <2>2, <3>1, <3>2 DEF WriteOK, StillValid, Creates
    <3> QED BY <2>5, <2>6, <2>7, <3>1, <3>3, BeginThree DEF w, Creates
  <2>8. ASSUME Begin(a, g, <<v, Write("route_target", p, {}), Refresh>>)
        PROVE  CatalogueInv' /\ cat' = cat
    <3> DEFINE w == Write("route_target", p, {})
    <3>1. w.do = "route_target" /\ w.id = p /\ w = Write(w.do, w.id, w.arg)
      BY WriteFields
    <3> HIDE DEF w
    <3>3. WriteOK(w) /\ StillValid(w, cat, raced)
      BY <2>2, <3>1 DEF WriteOK, StillValid, Creates
    <3> QED BY <2>5, <2>6, <2>8, <3>1, <3>3, BeginThree DEF w, Creates
  <2> QED BY <2>1, <2>4, <2>7, <2>8 DEF v
<1>3. CASE delete_provider(a, g)
  <2>1. PICK p \in cat.providers : Begin(a, g, <<Write("delete_provider", p, {})>>)
    BY <1>3 DEF delete_provider
  <2>2. p \in Providers
    BY CatFacts
  <2>3. WriteOK(Write("delete_provider", p, {}))
    BY <2>2 DEF WriteOK, Write
  <2> QED BY <2>1, <2>3, PlainCall
<1> QED BY <1>1, <1>2, <1>3

LEMMA KeyCalls ==
  ASSUME CatalogueInv, NEW a \in Admins, NEW g,
         create_api_key(a, g) \/ update_api_key(a, g) \/ remove_api_key(a, g)
  PROVE  CatalogueInv' /\ cat' = cat
<1> USE WriteFields
<1>0. ASSUME NEW k \in Keys, NEW G \in SUBSET Groups
      PROVE  LET w == Write("key_groups", k, G)
             IN  WriteOK(w) /\ StillValid(w, cat, raced) /\ w.do = "key_groups" /\ w.id = k
  BY DEF WriteOK, StillValid, Creates, Write
<1>a. ASSUME NEW k \in Keys, NEW A \in SUBSET Providers
      PROVE  LET w == Write("allowed", k, A) IN WriteOK(w) /\ StillValid(w, cat, raced) /\ w.do = "allowed"
  BY DEF WriteOK, StillValid, Creates, Write
<1>b. ASSUME NEW k \in Keys, NEW e \in SUBSET {k}
      PROVE  LET w == Write("key", k, e) IN WriteOK(w) /\ StillValid(w, cat, raced) /\ w.do = "key"
  <2>1. e \in SUBSET Keys
    OBVIOUS
  <2> QED BY <2>1 DEF WriteOK, StillValid, Creates, Write
<1>c. {DefaultGroup} \in SUBSET Groups
  BY CatalogueAssumption
<1>1. CASE create_api_key(a, g)
  <2>1. PICK k \in Keys \ (cat.born \cup Creating) :
          \/ \E G \in ValidGroups :
               Begin(a, g, <<Write("insert_key", k, {}), Write("key_groups", k, G), Refresh>>)
          \/ \E A \in ValidAllowed :
               Begin(a, g, <<Write("insert_key", k, {}), Write("key_groups", k, {DefaultGroup}), Refresh,
                             Write("allowed", k, A)>>)
    BY <1>1 DEF create_api_key
  <2> DEFINE v == Write("insert_key", k, {})
  <2>2. v.do = "insert_key" /\ v.id = k /\ k \in Keys /\ k \notin cat.born /\ k \notin Creating
        /\ v = Write(v.do, v.id, v.arg)
    BY <2>1
  <2> HIDE DEF v
  <2>3. WriteOK(v) /\ StillValid(v, cat, raced)
    BY <2>2 DEF WriteOK, StillValid
  <2>4. ASSUME NEW G \in ValidGroups, Begin(a, g, <<v, Write("key_groups", k, G), Refresh>>)
        PROVE  CatalogueInv' /\ cat' = cat
    <3> DEFINE w == Write("key_groups", k, G)
    <3>1. WriteOK(w) /\ StillValid(w, cat, raced) /\ w.do = "key_groups" /\ w.id = k
      BY <1>0, <2>2, CatFacts
    <3> HIDE DEF w
    <3> QED BY <2>2, <2>3, <2>4, <3>1, BeginThree DEF w, Creates
  <2>5. ASSUME NEW A \in ValidAllowed,
               Begin(a, g, <<v, Write("key_groups", k, {DefaultGroup}), Refresh, Write("allowed", k, A)>>)
        PROVE  CatalogueInv' /\ cat' = cat
    <3> DEFINE w == Write("key_groups", k, {DefaultGroup})  u == Write("allowed", k, A)
    <3>1. WriteOK(w) /\ StillValid(w, cat, raced) /\ w.do = "key_groups" /\ w.id = k
      BY <1>0, <1>c, <2>2
    <3>2. WriteOK(u) /\ StillValid(u, cat, raced) /\ u.do = "allowed"
      BY <1>a, <2>2, CatFacts
    <3> HIDE DEF w, u
    <3> QED BY <2>2, <2>3, <2>5, <3>1, <3>2, BeginFour DEF w, u
  <2> QED BY <2>1, <2>4, <2>5 DEF v
<1>2. CASE update_api_key(a, g)
  <2>1. PICK k \in cat.keys :
          \/ \E e \in SUBSET {k} : Begin(a, g, <<Write("key", k, e)>>)
          \/ \E G \in ValidGroups :
               Begin(a, g, <<Write("key", k, cat.live \cap {k}), Write("key_groups", k, G), Refresh>>)
          \/ \E A \in ValidAllowed : Begin(a, g, <<Write("key", k, cat.live \cap {k}), Write("allowed", k, A)>>)
    BY <1>2 DEF update_api_key
  <2>2. k \in Keys
    BY CatFacts
  <2>3. CASE \E e \in SUBSET {k} : Begin(a, g, <<Write("key", k, e)>>)
    BY <1>b, <2>2, <2>3, PlainCall
  <2> DEFINE v == Write("key", k, cat.live \cap {k})
  <2>4. WriteOK(v) /\ StillValid(v, cat, raced) /\ v.do = "key"
    BY <1>b, <2>2
  <2> HIDE DEF v
  <2>5. ASSUME NEW G \in ValidGroups, Begin(a, g, <<v, Write("key_groups", k, G), Refresh>>)
        PROVE  CatalogueInv' /\ cat' = cat
    <3> DEFINE w == Write("key_groups", k, G)
    <3>1. WriteOK(w) /\ StillValid(w, cat, raced) /\ w.do = "key_groups" /\ w.id = k
      BY <1>0, <2>2, CatFacts
    <3> HIDE DEF w
    <3> QED BY <2>4, <2>5, <3>1, BeginThree DEF w, Creates
  <2>6. ASSUME NEW A \in ValidAllowed, Begin(a, g, <<v, Write("allowed", k, A)>>)
        PROVE  CatalogueInv' /\ cat' = cat
    <3> DEFINE w == Write("allowed", k, A)
    <3>1. WriteOK(w) /\ StillValid(w, cat, raced) /\ w.do = "allowed"
      BY <1>a, <2>2, CatFacts
    <3> HIDE DEF w
    <3> QED BY <2>4, <2>6, <3>1, BeginTwo DEF w, Creates
  <2> QED BY <2>1, <2>3, <2>5, <2>6 DEF v
<1>3. CASE remove_api_key(a, g)
  <2>1. PICK k \in cat.keys : Begin(a, g, <<Write("delete_key", k, {})>>)
    BY <1>3 DEF remove_api_key
  <2>2. k \in Keys
    BY CatFacts
  <2>3. WriteOK(Write("delete_key", k, {}))
    BY <2>2 DEF WriteOK, Write
  <2> QED BY <2>1, <2>3, PlainCall
<1> QED BY <1>1, <1>2, <1>3

LEMMA GroupAndRouteCalls ==
  ASSUME CatalogueInv, NEW a \in Admins, NEW g,
         create_provider_group(a, g) \/ delete_provider_group(a, g) \/ routes(a, g) \/ upsert_route(a, g)
  PROVE  CatalogueInv' /\ cat' = cat
<1>1. CASE create_provider_group(a, g)
  <2>1. PICK x \in Groups \ (cat.born \cup Creating \cup {DefaultGroup}) :
          Begin(a, g, <<Write("insert_group", x, {})>>)
    BY <1>1 DEF create_provider_group
  <2> DEFINE w == Write("insert_group", x, {})
  <2>2. w.do = "insert_group" /\ w.id = x /\ w = Write(w.do, w.id, w.arg)
    BY WriteFields
  <2> HIDE DEF w
  <2>3. WriteOK(w) /\ StillValid(w, cat, raced)
    BY <2>1, <2>2 DEF WriteOK, StillValid
  <2> QED BY <2>1, <2>2, <2>3, BeginOne DEF w
<1>2. CASE delete_provider_group(a, g)
  <2>1. PICK x \in cat.groups : Begin(a, g, <<Write("delete_group", x, {})>>)
    BY <1>2 DEF delete_provider_group
  <2>2. x \in Groups
    BY CatFacts DEF CatalogueRows
  <2>3. WriteOK(Write("delete_group", x, {}))
    BY <2>2 DEF WriteOK, Write
  <2> QED BY <2>1, <2>3, PlainCall
<1>3. ASSUME NEW id, NEW T, Begin(a, g, <<Write("save_route", id, T)>>), T \in ValidAllowed \/ (id = "model" /\ T = NoRoute)
      PROVE  CatalogueInv' /\ cat' = cat
  <2> DEFINE w == Write("save_route", id, T)
  <2>2. w.do = "save_route" /\ w.id = id /\ w.arg = T /\ w = Write(w.do, w.id, w.arg)
    BY WriteFields
  <2>3. T = NoRoute \/ T \subseteq cat.providers
    BY <1>3 DEF ValidAllowed
  <2>4. T \in (IF id = "*" THEN SUBSET Providers ELSE Policies)
    BY <1>3, CatFacts DEF Policies
  <2> HIDE DEF w
  <2>5. WriteOK(w)
    BY <2>2, <2>4 DEF WriteOK
  <2>6. StillValid(w, cat, raced)
    BY <2>2, <2>3 DEF StillValid, Creates
  <2> QED BY <1>3, <2>2, <2>5, <2>6, BeginOne DEF w, Creates
<1>4. CASE routes(a, g)
  BY <1>3, <1>4 DEF routes
<1>5. CASE upsert_route(a, g)
  <2>1. PICK ids \in SUBSET Providers, id \in {"*", "model"} :
          Begin(a, g, <<Write("model_route", id, ids), Write("adapt", id, ids)>>)
    BY <1>5 DEF upsert_route
  <2> DEFINE v == Write("model_route", id, ids)  w == Write("adapt", id, ids)
  <2>2. v.do = "model_route" /\ v.id = id /\ v.arg = ids /\ v = Write(v.do, v.id, v.arg)
    BY WriteFields
  <2>3. w.do = "adapt" /\ w.id = id /\ w.arg = ids /\ w = Write(w.do, w.id, w.arg)
    BY WriteFields
  <2> HIDE DEF v, w
  <2>4. WriteOK(v) /\ StillValid(v, cat, raced)
    BY <2>2 DEF WriteOK, StillValid, Creates
  <2>5. WriteOK(w) /\ StillValid(w, cat, raced)
    BY <2>3 DEF WriteOK, StillValid, Creates
  <2> QED BY <2>1, <2>2, <2>3, <2>4, <2>5, BeginTwo DEF v, w, Creates
<1> QED BY <1>1, <1>2, <1>4, <1>5

LEMMA ModelCalls ==
  ASSUME CatalogueInv, NEW a \in Admins, NEW g,
         \/ sync_provider_models(a, g) \/ patch_provider_model(a, g) \/ delete_provider_model(a, g)
         \/ sync_key_models(a, g) \/ key_models(a, g) \/ patch_gateway_model(a, g)
         \/ model_aliases(a, g) \/ model_alias_targets(a, g)
  PROVE  CatalogueInv' /\ cat' = cat
<1>0. Providers \subseteq Owners /\ Children \subseteq Owners /\ "gateway" \in Owners
  BY DEF Owners
<1>1. CASE sync_provider_models(a, g)
  <2>1. PICK p \in cat.born \cap Providers, listed \in BOOLEAN : Begin(a, g, <<Write("models", p, listed)>>)
    BY <1>1 DEF sync_provider_models
  <2>2. WriteOK(Write("models", p, listed))
    BY <2>1 DEF WriteOK, Write
  <2> QED BY <2>1, <2>2, PlainCall
<1>2. ASSUME NEW o \in Owners, NEW field \in {"enabled", "alias", "gateway"}, NEW x \in BOOLEAN
      PROVE  WriteOK(Write(field, o, x))
  BY DEF WriteOK, Write
<1>3. ASSUME NEW o \in Owners PROVE WriteOK(Write("delete_model", o, {}))
  BY DEF WriteOK, Write
<1>4. CASE patch_provider_model(a, g)
  <2>1. PICK p \in Providers, field \in {"enabled", "alias"}, x \in BOOLEAN : Begin(a, g, <<Write(field, p, x)>>)
    BY <1>4 DEF patch_provider_model
  <2>2. WriteOK(Write(field, p, x))
    BY <1>0, <1>2
  <2> QED BY <2>1, <2>2, PlainCall
<1>5. CASE delete_provider_model(a, g)
  <2>1. PICK p \in Providers : Begin(a, g, <<Write("delete_model", p, {})>>)
    BY <1>5 DEF delete_provider_model
  <2>2. WriteOK(Write("delete_model", p, {}))
    BY <1>0, <1>3
  <2> QED BY <2>1, <2>2, PlainCall
<1>6. CASE sync_key_models(a, g)
  <2>1. PICK x \in Children : Begin(a, g, <<Write("key_models", x, {})>>)
    BY <1>6 DEF sync_key_models
  <2>2. WriteOK(Write("key_models", x, {}))
    BY <2>1 DEF WriteOK, Write
  <2> QED BY <2>1, <2>2, PlainCall
<1>7. CASE key_models(a, g)
  <2>1. PICK x \in Children : \/ \E on \in BOOLEAN : Begin(a, g, <<Write("enabled", x, on)>>)
                              \/ Begin(a, g, <<Write("delete_model", x, {})>>)
    BY <1>7 DEF key_models
  <2>2. x \in Owners
    BY <1>0
  <2> QED BY <1>2, <1>3, <2>1, <2>2, PlainCall
<1>8. CASE patch_gateway_model(a, g)
  <2>1. PICK on \in BOOLEAN : Begin(a, g, <<Write("gateway", "gateway", on)>>)
    BY <1>8 DEF patch_gateway_model
  <2> QED BY <1>0, <1>2, <2>1, PlainCall
<1>9. CASE model_aliases(a, g)
  <2>1. WriteOK(Write("insert_alias", "alias", {})) /\ WriteOK(Write("delete_alias", "alias", {}))
    BY DEF WriteOK, Write
  <2> QED BY <1>9, <2>1, PlainCall DEF model_aliases
<1>10. CASE model_alias_targets(a, g)
  <2>1. PICK p \in cat.providers \cup cat.targets :
          \/ Begin(a, g, <<Write("insert_target", p, {})>>)
          \/ Begin(a, g, <<Write("delete_target", p, {})>>)
    BY <1>10 DEF model_alias_targets
  <2>2. p \in Providers
    BY CatFacts DEF CatalogueRows
  <2>3. WriteOK(Write("insert_target", p, {})) /\ WriteOK(Write("delete_target", p, {}))
    BY <2>2 DEF WriteOK, Write
  <2> QED BY <2>1, <2>3, PlainCall
<1> QED BY <1>1, <1>4, <1>5, <1>6, <1>7, <1>8, <1>9, <1>10

LEMMA ChildCalls ==
  ASSUME CatalogueInv, NEW a \in Admins, NEW g,
         create_child(a, g) \/ update_child(a, g) \/ delete_child(a, g) \/ reorder_children(a, g)
  PROVE  CatalogueInv' /\ cat' = cat
<1>1. CASE create_child(a, g)
  <2>1. PICK x \in Children \ (cat.born \cup Creating), p \in cat.providers :
          Begin(a, g, <<Write("insert_child", x, [of |-> p, enabled |-> TRUE, priority |-> 1])>>)
    BY <1>1 DEF create_child
  <2> DEFINE r == [of |-> p, enabled |-> TRUE, priority |-> 1]  w == Write("insert_child", x, r)
  <2>2. r \in ChildRows
    BY CatFacts DEF ChildRows
  <2> HIDE DEF r
  <2>3. w.do = "insert_child" /\ w.id = x /\ w.arg = r /\ w = Write(w.do, w.id, w.arg)
    BY WriteFields
  <2> HIDE DEF w
  <2>4. WriteOK(w) /\ StillValid(w, cat, raced)
    BY <2>1, <2>2, <2>3 DEF WriteOK, StillValid
  <2> QED BY <2>1, <2>3, <2>4, BeginOne DEF w, r
<1>2. CASE update_child(a, g)
  <2>1. PICK x \in {y \in Children : cat.child[y] # NoChild}, e \in BOOLEAN :
          Begin(a, g, <<Write("child", x, [cat.child[x] EXCEPT !.enabled = e])>>)
    BY <1>2 DEF update_child
  <2> DEFINE r == [cat.child[x] EXCEPT !.enabled = e]  w == Write("child", x, r)
  <2>2. x \in Children /\ x \in cat.born /\ cat.child[x] \in ChildRows
    BY <2>1, CatFacts DEF CatalogueRows, Rooted
  <2>3. r \in ChildRows /\ r.of = cat.child[x].of
    BY <2>2 DEF ChildRows
  <2> HIDE DEF r
  <2>4. w.do = "child" /\ w.id = x /\ w.arg = r /\ w = Write(w.do, w.id, w.arg)
    BY WriteFields
  <2> HIDE DEF w
  <2>5. WriteOK(w) /\ StillValid(w, cat, raced)
    BY <2>2, <2>3, <2>4 DEF WriteOK, StillValid, Creates
  <2> QED BY <2>1, <2>4, <2>5, BeginOne DEF w, r, Creates
<1>3. CASE delete_child(a, g)
  <2>1. PICK x \in Children : Begin(a, g, <<Write("delete_child", x, {})>>)
    BY <1>3 DEF delete_child
  <2>2. WriteOK(Write("delete_child", x, {}))
    BY <2>1 DEF WriteOK, Write
  <2> QED BY <2>1, <2>2, PlainCall
<1>4. CASE reorder_children(a, g)
  <2>1. PICK p \in cat.providers, S \in SUBSET Children :
          \E order \in {f \in [S -> 2 .. Cardinality(S) + 1] : IsInjective(f)} :
            Begin(a, g, <<Write("reorder", p, order)>>)
    BY <1>4 DEF reorder_children
  <2>2. PICK order \in [S -> 2 .. Cardinality(S) + 1] : Begin(a, g, <<Write("reorder", p, order)>>)
    BY <2>1
  <2>3. p \in Providers
    BY CatFacts
  <2>4. 2 .. Cardinality(S) + 1 \subseteq Nat
    <3>1. \A i \in 2 .. Cardinality(S) + 1 : i \in Int /\ 2 =< i
      OBVIOUS
    <3> QED BY <3>1
  <2>5. order \in [S -> Nat]
    BY <2>2, <2>4
  <2>6. WriteOK(Write("reorder", p, order))
    <3> DEFINE w == Write("reorder", p, order)
    <3>1. w.do = "reorder" /\ w.id = p /\ w.arg = order /\ w = Write(w.do, w.id, w.arg)
      BY WriteFields
    <3> HIDE DEF w
    <3>2. WriteOK(w)
      BY <2>1, <2>3, <2>5, <3>1 DEF WriteOK
    <3> QED BY <3>2 DEF w
  <2> QED BY <2>2, <2>6, PlainCall
<1> QED BY <1>1, <1>2, <1>3, <1>4

\* Every call of the administration API queues writes that are valid when it begins.
LEMMA CallGood ==
  ASSUME CatalogueInv, NEW a \in Admins, NEW g, Call(a, g)
  PROVE  CatalogueInv' /\ cat' = cat
BY ProviderCalls, KeyCalls, GroupAndRouteCalls, ModelCalls, ChildCalls DEF Call

-----------------------------------------------------------------------------
(* What a start does to the catalogue.                                     *)

CatalogueKept ==
  /\ CatalogueInv'
  /\ migrated' => cat'.route # NoRoute
  /\ Unserved'
  /\ Decided \/ cat' = cat

CatalogueSafe == CatalogueInv /\ (migrated => cat.route # NoRoute) /\ Unserved

\* Providers, ids and children stay, and so do the calls.
LEMMA QuietCalls ==
  ASSUME CatalogueInv, Sound(cat', raced), admin' = admin, raced' = raced,
         cat'.providers = cat.providers, cat'.born = cat.born, cat'.child = cat.child, CompatFollowsOrWaits'
  PROVE  CatalogueInv'
<1>1. \A a \in Admins : \A i \in DOMAIN admin[a].todo : StillValid(admin[a].todo[i], cat', raced')
  <2> SUFFICES ASSUME NEW a \in Admins, NEW i \in DOMAIN admin[a].todo
               PROVE  StillValid(admin[a].todo[i], cat', raced')
    OBVIOUS
  <2> DEFINE w == admin[a].todo[i]
  <2>1. StillValid(w, cat, raced)
    BY DEF CatalogueInv, CallsOK
  <2> HIDE DEF w
  <2>2. StillValid(w, cat', raced')
    BY <2>1 DEF StillValid
  <2> QED BY <2>2 DEF w
<1>2. CallsOK'
  BY <1>1 DEF CatalogueInv, CallsOK
<1>3. NewIds'
  BY DEF CatalogueInv, NewIds, Busy, Current
<1> QED BY <1>2, <1>3 DEF CatalogueInv

LEMMA DefaultGroupKeeps ==
  ASSUME CatalogueSafe, NEW g, ensure_default_provider_group(g)
  PROVE  CatalogueKept
<1> DEFINE lone == {DefaultGroup}
           G == cat.groups \cup lone
           M == [p \in Providers |-> IF p \in cat.providers /\ cat.member[p] = {} THEN lone ELSE cat.member[p]]
           K == [k \in Keys |-> IF k \in cat.keys /\ cat.keygroup[k] = {} THEN lone ELSE cat.keygroup[k]]
<1>1. cat' = [cat EXCEPT !.groups = G, !.member = M, !.keygroup = K]
  BY DEF ensure_default_provider_group
<1>2. missed' = (missed \/ (migrated /\ cat' # cat)) /\ admin' = admin /\ raced' = raced /\ migrated' = migrated
  BY DEF ensure_default_provider_group
<1>3. cat \in CatalogueRows /\ Rooted(cat) /\ Refers(cat, raced) /\ CatalogueInv /\ Unserved
      /\ (migrated => cat.route # NoRoute)
  BY DEF CatalogueSafe, CatalogueInv, Sound
<1>4. G \in SUBSET Groups /\ M \in [Providers -> SUBSET Groups] /\ K \in [Keys -> SUBSET Groups]
  <2>1. lone \in SUBSET Groups
    BY CatalogueAssumption
  <2> HIDE DEF lone
  <2> QED BY <1>3, <2>1 DEF CatalogueRows
<1> HIDE DEF G, M, K
<1>5. cat' \in CatalogueRows
  BY <1>1, <1>3, <1>4 DEF CatalogueRows
<1>6. /\ cat'.providers = cat.providers /\ cat'.born = cat.born /\ cat'.enabled = cat.enabled /\ cat'.keys = cat.keys
      /\ cat'.live = cat.live /\ cat'.auth = cat.auth /\ cat'.allowed = cat.allowed /\ cat'.route = cat.route
      /\ cat'.special = cat.special /\ cat'.model = cat.model /\ cat'.alias = cat.alias /\ cat'.targets = cat.targets
      /\ cat'.child = cat.child
  BY <1>1, <1>3 DEF CatalogueRows
<1>7. Sound(cat', raced)
  BY <1>3, <1>5, <1>6 DEF Sound, Rooted, Refers
<1>8. CompatFollowsOrWaits'
  <2>1. CASE cat' = cat
    BY <1>2, <1>3, <2>1 DEF CatalogueInv, CompatFollowsOrWaits, Due, Busy
  <2>2. CASE cat' # cat /\ migrated
    BY <1>2, <2>2 DEF CompatFollowsOrWaits
  <2>3. CASE ~ migrated
    <3>1. \A k \in cat'.keys : cat'.auth[k] = "none"
      BY <1>3, <1>6, <2>3 DEF Unserved, CatalogueRows
    <3> QED BY <3>1 DEF CompatFollowsOrWaits, Follows
  <2> QED BY <2>1, <2>2, <2>3
<1>9. CatalogueInv'
  BY <1>2, <1>3, <1>6, <1>7, <1>8, QuietCalls
<1>10. Decided
  <2>1. \A k \in cat.keys : cat.allowed[k] = cat.allowed[k] \cap cat'.providers
    BY <1>3, <1>6 DEF Refers, CatalogueRows
  <2> QED BY <1>6, <2>1 DEF Decided
<1>11. Unserved'
  BY <1>2, <1>3, <1>6 DEF Unserved, Busy
<1> QED BY <1>2, <1>3, <1>6, <1>9, <1>10, <1>11 DEF CatalogueKept

LEMMA AliasesKeep ==
  ASSUME CatalogueSafe, NEW g, migrate_provider_model_aliases(g)
  PROVE  CatalogueKept
<1> DEFINE A == cat.alias \/ \E p \in cat.providers : cat.model[p].alias
           T == cat.targets \cup {p \in cat.providers : cat.model[p].alias}
<1>1. cat' = [cat EXCEPT !.alias = A, !.targets = T]
  BY DEF migrate_provider_model_aliases
<1>2. missed' = missed /\ admin' = admin /\ raced' = raced /\ migrated' = migrated
  BY DEF migrate_provider_model_aliases
<1>3. cat \in CatalogueRows /\ Rooted(cat) /\ Refers(cat, raced) /\ CatalogueInv /\ Unserved
      /\ (migrated => cat.route # NoRoute)
  BY DEF CatalogueSafe, CatalogueInv, Sound
<1>4. A \in BOOLEAN /\ T \in SUBSET Providers /\ T \subseteq (IF A THEN cat.providers ELSE {})
  BY <1>3 DEF CatalogueRows, Refers
<1> HIDE DEF A, T
<1>5. cat' \in CatalogueRows
  BY <1>1, <1>3, <1>4 DEF CatalogueRows
<1>6. /\ cat'.providers = cat.providers /\ cat'.born = cat.born /\ cat'.enabled = cat.enabled /\ cat'.member = cat.member
      /\ cat'.groups = cat.groups /\ cat'.keys = cat.keys /\ cat'.live = cat.live /\ cat'.keygroup = cat.keygroup
      /\ cat'.auth = cat.auth /\ cat'.allowed = cat.allowed /\ cat'.route = cat.route /\ cat'.special = cat.special
      /\ cat'.model = cat.model /\ cat'.child = cat.child
      /\ cat'.alias = A /\ cat'.targets = T
  BY <1>1, <1>3 DEF CatalogueRows
<1>7. Sound(cat', raced)
  BY <1>3, <1>4, <1>5, <1>6 DEF Sound, Rooted, Refers
<1>8. CompatFollowsOrWaits'
  BY <1>2, <1>3, <1>6 DEF CatalogueInv, CompatFollowsOrWaits, Due, Busy, Follows, Union
<1>9. CatalogueInv'
  BY <1>2, <1>3, <1>6, <1>7, <1>8, QuietCalls
<1>10. Decided
  <2>1. \A k \in cat.keys : cat.allowed[k] = cat.allowed[k] \cap cat'.providers
    BY <1>3, <1>6 DEF Refers, CatalogueRows
  <2> QED BY <1>6, <2>1 DEF Decided
<1>11. Unserved'
  BY <1>2, <1>3, <1>6 DEF Unserved, Busy
<1> QED BY <1>2, <1>3, <1>6, <1>9, <1>10, <1>11 DEF CatalogueKept

\* The first migration: nobody was served before it.
LEMMA AuthorizedKeeps ==
  ASSUME CatalogueSafe, ~ migrated, cat' = Authorized(cat), migrated' = TRUE,
         missed' = missed, admin' = admin, raced' = raced
  PROVE  CatalogueKept
<1> DEFINE U == [k \in Keys |-> IF k \in cat.keys THEN "compat" ELSE cat.auth[k]]
           A == [k \in Keys |-> IF k \in cat.keys THEN Union(cat, k) ELSE {}]
           S == IF cat.special \in {NoRoute, {}} THEN NoRoute ELSE cat.special \cap cat.providers
<1>1. cat' = [cat EXCEPT !.auth = U, !.allowed = A, !.route = cat.providers, !.special = S]
  BY DEF Authorized
<1>3. cat \in CatalogueRows /\ Rooted(cat) /\ Refers(cat, raced) /\ CatalogueInv /\ Unserved
  BY DEF CatalogueSafe, CatalogueInv, Sound
<1>4. /\ U \in [Keys -> {"none", "compat", "direct"}] /\ A \in [Keys -> SUBSET Providers]
      /\ S \in Policies /\ cat.providers \in Policies /\ cat.providers # NoRoute
  <2>1. cat.providers \in SUBSET Providers /\ cat.special \in Policies
    BY <1>3 DEF CatalogueRows
  <2>2. cat.providers # NoRoute
    BY <2>1, CatalogueAssumption DEF NoRoute
  <2>3. U \in [Keys -> {"none", "compat", "direct"}]
    BY <1>3 DEF CatalogueRows
  <2>4. A \in [Keys -> SUBSET Providers]
    BY <2>1 DEF Union
  <2>5. S \in Policies /\ cat.providers \in Policies
    BY <2>1 DEF Policies
  <2> QED BY <2>2, <2>3, <2>4, <2>5
<1>5. /\ \A k \in Keys : A[k] \subseteq cat.providers
      /\ \A k \in Keys \ cat.keys : U[k] = "none"
      /\ \A k \in cat.keys : U[k] = "compat" /\ A[k] = Union(cat, k)
      /\ S = NoRoute \/ S \subseteq cat.providers
  BY <1>3 DEF Union, Rooted, CatalogueRows
<1> HIDE DEF U, A, S
<1>6. cat' \in CatalogueRows
  BY <1>1, <1>3, <1>4 DEF CatalogueRows
<1>7. /\ cat'.providers = cat.providers /\ cat'.born = cat.born /\ cat'.enabled = cat.enabled /\ cat'.member = cat.member
      /\ cat'.groups = cat.groups /\ cat'.keys = cat.keys /\ cat'.live = cat.live /\ cat'.keygroup = cat.keygroup
      /\ cat'.model = cat.model /\ cat'.alias = cat.alias /\ cat'.targets = cat.targets /\ cat'.child = cat.child
      /\ cat'.auth = U /\ cat'.allowed = A /\ cat'.route = cat.providers /\ cat'.special = S
  BY <1>1, <1>3 DEF CatalogueRows
<1>8. Sound(cat', raced)
  BY <1>3, <1>5, <1>6, <1>7 DEF Sound, Rooted, Refers
<1>9. CompatFollowsOrWaits'
  BY <1>5, <1>7 DEF CompatFollowsOrWaits, Follows, Union
<1>10. CatalogueInv'
  BY <1>3, <1>7, <1>8, <1>9, QuietCalls
<1>11. Decided
  <2>1. \A k \in cat.keys : cat.auth[k] = "none"
    BY <1>3 DEF Unserved, CatalogueRows
  <2> QED BY <1>7, <2>1 DEF Decided
<1> QED BY <1>4, <1>7, <1>10, <1>11 DEF CatalogueKept, Unserved

LEMMA CrashKeeps ==
  ASSUME CatalogueSafe, NEW g, crash(g)
  PROVE  CatalogueKept
<1> DEFINE lost == {a \in Admins : admin[a].at = g}
<1>1. /\ cat' = cat /\ raced' = raced /\ migrated' = migrated
      /\ missed' = (missed \/ \E a \in lost : Due(a, "refresh"))
      /\ admin' = [a \in Admins |-> IF a \in lost THEN Idle ELSE admin[a]]
  BY DEF crash
<1>2. CatalogueInv /\ Unserved /\ (migrated => cat.route # NoRoute)
  BY DEF CatalogueSafe
<1>3. \A a \in Admins : admin'[a] = Idle \/ (admin'[a] = admin[a] /\ a \notin lost)
  BY <1>1
<1>4. CallsOK'
  <2> SUFFICES ASSUME NEW a \in Admins
               PROVE  CallOK(admin'[a]) /\ \A i \in DOMAIN admin'[a].todo : StillValid(admin'[a].todo[i], cat', raced')
    BY DEF CallsOK
  <2>1. CASE admin'[a] = Idle
    BY <2>1, IdleCall
  <2>2. CASE admin'[a] = admin[a]
    BY <1>1, <1>2, <2>2 DEF CatalogueInv, CallsOK
  <2> QED BY <1>3, <2>1, <2>2
<1>5. \A a \in Admins : Busy(a)' => Busy(a) /\ admin'[a] = admin[a] /\ Current(a)' = Current(a) /\ a \notin lost
  BY <1>3, IdleCall DEF Busy, Current
<1>6. NewIds'
  BY <1>2, <1>5 DEF CatalogueInv, NewIds
<1>7. CompatFollowsOrWaits'
  <2> SUFFICES ASSUME ~ missed', ~ \E b \in Admins : Due(b, "refresh")' /\ admin'[b].new = Nobody,
                      NEW k \in cat'.keys
               PROVE  Follows(cat', k) \/ \E b \in Admins : Due(b, "refresh")' /\ admin'[b].new = k
    BY DEF CompatFollowsOrWaits
  <2>1. ~ missed /\ \A b \in lost : ~ Due(b, "refresh")
    BY <1>1
  <2>2. ASSUME NEW b \in Admins, Due(b, "refresh") PROVE Due(b, "refresh")' /\ admin'[b].new = admin[b].new
    BY <1>1, <2>1, <2>2 DEF Due, Busy
  <2> QED BY <1>1, <1>2, <2>1, <2>2 DEF CatalogueInv, CompatFollowsOrWaits
<1>8. admin' = [a \in Admins |-> admin'[a]]
  BY <1>1
<1>9. CatalogueInv'
  BY <1>1, <1>2, <1>4, <1>6, <1>7, <1>8 DEF CatalogueInv
<1>10. Unserved'
  BY <1>1, <1>2, <1>5 DEF Unserved
<1> QED BY <1>1, <1>2, <1>9, <1>10 DEF CatalogueKept

LEMMA StillKeeps ==
  ASSUME CatalogueSafe, UNCHANGED <<cat, admin, missed, raced>>, migrated' = migrated
  PROVE  CatalogueKept
<1>1. cat' = cat /\ admin' = admin /\ missed' = missed /\ raced' = raced
  OBVIOUS
<1>2. CatalogueInv'
  BY <1>1 DEF CatalogueSafe, CatalogueInv, CallsOK, NewIds, CompatFollowsOrWaits, Due, Busy, Current
<1> QED BY <1>1, <1>2 DEF CatalogueSafe, CatalogueKept, Unserved, Busy

\* A call or a write at a gateway that serves.
LEMMA ServeKeeps ==
  ASSUME CatalogueSafe, NEW a \in Admins, Serve(a), (\A h \in Running : Serving(h)) => migrated
  PROVE  CatalogueKept /\ UNCHANGED startupVars
<1>1. UNCHANGED startupVars /\ migrated' = migrated
  BY DEF Serve, startupVars
<1>2. migrated
  <2>1. Busy(a) => migrated
    BY DEF CatalogueSafe, Unserved
  <2>2. MakeWrite(a) => Busy(a)
    BY DEF MakeWrite, Bundle, update_upstream_provider, Memberships, DefaultTarget, RefreshAll, DeleteProvider,
         insert_api_key, KeyGroups, Allowed, KeyRow, DeleteKey, insert_provider_group, DeleteGroup,
         save_route_policy, ModelRoute, adapt_legacy_route, ProviderModels, update_provider_model, DeleteModel,
         KeyModels, upsert_gateway_model_policy, insert_model_alias, DeleteAlias, insert_model_alias_target,
         delete_model_alias_target, insert_child, update_child_row, DeleteChild, Reorder, Make, Commit, Due
  <2> QED BY <2>1, <2>2 DEF Serve, WriteFails, Read
<1>3. CatalogueInv /\ cat.route # NoRoute
  BY <1>2 DEF CatalogueSafe
<1>4. CASE \E g \in Reached : Call(a, g)
  BY <1>1, <1>2, <1>3, <1>4, CallGood DEF CatalogueKept, Unserved
<1>5. CASE MakeWrite(a) \/ WriteFails(a)
  BY <1>1, <1>2, <1>3, <1>5, MakeWriteGood, RefusedGood DEF WriteFails, GoodWrite, CatalogueKept, Unserved
<1>6. CASE Read(a)
  <2>1. cat' = cat /\ admin' = admin /\ missed' = missed /\ raced' = raced
    BY <1>6 DEF Read
  <2> QED BY <1>1, <2>1, StillKeeps
<1> QED BY <1>1, <1>4, <1>5, <1>6 DEF Serve

-----------------------------------------------------------------------------
(* What the open transactions have found.                                  *)

LEMMA NothingFound == Nothing \in FoundRows
<1>1. NoRows \in [Keys -> SUBSET Providers]
  BY DEF NoRows
<1> HIDE DEF NoRows
<1> QED BY <1>1 DEF Nothing, FoundRows

\* A first snapshot.
LEMMA FindsRows ==
  ASSUME NEW w, WriteOK(w), Snapshots(w.do) > 0, cat \in CatalogueRows
  PROVE  Finds(w, cat) \in FoundRows
<1>0. Nothing \in FoundRows /\ NoRows \in [Keys -> SUBSET Providers] /\ 1 \in 0 .. 2
  BY NothingFound DEF NoRows
<1>1. w.do \in {"refresh", "bundle", "allowed", "memberships", "key_groups", "delete_group"}
  BY DEF Snapshots
<1>2. CASE w.do = "refresh"
  <2> DEFINE new == {k \in cat.keys : cat.auth[k] = "none"}
             D == [k \in Keys |-> IF k \in Followers(cat, new) THEN cat.allowed[k] ELSE {}]
  <2>1. new \in SUBSET Keys /\ D \in [Keys -> SUBSET Providers]
    BY DEF CatalogueRows
  <2>2. Finds(w, cat) = [Nothing EXCEPT !.n = 1, !.makes = new, !.deletes = D]
    BY <1>2 DEF Finds
  <2> HIDE DEF new, D
  <2> QED BY <1>0, <2>1, <2>2, ZenonT(30) DEF FoundRows
<1>3. CASE w.do = "bundle"
  <2> DEFINE I == [k \in Keys |-> IF k \in Followers(cat, {}) /\ cat.keygroup[k] \cap w.arg # {} THEN {w.id} ELSE {}]
  <2>1. I \in [Keys -> SUBSET Providers]
    BY <1>3 DEF WriteOK
  <2>2. Finds(w, cat) = [Nothing EXCEPT !.n = 1, !.inserts = I]
    BY <1>3 DEF Finds
  <2> HIDE DEF I
  <2> QED BY <1>0, <2>1, <2>2, ZenonT(30) DEF FoundRows
<1>4. CASE w.do = "allowed"
  <2> DEFINE D == [NoRows EXCEPT ![w.id] = cat.allowed[w.id]]
  <2>1. D \in [Keys -> SUBSET Providers]
    BY <1>0, <1>4 DEF WriteOK, CatalogueRows
  <2>2. Finds(w, cat) = [Nothing EXCEPT !.n = 1, !.deletes = D]
    BY <1>4 DEF Finds, Nothing
  <2> HIDE DEF D
  <2> QED BY <1>0, <2>1, <2>2, ZenonT(30) DEF FoundRows
<1>5. CASE w.do = "memberships"
  <2>1. cat.member[w.id] \in SUBSET Groups
    BY <1>5 DEF WriteOK, CatalogueRows
  <2>2. Finds(w, cat) = [Nothing EXCEPT !.n = 1, !.groups = cat.member[w.id]]
    BY <1>5 DEF Finds
  <2> QED BY <1>0, <2>1, <2>2, ZenonT(30) DEF FoundRows
<1>6. CASE w.do = "key_groups"
  <2>1. cat.keygroup[w.id] \in SUBSET Groups
    BY <1>6 DEF WriteOK, CatalogueRows
  <2>2. Finds(w, cat) = [Nothing EXCEPT !.n = 1, !.groups = cat.keygroup[w.id]]
    BY <1>6 DEF Finds
  <2> QED BY <1>0, <2>1, <2>2, ZenonT(30) DEF FoundRows
<1>7. CASE w.do = "delete_group"
  <2> DEFINE X == {x \in {w.id} : ~ Assigned(cat, x)}
  <2>1. X \in SUBSET Groups
    BY <1>7 DEF WriteOK
  <2>2. Finds(w, cat) = [Nothing EXCEPT !.n = 1, !.groups = X]
    BY <1>7 DEF Finds
  <2> HIDE DEF X
  <2> QED BY <1>0, <2>1, <2>2, ZenonT(30) DEF FoundRows
<1> QED BY <1>1, <1>2, <1>3, <1>4, <1>5, <1>6, <1>7

\* The second one.
LEMMA FindsMoreRows ==
  ASSUME NEW f \in FoundRows, cat \in CatalogueRows
  PROVE  FindsMore(f, cat) \in FoundRows
<1> DEFINE I == [k \in Keys |-> IF k \in Followers(cat, f.makes) THEN Union(cat, k) ELSE {}]
<1>1. I \in [Keys -> SUBSET Providers]
  BY DEF Union, CatalogueRows
<1>2. FindsMore(f, cat) = [f EXCEPT !.n = 2, !.inserts = I]
  BY DEF FindsMore
<1>3. 2 \in 0 .. 2
  OBVIOUS
<1> HIDE DEF I
<1> QED BY <1>1, <1>2, <1>3, ZenonT(30) DEF FoundRows

\* Rows that are gone.
LEMMA RewrittenRows ==
  ASSUME NEW a \in Admins, NEW f, seen \in [Admins -> FoundRows]
  PROVE  /\ Rewritten(a, f) \in [Admins -> FoundRows]
         /\ Rewritten(a, f)[a] = Nothing
         /\ \A b \in Admins : seen[b] = Nothing => Rewritten(a, f)[b] = Nothing
<1>1. ASSUME NEW b \in Admins PROVE Rewritten(a, f)[b] \in FoundRows
  <2> DEFINE D == [k \in Keys |-> seen[b].deletes[k] \ f.deletes[k]]
             G == IF Due(b, Current(a).do) /\ Current(b).id = Current(a).id THEN seen[b].groups \ f.groups
                  ELSE seen[b].groups
  <2>1. seen[b] \in FoundRows
    OBVIOUS
  <2>2. D \in [Keys -> SUBSET Providers] /\ G \in SUBSET Groups
    BY <2>1 DEF FoundRows
  <2>3. Rewritten(a, f)[b] = IF b = a \/ seen[b] = Nothing THEN Nothing
                             ELSE [seen[b] EXCEPT !.deletes = D, !.groups = G]
    BY DEF Rewritten
  <2>4. [seen[b] EXCEPT !.deletes = D, !.groups = G] \in FoundRows
    <3> HIDE DEF D, G
    <3> QED BY <2>1, <2>2 DEF FoundRows
  <2> QED BY <2>3, <2>4, NothingFound
<1>2. Rewritten(a, f) = [b \in Admins |-> Rewritten(a, f)[b]]
  BY DEF Rewritten
<1>3. Rewritten(a, f) \in [Admins -> FoundRows]
  BY <1>1, <1>2
<1> QED BY <1>3 DEF Rewritten

\* The write of a ends its transaction; the other calls stay where they are.
Closes(a) ==
  /\ seen' \in [Admins -> FoundRows]
  /\ seen'[a] = Nothing
  /\ \A b \in Admins \ {a} : admin'[b] = admin[b] /\ (seen[b] = Nothing => seen'[b] = Nothing)

LEMMA ClosesKeeps ==
  ASSUME SeenOK, NEW a \in Admins, Closes(a)
  PROVE  SeenOK'
BY DEF SeenOK, Closes, Busy, Current

\* A call that begins, or a write that reads nothing.
LEMMA PlainCloses ==
  ASSUME SeenOK, NEW a \in Admins, seen' = seen, \A b \in Admins \ {a} : admin'[b] = admin[b],
         Busy(a) => Snapshots(Current(a).do) = 0
  PROVE  SeenOK'
<1>1. seen[a] = Nothing
  BY DEF SeenOK
<1> QED BY <1>1, ClosesKeeps DEF Closes, SeenOK

LEMMA RefusedCloses ==
  ASSUME SeenOK, CatalogueInv, NEW a \in Admins, Refused(a)
  PROVE  SeenOK'
<1>1. seen' = [seen EXCEPT ![a] = Nothing] /\ admin' = [admin EXCEPT ![a] = Idle]
  BY DEF Refused, Stops
<1>2. Closes(a)
  BY <1>1, NothingFound DEF Closes, SeenOK, CatalogueInv
<1> QED BY <1>2, ClosesKeeps

\* A write that read before.
LEMMA CommitCloses ==
  ASSUME SeenOK, CatalogueInv, NEW a \in Admins,
         Bundle(a) \/ Memberships(a) \/ RefreshAll(a) \/ KeyGroups(a) \/ Allowed(a) \/ DeleteGroup(a)
  PROVE  SeenOK'
<1> DEFINE Moves2 == admin' = [admin EXCEPT ![a] = IF Len(@.todo) = 1 THEN Idle ELSE [admin[a] EXCEPT !.todo = Tail(@)]]
<1>1. (seen' = Rewritten(a, Found(a)) /\ Moves2) \/ Refused(a)
  <2>1. CASE Bundle(a)
    BY <2>1 DEF Bundle, Commit, Done
  <2>2. CASE Memberships(a)
    BY <2>2 DEF Memberships, Commit, Done
  <2>3. CASE RefreshAll(a)
    BY <2>3 DEF RefreshAll, Commit, Done
  <2>4. CASE KeyGroups(a)
    BY <2>4 DEF KeyGroups, Commit, Done
  <2>5. CASE Allowed(a)
    BY <2>5 DEF Allowed, Commit, Done
  <2>6. CASE DeleteGroup(a)
    BY <2>6 DEF DeleteGroup, Commit, Done
  <2> QED BY <2>1, <2>2, <2>3, <2>4, <2>5, <2>6
<1>2. CASE seen' = Rewritten(a, Found(a)) /\ Moves2
  <2>1. \A b \in Admins \ {a} : admin'[b] = admin[b]
    BY <1>2 DEF CatalogueInv
  <2> HIDE DEF Moves2
  <2>2. Closes(a)
    BY <1>2, <2>1, RewrittenRows DEF Closes, SeenOK
  <2> QED BY <2>2, ClosesKeeps
<1> QED BY <1>1, <1>2, RefusedCloses

\* The writes that read nothing.
PlainWrite(a) ==
  /\ Current(a).do \notin {"refresh", "bundle", "allowed", "memberships", "key_groups", "delete_group"}
  /\ seen' = seen
  /\ \A b \in Admins \ {a} : admin'[b] = admin[b]

LEMMA PlainWrites ==
  ASSUME CatalogueInv, NEW a \in Admins, MakeWrite(a)
  PROVE  \/ PlainWrite(a) \/ Refused(a)
         \/ Bundle(a) \/ Memberships(a) \/ RefreshAll(a) \/ KeyGroups(a) \/ Allowed(a) \/ DeleteGroup(a)
<1>0. admin = [b \in Admins |-> admin[b]]
  BY DEF CatalogueInv
<1>1. CASE update_upstream_provider(a) \/ DefaultTarget(a) \/ KeyRow(a) \/ DeleteKey(a) \/ insert_provider_group(a)
  BY <1>0, <1>1 DEF update_upstream_provider, DefaultTarget, KeyRow, DeleteKey, insert_provider_group,
                    Make, Done, Due, Current, PlainWrite
<1>2. CASE save_route_policy(a) \/ ModelRoute(a) \/ ProviderModels(a) \/ update_provider_model(a) \/ DeleteModel(a)
           \/ KeyModels(a) \/ upsert_gateway_model_policy(a)
  BY <1>0, <1>2 DEF save_route_policy, ModelRoute, ProviderModels, update_provider_model, DeleteModel, KeyModels,
                    upsert_gateway_model_policy, Make, Done, Due, Current, PlainWrite
<1>3. CASE insert_model_alias(a) \/ DeleteAlias(a) \/ insert_model_alias_target(a) \/ delete_model_alias_target(a)
           \/ insert_child(a) \/ update_child_row(a) \/ DeleteChild(a) \/ Reorder(a)
  BY <1>0, <1>3 DEF insert_model_alias, DeleteAlias, insert_model_alias_target, delete_model_alias_target, insert_child,
                    update_child_row, DeleteChild, Reorder, Make, Done, Due, Current, PlainWrite
<1>4. CASE DeleteProvider(a)
  BY <1>0, <1>4 DEF DeleteProvider, Done, Due, Current, PlainWrite
<1>5. CASE insert_api_key(a)
  <2> DEFINE m == [admin EXCEPT ![a].todo = Tail(@)]
  <2>1. Current(a).do = "insert_key" /\ seen' = seen /\ admin' = [m EXCEPT ![a].new = Current(a).id]
    BY <1>5 DEF insert_api_key, Due, Current
  <2>2. m = [b \in Admins |-> m[b]] /\ \A b \in Admins \ {a} : m[b] = admin[b]
    BY <1>0
  <2> HIDE DEF m
  <2> QED BY <2>1, <2>2 DEF PlainWrite
<1>6. CASE adapt_legacy_route(a)
  BY <1>0, <1>6 DEF adapt_legacy_route, Done, Due, Current, PlainWrite
<1> QED BY <1>1, <1>2, <1>3, <1>4, <1>5, <1>6 DEF MakeWrite

\* A call begins with no transaction open.
LEMMA CallPlain ==
  ASSUME CatalogueInv, NEW a \in Admins, NEW g, Call(a, g)
  PROVE  ~ Busy(a) /\ seen' = seen /\ \A b \in Admins \ {a} : admin'[b] = admin[b]
<1>1. ASSUME \E todo : Begin(a, g, todo)
      PROVE  ~ Busy(a) /\ seen' = seen /\ \A b \in Admins \ {a} : admin'[b] = admin[b]
  BY <1>1 DEF Begin, CatalogueInv
<1>2. create_provider(a, g) \/ update_provider(a, g) \/ delete_provider(a, g) => \E todo : Begin(a, g, todo)
  BY DEF create_provider, update_provider, delete_provider
<1>3. create_api_key(a, g) \/ update_api_key(a, g) \/ remove_api_key(a, g) => \E todo : Begin(a, g, todo)
  BY DEF create_api_key, update_api_key, remove_api_key
<1>4. create_provider_group(a, g) \/ delete_provider_group(a, g) \/ routes(a, g) \/ upsert_route(a, g)
      => \E todo : Begin(a, g, todo)
  BY DEF create_provider_group, delete_provider_group, routes, upsert_route
<1>5. sync_provider_models(a, g) \/ patch_provider_model(a, g) \/ delete_provider_model(a, g)
      \/ sync_key_models(a, g) \/ key_models(a, g) \/ patch_gateway_model(a, g)
      => \E todo : Begin(a, g, todo)
  BY DEF sync_provider_models, patch_provider_model, delete_provider_model, sync_key_models, key_models,
         patch_gateway_model
<1>6. model_aliases(a, g) \/ model_alias_targets(a, g) => \E todo : Begin(a, g, todo)
  BY DEF model_aliases, model_alias_targets
<1>7. create_child(a, g) \/ update_child(a, g) \/ delete_child(a, g) \/ reorder_children(a, g)
      => \E todo : Begin(a, g, todo)
  BY DEF create_child, update_child, delete_child, reorder_children
<1>8. \E todo : Begin(a, g, todo)
  BY <1>2, <1>3, <1>4, <1>5, <1>6, <1>7 DEF Call
<1> QED BY <1>1, <1>8

LEMMA SeenKeeps ==
  ASSUME CatalogueInv, SeenOK, [Next]_vars
  PROVE  SeenOK'
<1>1. CASE seen' = seen /\ admin' = admin
  BY <1>1 DEF SeenOK, Busy, Current
<1>2. ASSUME NEW g \in Gateways, crash(g) PROVE SeenOK'
  <2> DEFINE lost == {a \in Admins : admin[a].at = g}
  <2>1. /\ admin' = [a \in Admins |-> IF a \in lost THEN Idle ELSE admin[a]]
        /\ seen' = [a \in Admins |-> IF a \in lost THEN Nothing ELSE seen[a]]
    BY <1>2 DEF crash
  <2> HIDE DEF lost
  <2> QED BY <2>1, NothingFound DEF SeenOK, Busy, Current
<1>3. ASSUME NEW g \in Gateways, Migrate(g) PROVE seen' = seen /\ admin' = admin
  BY <1>3 DEF Migrate, start, create_tables, ensure_columns, ensure_default_provider_group,
              migrate_provider_model_aliases, rebuild_statement, rebuild_commit, ensure_primary_key,
              ensure_model_prices_active, migrate_upstream_config, catalogueVars
<1>4. ASSUME NEW a \in Admins, Read(a) PROVE SeenOK'
  <2>1. Busy(a) /\ seen[a] \in FoundRows /\ seen[a].n \in 0 .. 2 /\ Snapshots(Current(a).do) > 0 /\ admin' = admin
    <3>1. Busy(a) /\ seen[a] \in FoundRows /\ seen[a].n < Snapshots(Current(a).do) /\ admin' = admin
      BY <1>4 DEF Read, SeenOK
    <3>2. seen[a].n \in 0 .. 2
      BY <3>1 DEF FoundRows
    <3>3. Snapshots(Current(a).do) \in {0, 1, 2}
      BY DEF Snapshots
    <3> QED BY <3>1, <3>2, <3>3
  <2>2. cat \in CatalogueRows /\ WriteOK(Current(a))
    BY <2>1, CurrentFacts DEF CatalogueInv, Sound
  <2>3. PICK f \in FoundRows : seen' = [seen EXCEPT ![a] = f]
    BY <1>4, <2>1, <2>2, FindsRows, FindsMoreRows DEF Read
  <2> QED BY <2>1, <2>3 DEF SeenOK, Busy, Current
<1>5. ASSUME NEW a \in Admins, Serve(a) PROVE SeenOK'
  <2>1. CASE \E g \in Reached : Call(a, g)
    BY <2>1, CallPlain, PlainCloses
  <2>2. CASE MakeWrite(a)
    <3>1. CASE PlainWrite(a)
      <4>1. Snapshots(Current(a).do) = 0
        BY <3>1 DEF PlainWrite, Snapshots
      <4> QED BY <3>1, <4>1, PlainCloses DEF PlainWrite
    <3> QED BY <2>2, <3>1, PlainWrites, RefusedCloses, CommitCloses
  <2> QED BY <1>4, <1>5, <2>1, <2>2, RefusedCloses DEF Serve, WriteFails
<1>6. CASE UNCHANGED vars
  BY <1>1, <1>6 DEF vars, catalogueVars
<1> QED BY <1>1, <1>2, <1>3, <1>5, <1>6 DEF Next

-----------------------------------------------------------------------------
(* The program of a start, step by step.                                   *)

LEMMA SqliteSteps ==
  /\ Len(migrate_sqlite) = 21
  /\ migrate_sqlite[1] = Run("tables")
  /\ migrate_sqlite[2] = AddTo("request_logs", {"usage"})
  /\ migrate_sqlite[3] = AddTo("stats_daily", {"usage"})
  /\ migrate_sqlite[4] = AddTo("upstream_providers", {"options"})
  /\ migrate_sqlite[5] = Run("default_group")
  /\ migrate_sqlite[6] = AddTo("request_logs", {"span", "trace"})
  /\ migrate_sqlite[7] = AddTo("provider_models", {"available"})
  /\ migrate_sqlite[8] = AddTo("request_logs", {"format"})
  /\ migrate_sqlite[9] = Run("aliases")
  /\ migrate_sqlite[10] = AddTo("stats_events", {"usage"})
  /\ migrate_sqlite[11] = AddTo("stats_hourly", {"usage"})
  /\ migrate_sqlite[12] = Rebuild("model_prices")
  /\ migrate_sqlite[13] = Rebuild("stats_daily")
  /\ migrate_sqlite[14] = Rebuild("stats_hourly")
  /\ migrate_sqlite[15] = Rebuild("request_logs")
  /\ migrate_sqlite[16] = Rebuild("stats_events")
  /\ migrate_sqlite[17] = Run("active")
  /\ migrate_sqlite[18] = AddTo("provider_models", {"available"})
  /\ migrate_sqlite[19] = AddTo("request_logs", {"format"})
  /\ migrate_sqlite[20] = AddTo("request_logs", {"late"})
  /\ migrate_sqlite[21] = Run("upstream")
BY DEF migrate_sqlite, migrate_sqlite_pricing_storage, Prologue, ensure_token_usage_columns, ensure_upstream_providers_columns, ensure_request_log_span_columns,
       ensure_responses_via_chat_columns

LEMMA PostgresSteps ==
  /\ Len(migrate_postgres) = 21
  /\ migrate_postgres[1] = Run("tables")
  /\ migrate_postgres[2] = AddTo("request_logs", {"usage"})
  /\ migrate_postgres[3] = AddTo("stats_daily", {"usage"})
  /\ migrate_postgres[4] = AddTo("upstream_providers", {"options"})
  /\ migrate_postgres[5] = Run("default_group")
  /\ migrate_postgres[6] = AddTo("request_logs", {"span", "trace"})
  /\ migrate_postgres[7] = AddTo("provider_models", {"available"})
  /\ migrate_postgres[8] = AddTo("request_logs", {"format"})
  /\ migrate_postgres[9] = Run("aliases")
  /\ migrate_postgres[10] = DropFrom("model_prices", {"fk"})
  /\ migrate_postgres[11] = AddTo("request_logs", {"price"})
  /\ migrate_postgres[12] = DropFrom("request_logs", {"cost"})
  /\ migrate_postgres[13] = AddTo("stats_events", {"price"})
  /\ migrate_postgres[14] = DropFrom("stats_events", {"cost"})
  /\ migrate_postgres[15] = DropFrom("stats_daily", {"cost"})
  /\ migrate_postgres[16] = AddTo("stats_hourly", {"price"})
  /\ migrate_postgres[17] = DropFrom("stats_hourly", {"cost"})
  /\ migrate_postgres[18] = Run("key")
  /\ migrate_postgres[19] = Run("active")
  /\ migrate_postgres[20] = AddTo("request_logs", {"late"})
  /\ migrate_postgres[21] = Run("upstream")
BY DEF migrate_postgres, migrate_postgres_pricing_storage, Prologue, ensure_token_usage_columns, ensure_upstream_providers_columns, ensure_request_log_span_columns,
       ensure_responses_via_chat_columns

\* The columns by name.
LEMMA NeededColumns ==
  /\ Needed["request_logs"] = {"usage", "span", "trace", "format", "price", "late"}
  /\ Needed["stats_events"] = {"usage", "price"}
  /\ Needed["stats_hourly"] = {"usage", "price", "key"}
  /\ Needed["stats_daily"] = {"usage"}
  /\ Needed["model_prices"] = {"active"}
  /\ Needed["upstream_providers"] = {"options"}
  /\ Needed["provider_models"] = {"available"}
BY DEF Needed, created

LEMMA LegacyColumns ==
  ASSUME NEW e
  PROVE  /\ Legacy(e)["request_logs"] = {"cost"}
         /\ Legacy(e)["stats_events"] \subseteq {"cost", "usage"}
         /\ Legacy(e)["stats_hourly"] \subseteq {"cost", "usage"}
         /\ Legacy(e)["stats_daily"] = {"cost"}
         /\ Legacy(e)["model_prices"] = {"fk"}
         /\ Legacy(e)["upstream_providers"] = {}
         /\ Legacy(e)["provider_models"] = {}
BY DEF Legacy

\* What a step may touch, and where in the program it stands.
StepOK(s, i) ==
  /\ s.do \in {"tables", "add", "drop", "rebuild", "default_group", "aliases", "key", "active", "upstream"}
  /\ s.do \in {"add", "drop", "rebuild"} => s.table \in Tables
  /\ s.do \notin {"add", "drop", "rebuild"} => s.table = "all"
  /\ s.do = "add" => /\ s.columns \subseteq Needed[s.table] \ {"key"} /\ s.columns # {}
                     /\ s.table # "model_prices"
  /\ s.do = "drop" => s.columns \subseteq {"cost", "fk"} /\ engine = "postgres"
  /\ s.do = "rebuild" => /\ engine = "sqlite" /\ s = Rebuild(s.table)
                         /\ s.table \in {"model_prices", "stats_daily", "stats_hourly", "request_logs", "stats_events"}
  /\ s.do = "key" => engine = "postgres"
  /\ s.do = "tables" <=> i = 1
  /\ s.do = "upstream" <=> i = 21

LEMMA ProgramSteps ==
  ASSUME engine \in {"sqlite", "postgres"}
  PROVE  /\ Len(Program) = 21
         /\ \A i \in 1 .. 21 : StepOK(Program[i], i)
<1>0. \A i \in 1 .. 21 : i \in {1, 2, 3, 4, 5, 6, 7, 8, 9, 10, 11, 12, 13, 14, 15, 16, 17, 18, 19, 20, 21}
  OBVIOUS
<1>1. CASE engine = "sqlite"
  <2>1. Program = migrate_sqlite
    BY <1>1 DEF Program
  <2> SUFFICES ASSUME NEW i \in 1 .. 21 PROVE StepOK(migrate_sqlite[i], i)
    BY <2>1, SqliteSteps
  <2> USE DEF Run, AddTo, Rebuild, Step
  <2>2. CASE i = 1
    BY <1>1, <2>2, SqliteSteps, NeededColumns DEF StepOK, Tables
  <2>3. CASE i = 2
    BY <1>1, <2>3, SqliteSteps, NeededColumns DEF StepOK, Tables
  <2>4. CASE i = 3
    BY <1>1, <2>4, SqliteSteps, NeededColumns DEF StepOK, Tables
  <2>5. CASE i = 4
    BY <1>1, <2>5, SqliteSteps, NeededColumns DEF StepOK, Tables
  <2>6. CASE i = 5
    BY <1>1, <2>6, SqliteSteps, NeededColumns DEF StepOK, Tables
  <2>7. CASE i = 6
    BY <1>1, <2>7, SqliteSteps, NeededColumns DEF StepOK, Tables
  <2>8. CASE i = 7
    BY <1>1, <2>8, SqliteSteps, NeededColumns DEF StepOK, Tables
  <2>9. CASE i = 8
    BY <1>1, <2>9, SqliteSteps, NeededColumns DEF StepOK, Tables
  <2>10. CASE i = 9
    BY <1>1, <2>10, SqliteSteps, NeededColumns DEF StepOK, Tables
  <2>11. CASE i = 10
    BY <1>1, <2>11, SqliteSteps, NeededColumns DEF StepOK, Tables
  <2>12. CASE i = 11
    BY <1>1, <2>12, SqliteSteps, NeededColumns DEF StepOK, Tables
  <2>13. CASE i = 12
    BY <1>1, <2>13, SqliteSteps, NeededColumns DEF StepOK, Tables
  <2>14. CASE i = 13
    BY <1>1, <2>14, SqliteSteps, NeededColumns DEF StepOK, Tables
  <2>15. CASE i = 14
    BY <1>1, <2>15, SqliteSteps, NeededColumns DEF StepOK, Tables
  <2>16. CASE i = 15
    BY <1>1, <2>16, SqliteSteps, NeededColumns DEF StepOK, Tables
  <2>17. CASE i = 16
    BY <1>1, <2>17, SqliteSteps, NeededColumns DEF StepOK, Tables
  <2>18. CASE i = 17
    BY <1>1, <2>18, SqliteSteps, NeededColumns DEF StepOK, Tables
  <2>19. CASE i = 18
    BY <1>1, <2>19, SqliteSteps, NeededColumns DEF StepOK, Tables
  <2>20. CASE i = 19
    BY <1>1, <2>20, SqliteSteps, NeededColumns DEF StepOK, Tables
  <2>21. CASE i = 20
    BY <1>1, <2>21, SqliteSteps, NeededColumns DEF StepOK, Tables
  <2>22. CASE i = 21
    BY <1>1, <2>22, SqliteSteps, NeededColumns DEF StepOK, Tables
  <2> QED BY <1>0, <2>2, <2>3, <2>4, <2>5, <2>6, <2>7, <2>8, <2>9, <2>10, <2>11, <2>12, <2>13, <2>14, <2>15, <2>16, <2>17, <2>18, <2>19, <2>20, <2>21, <2>22
<1>2. CASE engine = "postgres"
  <2>1. Program = migrate_postgres
    BY <1>2 DEF Program
  <2> SUFFICES ASSUME NEW i \in 1 .. 21 PROVE StepOK(migrate_postgres[i], i)
    BY <2>1, PostgresSteps
  <2> USE DEF Run, AddTo, DropFrom, Step
  <2>2. CASE i = 1
    BY <1>2, <2>2, PostgresSteps, NeededColumns DEF StepOK, Tables
  <2>3. CASE i = 2
    BY <1>2, <2>3, PostgresSteps, NeededColumns DEF StepOK, Tables
  <2>4. CASE i = 3
    BY <1>2, <2>4, PostgresSteps, NeededColumns DEF StepOK, Tables
  <2>5. CASE i = 4
    BY <1>2, <2>5, PostgresSteps, NeededColumns DEF StepOK, Tables
  <2>6. CASE i = 5
    BY <1>2, <2>6, PostgresSteps, NeededColumns DEF StepOK, Tables
  <2>7. CASE i = 6
    BY <1>2, <2>7, PostgresSteps, NeededColumns DEF StepOK, Tables
  <2>8. CASE i = 7
    BY <1>2, <2>8, PostgresSteps, NeededColumns DEF StepOK, Tables
  <2>9. CASE i = 8
    BY <1>2, <2>9, PostgresSteps, NeededColumns DEF StepOK, Tables
  <2>10. CASE i = 9
    BY <1>2, <2>10, PostgresSteps, NeededColumns DEF StepOK, Tables
  <2>11. CASE i = 10
    BY <1>2, <2>11, PostgresSteps, NeededColumns DEF StepOK, Tables
  <2>12. CASE i = 11
    BY <1>2, <2>12, PostgresSteps, NeededColumns DEF StepOK, Tables
  <2>13. CASE i = 12
    BY <1>2, <2>13, PostgresSteps, NeededColumns DEF StepOK, Tables
  <2>14. CASE i = 13
    BY <1>2, <2>14, PostgresSteps, NeededColumns DEF StepOK, Tables
  <2>15. CASE i = 14
    BY <1>2, <2>15, PostgresSteps, NeededColumns DEF StepOK, Tables
  <2>16. CASE i = 15
    BY <1>2, <2>16, PostgresSteps, NeededColumns DEF StepOK, Tables
  <2>17. CASE i = 16
    BY <1>2, <2>17, PostgresSteps, NeededColumns DEF StepOK, Tables
  <2>18. CASE i = 17
    BY <1>2, <2>18, PostgresSteps, NeededColumns DEF StepOK, Tables
  <2>19. CASE i = 18
    BY <1>2, <2>19, PostgresSteps, NeededColumns DEF StepOK, Tables
  <2>20. CASE i = 19
    BY <1>2, <2>20, PostgresSteps, NeededColumns DEF StepOK, Tables
  <2>21. CASE i = 20
    BY <1>2, <2>21, PostgresSteps, NeededColumns DEF StepOK, Tables
  <2>22. CASE i = 21
    BY <1>2, <2>22, PostgresSteps, NeededColumns DEF StepOK, Tables
  <2> QED BY <1>0, <2>2, <2>3, <2>4, <2>5, <2>6, <2>7, <2>8, <2>9, <2>10, <2>11, <2>12, <2>13, <2>14, <2>15, <2>16, <2>17, <2>18, <2>19, <2>20, <2>21, <2>22
<1> QED BY <1>1, <1>2

-----------------------------------------------------------------------------
(* A gateway goes on to its next step.                                     *)

LEMMA Least ==
  ASSUME NEW T, T \subseteq Nat, T # {}
  PROVE  \E m \in T : \A j \in T : m =< j
<1> DEFINE R == {ss \in Nat \X Nat : ss[1] < ss[2]}
<1>1. IsWellFoundedOn(R, Nat)
  BY NatLessThanWellFounded DEF OpToRel
<1>2. PICK m \in T : \A j \in T : ~ (<<j, m>> \in R)
  <2> HIDE DEF R
  <2> QED BY <1>1, WFMin
<1>3. \A j \in T : <<j, m>> \in Nat \X Nat /\ <<j, m>>[1] = j /\ <<j, m>>[2] = m
  OBVIOUS
<1>4. \A j \in T : ~ (j < m)
  BY <1>2, <1>3
<1> QED BY <1>4

\* Only gateway g moves, to r.
Moves(g, r) ==
  /\ gate' = [h \in Gateways |-> gate'[h]]
  /\ gate'[g] = r
  /\ \A h \in Gateways \ {g} : gate'[h] = gate[h]

GateRow(p, n, w, b) == [pc |-> p, n |-> n, work |-> w, rebuilt |-> b]

SetGate(r, p, n, w) == [[[r EXCEPT !.pc = p] EXCEPT !.n = n] EXCEPT !.work = w]

Engines == engine \in {"sqlite", "postgres"}

LEMMA SetGateFields ==
  ASSUME NEW r, NEW p, NEW n, NEW w, r = GateRow(r.pc, r.n, r.work, r.rebuilt)
  PROVE  SetGate(r, p, n, w) = GateRow(p, n, w, r.rebuilt)
<1>1. PICK a, b, c, d : r = [pc |-> a, n |-> b, work |-> c, rebuilt |-> d]
  BY DEF GateRow
<1>2. r.rebuilt = d
  BY <1>1
<1>3. [[pc |-> a, n |-> b, work |-> c, rebuilt |-> d] EXCEPT !.pc = p] = [pc |-> p, n |-> b, work |-> c, rebuilt |-> d]
  OBVIOUS
<1>4. [[pc |-> p, n |-> b, work |-> c, rebuilt |-> d] EXCEPT !.n = n] = [pc |-> p, n |-> n, work |-> c, rebuilt |-> d]
  OBVIOUS
<1>5. [[pc |-> p, n |-> n, work |-> c, rebuilt |-> d] EXCEPT !.work = w] = [pc |-> p, n |-> n, work |-> w, rebuilt |-> d]
  OBVIOUS
<1> QED BY <1>1, <1>2, <1>3, <1>4, <1>5 DEF GateRow, SetGate

LEMMA GateRowFields ==
  ASSUME NEW p, NEW n, NEW w, NEW b
  PROVE  LET r == GateRow(p, n, w, b)
         IN  r.pc = p /\ r.n = n /\ r.work = w /\ r.rebuilt = b /\ r = GateRow(r.pc, r.n, r.work, r.rebuilt)
BY DEF GateRow

LEMMA SameProgram ==
  ASSUME engine' = engine
  PROVE  Program' = Program /\ Running' = Running /\ GateRows' = GateRows
BY DEF Program, Running, GateRows

LEMMA InGateRows ==
  ASSUME Engines, NEW r \in GateRows
  PROVE  /\ r = GateRow(r.pc, r.n, r.work, r.rebuilt)
         /\ r.pc \in 0 .. 22 /\ r.n \in 0 .. 4 /\ r.rebuilt \in BOOLEAN
<1>0. Len(Program) = 21
  BY ProgramSteps DEF Engines
<1>1. Len(Program) + 1 = 22
  BY <1>0
<1>2. r \in [pc: 0 .. Len(Program) + 1, n: 0 .. 4, rebuilt: BOOLEAN,
             work: [columns: (SUBSET UNION {Needed[t] : t \in Tables}) \cup {Missing}, rows: BOOLEAN, old: BOOLEAN]]
  BY DEF GateRows
<1> QED BY <1>1, <1>2 DEF GateRow

LEMMA NextStepMoves ==
  ASSUME Engines, gate = [h \in Gateways |-> gate[h]], NEW g \in Gateways, gate[g] \in GateRows, Starting(g),
         NEW tables, NextStep(g, tables)
  PROVE  \E q \in gate[g].pc + 1 .. 22 :
           /\ Moves(g, GateRow(q, 0, NoWork, gate[g].rebuilt))
           /\ \A i \in gate[g].pc + 1 .. q - 1 : ~ HasWork(Program[i], tables)
<1> DEFINE p == gate[g].pc
           T == {i \in p + 1 .. 21 : HasWork(Program[i], tables)} \cup {22}
           m == CHOOSE i \in T : \A j \in T : i =< j
<1>1. Len(Program) = 21 /\ p \in 1 .. 21
  BY ProgramSteps DEF Engines, Starting
<1>2. gate' = [gate EXCEPT ![g].pc = m, ![g].n = 0, ![g].work = NoWork]
  <2>1. Len(Program) + 1 = 22
    BY <1>1
  <2> QED BY <1>1, <2>1 DEF NextStep
<1>3. m \in T /\ \A j \in T : m =< j
  <2>1. T \subseteq Nat /\ T # {}
    BY <1>1
  <2> HIDE DEF T
  <2> QED BY <2>1, Least
<1> HIDE DEF m
<1>4. m \in p + 1 .. 22
  BY <1>1, <1>3
<1>5. ASSUME NEW i \in p + 1 .. m - 1 PROVE ~ HasWork(Program[i], tables)
  <2>1. i \in p + 1 .. 21 /\ ~ (m =< i)
    BY <1>1, <1>4
  <2> QED BY <1>3, <2>1
<1>6. Moves(g, GateRow(m, 0, NoWork, gate[g].rebuilt))
  <2>1. gate' = [gate EXCEPT ![g] = SetGate(gate[g], m, 0, NoWork)]
    BY <1>2 DEF SetGate
  <2>2. SetGate(gate[g], m, 0, NoWork) = GateRow(m, 0, NoWork, gate[g].rebuilt)
    BY InGateRows, SetGateFields
  <2> QED BY <2>1, <2>2 DEF Moves
<1> QED BY <1>4, <1>5, <1>6

LEMMA GiveUpMoves ==
  ASSUME gate = [h \in Gateways |-> gate[h]], NEW g \in Gateways, GiveUp(g)
  PROVE  Moves(g, Down)
BY DEF GiveUp, Moves

LEMMA NextStatementMoves ==
  ASSUME Engines, gate = [h \in Gateways |-> gate[h]], NEW g \in Gateways, gate[g] \in GateRows, NextStatement(g)
  PROVE  Moves(g, GateRow(gate[g].pc, gate[g].n + 1, gate[g].work, gate[g].rebuilt))
<1> DEFINE N == gate[g].n + 1
<1>1. gate' = [gate EXCEPT ![g] = [gate[g] EXCEPT !.n = N]]
  BY DEF NextStatement
<1>2. [gate[g] EXCEPT !.n = N] = GateRow(gate[g].pc, N, gate[g].work, gate[g].rebuilt)
  <2>1. PICK a, b, c, d : gate[g] = [pc |-> a, n |-> b, work |-> c, rebuilt |-> d]
    BY InGateRows DEF GateRow
  <2>2. gate[g].pc = a /\ gate[g].work = c /\ gate[g].rebuilt = d
    BY <2>1
  <2> HIDE DEF N
  <2>3. [[pc |-> a, n |-> b, work |-> c, rebuilt |-> d] EXCEPT !.n = N] = [pc |-> a, n |-> N, work |-> c, rebuilt |-> d]
    OBVIOUS
  <2> QED BY <2>1, <2>2, <2>3 DEF GateRow
<1> QED BY <1>1, <1>2 DEF Moves

-----------------------------------------------------------------------------
(* What the steps of a start left stays, whatever another start does.      *)

KeyHeld    == "key" \in schema["stats_hourly"] \/ Between("key") \/ "key" \in cut
ActiveHeld == active \/ Between("active") \/ "active" \in cut

\* Tables keep the columns that are needed and do not get old ones back.
Grows ==
  /\ engine' = engine
  /\ migrated => migrated'
  /\ KeyHeld => KeyHeld'
  /\ \A t \in Tables : schema[t] # Missing =>
       /\ schema'[t] # Missing
       /\ \A c \in schema[t] : c \in schema'[t] \/ c \in {"cost", "fk"} \/ (c = "key" /\ engine = "postgres")
       /\ \A c \in schema'[t] : c \in {"cost", "fk"} => c \in schema[t]

LEMMA LostStays ==
  ASSUME engine' = engine, NEW g, NEW i, gate[g].rebuilt => gate'[g].rebuilt
  PROVE  Lost(g, i) \subseteq Lost(g, i)'
BY SameProgram DEF Lost

LEMMA HoldsStays ==
  ASSUME Engines, Grows, NEW g, NEW i \in 1 .. 21, Holds(g, 1), Holds(g, i), gate[g].rebuilt => gate'[g].rebuilt
  PROVE  Holds(g, i)'
<1> DEFINE s == Program[i]
<1>1. Program' = Program /\ engine' = engine
  BY SameProgram DEF Grows
<1>2. StepOK(s, i) /\ StepOK(Program[1], 1)
  BY ProgramSteps DEF Engines
<1>3. \A t \in Tables : schema[t] # Missing /\ schema'[t] # Missing
  <2>1. Program[1].do = "tables"
    BY <1>2 DEF StepOK
  <2>2. \A t \in Tables : schema[t] # Missing
    BY <2>1 DEF Holds
  <2> QED BY <2>2 DEF Grows
<1>4. Lost(g, i) \subseteq Lost(g, i)'
  BY <1>1, LostStays
<1> HIDE DEF s
<1>5. ASSUME s.do = "add" PROVE s.columns \ schema'[s.table] \subseteq Lost(g, i)'
  <2>1. s.table \in Tables /\ s.columns \ schema[s.table] \subseteq Lost(g, i)
    BY <1>2, <1>5 DEF StepOK, Holds, s
  <2>2. s.columns \cap {"cost", "fk", "key"} = {}
    BY <1>2, <1>5, NeededColumns DEF StepOK, Tables
  <2> QED BY <1>3, <1>4, <2>1, <2>2 DEF Grows
<1>6. ASSUME s.do = "drop" PROVE s.columns \cap schema'[s.table] = {}
  <2>1. s.table \in Tables /\ s.columns \cap schema[s.table] = {} /\ s.columns \subseteq {"cost", "fk"}
    BY <1>2, <1>6 DEF StepOK, Holds, s
  <2> QED BY <1>3, <2>1 DEF Grows
<1>7. ASSUME s.do = "rebuild" PROVE ~ NeedsRebuild(s.table, schema'[s.table])
  <2>1. s.table \in Tables /\ ~ NeedsRebuild(s.table, schema[s.table]) /\ engine = "sqlite"
    BY <1>2, <1>7 DEF StepOK, Holds, s
  <2> QED BY <1>3, <2>1 DEF Grows, NeedsRebuild
<1>8. ASSUME s.do = "active" PROVE "active" \in schema'["model_prices"]
  <2>1. "active" \in schema["model_prices"] /\ "model_prices" \in Tables
    BY <1>8 DEF Holds, s, Tables
  <2> QED BY <1>3, <2>1 DEF Grows
<1>9. s.do = "key" => KeyHeld'
  BY DEF Holds, Grows, KeyHeld, s
<1>10. s.do = "upstream" => migrated'
  BY DEF Holds, Grows, s
<1> QED BY <1>1, <1>3, <1>5, <1>6, <1>7, <1>8, <1>9, <1>10 DEF Holds, KeyHeld, s

\* A step that finds nothing to do has been done.
LEMMA SkippedHolds ==
  ASSUME Engines, engine' = engine, NEW g, NEW i \in 1 .. 21, ~ HasWork(Program[i], schema')
  PROVE  Holds(g, i)'
<1> DEFINE s == Program[i]
<1>1. Program' = Program
  BY SameProgram
<1>2. StepOK(s, i)
  BY ProgramSteps DEF Engines
<1> HIDE DEF s
<1>3. s.do \in {"add", "drop", "rebuild"}
  BY <1>2 DEF StepOK, HasWork, s
<1>4. /\ s.do = "add" => s.columns \subseteq schema'[s.table]
      /\ s.do = "drop" => s.columns \cap schema'[s.table] = {}
      /\ s.do = "rebuild" => ~ NeedsRebuild(s.table, schema'[s.table])
  BY DEF HasWork, s
<1> QED BY <1>1, <1>3, <1>4 DEF Holds, s

LEMMA GateFacts ==
  ASSUME Engines, NEW g, GateOK(g)
  PROVE  /\ gate[g] \in GateRows /\ gate[g].pc \in 0 .. 22 /\ gate[g].n \in 0 .. 4
         /\ gate[g] = GateRow(gate[g].pc, gate[g].n, gate[g].work, gate[g].rebuilt)
         /\ Starting(g) <=> gate[g].pc \in 1 .. 21
         /\ Serving(g) <=> gate[g].pc = 22
         /\ \A i \in 1 .. gate[g].pc - 1 : i \in 1 .. 21 /\ Holds(g, i) /\ Holds(g, 1)
<1>1. Len(Program) = 21
  BY ProgramSteps DEF Engines
<1>2. gate[g] \in GateRows /\ \A i \in 1 .. gate[g].pc - 1 : Holds(g, i)
  BY DEF GateOK
<1>3. gate[g].pc \in 0 .. 22 /\ gate[g].n \in 0 .. 4
      /\ gate[g] = GateRow(gate[g].pc, gate[g].n, gate[g].work, gate[g].rebuilt)
  BY <1>2, InGateRows
<1>4. Starting(g) <=> gate[g].pc \in 1 .. 21
  BY <1>1 DEF Starting
<1>5. Serving(g) <=> gate[g].pc = 22
  BY <1>1, <1>3 DEF Serving
<1>6. \A i \in 1 .. gate[g].pc - 1 : i \in 1 .. 21 /\ 1 \in 1 .. gate[g].pc - 1
  BY <1>3
<1> QED BY <1>2, <1>3, <1>4, <1>5, <1>6

LEMMA OtherGate ==
  ASSUME Engines, Grows, rows' = rows, NEW h, gate'[h] = gate[h], GateOK(h)
  PROVE  GateOK(h)'
<1>1. Program' = Program /\ Running' = Running /\ GateRows' = GateRows /\ engine' = engine
  BY SameProgram DEF Grows
<1>2. gate'[h] \in GateRows' /\ (h \notin Running' => gate'[h] = Down) /\ (engine' = "postgres" => ~ gate'[h].rebuilt)
  BY <1>1 DEF GateOK
<1>3. WorkOK(h)'
  BY <1>1 DEF GateOK, WorkOK, Starting, TableOf
<1>4. (AtStep(h, "active", 2) => "active" \in schema["model_prices"])'
  <2>1. "active" \in schema["model_prices"] => "active" \in schema'["model_prices"]
    BY DEF Grows, Tables, Missing
  <2> QED BY <1>1, <2>1 DEF GateOK, AtStep, Starting
<1>5. \A i \in 1 .. gate[h].pc - 1 : Holds(h, i)'
  BY GateFacts, HoldsStays
<1> QED BY <1>1, <1>2, <1>3, <1>4, <1>5 DEF GateOK

LEMMA DownGate ==
  ASSUME Engines, engine' = engine, NEW g, gate'[g] = Down
  PROVE  GateOK(g)'
<1>1. Program' = Program /\ Running' = Running /\ GateRows' = GateRows /\ Len(Program) = 21
  BY SameProgram, ProgramSteps DEF Engines
<1>2. Down.pc = 0 /\ Down.n = 0 /\ Down.rebuilt = FALSE
  BY DEF Down
<1>3. Down \in GateRows
  <2>1. NoWork \in [columns: (SUBSET UNION {Needed[t] : t \in Tables}) \cup {Missing}, rows: BOOLEAN, old: BOOLEAN]
    BY DEF NoWork
  <2>2. 0 \in 0 .. Len(Program) + 1 /\ 0 \in 0 .. 4
    BY <1>1
  <2> HIDE DEF NoWork
  <2> QED BY <2>1, <2>2 DEF Down, GateRows
<1>4. ~ Starting(g)'
  BY <1>1, <1>2 DEF Starting
<1>5. \A i \in 1 .. gate'[g].pc - 1 : FALSE
  BY <1>2
<1> QED BY <1>1, <1>2, <1>3, <1>4, <1>5 DEF GateOK, WorkOK, AtStep

\* Gateway g finishes its step.
LEMMA NextGateFrom ==
  ASSUME Engines, engine' = engine, gate = [h \in Gateways |-> gate[h]], NEW g \in Gateways, GateOK(g), Starting(g),
         NEW tables, NextStep(g, tables),
         \A i \in 1 .. 21 : ~ HasWork(Program[i], tables) => ~ HasWork(Program[i], schema'), NEW p, p = gate[g].pc,
         \A i \in 1 .. p : gate'[g].rebuilt = gate[g].rebuilt => Holds(g, i)'
  PROVE  GateOK(g)' /\ \E q \in p + 1 .. 22 : Moves(g, GateRow(q, 0, NoWork, gate[g].rebuilt))
<1>1. Program' = Program /\ Running' = Running /\ GateRows' = GateRows /\ engine' = engine /\ Len(Program) = 21
  BY SameProgram, ProgramSteps DEF Engines
<1>2. p \in 1 .. 21 /\ gate[g] \in GateRows /\ gate[g].rebuilt \in BOOLEAN /\ gate[g] # Down
  <2>1. p \in 1 .. 21 /\ gate[g] \in GateRows
    BY GateFacts
  <2>2. gate[g].rebuilt \in BOOLEAN
    BY <2>1, InGateRows
  <2>3. Down.pc = 0
    BY DEF Down
  <2>4. gate[g] # Down
    BY <2>1, <2>3
  <2> QED BY <2>1, <2>2, <2>4
<1>3. PICK q \in p + 1 .. 22 : /\ Moves(g, GateRow(q, 0, NoWork, gate[g].rebuilt))
                               /\ \A i \in p + 1 .. q - 1 : ~ HasWork(Program[i], tables)
  BY <1>2, NextStepMoves
<1>4. gate'[g] = GateRow(q, 0, NoWork, gate[g].rebuilt)
  BY <1>3 DEF Moves
<1>5. gate'[g].pc = q /\ gate'[g].n = 0 /\ gate'[g].rebuilt = gate[g].rebuilt
  BY <1>4, GateRowFields
<1>6. gate'[g] \in GateRows
  <2>1. NoWork \in [columns: (SUBSET UNION {Needed[t] : t \in Tables}) \cup {Missing}, rows: BOOLEAN, old: BOOLEAN]
    BY DEF NoWork
  <2>2. q \in 0 .. Len(Program) + 1 /\ 0 \in 0 .. 4
    <3>1. q \in 0 .. 22 /\ 0 \in 0 .. 4
      BY <1>2
    <3> QED BY <1>1, <3>1
  <2> HIDE DEF NoWork
  <2> QED BY <1>2, <1>4, <2>1, <2>2 DEF GateRow, GateRows
<1>7. (g \notin Running => gate[g] = Down) /\ (engine = "postgres" => ~ gate[g].rebuilt)
  BY DEF GateOK
<1>8. WorkOK(g)' /\ ~ AtStep(g, "active", 2)'
  BY <1>5 DEF WorkOK, AtStep
<1>9. ASSUME NEW i \in 1 .. q - 1 PROVE Holds(g, i)'
  <2>1. CASE i \in 1 .. p
    BY <1>5, <2>1
  <2>3. CASE i \in p + 1 .. q - 1
    <3>1. i \in 1 .. 21
      BY <1>2, <2>3
    <3> QED BY <1>1, <1>3, <2>3, <3>1, SkippedHolds
  <2> QED BY <1>2, <2>1, <2>3
<1> QED BY <1>1, <1>2, <1>3, <1>5, <1>6, <1>7, <1>8, <1>9 DEF GateOK

LEMMA NextGate ==
  ASSUME Engines, Grows, gate = [h \in Gateways |-> gate[h]], NEW g \in Gateways, GateOK(g), Starting(g),
         NEW tables, NextStep(g, tables),
         \A i \in 1 .. 21 : ~ HasWork(Program[i], tables) => ~ HasWork(Program[i], schema'),
         NEW p, p = gate[g].pc, Holds(g, p)'
  PROVE  GateOK(g)' /\ \E q \in p + 1 .. 22 : Moves(g, GateRow(q, 0, NoWork, gate[g].rebuilt))
<1>1. engine' = engine /\ p \in 1 .. 21
  BY GateFacts DEF Grows
<1>2. ASSUME NEW i \in 1 .. p, gate'[g].rebuilt = gate[g].rebuilt PROVE Holds(g, i)'
  <2>1. CASE i = p
    BY <2>1
  <2>2. CASE i \in 1 .. p - 1
    BY <1>2, <2>2, GateFacts, HoldsStays
  <2> QED BY <1>1, <2>1, <2>2
<1> QED BY <1>1, <1>2, NextGateFrom

\* Gateway g makes a statement and stays at its step.
LEMMA SameStepGate ==
  ASSUME Engines, Grows, NEW g, GateOK(g), gate[g] # Down, gate'[g] \in GateRows, gate'[g].pc = gate[g].pc,
         gate[g].rebuilt => gate'[g].rebuilt, engine = "postgres" => ~ gate'[g].rebuilt, WorkOK(g)',
         AtStep(g, "active", 2)' => "active" \in schema'["model_prices"]
  PROVE  GateOK(g)'
<1>1. Program' = Program /\ Running' = Running /\ GateRows' = GateRows /\ engine' = engine
  BY SameProgram DEF Grows
<1>2. ASSUME NEW i \in 1 .. gate[g].pc - 1 PROVE Holds(g, i)'
  BY GateFacts, HoldsStays
<1> QED BY <1>1, <1>2 DEF GateOK

\* A start that is not between the two statements leaves those that are.
LEMMA BetweenStays ==
  ASSUME engine' = engine, NEW g \in Gateways, NEW r, Moves(g, r), NEW do, ~ AtStep(g, do, 2), Between(do)
  PROVE  Between(do)'
<1>1. PICK h \in Gateways : AtStep(h, do, 2)
  BY DEF Between
<1>2. h # g /\ gate'[h] = gate[h]
  BY <1>1 DEF Moves
<1>3. AtStep(h, do, 2)'
  BY <1>1, <1>2, SameProgram DEF AtStep, Starting
<1> QED BY <1>3 DEF Between

-----------------------------------------------------------------------------
(* The steps of a start, one lemma for each.                               *)

StartSafe ==
  /\ Engines
  /\ migrated \in BOOLEAN /\ frozen = (IF migrated THEN 1 ELSE 0)
  /\ SchemaOK
  /\ rows \in [Tables -> BOOLEAN]
  /\ gate = [g \in Gateways |-> gate[g]]
  /\ StartsOK
  /\ schema["model_prices"] = Missing => active
  /\ "active" \in schema["model_prices"] => ActiveHeld

StartKept == StartSafe' /\ \A t \in Tables : rows[t] => rows'[t]

\* One gateway moves and the tables grow.
LEMMA OneGateMoves ==
  ASSUME StartSafe, Grows, rows' = rows, NEW g \in Gateways, NEW r, Moves(g, r), GateOK(g)', SchemaOK',
         migrated' \in BOOLEAN, frozen' = (IF migrated' THEN 1 ELSE 0),
         schema'["model_prices"] = Missing => active',
         "active" \in schema'["model_prices"] => ActiveHeld'
  PROVE  StartKept
<1>1. Engines /\ Engines'
  BY DEF StartSafe, Engines, Grows
<1>2. ASSUME NEW h \in Gateways PROVE GateOK(h)'
  <2>1. CASE h = g
    BY <2>1
  <2>2. CASE h # g
    BY <1>1, <2>2, OtherGate DEF Moves, StartSafe, StartsOK
  <2> QED BY <2>1, <2>2
<1>3. StartsOK'
  BY <1>2 DEF StartsOK
<1> QED BY <1>1, <1>3 DEF StartKept, StartSafe, Moves

LEMMA SchemaUnchanged ==
  ASSUME schema' = schema, engine' = engine, SchemaOK
  PROVE  SchemaOK'
BY DEF SchemaOK

\* The tables stay as they are.
LEMMA QuietGrows ==
  ASSUME schema' = schema, engine' = engine, migrated => migrated', cut \subseteq cut',
         NEW g \in Gateways, NEW r, Moves(g, r), AtStep(g, "key", 2) => "key" \in cut'
  PROVE  Grows
<1>1. KeyHeld => KeyHeld'
  BY BetweenStays DEF KeyHeld
<1> QED BY <1>1 DEF Grows

LEMMA QuietActive ==
  ASSUME engine' = engine, active => active', cut \subseteq cut', NEW g \in Gateways, NEW r, Moves(g, r),
         AtStep(g, "active", 2) => active' \/ "active" \in cut', ActiveHeld
  PROVE  ActiveHeld'
BY BetweenStays DEF ActiveHeld

LEMMA QuietNext ==
  ASSUME StartSafe, NEW g \in Gateways, Starting(g), NextStep(g, schema),
         engine' = engine, schema' = schema, rows' = rows, cut' = cut, active => active', migrated => migrated',
         migrated' \in BOOLEAN, frozen' = (IF migrated' THEN 1 ELSE 0),
         ~ AtStep(g, "key", 2), AtStep(g, "active", 2) => active',
         NEW p, p = gate[g].pc, Holds(g, p)'
  PROVE  StartKept
<1>1. Engines /\ GateOK(g) /\ gate = [h \in Gateways |-> gate[h]] /\ SchemaOK
  BY DEF StartSafe, StartsOK
<1>2. NextStep(g, schema')
  OBVIOUS
<1>3. gate[g] \in GateRows
  BY <1>1 DEF GateOK
<1>4. PICK r : Moves(g, r)
  BY <1>1, <1>3, NextStepMoves
<1>5. Grows
  BY <1>4, QuietGrows
<1>6. GateOK(g)'
  BY <1>1, <1>2, <1>5, NextGate
<1>7. "active" \in schema'["model_prices"] => ActiveHeld'
  BY <1>4, QuietActive DEF StartSafe
<1>8. SchemaOK'
  BY <1>1, SchemaUnchanged
<1>9. schema'["model_prices"] = Missing => active'
  BY DEF StartSafe
<1> QED BY <1>4, <1>5, <1>6, <1>7, <1>8, <1>9, OneGateMoves

LEMMA GiveUpKeeps ==
  ASSUME StartSafe, NEW g \in Gateways, GiveUp(g),
         engine' = engine, schema' = schema, rows' = rows, cut \subseteq cut', active' = active,
         migrated' = migrated, frozen' = frozen,
         AtStep(g, "key", 2) => "key" \in cut', AtStep(g, "active", 2) => "active" \in cut'
  PROVE  StartKept
<1>1. Engines /\ GateOK(g) /\ gate = [h \in Gateways |-> gate[h]] /\ SchemaOK
  BY DEF StartSafe, StartsOK
<1>2. Moves(g, Down)
  BY <1>1, GiveUpMoves
<1>3. Grows
  BY <1>2, QuietGrows
<1>4. GateOK(g)'
  BY <1>1, <1>2, DownGate DEF Moves
<1>5. "active" \in schema'["model_prices"] => ActiveHeld'
  BY <1>2, QuietActive DEF StartSafe
<1>6. SchemaOK'
  BY <1>1, SchemaUnchanged
<1> QED BY <1>2, <1>3, <1>4, <1>5, <1>6, OneGateMoves DEF StartSafe

LEMMA CrashStartKeeps ==
  ASSUME StartSafe, NEW g \in Gateways, crash(g)
  PROVE  StartKept
<1>1. /\ GiveUp(g) /\ engine' = engine /\ schema' = schema /\ rows' = rows /\ active' = active
      /\ migrated' = migrated /\ frozen' = frozen /\ cut' = cut \cup {s \in {"key", "active"} : AtStep(g, s, 2)}
  BY DEF crash
<1> QED BY <1>1, GiveUpKeeps

\* A new step of g, whose position has this kind.
LEMMA AtStepFacts ==
  ASSUME StartSafe, NEW g \in Gateways, NEW do, NEW n, AtStep(g, do, n)
  PROVE  /\ Starting(g) /\ gate[g].pc \in 1 .. 21 /\ Program[gate[g].pc].do = do /\ gate[g].n = n
         /\ StepOK(Program[gate[g].pc], gate[g].pc)
         /\ GateOK(g) /\ gate[g] \in GateRows /\ gate[g] # Down
         /\ \A e : e # do => ~ AtStep(g, e, 2)
         /\ n # 2 => ~ AtStep(g, do, 2)
         /\ do # "tables" => gate[g].pc > 1 /\ Holds(g, 1) /\ \A t \in Tables : schema[t] # Missing
<1>1. Engines /\ GateOK(g) /\ Starting(g) /\ Program[gate[g].pc].do = do /\ gate[g].n = n
  BY DEF StartSafe, StartsOK, AtStep
<1>2. gate[g].pc \in 1 .. 21 /\ gate[g] \in GateRows
  BY <1>1, GateFacts
<1>3. StepOK(Program[gate[g].pc], gate[g].pc) /\ StepOK(Program[1], 1)
  BY <1>1, <1>2, ProgramSteps DEF Engines
<1>4. gate[g] # Down
  <2>1. Down.pc = 0
    BY DEF Down
  <2> QED BY <1>2, <2>1
<1>5. ASSUME do # "tables" PROVE gate[g].pc > 1 /\ Holds(g, 1) /\ \A t \in Tables : schema[t] # Missing
  <2>1. gate[g].pc # 1
    BY <1>1, <1>3, <1>5 DEF StepOK
  <2>2. gate[g].pc > 1 /\ 1 \in 1 .. gate[g].pc - 1
    BY <1>2, <2>1
  <2>3. Holds(g, 1)
    BY <1>1, <2>2, GateFacts
  <2>4. Program[1].do = "tables"
    BY <1>3 DEF StepOK
  <2> QED BY <2>2, <2>3, <2>4 DEF Holds
<1> QED BY <1>1, <1>2, <1>3, <1>4, <1>5 DEF AtStep

LEMMA CatalogueStepKeeps ==
  ASSUME StartSafe, NEW g \in Gateways, ensure_default_provider_group(g) \/ migrate_provider_model_aliases(g)
  PROVE  StartKept
<1>1. /\ engine' = engine /\ schema' = schema /\ rows' = rows /\ active' = active /\ cut' = cut
      /\ migrated' = migrated /\ frozen' = frozen /\ NextStep(g, schema)
  BY DEF ensure_default_provider_group, migrate_provider_model_aliases
<1>2. PICK do \in {"default_group", "aliases"} : AtStep(g, do, 0)
  BY DEF ensure_default_provider_group, migrate_provider_model_aliases
<1>3. PICK p : p = gate[g].pc
  OBVIOUS
<1>4. Starting(g) /\ Program[p].do = do /\ ~ AtStep(g, "key", 2) /\ ~ AtStep(g, "active", 2)
  BY <1>2, <1>3, AtStepFacts
<1>5. Holds(g, p)'
  <2>1. Program'[p].do = do
    BY <1>1, <1>4, SameProgram
  <2> QED BY <2>1 DEF Holds
<1> QED BY <1>1, <1>3, <1>4, <1>5, QuietNext DEF StartSafe

LEMMA StartKeeps ==
  ASSUME StartSafe, NEW g \in Gateways, start(g)
  PROVE  StartKept
<1>1. /\ engine' = engine /\ schema' = schema /\ rows' = rows /\ active' = active /\ cut' = cut
      /\ migrated' = migrated /\ frozen' = frozen /\ g \in Running /\ gate[g] = Down
      /\ gate' = [gate EXCEPT ![g].pc = 1]
  BY DEF start
<1>2. Engines /\ gate = [h \in Gateways |-> gate[h]] /\ SchemaOK /\ Len(Program) = 21 /\ StepOK(Program[1], 1)
  BY ProgramSteps DEF StartSafe, Engines
<1>3. Program' = Program /\ Running' = Running /\ GateRows' = GateRows
  BY <1>1, SameProgram
<1> DEFINE r == GateRow(1, 0, NoWork, FALSE)
<1>4. Moves(g, r)
  <2>1. [Down EXCEPT !.pc = 1] = r
    <3> DEFINE w == NoWork  b == FALSE
    <3>1. Down = [pc |-> 0, n |-> 0, work |-> w, rebuilt |-> b]
      BY DEF Down
    <3> HIDE DEF w, b
    <3>2. [[pc |-> 0, n |-> 0, work |-> w, rebuilt |-> b] EXCEPT !.pc = 1]
            = [pc |-> 1, n |-> 0, work |-> w, rebuilt |-> b]
      OBVIOUS
    <3> QED BY <3>1, <3>2 DEF GateRow, w, b
  <2>2. gate' = [gate EXCEPT ![g] = [gate[g] EXCEPT !.pc = 1]]
    BY <1>1
  <2> QED BY <1>1, <1>2, <2>1, <2>2 DEF Moves
<1>5. r \in GateRows
  <2>1. NoWork \in [columns: (SUBSET UNION {Needed[t] : t \in Tables}) \cup {Missing}, rows: BOOLEAN, old: BOOLEAN]
    BY DEF NoWork
  <2>2. 1 \in 0 .. Len(Program) + 1 /\ 0 \in 0 .. 4
    BY <1>2
  <2> HIDE DEF NoWork
  <2> QED BY <2>1, <2>2 DEF GateRow, GateRows
<1>6. gate'[g].pc = 1 /\ gate'[g].n = 0 /\ gate'[g].rebuilt = FALSE /\ gate'[g] \in GateRows
  <2>1. r.pc = 1 /\ r.n = 0 /\ r.rebuilt = FALSE
    BY DEF GateRow
  <2> HIDE DEF r
  <2> QED BY <1>4, <1>5, <2>1 DEF Moves
<1>7. GateOK(g)'
  <2>1. WorkOK(g)' /\ ~ AtStep(g, "active", 2)'
    BY <1>2, <1>3, <1>6 DEF WorkOK, AtStep, StepOK
  <2>2. \A i \in 1 .. gate'[g].pc - 1 : FALSE
    BY <1>6
  <2> QED BY <1>1, <1>3, <1>6, <2>1, <2>2 DEF GateOK
<1>8. \A do : ~ AtStep(g, do, 2)
  <2>1. Down.pc = 0
    BY DEF Down
  <2> QED BY <1>1, <1>2, <2>1 DEF AtStep, Starting
<1>9. Grows
  BY <1>1, <1>4, <1>8, QuietGrows
<1>10. "active" \in schema'["model_prices"] => ActiveHeld'
  BY <1>1, <1>4, <1>8, QuietActive DEF StartSafe
<1>11. SchemaOK'
  BY <1>1, <1>2, SchemaUnchanged
<1> QED BY <1>1, <1>4, <1>7, <1>9, <1>10, <1>11, OneGateMoves DEF StartSafe

LEMMA ColumnFacts ==
  ASSUME NEW e, NEW t \in Tables
  PROVE  /\ created[t] \subseteq Needed[t] /\ created[t] # {}
         /\ "missing" \notin Needed[t] \cup Legacy(e)[t]
         /\ Needed[t] \cap {"cost", "fk"} = {}
         /\ t \in {"stats_events", "stats_hourly"} => "usage" \in created[t]
<1>1. /\ created["request_logs"] = {"usage", "span", "trace", "format", "price"}
      /\ created["stats_events"] = {"usage", "price"}
      /\ created["stats_hourly"] = {"usage", "price", "key"}
      /\ created["stats_daily"] = {"usage"}
      /\ created["model_prices"] = {"active"}
      /\ created["upstream_providers"] = {"options"}
      /\ created["provider_models"] = {"available"}
  BY DEF created
<1>2. created[t] \subseteq Needed[t] /\ created[t] # {}
  BY <1>1, NeededColumns DEF Tables
<1>3. "missing" \notin Needed[t]
  BY NeededColumns DEF Tables
<1>4. "missing" \notin Legacy(e)[t]
  BY LegacyColumns DEF Tables
<1>5. Needed[t] \cap {"cost", "fk"} = {}
  BY NeededColumns DEF Tables
<1>6. t \in {"stats_events", "stats_hourly"} => "usage" \in created[t]
  BY <1>1
<1> QED BY <1>2, <1>3, <1>4, <1>5, <1>6

LEMMA CreateTablesKeeps ==
  ASSUME StartSafe, NEW g \in Gateways, create_tables(g)
  PROVE  StartKept
<1>1. /\ engine' = engine /\ rows' = rows /\ active' = active /\ cut' = cut /\ migrated' = migrated /\ frozen' = frozen
      /\ schema' = [t \in Tables |-> IF schema[t] = Missing THEN created[t] ELSE schema[t]]
      /\ NextStep(g, schema') /\ AtStep(g, "tables", 0)
  BY DEF create_tables
<1>2. Engines /\ SchemaOK /\ gate = [h \in Gateways |-> gate[h]]
  BY DEF StartSafe
<1>3. Starting(g) /\ GateOK(g) /\ gate[g] \in GateRows /\ Program[gate[g].pc].do = "tables"
      /\ ~ AtStep(g, "key", 2) /\ ~ AtStep(g, "active", 2)
  BY <1>1, AtStepFacts
<1>4. PICK p : p = gate[g].pc
  OBVIOUS
<1>5. PICK r : Moves(g, r)
  BY <1>1, <1>2, <1>3, NextStepMoves
<1>6. \A t \in Tables : /\ schema[t] # Missing => schema'[t] = schema[t]
                        /\ schema[t] = Missing => schema'[t] = created[t]
                        /\ schema'[t] # Missing
  <2> SUFFICES ASSUME NEW t \in Tables
               PROVE  /\ schema[t] # Missing => schema'[t] = schema[t]
                      /\ schema[t] = Missing => schema'[t] = created[t]
                      /\ schema'[t] # Missing
    OBVIOUS
  <2>1. created[t] # Missing
    BY ColumnFacts DEF Missing
  <2> QED BY <1>1, <2>1
<1>7. Grows
  <2>1. "key" \in schema["stats_hourly"] => "key" \in schema'["stats_hourly"]
    BY <1>6 DEF Tables, Missing
  <2>2. KeyHeld => KeyHeld'
    BY <1>1, <1>3, <1>5, <2>1, BetweenStays DEF KeyHeld
  <2> QED BY <1>1, <1>6, <2>2 DEF Grows
<1>8. SchemaOK'
  <2>1. ASSUME NEW t \in Tables PROVE schema'[t] \subseteq Needed[t] \cup Legacy(engine)[t]
    BY <1>2, <1>6, ColumnFacts DEF SchemaOK
  <2>2. ASSUME engine = "postgres", NEW t \in {"stats_events", "stats_hourly"} PROVE "usage" \in schema'[t]
    <3>1. t \in Tables
      BY DEF Tables
    <3> QED BY <1>2, <1>6, <2>2, <3>1, ColumnFacts DEF SchemaOK
  <2> QED BY <1>1, <2>1, <2>2 DEF SchemaOK
<1>9. Holds(g, p)'
  <2>1. Program'[p].do = "tables"
    BY <1>1, <1>3, <1>4, SameProgram
  <2> QED BY <1>6, <2>1 DEF Holds
<1>10. GateOK(g)'
  BY <1>1, <1>2, <1>3, <1>4, <1>7, <1>9, NextGate
<1>11. "active" \in schema'["model_prices"] => ActiveHeld'
  <2>1. CASE schema["model_prices"] = Missing
    BY <1>1, <2>1 DEF StartSafe, ActiveHeld
  <2>2. CASE schema["model_prices"] # Missing
    BY <1>1, <1>3, <1>5, <1>6, <2>2, QuietActive DEF StartSafe, Tables
  <2> QED BY <2>1, <2>2
<1>12. schema'["model_prices"] # Missing
  BY <1>6 DEF Tables
<1> QED BY <1>1, <1>5, <1>7, <1>8, <1>10, <1>11, <1>12, OneGateMoves DEF StartSafe

\* Columns X of table t are new; all else stays.
LEMMA OneTable ==
  ASSUME SchemaOK, engine' = engine, NEW t \in Tables, NEW X, schema' = [schema EXCEPT ![t] = X],
         X \subseteq Needed[t] \cup Legacy(engine)[t],
         t \in {"stats_events", "stats_hourly"} /\ engine = "postgres" => "usage" \in X
  PROVE  SchemaOK' /\ schema'[t] = X /\ \A u \in Tables \ {t} : schema'[u] = schema[u]
<1>1. schema'[t] = X /\ (\A u \in Tables \ {t} : schema'[u] = schema[u]) /\ schema' = [u \in Tables |-> schema'[u]]
  BY DEF SchemaOK
<1>2. "stats_events" \in Tables /\ "stats_hourly" \in Tables
  BY DEF Tables
<1>3. \A u \in Tables : schema'[u] # Missing => schema'[u] \subseteq Needed[u] \cup Legacy(engine)[u]
  BY <1>1 DEF SchemaOK
<1>4. engine = "postgres" => \A u \in {"stats_events", "stats_hourly"} : schema'[u] # Missing => "usage" \in schema'[u]
  BY <1>1, <1>2 DEF SchemaOK
<1> QED BY <1>1, <1>3, <1>4 DEF SchemaOK

LEMMA EnsureColumnsKeeps ==
  ASSUME StartSafe, NEW g \in Gateways, ensure_columns(g)
  PROVE  StartKept
<1>1. PICK p : p = gate[g].pc
  OBVIOUS
<1> DEFINE s == Program[p]  t == s.table
           X == IF s.do = "add" THEN schema[t] \cup s.columns ELSE schema[t] \ s.columns
<1>2. /\ engine' = engine /\ rows' = rows /\ active' = active /\ cut' = cut /\ migrated' = migrated /\ frozen' = frozen
      /\ schema' = [schema EXCEPT ![t] = X] /\ NextStep(g, schema')
  BY <1>1 DEF ensure_columns
<1>3. PICK do \in {"add", "drop"} : AtStep(g, do, 0)
  BY DEF ensure_columns
<1>4. /\ Starting(g) /\ GateOK(g) /\ gate[g] \in GateRows /\ s.do = do /\ StepOK(s, p)
      /\ ~ AtStep(g, "key", 2) /\ ~ AtStep(g, "active", 2) /\ \A u \in Tables : schema[u] # Missing
  BY <1>1, <1>3, AtStepFacts
<1>5. Engines /\ SchemaOK /\ gate = [h \in Gateways |-> gate[h]]
  BY DEF StartSafe
<1>6. PICK r : Moves(g, r)
  BY <1>2, <1>4, <1>5, NextStepMoves
<1> HIDE DEF s
<1>7. t \in Tables /\ schema[t] \subseteq Needed[t] \cup Legacy(engine)[t]
      /\ (t \in {"stats_events", "stats_hourly"} /\ engine = "postgres" => "usage" \in schema[t])
  BY <1>3, <1>4, <1>5 DEF StepOK, SchemaOK
<1>8. X \subseteq Needed[t] \cup Legacy(engine)[t] /\ "missing" \notin X
  <2>1. X \subseteq Needed[t] \cup Legacy(engine)[t]
    BY <1>3, <1>4, <1>7 DEF StepOK
  <2> QED BY <1>7, <2>1, ColumnFacts
<1>9. t \in {"stats_events", "stats_hourly"} /\ engine = "postgres" => "usage" \in X
  BY <1>3, <1>4, <1>7 DEF StepOK
<1>10. /\ \A c \in schema[t] : c \in X \/ c \in {"cost", "fk"}
       /\ \A c \in X : c \in {"cost", "fk"} => c \in schema[t]
       /\ t = "model_prices" /\ "active" \in X => "active" \in schema[t]
  BY <1>3, <1>4, <1>7, ColumnFacts DEF StepOK
<1> HIDE DEF X
<1>11. SchemaOK' /\ schema'[t] = X /\ \A u \in Tables \ {t} : schema'[u] = schema[u]
  BY <1>2, <1>5, <1>7, <1>8, <1>9, OneTable
<1>12. Grows
  <2>1. "key" \in schema["stats_hourly"] => "key" \in schema'["stats_hourly"]
    BY <1>10, <1>11 DEF Tables
  <2>2. KeyHeld => KeyHeld'
    BY <1>2, <1>4, <1>6, <2>1, BetweenStays DEF KeyHeld
  <2>3. X # Missing
    BY <1>8 DEF Missing
  <2> QED BY <1>2, <1>4, <1>10, <1>11, <2>2, <2>3 DEF Grows
<1>13. Holds(g, p)'
  <2>1. Program'[p] = s
    BY <1>2, SameProgram DEF s
  <2>2. (s.do = "add" => s.columns \subseteq schema'[t]) /\ (s.do = "drop" => s.columns \cap schema'[t] = {})
    BY <1>11 DEF X
  <2> QED BY <1>3, <1>4, <2>1, <2>2 DEF Holds
<1>14. GateOK(g)'
  BY <1>1, <1>2, <1>4, <1>5, <1>12, <1>13, NextGate
<1>15. "active" \in schema'["model_prices"] => ActiveHeld'
  <2>1. "active" \in schema'["model_prices"] => "active" \in schema["model_prices"]
    BY <1>10, <1>11 DEF Tables
  <2> QED BY <1>2, <1>4, <1>6, <2>1, QuietActive DEF StartSafe
<1>16. schema'["model_prices"] # Missing
  BY <1>4, <1>8, <1>11 DEF Tables, Missing
<1> QED BY <1>2, <1>6, <1>11, <1>12, <1>14, <1>15, <1>16, OneGateMoves DEF StartSafe

\* The first statements of a step that checks and then alters.
LEMMA StatementGate ==
  ASSUME StartSafe, Grows, NEW g \in Gateways, NEW do \in {"key", "active", "upstream"}, NEW n \in 0 .. 1,
         AtStep(g, do, n), NextStatement(g), do = "active" /\ n = 1 => "active" \in schema'["model_prices"]
  PROVE  /\ GateOK(g)'
         /\ n = 1 => AtStep(g, do, 2)'
<1>1. /\ Starting(g) /\ GateOK(g) /\ gate[g] \in GateRows /\ gate[g] # Down /\ Program[gate[g].pc].do = do /\ gate[g].n = n
  BY AtStepFacts
<1>2. Engines /\ gate = [h \in Gateways |-> gate[h]]
  BY DEF StartSafe
<1>3. Program' = Program /\ GateRows' = GateRows /\ engine' = engine
  BY SameProgram DEF Grows
<1> DEFINE r == GateRow(gate[g].pc, n + 1, gate[g].work, gate[g].rebuilt)
<1>4. gate'[g] = r
  BY <1>1, <1>2, NextStatementMoves DEF Moves
<1>5. r.pc = gate[g].pc /\ r.n = n + 1 /\ r.rebuilt = gate[g].rebuilt
  BY GateRowFields
<1>6. r \in GateRows
  <2>1. n + 1 \in 0 .. 4
    OBVIOUS
  <2> QED BY <1>1, <2>1 DEF GateRow, GateRows
<1> HIDE DEF r
<1>7. Starting(g)' /\ Program'[gate'[g].pc].do = do /\ gate'[g].n = n + 1
  BY <1>1, <1>3, <1>4, <1>5 DEF Starting
<1>8. WorkOK(g)'
  BY <1>7 DEF WorkOK
<1>9. AtStep(g, "active", 2)' => "active" \in schema'["model_prices"]
  BY <1>7 DEF AtStep
<1>10. n = 1 => AtStep(g, do, 2)'
  BY <1>7 DEF AtStep
<1>11. engine = "postgres" => ~ gate[g].rebuilt
  BY <1>1 DEF GateOK
<1> QED BY <1>1, <1>2, <1>4, <1>5, <1>6, <1>8, <1>9, <1>10, <1>11, SameStepGate

LEMMA QuietStatement ==
  ASSUME StartSafe, NEW g \in Gateways, NEW do \in {"key", "active", "upstream"}, AtStep(g, do, 0), NextStatement(g),
         engine' = engine, schema' = schema, rows' = rows, cut' = cut, active' = active,
         migrated' = migrated, frozen' = frozen
  PROVE  StartKept
<1>1. gate[g] \in GateRows /\ ~ AtStep(g, "key", 2) /\ ~ AtStep(g, "active", 2)
  BY AtStepFacts
<1>2. Engines /\ gate = [h \in Gateways |-> gate[h]] /\ SchemaOK
  BY DEF StartSafe
<1>3. PICK r : Moves(g, r)
  BY <1>1, <1>2, NextStatementMoves
<1>4. Grows
  BY <1>1, <1>3, QuietGrows
<1>5. GateOK(g)'
  BY <1>4, StatementGate
<1>6. "active" \in schema'["model_prices"] => ActiveHeld'
  BY <1>1, <1>3, QuietActive DEF StartSafe
<1>7. SchemaOK'
  BY <1>2, SchemaUnchanged
<1> QED BY <1>3, <1>4, <1>5, <1>6, <1>7, OneGateMoves DEF StartSafe

LEMMA PrimaryKeyKeeps ==
  ASSUME StartSafe, NEW g \in Gateways, ensure_primary_key(g)
  PROVE  StartKept
<1>1. engine' = engine /\ rows' = rows /\ active' = active /\ cut' = cut /\ migrated' = migrated /\ frozen' = frozen
  BY DEF ensure_primary_key
<1>2. PICK p : p = gate[g].pc
  OBVIOUS
<1>3. Engines /\ SchemaOK /\ gate = [h \in Gateways |-> gate[h]]
  BY DEF StartSafe
<1>4. Program' = Program
  BY <1>1, SameProgram
<1> DEFINE t == "stats_hourly"
<1>5. ASSUME NEW n, AtStep(g, "key", n)
      PROVE  /\ Starting(g) /\ GateOK(g) /\ gate[g] \in GateRows /\ Program[p].do = "key" /\ ~ AtStep(g, "active", 2)
             /\ engine = "postgres" /\ (\A u \in Tables : schema[u] # Missing) /\ "usage" \in schema[t]
             /\ schema[t] \subseteq Needed[t] \cup Legacy(engine)[t] /\ "missing" \notin schema[t]
             /\ t \in Tables /\ t # "model_prices"
             /\ n # 2 => ~ AtStep(g, "key", 2)
  <2>1. /\ Starting(g) /\ GateOK(g) /\ gate[g] \in GateRows /\ Program[p].do = "key" /\ ~ AtStep(g, "active", 2)
        /\ StepOK(Program[p], p) /\ (\A u \in Tables : schema[u] # Missing) /\ (n # 2 => ~ AtStep(g, "key", 2))
    BY <1>2, <1>5, AtStepFacts
  <2>2. engine = "postgres" /\ t \in Tables
    BY <2>1 DEF StepOK, Tables
  <2>3. "usage" \in schema[t] /\ schema[t] \subseteq Needed[t] \cup Legacy(engine)[t]
    BY <1>3, <2>1, <2>2 DEF SchemaOK
  <2>4. "missing" \notin schema[t]
    BY <2>2, <2>3, ColumnFacts
  <2> QED BY <2>1, <2>2, <2>3, <2>4
<1>6. CASE AtStep(g, "key", 0) /\ schema' = schema
  <2>1. CASE "key" \in schema[t]
    <3>1. NextStep(g, schema)
      BY <1>6, <2>1, <1>5 DEF ensure_primary_key, AtStep
    <3>2. Holds(g, p)'
      BY <1>4, <1>5, <1>6, <2>1 DEF Holds
    <3> QED BY <1>1, <1>2, <1>5, <1>6, <3>1, <3>2, QuietNext DEF StartSafe
  <2>2. CASE "key" \notin schema[t]
    <3>1. NextStatement(g)
      BY <1>6, <2>2 DEF ensure_primary_key, AtStep
    <3> QED BY <1>1, <1>6, <3>1, QuietStatement
  <2> QED BY <2>1, <2>2
<1>7. CASE AtStep(g, "key", 1) /\ schema' = [schema EXCEPT ![t] = @ \ {"key"}] /\ NextStatement(g)
  <2> DEFINE X == schema[t] \ {"key"}
  <2>1. schema' = [schema EXCEPT ![t] = X]
    BY <1>7
  <2>2. X \subseteq Needed[t] \cup Legacy(engine)[t] /\ "usage" \in X /\ "missing" \notin X
    BY <1>5, <1>7
  <2>3. \A c \in schema[t] : c \in X \/ c = "key"
    OBVIOUS
  <2>4. X \subseteq schema[t]
    OBVIOUS
  <2> HIDE DEF X
  <2>5. SchemaOK' /\ schema'[t] = X /\ \A u \in Tables \ {t} : schema'[u] = schema[u]
    BY <1>1, <1>3, <1>5, <1>7, <2>1, <2>2, OneTable
  <2>6. PICK r : Moves(g, r)
    BY <1>3, <1>5, <1>7, NextStatementMoves
  <2>7. AtStep(g, "key", 2)'
    <3>1. gate'[g] = GateRow(gate[g].pc, gate[g].n + 1, gate[g].work, gate[g].rebuilt)
      BY <1>3, <1>5, <1>7, NextStatementMoves DEF Moves
    <3>2. gate'[g].pc = gate[g].pc /\ gate'[g].n = gate[g].n + 1
      BY <3>1, GateRowFields
    <3>3. gate[g].n + 1 = 2
      BY <1>7 DEF AtStep
    <3> QED BY <1>4, <1>7, <3>2, <3>3 DEF AtStep, Starting
  <2>8. KeyHeld'
    BY <2>7 DEF KeyHeld, Between
  <2>9. Grows
    <3>1. X # Missing
      BY <2>2 DEF Missing
    <3> QED BY <1>1, <1>5, <1>7, <2>3, <2>4, <2>5, <2>8, <3>1 DEF Grows
  <2>10. GateOK(g)'
    BY <1>7, <2>9, StatementGate
  <2>11. "active" \in schema'["model_prices"] => ActiveHeld'
    <3>1. schema'["model_prices"] = schema["model_prices"]
      BY <2>5 DEF Tables
    <3> QED BY <1>1, <1>5, <1>7, <2>6, <3>1, QuietActive DEF StartSafe
  <2>12. schema'["model_prices"] # Missing
    BY <1>5, <1>7, <2>5 DEF Tables
  <2> QED BY <1>1, <2>5, <2>6, <2>9, <2>10, <2>11, <2>12, OneGateMoves DEF StartSafe
<1>8. CASE /\ AtStep(g, "key", 2) /\ schema' = [schema EXCEPT ![t] = @ \cup {"key"}]
           /\ IF "key" \in schema[t] THEN GiveUp(g) ELSE NextStep(g, schema)
  <2> DEFINE X == schema[t] \cup {"key"}
  <2>1. schema' = [schema EXCEPT ![t] = X]
    BY <1>8
  <2>2. X \subseteq Needed[t] \cup Legacy(engine)[t] /\ "usage" \in X /\ "missing" \notin X
    BY <1>5, <1>8, NeededColumns
  <2>3. schema[t] \subseteq X /\ "key" \in X /\ \A c \in X : c \in schema[t] \/ c = "key"
    OBVIOUS
  <2> HIDE DEF X
  <2>5. SchemaOK' /\ schema'[t] = X /\ \A u \in Tables \ {t} : schema'[u] = schema[u]
    BY <1>1, <1>3, <1>5, <1>8, <2>1, <2>2, OneTable
  <2>6. PICK r : Moves(g, r)
    BY <1>3, <1>5, <1>8, NextStepMoves, GiveUpMoves
  <2>8. KeyHeld'
    BY <2>3, <2>5 DEF KeyHeld
  <2>9. Grows
    <3>1. X # Missing
      BY <2>2 DEF Missing
    <3> QED BY <1>1, <1>5, <1>8, <2>3, <2>5, <2>8, <3>1 DEF Grows
  <2>10. GateOK(g)'
    <3>1. CASE GiveUp(g)
      BY <1>1, <1>3, <3>1, GiveUpMoves, DownGate DEF Moves
    <3>2. CASE NextStep(g, schema)
      <4>1. Holds(g, p)'
        BY <1>4, <1>5, <1>8, <2>3, <2>5 DEF Holds
      <4>2. ASSUME NEW i \in 1 .. 21, ~ HasWork(Program[i], schema) PROVE ~ HasWork(Program[i], schema')
        <5> DEFINE s == Program[i]
        <5>1. StepOK(s, i)
          BY <1>3, ProgramSteps DEF Engines
        <5> HIDE DEF s
        <5>2. ~ HasWork(s, schema)
          BY <4>2 DEF s
        <5>3. s.do \in {"add", "drop"} /\ s.table \in Tables
          BY <1>5, <1>8, <5>1, <5>2 DEF StepOK, HasWork
        <5>4. schema[s.table] \subseteq schema'[s.table] /\ \A c \in schema'[s.table] : c \in schema[s.table] \/ c = "key"
          BY <2>3, <2>5, <5>3
        <5>5. s.do = "drop" => s.columns \subseteq {"cost", "fk"}
          BY <5>1 DEF StepOK
        <5>6. s.table # "all"
          BY <5>2 DEF HasWork
        <5>7. ~ HasWork(s, schema')
          BY <5>2, <5>3, <5>4, <5>5, <5>6 DEF HasWork
        <5> QED BY <5>7 DEF s
      <4> QED BY <1>2, <1>3, <1>5, <1>8, <2>9, <3>2, <4>1, <4>2, NextGate
    <3> QED BY <1>8, <3>1, <3>2
  <2>11. "active" \in schema'["model_prices"] => ActiveHeld'
    <3>1. schema'["model_prices"] = schema["model_prices"]
      BY <2>5 DEF Tables
    <3> QED BY <1>1, <1>5, <1>8, <2>6, <3>1, QuietActive DEF StartSafe
  <2>12. schema'["model_prices"] # Missing
    BY <1>5, <1>8, <2>5 DEF Tables
  <2> QED BY <1>1, <2>5, <2>6, <2>9, <2>10, <2>11, <2>12, OneGateMoves DEF StartSafe
<1> QED BY <1>6, <1>7, <1>8 DEF ensure_primary_key

LEMMA PricesActiveKeeps ==
  ASSUME StartSafe, NEW g \in Gateways, ensure_model_prices_active(g)
  PROVE  StartKept
<1>1. engine' = engine /\ rows' = rows /\ cut' = cut /\ migrated' = migrated /\ frozen' = frozen
  BY DEF ensure_model_prices_active
<1>2. PICK p : p = gate[g].pc
  OBVIOUS
<1>3. Engines /\ SchemaOK /\ gate = [h \in Gateways |-> gate[h]]
  BY DEF StartSafe
<1>4. Program' = Program
  BY <1>1, SameProgram
<1> DEFINE t == "model_prices"
<1>5. ASSUME NEW n, AtStep(g, "active", n)
      PROVE  /\ Starting(g) /\ GateOK(g) /\ gate[g] \in GateRows /\ Program[p].do = "active" /\ ~ AtStep(g, "key", 2)
             /\ t \in Tables /\ (\A u \in Tables : schema[u] # Missing)
             /\ schema[t] \subseteq Needed[t] \cup Legacy(engine)[t] /\ "missing" \notin schema[t]
             /\ n # 2 => ~ AtStep(g, "active", 2)
  <2>1. /\ Starting(g) /\ GateOK(g) /\ gate[g] \in GateRows /\ Program[p].do = "active" /\ ~ AtStep(g, "key", 2)
        /\ (\A u \in Tables : schema[u] # Missing) /\ (n # 2 => ~ AtStep(g, "active", 2))
    BY <1>2, <1>5, AtStepFacts
  <2>2. t \in Tables
    BY DEF Tables
  <2>3. schema[t] \subseteq Needed[t] \cup Legacy(engine)[t]
    BY <1>3, <2>1, <2>2 DEF SchemaOK
  <2>4. "missing" \notin schema[t]
    BY <2>2, <2>3, ColumnFacts
  <2> QED BY <2>1, <2>2, <2>3, <2>4
<1>6. CASE AtStep(g, "active", 0) /\ schema' = schema /\ active' = active
           /\ IF "active" \in schema[t] THEN NextStep(g, schema) ELSE NextStatement(g)
  <2>1. CASE "active" \in schema[t]
    <3>1. Holds(g, p)'
      BY <1>4, <1>5, <1>6, <2>1 DEF Holds
    <3> QED BY <1>1, <1>2, <1>5, <1>6, <2>1, <3>1, QuietNext DEF StartSafe
  <2>2. CASE "active" \notin schema[t]
    BY <1>1, <1>6, <2>2, QuietStatement
  <2> QED BY <2>1, <2>2
<1>7. CASE AtStep(g, "active", 1) /\ schema' = [schema EXCEPT ![t] = @ \cup {"active"}] /\ active' = active
           /\ IF "active" \in schema[t] THEN GiveUp(g) ELSE NextStatement(g)
  <2> DEFINE X == schema[t] \cup {"active"}
  <2>1. schema' = [schema EXCEPT ![t] = X]
    BY <1>7
  <2>2. X \subseteq Needed[t] \cup Legacy(engine)[t] /\ "missing" \notin X
    BY <1>5, <1>7, NeededColumns
  <2>3. schema[t] \subseteq X /\ "active" \in X /\ \A c \in X : c \in schema[t] \/ c = "active"
    OBVIOUS
  <2>4. CASE "active" \in schema[t]
    <3>1. X = schema[t]
      BY <2>4
    <3>2. schema' = schema
      BY <1>3, <2>1, <3>1 DEF SchemaOK
    <3> QED BY <1>1, <1>5, <1>7, <2>4, <3>2, GiveUpKeeps
  <2>5. CASE "active" \notin schema[t]
    <3> HIDE DEF X
    <3>0. NextStatement(g)
      BY <1>7, <2>5
    <3>1. SchemaOK' /\ schema'[t] = X /\ \A u \in Tables \ {t} : schema'[u] = schema[u]
      BY <1>1, <1>3, <1>5, <1>7, <2>1, <2>2, OneTable
    <3>2. PICK r : Moves(g, r)
      BY <1>3, <1>5, <1>7, <3>0, NextStatementMoves
    <3>3. Grows
      <4>1. schema'["stats_hourly"] = schema["stats_hourly"]
        BY <3>1 DEF Tables
      <4>2. KeyHeld => KeyHeld'
        BY <1>1, <1>5, <1>7, <3>2, <4>1, BetweenStays DEF KeyHeld
      <4>3. X # Missing
        BY <2>2 DEF Missing
      <4> QED BY <1>1, <1>5, <1>7, <2>3, <3>1, <4>2, <4>3 DEF Grows
    <3>4. GateOK(g)' /\ AtStep(g, "active", 2)'
      BY <1>7, <2>3, <3>0, <3>1, <3>3, StatementGate
    <3>5. ActiveHeld'
      BY <3>4 DEF ActiveHeld, Between
    <3>6. schema'[t] # Missing
      BY <2>2, <3>1 DEF Missing
    <3> QED BY <1>1, <3>1, <3>2, <3>3, <3>4, <3>5, <3>6, OneGateMoves DEF StartSafe
  <2> QED BY <2>4, <2>5
<1>8. CASE AtStep(g, "active", 2) /\ schema' = schema /\ active' = TRUE /\ NextStep(g, schema)
  <2>1. "active" \in schema'[t]
    BY <1>5, <1>8 DEF GateOK
  <2>2. Holds(g, p)'
    BY <1>4, <1>5, <1>8, <2>1 DEF Holds
  <2> QED BY <1>1, <1>2, <1>5, <1>8, <2>2, QuietNext DEF StartSafe
<1> QED BY <1>6, <1>7, <1>8 DEF ensure_model_prices_active

LEMMA UpstreamKeeps ==
  ASSUME StartSafe, NEW g \in Gateways, migrate_upstream_config(g)
  PROVE  StartKept
<1>1. engine' = engine /\ schema' = schema /\ rows' = rows /\ active' = active /\ cut' = cut
  BY DEF migrate_upstream_config
<1>2. PICK p : p = gate[g].pc
  OBVIOUS
<1>3. Program' = Program
  BY <1>1, SameProgram
<1>4. ASSUME NEW n, AtStep(g, "upstream", n)
      PROVE  Starting(g) /\ Program[p].do = "upstream" /\ ~ AtStep(g, "key", 2) /\ ~ AtStep(g, "active", 2)
  BY <1>2, <1>4, AtStepFacts
<1>5. CASE AtStep(g, "upstream", 0) /\ migrated' = migrated /\ frozen' = frozen
           /\ IF migrated THEN NextStep(g, schema) ELSE NextStatement(g)
  <2>1. CASE migrated
    <3>1. Holds(g, p)'
      BY <1>3, <1>4, <1>5, <2>1 DEF Holds
    <3> QED BY <1>1, <1>2, <1>4, <1>5, <2>1, <3>1, QuietNext DEF StartSafe
  <2>2. CASE ~ migrated
    BY <1>1, <1>5, <2>2, QuietStatement
  <2> QED BY <2>1, <2>2
<1>6. CASE AtStep(g, "upstream", 1) /\ ~ migrated /\ migrated' = TRUE /\ frozen' = frozen + 1 /\ NextStep(g, schema)
  <2>1. Holds(g, p)'
    BY <1>3, <1>4, <1>6 DEF Holds
  <2>2. frozen' = 1
    BY <1>6 DEF StartSafe
  <2> QED BY <1>1, <1>2, <1>4, <1>6, <2>1, <2>2, QuietNext
<1>7. CASE AtStep(g, "upstream", 1) /\ migrated' = migrated /\ frozen' = frozen /\ GiveUp(g)
  BY <1>1, <1>4, <1>7, GiveUpKeeps
<1>8. \/ AtStep(g, "upstream", 0) /\ migrated' = migrated /\ frozen' = frozen
         /\ IF migrated THEN NextStep(g, schema) ELSE NextStatement(g)
      \/ AtStep(g, "upstream", 1) /\ ~ migrated /\ migrated' = TRUE /\ frozen' = frozen + 1 /\ NextStep(g, schema)
      \/ AtStep(g, "upstream", 1) /\ migrated' = migrated /\ frozen' = frozen /\ GiveUp(g)
  BY DEF migrate_upstream_config
<1> QED BY <1>5, <1>6, <1>7, <1>8

\* What migrate_upstream_config does to the catalogue.
LEMMA UpstreamCatalogue ==
  ASSUME CatalogueSafe, NEW g, migrate_upstream_config(g)
  PROVE  CatalogueKept
<1>1. admin' = admin /\ missed' = missed /\ raced' = raced /\ edits' = edits
  BY DEF migrate_upstream_config
<1>2. CASE cat' = cat /\ migrated' = migrated
  BY <1>1, <1>2, StillKeeps
<1>3. CASE ~ migrated /\ cat' = Authorized(cat) /\ migrated' = TRUE
  BY <1>1, <1>3, AuthorizedKeeps
<1> QED BY <1>2, <1>3 DEF migrate_upstream_config

-----------------------------------------------------------------------------
(* A rebuild on SQLite.                                                    *)

RebuildTables == {"model_prices", "stats_daily", "stats_hourly", "request_logs", "stats_events"}

Works == [columns: (SUBSET UNION {Needed[t] : t \in Tables}) \cup {Missing}, rows: BOOLEAN, old: BOOLEAN]

LEMMA RebuiltFacts ==
  ASSUME NEW t \in RebuildTables
  PROVE  /\ t \in Tables /\ Rebuilt(t) \subseteq Needed[t] /\ ~ NeedsRebuild(t, Rebuilt(t))
         /\ Rebuilt(t) # Missing /\ "active" \notin Rebuilt(t)
         /\ Rebuilt(t) \in SUBSET UNION {Needed[u] : u \in Tables}
<1>1. /\ Rebuilt("model_prices") = {}
      /\ Rebuilt("stats_daily") = {"usage"}
      /\ Rebuilt("request_logs") = {"usage", "span", "price"}
      /\ Rebuilt("stats_hourly") = {"usage", "price", "key"}
      /\ Rebuilt("stats_events") = {"usage", "price"}
  BY DEF Rebuilt
<1>2. t \in Tables /\ Rebuilt(t) \subseteq Needed[t]
  BY <1>1, NeededColumns DEF RebuildTables, Tables
<1>3. ~ NeedsRebuild(t, Rebuilt(t))
  BY <1>1 DEF RebuildTables, NeedsRebuild
<1>4. Rebuilt(t) # Missing /\ "active" \notin Rebuilt(t)
  BY <1>1 DEF RebuildTables, Missing
<1> QED BY <1>2, <1>3, <1>4

LEMMA StatementFacts ==
  ASSUME NEW t \in RebuildTables, NEW w \in Works, NEW n \in 0 .. 3, rows \in [Tables -> BOOLEAN]
  PROVE  LET v == Statement(t, n, w)
         IN  /\ v \in Works
             /\ n = 0 => v.old = rows[t]
             /\ n = 1 => v.columns = Rebuilt(t) /\ v.old = w.old
             /\ n = 2 => v.columns = w.columns /\ v.rows = w.old
             /\ n = 3 => v.columns = w.columns /\ v.rows = w.rows
<1> DEFINE C == Rebuilt(t)
<1>1. rows[t] \in BOOLEAN /\ C \in SUBSET UNION {Needed[u] : u \in Tables}
  BY RebuiltFacts
<1> HIDE DEF C
<1>2. CASE n = 0
  BY <1>1, <1>2 DEF Statement, Works
<1>3. CASE n = 1
  <2>1. Statement(t, n, w) = [w EXCEPT !.columns = C]
    BY <1>3 DEF Statement, C
  <2> QED BY <1>1, <1>3, <2>1 DEF Works, C
<1>4. CASE n = 2
  <2>1. Statement(t, n, w) = [w EXCEPT !.rows = w.old]
    BY <1>4 DEF Statement
  <2> QED BY <1>4, <2>1 DEF Works
<1>5. CASE n = 3
  <2>1. Statement(t, n, w) = [w EXCEPT !.old = FALSE]
    BY <1>5 DEF Statement
  <2> DEFINE b == FALSE
  <2>2. b \in BOOLEAN /\ Statement(t, n, w) = [w EXCEPT !.old = b]
    BY <2>1
  <2> HIDE DEF b
  <2> QED BY <1>5, <2>2 DEF Works
<1> QED BY <1>2, <1>3, <1>4, <1>5

\* What is known of a gateway that rebuilds.
LEMMA RebuildFacts ==
  ASSUME StartSafe, NEW g \in Gateways, NEW n, AtStep(g, "rebuild", n), NEW p, p = gate[g].pc, NEW t, t = TableOf(g)
  PROVE  /\ engine = "sqlite" /\ t \in RebuildTables /\ Program[p] = Rebuild(t) /\ p \in 1 .. 21
         /\ Starting(g) /\ GateOK(g) /\ gate[g] \in GateRows /\ gate[g] # Down /\ gate[g].work \in Works
         /\ ~ AtStep(g, "key", 2) /\ ~ AtStep(g, "active", 2) /\ \A u \in Tables : schema[u] # Missing
         /\ (n \in {1, 2} => gate[g].work.old = rows[t])
         /\ (n \in {3, 4} => gate[g].work.rows = rows[t])
         /\ (n \in 2 .. 4 => gate[g].work.columns = Rebuilt(t))
         /\ (n \in 1 .. 4 /\ t = "request_logs" => gate[g].rebuilt)
<1>1. /\ Starting(g) /\ GateOK(g) /\ gate[g] \in GateRows /\ gate[g] # Down /\ StepOK(Program[p], p)
      /\ Program[p].do = "rebuild" /\ gate[g].n = n /\ p \in 1 .. 21
      /\ ~ AtStep(g, "key", 2) /\ ~ AtStep(g, "active", 2) /\ \A u \in Tables : schema[u] # Missing
  BY AtStepFacts
<1>2. t = Program[p].table
  BY DEF TableOf
<1>3. engine = "sqlite" /\ t \in RebuildTables /\ Program[p] = Rebuild(t)
  BY <1>1, <1>2 DEF StepOK, RebuildTables
<1>4. gate[g].work \in Works
  BY <1>1 DEF GateRows, Works
<1>5. WorkOK(g)
  BY <1>1 DEF GateOK
<1> QED BY <1>1, <1>3, <1>4, <1>5 DEF WorkOK

SetWork(r, n, w, b) == [[[r EXCEPT !.n = n] EXCEPT !.work = w] EXCEPT !.rebuilt = b]

LEMMA SetWorkFields ==
  ASSUME NEW r, NEW n, NEW w, NEW b, r = GateRow(r.pc, r.n, r.work, r.rebuilt)
  PROVE  SetWork(r, n, w, b) = GateRow(r.pc, n, w, b)
<1>1. PICK x, y, z, d : r = [pc |-> x, n |-> y, work |-> z, rebuilt |-> d]
  BY DEF GateRow
<1>2. r.pc = x
  BY <1>1
<1>3. [[pc |-> x, n |-> y, work |-> z, rebuilt |-> d] EXCEPT !.n = n] = [pc |-> x, n |-> n, work |-> z, rebuilt |-> d]
  OBVIOUS
<1>4. [[pc |-> x, n |-> n, work |-> z, rebuilt |-> d] EXCEPT !.work = w] = [pc |-> x, n |-> n, work |-> w, rebuilt |-> d]
  OBVIOUS
<1>5. [[pc |-> x, n |-> n, work |-> w, rebuilt |-> d] EXCEPT !.rebuilt = b] = [pc |-> x, n |-> n, work |-> w, rebuilt |-> b]
  OBVIOUS
<1> QED BY <1>1, <1>2, <1>3, <1>4, <1>5 DEF GateRow, SetWork

LEMMA RebuildStatementKeeps ==
  ASSUME StartSafe, NEW g \in Gateways, rebuild_statement(g)
  PROVE  StartKept
<1>1. /\ engine' = engine /\ schema' = schema /\ rows' = rows /\ active' = active /\ cut' = cut
      /\ migrated' = migrated /\ frozen' = frozen
  BY DEF rebuild_statement
<1>2. PICK t : t = TableOf(g)
  OBVIOUS
<1>3. PICK n \in 0 .. 3 :
        /\ AtStep(g, "rebuild", n)
        /\ \/ GiveUp(g)
           \/ gate' = [gate EXCEPT ![g].n = n + 1, ![g].work = Statement(t, n, @),
                                   ![g].rebuilt = @ \/ t = "request_logs"]
  BY <1>2 DEF rebuild_statement
<1>4. PICK p : p = gate[g].pc
  OBVIOUS
<1>5. /\ engine = "sqlite" /\ t \in RebuildTables /\ Program[p] = Rebuild(t) /\ p \in 1 .. 21
      /\ Starting(g) /\ GateOK(g) /\ gate[g] \in GateRows /\ gate[g] # Down /\ gate[g].work \in Works
      /\ ~ AtStep(g, "key", 2) /\ ~ AtStep(g, "active", 2)
      /\ (n \in {1, 2} => gate[g].work.old = rows[t])
      /\ (n \in {3, 4} => gate[g].work.rows = rows[t])
      /\ (n \in 2 .. 4 => gate[g].work.columns = Rebuilt(t))
  BY <1>2, <1>3, <1>4, RebuildFacts
<1>6. Engines /\ SchemaOK /\ gate = [h \in Gateways |-> gate[h]] /\ rows \in [Tables -> BOOLEAN]
  BY DEF StartSafe
<1>7. CASE GiveUp(g)
  BY <1>1, <1>5, <1>7, GiveUpKeeps
<1>8. CASE gate' = [gate EXCEPT ![g].n = n + 1, ![g].work = Statement(t, n, @), ![g].rebuilt = @ \/ t = "request_logs"]
  <2> DEFINE N == n + 1  v == Statement(t, n, gate[g].work)  b == gate[g].rebuilt \/ t = "request_logs"
             r == GateRow(p, N, v, b)
  <2>1. /\ v \in Works /\ b \in BOOLEAN /\ N \in 1 .. 4
        /\ n = 0 => v.old = rows[t]
        /\ n = 1 => v.columns = Rebuilt(t) /\ v.old = rows[t]
        /\ n = 2 => v.columns = Rebuilt(t) /\ v.rows = rows[t]
        /\ n = 3 => v.columns = Rebuilt(t) /\ v.rows = rows[t]
        /\ (gate[g].rebuilt => b) /\ (t = "request_logs" => b)
    BY <1>5, <1>6, StatementFacts
  <2>2. n \in {0, 1, 2, 3} /\ N = n + 1
    OBVIOUS
  <2>3. gate' = [gate EXCEPT ![g] = SetWork(gate[g], N, v, b)]
    BY <1>8 DEF SetWork
  <2> HIDE DEF N, v, b
  <2>4. SetWork(gate[g], N, v, b) = r
    BY <1>4, <1>5, <1>6, InGateRows, SetWorkFields
  <2>5. Moves(g, r) /\ gate'[g] = r
    BY <1>6, <2>3, <2>4 DEF Moves
  <2>6. r.pc = p /\ r.n = N /\ r.work = v /\ r.rebuilt = b
    BY GateRowFields
  <2>7. r \in GateRows
    <3>1. gate[g].pc \in 0 .. Len(Program) + 1 /\ N \in 0 .. 4
      BY <1>5, <2>1 DEF GateRows
    <3> QED BY <1>4, <2>1, <3>1 DEF GateRows, GateRow, Works
  <2> HIDE DEF r
  <2>8. Program' = Program
    BY <1>1, SameProgram
  <2>9. Program[p].do = "rebuild" /\ Program[p].table = t
    BY <1>5 DEF Rebuild, Step
  <2>10. WorkOK(g)'
    <3>1. TableOf(g)' = t
      BY <2>5, <2>6, <2>8, <2>9 DEF TableOf
    <3>2. gate'[g].work = v /\ gate'[g].n = n + 1 /\ gate'[g].rebuilt = b
      BY <2>2, <2>5, <2>6
    <3>3. /\ n + 1 \in {1, 2} => v.old = rows'[t]
          /\ n + 1 \in {3, 4} => v.rows = rows'[t]
          /\ n + 1 \in 2 .. 4 => v.columns = Rebuilt(t)
          /\ t = "request_logs" => b
      BY <1>1, <2>1, <2>2
    <3> QED BY <3>1, <3>2, <3>3 DEF WorkOK
  <2>11. ~ AtStep(g, "active", 2)'
    BY <2>5, <2>6, <2>8, <2>9 DEF AtStep
  <2>12. Grows
    BY <1>1, <1>5, <2>5, QuietGrows
  <2>13. GateOK(g)'
    BY <1>4, <1>5, <1>6, <2>1, <2>5, <2>6, <2>7, <2>10, <2>11, <2>12, SameStepGate
  <2>14. "active" \in schema'["model_prices"] => ActiveHeld'
    BY <1>1, <1>5, <2>5, QuietActive DEF StartSafe
  <2>15. SchemaOK'
    BY <1>1, <1>6, SchemaUnchanged
  <2> QED BY <1>1, <2>5, <2>12, <2>13, <2>14, <2>15, OneGateMoves DEF StartSafe
<1> QED BY <1>3, <1>7, <1>8

\* Before and among the rebuilds: a column that is added is rebuilt too, or is
\* one that a rebuild of request_logs takes away; no table is rebuilt twice.
BeforeRebuild(s, i) ==
  /\ s.do = "rebuild" => i \in 12 .. 16
  /\ (s.do = "rebuild" /\ i < 16) => s.table \notin {migrate_sqlite[j].table : j \in i + 1 .. 16}
  /\ (s.do = "add" /\ i < 16 /\ s.table \in RebuildTables) =>
       s.columns \subseteq Rebuilt(s.table) \cup (IF s.table = "request_logs" THEN {"trace", "format"} ELSE {})
  /\ s.do = "active" => i > 16

LEMMA BeforeRebuilds ==
  ASSUME NEW i \in 1 .. 21
  PROVE  BeforeRebuild(migrate_sqlite[i], i)
<1>1. i \in {1, 2, 3, 4, 5, 6, 7, 8, 9, 10, 11, 12, 13, 14, 15, 16, 17, 18, 19, 20, 21}
  OBVIOUS
<1>2. /\ Rebuilt("stats_daily") = {"usage"}
      /\ Rebuilt("request_logs") = {"usage", "span", "price"}
      /\ Rebuilt("stats_hourly") = {"usage", "price", "key"}
      /\ Rebuilt("stats_events") = {"usage", "price"}
  BY DEF Rebuilt
<1> USE <1>2 DEF Run, AddTo, Rebuild, Step, RebuildTables
<1>3. CASE i = 1
  BY <1>3, SqliteSteps DEF BeforeRebuild
<1>4. CASE i = 2
  BY <1>4, SqliteSteps DEF BeforeRebuild
<1>5. CASE i = 3
  BY <1>5, SqliteSteps DEF BeforeRebuild
<1>6. CASE i = 4
  BY <1>6, SqliteSteps DEF BeforeRebuild
<1>7. CASE i = 5
  BY <1>7, SqliteSteps DEF BeforeRebuild
<1>8. CASE i = 6
  BY <1>8, SqliteSteps DEF BeforeRebuild
<1>9. CASE i = 7
  BY <1>9, SqliteSteps DEF BeforeRebuild
<1>10. CASE i = 8
  BY <1>10, SqliteSteps DEF BeforeRebuild
<1>11. CASE i = 9
  BY <1>11, SqliteSteps DEF BeforeRebuild
<1>12. CASE i = 10
  BY <1>12, SqliteSteps DEF BeforeRebuild
<1>13. CASE i = 11
  BY <1>13, SqliteSteps DEF BeforeRebuild
<1>14. CASE i = 12
  BY <1>14, SqliteSteps DEF BeforeRebuild
<1>15. CASE i = 13
  BY <1>15, SqliteSteps DEF BeforeRebuild
<1>16. CASE i = 14
  BY <1>16, SqliteSteps DEF BeforeRebuild
<1>17. CASE i = 15
  BY <1>17, SqliteSteps DEF BeforeRebuild
<1>18. CASE i = 16
  BY <1>18, SqliteSteps DEF BeforeRebuild
<1>19. CASE i = 17
  BY <1>19, SqliteSteps DEF BeforeRebuild
<1>20. CASE i = 18
  BY <1>20, SqliteSteps DEF BeforeRebuild
<1>21. CASE i = 19
  BY <1>21, SqliteSteps DEF BeforeRebuild
<1>22. CASE i = 20
  BY <1>22, SqliteSteps DEF BeforeRebuild
<1>23. CASE i = 21
  BY <1>23, SqliteSteps DEF BeforeRebuild
<1> QED BY <1>1, <1>3, <1>4, <1>5, <1>6, <1>7, <1>8, <1>9, <1>10, <1>11, <1>12, <1>13, <1>14, <1>15, <1>16, <1>17, <1>18, <1>19, <1>20, <1>21, <1>22, <1>23

LEMMA RebuildCommitKeeps ==
  ASSUME StartSafe, NEW g \in Gateways, rebuild_commit(g)
  PROVE  StartKept
<1>1. PICK t : t = TableOf(g)
  OBVIOUS
<1>2. PICK p : p = gate[g].pc
  OBVIOUS
<1>3. /\ engine' = engine /\ active' = active /\ cut' = cut /\ migrated' = migrated /\ frozen' = frozen
      /\ AtStep(g, "rebuild", 4) /\ schema' = [schema EXCEPT ![t] = gate[g].work.columns]
      /\ rows' = [rows EXCEPT ![t] = gate[g].work.rows] /\ NextStep(g, schema')
  BY <1>1 DEF rebuild_commit
<1>4. /\ engine = "sqlite" /\ t \in RebuildTables /\ Program[p] = Rebuild(t) /\ p \in 1 .. 21
      /\ Starting(g) /\ GateOK(g) /\ gate[g] \in GateRows /\ gate[g] # Down
      /\ ~ AtStep(g, "key", 2) /\ ~ AtStep(g, "active", 2) /\ \A u \in Tables : schema[u] # Missing
      /\ gate[g].work.rows = rows[t] /\ gate[g].work.columns = Rebuilt(t)
      /\ (t = "request_logs" => gate[g].rebuilt)
  <2>1. 4 \in {3, 4} /\ 4 \in 2 .. 4 /\ 4 \in 1 .. 4
    OBVIOUS
  <2> QED BY <1>1, <1>2, <1>3, <2>1, RebuildFacts
<1>5. Engines /\ SchemaOK /\ gate = [h \in Gateways |-> gate[h]] /\ rows \in [Tables -> BOOLEAN]
  BY DEF StartSafe
<1>6. /\ t \in Tables /\ Rebuilt(t) \subseteq Needed[t] /\ ~ NeedsRebuild(t, Rebuilt(t))
      /\ Rebuilt(t) # Missing /\ "active" \notin Rebuilt(t)
  BY <1>4, RebuiltFacts
<1>7. rows' = rows
  BY <1>3, <1>4, <1>5, <1>6
<1>8. SchemaOK' /\ schema'[t] = Rebuilt(t) /\ \A u \in Tables \ {t} : schema'[u] = schema[u]
  BY <1>3, <1>4, <1>5, <1>6, OneTable
<1>9. \A u \in Tables : schema'[u] # Missing
  BY <1>4, <1>6, <1>8
<1>10. Program' = Program /\ Program = migrate_sqlite /\ Running' = Running
  BY <1>3, <1>4, SameProgram DEF Program
<1>11. Program[p].do = "rebuild" /\ Program[p].table = t
  BY <1>4 DEF Rebuild, Step
<1>12. p \in 12 .. 16
  BY <1>4, <1>10, <1>11, BeforeRebuilds DEF BeforeRebuild
<1>13. ASSUME NEW i \in 1 .. p, gate'[g].rebuilt = gate[g].rebuilt PROVE Holds(g, i)'
  <2> DEFINE s == Program[i]
  <2>1. i \in 1 .. 21 /\ BeforeRebuild(s, i) /\ StepOK(s, i)
    BY <1>4, <1>5, <1>10, BeforeRebuilds, ProgramSteps DEF Engines
  <2>2. CASE i = p
    <3>1. s.do = "rebuild" /\ s.table = t
      BY <1>11, <2>2
    <3> QED BY <1>6, <1>8, <1>10, <3>1 DEF Holds
  <2>3. CASE i < p
    <3>1. i \in 1 .. p - 1 /\ i < 16
      BY <1>4, <1>12, <2>3
    <3>2. Holds(g, i)
      BY <1>2, <1>4, <1>5, <3>1, GateFacts
    <3> HIDE DEF s
    <3>3. ASSUME s.do = "add" PROVE s.columns \ schema'[s.table] \subseteq Lost(g, i)'
      <4>1. s.table \in Tables /\ s.columns \ schema[s.table] \subseteq Lost(g, i)
        BY <2>1, <3>2, <3>3 DEF StepOK, Holds, s
      <4>2. Lost(g, i) \subseteq Lost(g, i)'
        BY <1>3, <1>13, LostStays
      <4>3. CASE s.table # t
        BY <1>8, <4>1, <4>2, <4>3
      <4>4. CASE s.table = t
        <5>1. s.columns \ schema'[t] \subseteq (IF t = "request_logs" THEN {"trace", "format"} ELSE {})
          BY <1>4, <1>8, <2>1, <3>1, <3>3, <4>4 DEF BeforeRebuild
        <5>2. ASSUME t = "request_logs" PROVE Lost(g, i)' = {"trace", "format"}
          <6>1. gate'[g].rebuilt /\ Program'[p] = Rebuild("request_logs")
            BY <1>4, <1>10, <1>13, <5>2
          <6>2. Len(Program') = 21
            BY <1>5, <1>10, ProgramSteps DEF Engines
          <6>3. p \in i .. Len(Program')
            BY <1>12, <3>1, <6>2
          <6> QED BY <6>1, <6>3 DEF Lost
        <5> QED BY <4>4, <5>1, <5>2
      <4> QED BY <4>3, <4>4
    <3>4. s.do # "drop" /\ s.do # "key" /\ s.do # "active"
      BY <1>4, <2>1, <3>1 DEF StepOK, BeforeRebuild
    <3>5. ASSUME s.do = "rebuild" PROVE ~ NeedsRebuild(s.table, schema'[s.table])
      <4>1. s.table \in Tables /\ ~ NeedsRebuild(s.table, schema[s.table])
        BY <2>1, <3>2, <3>5 DEF StepOK, Holds, s
      <4>2. s.table # t
        <5>1. s.table \notin {migrate_sqlite[j].table : j \in i + 1 .. 16}
          BY <2>1, <3>1, <3>5 DEF BeforeRebuild
        <5>2. p \in i + 1 .. 16
          BY <1>12, <3>1
        <5> QED BY <1>10, <1>11, <5>1, <5>2
      <4> QED BY <1>8, <4>1, <4>2
    <3>6. s.do # "upstream"
      BY <2>1, <3>1 DEF StepOK
    <3> QED BY <1>9, <1>10, <3>3, <3>4, <3>5, <3>6 DEF Holds, s
  <2> QED BY <1>12, <2>2, <2>3
<1>14. GateOK(g)' /\ \E q \in p + 1 .. 22 : Moves(g, GateRow(q, 0, NoWork, gate[g].rebuilt))
  BY <1>2, <1>3, <1>4, <1>5, <1>13, NextGateFrom
<1>15. PICK r : Moves(g, r)
  BY <1>14
<1>16. ASSUME NEW h \in Gateways PROVE GateOK(h)'
  <2>1. CASE h = g
    BY <1>14, <2>1
  <2>2. CASE h # g
    <3>1. GateOK(h) /\ gate'[h] = gate[h]
      BY <1>15, <2>2 DEF StartSafe, StartsOK, Moves
    <3>2. g \in Running /\ (h \notin Running => gate[h] = Down)
      BY <1>4, <3>1 DEF GateOK
    <3>3. h \notin Running
      BY <1>4, <2>2, <3>2 DEF Running
    <3> QED BY <1>3, <1>5, <3>1, <3>2, <3>3, DownGate
  <2> QED BY <2>1, <2>2
<1>17. "active" \in schema'["model_prices"] => ActiveHeld'
  <2>1. "active" \in schema'["model_prices"] => "active" \in schema["model_prices"]
    BY <1>6, <1>8 DEF Tables
  <2> QED BY <1>3, <1>4, <1>15, <2>1, QuietActive DEF StartSafe
<1>18. schema'["model_prices"] # Missing
  BY <1>9 DEF Tables
<1>19. StartsOK' /\ Engines' /\ gate' = [h \in Gateways |-> gate'[h]]
  BY <1>3, <1>5, <1>15, <1>16 DEF StartsOK, Engines, Moves
<1> QED BY <1>3, <1>7, <1>8, <1>17, <1>18, <1>19 DEF StartKept, StartSafe

-----------------------------------------------------------------------------
(* The invariant.                                                          *)

LEMMA InvParts == StartupInv <=> CatalogueSafe /\ SeenOK /\ StartSafe
BY DEF StartupInv, CatalogueSafe, StartSafe, Engines, ActiveHeld

\* A gateway that serves has passed the last step, the migration.
LEMMA ServingMigrated ==
  ASSUME StartSafe, NEW g \in Gateways, Serving(g)
  PROVE  migrated
<1>1. Engines /\ GateOK(g)
  BY DEF StartSafe, StartsOK
<1>2. gate[g].pc = 22 /\ \A i \in 1 .. gate[g].pc - 1 : Holds(g, i)
  BY <1>1, GateFacts
<1>3. 21 \in 1 .. gate[g].pc - 1
  BY <1>2
<1>4. Holds(g, 21)
  BY <1>2, <1>3
<1>5. Program[21].do = "upstream"
  BY <1>1, ProgramSteps DEF StepOK, Engines
<1> QED BY <1>4, <1>5 DEF Holds

LEMMA StillStart ==
  ASSUME StartSafe, UNCHANGED startupVars
  PROVE  StartKept
<1>1. /\ engine' = engine /\ schema' = schema /\ rows' = rows /\ active' = active /\ migrated' = migrated
      /\ frozen' = frozen /\ gate' = gate /\ cut' = cut
  BY DEF startupVars
<1>2. Program' = Program
  BY <1>1, SameProgram
<1>3. \A h, do : AtStep(h, do, 2)' <=> AtStep(h, do, 2)
  BY <1>1, <1>2 DEF AtStep, Starting
<1>4. \A do : Between(do)' <=> Between(do)
  BY <1>3 DEF Between
<1>5. Grows
  BY <1>1, <1>4 DEF Grows, KeyHeld
<1>6. ASSUME NEW h \in Gateways PROVE GateOK(h)'
  BY <1>1, <1>5, OtherGate DEF StartSafe, StartsOK
<1>7. SchemaOK' /\ StartsOK' /\ Engines'
  BY <1>1, <1>6, SchemaUnchanged DEF StartSafe, StartsOK, Engines
<1>8. ActiveHeld => ActiveHeld'
  BY <1>1, <1>4 DEF ActiveHeld
<1> QED BY <1>1, <1>7, <1>8 DEF StartKept, StartSafe

\* One step of the system: the invariant, the rows of the tables and what the
\* administrator decided are kept.
LEMMA StepKeeps ==
  ASSUME StartupInv, [Next]_vars
  PROVE  StartupInv' /\ (\A t \in Tables : rows[t] => rows'[t]) /\ (Decided \/ cat' = cat)
<1>1. CatalogueSafe /\ SeenOK /\ StartSafe
  BY InvParts
<1>0. SeenOK'
  BY <1>1, SeenKeeps DEF CatalogueSafe
<1>2. ASSUME CatalogueKept, StartKept
      PROVE  StartupInv' /\ (\A t \in Tables : rows[t] => rows'[t]) /\ (Decided \/ cat' = cat)
  <2>1. (CatalogueSafe /\ SeenOK /\ StartSafe)'
    BY <1>0, <1>2 DEF CatalogueKept, StartKept, CatalogueSafe
  <2>2. (CatalogueSafe /\ SeenOK /\ StartSafe => StartupInv)'
    BY InvParts, PTL
  <2> QED BY <1>2, <2>1, <2>2 DEF CatalogueKept, StartKept
<1>3. ASSUME NEW g \in Gateways, Migrate(g) PROVE CatalogueKept /\ StartKept
  <2>1. CASE ensure_default_provider_group(g)
    BY <1>1, <2>1, DefaultGroupKeeps, CatalogueStepKeeps
  <2>2. CASE migrate_provider_model_aliases(g)
    BY <1>1, <2>2, AliasesKeep, CatalogueStepKeeps
  <2>3. CASE migrate_upstream_config(g)
    BY <1>1, <2>3, UpstreamCatalogue, UpstreamKeeps
  <2>4. CASE \/ start(g) \/ create_tables(g) \/ ensure_columns(g) \/ rebuild_statement(g) \/ rebuild_commit(g)
             \/ ensure_primary_key(g) \/ ensure_model_prices_active(g)
    <3>1. UNCHANGED catalogueVars /\ UNCHANGED <<cat, admin, missed, raced>> /\ migrated' = migrated
      BY <2>4 DEF start, create_tables, ensure_columns, rebuild_statement, rebuild_commit, ensure_primary_key,
                  ensure_model_prices_active, catalogueVars
    <3> QED BY <1>1, <2>4, <3>1, StillKeeps, StartKeeps, CreateTablesKeeps, EnsureColumnsKeeps, RebuildStatementKeeps,
               RebuildCommitKeeps, PrimaryKeyKeeps, PricesActiveKeeps
  <2> QED BY <1>3, <2>1, <2>2, <2>3, <2>4 DEF Migrate
<1>4. ASSUME NEW g \in Gateways, crash(g) PROVE CatalogueKept /\ StartKept
  BY <1>1, <1>4, CrashKeeps, CrashStartKeeps
<1>5. ASSUME NEW a \in Admins, Serve(a) PROVE CatalogueKept /\ StartKept
  <2>1. Running \subseteq Gateways /\ Running # {}
    BY StartupAssumption DEF Running
  <2>2. (\A h \in Running : Serving(h)) => migrated
    BY <1>1, <2>1, ServingMigrated
  <2> QED BY <1>1, <1>5, <2>2, ServeKeeps, StillStart
<1>6. ASSUME UNCHANGED vars PROVE CatalogueKept /\ StartKept
  <2>1. UNCHANGED startupVars /\ UNCHANGED <<cat, admin, missed, raced>> /\ migrated' = migrated
    BY <1>6 DEF vars, startupVars, catalogueVars
  <2> QED BY <1>1, <2>1, StillKeeps, StillStart
<1> QED BY <1>2, <1>3, <1>4, <1>5, <1>6 DEF Next

-----------------------------------------------------------------------------
(* The databases a first start may meet.                                   *)

LEMMA EmptyRows ==
  LET e == EmptyCatalogue
  IN  /\ e \in CatalogueRows
      /\ e.providers = {} /\ e.born = {} /\ e.enabled = {} /\ e.member = [p \in Providers |-> {}]
      /\ e.groups = {DefaultGroup} /\ e.keys = {} /\ e.live = {} /\ e.keygroup = [k \in Keys |-> {}]
      /\ e.auth = [k \in Keys |-> "none"] /\ e.allowed = [k \in Keys |-> {}]
      /\ e.route = NoRoute /\ e.special = NoRoute /\ e.model = [o \in Owners |-> NoModel]
      /\ e.alias = FALSE /\ e.targets = {} /\ e.child = [c \in Children |-> NoChild]
<1> DEFINE e == EmptyCatalogue
<1>1. /\ e.providers = {} /\ e.born = {} /\ e.enabled = {} /\ e.member = [p \in Providers |-> {}]
      /\ e.groups = {DefaultGroup} /\ e.keys = {} /\ e.live = {} /\ e.keygroup = [k \in Keys |-> {}]
      /\ e.auth = [k \in Keys |-> "none"] /\ e.allowed = [k \in Keys |-> {}]
      /\ e.route = NoRoute /\ e.special = NoRoute /\ e.model = [o \in Owners |-> NoModel]
      /\ e.alias = FALSE /\ e.targets = {} /\ e.child = [c \in Children |-> NoChild]
  BY DEF EmptyCatalogue
<1>2. NoModel \in ModelRows
  BY DEF NoModel, ModelRows
<1>3. [o \in Owners |-> NoModel] \in [Owners -> ModelRows]
  BY <1>2
<1>4. [c \in Children |-> NoChild] \in [Children -> ChildRows \cup {NoChild}]
  OBVIOUS
<1>5. NoRoute \in Policies
  BY DEF Policies
<1>6. {DefaultGroup} \in SUBSET Groups
  BY CatalogueAssumption
<1>7. [k \in Keys |-> "none"] \in [Keys -> {"none", "compat", "direct"}]
      /\ [k \in Keys |-> {}] \in [Keys -> SUBSET Providers] /\ [k \in Keys |-> {}] \in [Keys -> SUBSET Groups]
      /\ [p \in Providers |-> {}] \in [Providers -> SUBSET Groups]
  OBVIOUS
<1>8. e \in CatalogueRows
  <2> DEFINE M == [o \in Owners |-> NoModel]  C == [c \in Children |-> NoChild]  A == [k \in Keys |-> "none"]
             K == [k \in Keys |-> {}]  P == [p \in Providers |-> {}]  D == {DefaultGroup}
  <2>1. e = [providers |-> {}, born |-> {}, enabled |-> {}, member |-> P,
             groups |-> D, keys |-> {}, live |-> {}, keygroup |-> K, auth |-> A, allowed |-> K,
             route |-> NoRoute, special |-> NoRoute, model |-> M, alias |-> FALSE, targets |-> {}, child |-> C]
    BY DEF EmptyCatalogue
  <2> HIDE DEF M, C, A, K, P, D, e
  <2> QED BY <1>3, <1>4, <1>5, <1>6, <1>7, <2>1 DEF CatalogueRows, M, C, A, K, P, D
<1> QED BY <1>1, <1>8

\* Tables in which every call is still to come.
LEMMA FirstCalls ==
  ASSUME Sound(cat, raced), raced = {}, admin = [a \in Admins |-> Idle], \A k \in cat.keys : Follows(cat, k)
  PROVE  CatalogueInv
<1>1. \A a \in Admins : admin[a] = Idle /\ CallOK(admin[a]) /\ admin[a].todo = <<>> /\ DOMAIN admin[a].todo = {}
  BY IdleCall
<1>2. CallsOK
  BY <1>1 DEF CallsOK
<1>3. NewIds
  BY <1>1 DEF NewIds, Busy
<1> QED BY <1>2, <1>3 DEF CatalogueInv, CompatFollowsOrWaits

LEMMA LegacyRows ==
  ASSUME NEW p \in Providers, NEW k \in Keys
  PROVE  LET l == LegacyCatalogue(p, k)
         IN  /\ l \in CatalogueRows
             /\ l.groups = {} /\ l.providers = {p} /\ l.enabled = {p} /\ l.born = {p, k}
             /\ l.keys = {k} /\ l.live = {k} /\ l.special = {p} /\ l.member = [q \in Providers |-> {}]
             /\ l.keygroup = [j \in Keys |-> {}] /\ l.auth = [j \in Keys |-> "none"]
             /\ l.allowed = [j \in Keys |-> {}] /\ l.route = NoRoute
             /\ l.alias = FALSE /\ l.targets = {} /\ l.child = [c \in Children |-> NoChild]
<1> DEFINE e == EmptyCatalogue
           M == [e.model EXCEPT ![p] = [present |-> TRUE, enabled |-> TRUE, available |-> TRUE, alias |-> TRUE]]
           P == {p}  B == {p, k}  K == {k}
           l == [e EXCEPT !.groups = {}, !.providers = P, !.enabled = P, !.born = B, !.keys = K, !.live = K,
                          !.special = P, !.model = M]
<1>1. LegacyCatalogue(p, k) = l
  BY DEF LegacyCatalogue
<1>2. M \in [Owners -> ModelRows]
  <2>1. [present |-> TRUE, enabled |-> TRUE, available |-> TRUE, alias |-> TRUE] \in ModelRows
    BY DEF ModelRows
  <2>2. e.model \in [Owners -> ModelRows]
    BY EmptyRows DEF CatalogueRows
  <2> QED BY <2>1, <2>2
<1>3. P \in SUBSET Providers /\ B \in SUBSET (Providers \cup Keys \cup Groups \cup Children) /\ K \in SUBSET Keys
      /\ P \in Policies
  BY DEF Policies
<1> HIDE DEF M, P, B, K
<1>4. e \in CatalogueRows
  BY EmptyRows
<1> HIDE DEF e
<1>5. l \in CatalogueRows
  BY <1>2, <1>3, <1>4 DEF CatalogueRows
<1>6. /\ l.groups = {} /\ l.providers = P /\ l.enabled = P /\ l.born = B
      /\ l.keys = K /\ l.live = K /\ l.special = P /\ l.member = e.member
      /\ l.keygroup = e.keygroup /\ l.auth = e.auth /\ l.allowed = e.allowed /\ l.route = e.route
      /\ l.alias = e.alias /\ l.targets = e.targets /\ l.child = e.child
  BY <1>4 DEF CatalogueRows
<1> QED BY <1>1, <1>5, <1>6, EmptyRows DEF e, P, B, K

\* Only one column of the access keys changes, to X.
OnlyGroups(c, d, X) ==
  /\ d \in CatalogueRows
  /\ d.keygroup = X
  /\ d.providers = c.providers /\ d.born = c.born /\ d.enabled = c.enabled /\ d.member = c.member
  /\ d.groups = c.groups /\ d.keys = c.keys /\ d.live = c.live /\ d.auth = c.auth
  /\ d.allowed = c.allowed /\ d.route = c.route /\ d.special = c.special /\ d.model = c.model
  /\ d.alias = c.alias /\ d.targets = c.targets /\ d.child = c.child

LEMMA SetGroups ==
  ASSUME NEW c \in CatalogueRows, NEW k \in Keys, NEW V \in SUBSET Groups
  PROVE  OnlyGroups(c, [c EXCEPT !.keygroup[k] = V], [c.keygroup EXCEPT ![k] = V])
<1> DEFINE X == [c.keygroup EXCEPT ![k] = V]
           d == [c EXCEPT !.keygroup = X]
<1>1. X \in [Keys -> SUBSET Groups]
  BY DEF CatalogueRows
<1>2. [c EXCEPT !.keygroup[k] = V] = d
  BY DEF CatalogueRows
<1> HIDE DEF X
<1>3. OnlyGroups(c, d, X)
  BY <1>1 DEF CatalogueRows, OnlyGroups
<1> QED BY <1>2, <1>3 DEF X

OnlyAuth(c, d, X) ==
  /\ d \in CatalogueRows
  /\ d.auth = X
  /\ d.providers = c.providers /\ d.born = c.born /\ d.enabled = c.enabled /\ d.member = c.member
  /\ d.groups = c.groups /\ d.keys = c.keys /\ d.live = c.live /\ d.keygroup = c.keygroup
  /\ d.allowed = c.allowed /\ d.route = c.route /\ d.special = c.special /\ d.model = c.model
  /\ d.alias = c.alias /\ d.targets = c.targets /\ d.child = c.child

LEMMA SetAuth ==
  ASSUME NEW c \in CatalogueRows, NEW k \in Keys, NEW V \in {"none", "compat", "direct"}
  PROVE  OnlyAuth(c, [c EXCEPT !.auth[k] = V], [c.auth EXCEPT ![k] = V])
<1> DEFINE X == [c.auth EXCEPT ![k] = V]
           d == [c EXCEPT !.auth = X]
<1>1. X \in [Keys -> {"none", "compat", "direct"}]
  BY DEF CatalogueRows
<1>2. [c EXCEPT !.auth[k] = V] = d
  BY DEF CatalogueRows
<1> HIDE DEF X
<1>3. OnlyAuth(c, d, X)
  BY <1>1 DEF CatalogueRows, OnlyAuth
<1> QED BY <1>2, <1>3 DEF X

OnlyAllowed(c, d, X) ==
  /\ d \in CatalogueRows
  /\ d.allowed = X
  /\ d.providers = c.providers /\ d.born = c.born /\ d.enabled = c.enabled /\ d.member = c.member
  /\ d.groups = c.groups /\ d.keys = c.keys /\ d.live = c.live /\ d.keygroup = c.keygroup
  /\ d.auth = c.auth /\ d.route = c.route /\ d.special = c.special /\ d.model = c.model
  /\ d.alias = c.alias /\ d.targets = c.targets /\ d.child = c.child

LEMMA SetAllowed ==
  ASSUME NEW c \in CatalogueRows, NEW k \in Keys, NEW V \in SUBSET Providers
  PROVE  OnlyAllowed(c, [c EXCEPT !.allowed[k] = V], [c.allowed EXCEPT ![k] = V])
<1> DEFINE X == [c.allowed EXCEPT ![k] = V]
           d == [c EXCEPT !.allowed = X]
<1>1. X \in [Keys -> SUBSET Providers]
  BY DEF CatalogueRows
<1>2. [c EXCEPT !.allowed[k] = V] = d
  BY DEF CatalogueRows
<1> HIDE DEF X
<1>3. OnlyAllowed(c, d, X)
  BY <1>1 DEF CatalogueRows, OnlyAllowed
<1> QED BY <1>2, <1>3 DEF X

\* The rows of an installation of this version.
CurrentRowsOf(c, p, k, d, x) ==
  /\ c \in CatalogueRows
  /\ c.providers = {p} /\ c.enabled = {p} /\ c.born = {p, k, d, x}
  /\ c.keys = {k, d} /\ c.live = {k, d} /\ c.special = {p} /\ c.route = {p}
  /\ c.member[p] = {DefaultGroup} /\ c.keygroup[k] = {DefaultGroup}
  /\ c.auth[k] = "compat" /\ c.auth[d] = "direct" /\ (\A j \in Keys \ {k, d} : c.auth[j] = "none")
  /\ c.allowed[k] = {p} /\ c.allowed[d] = {p} /\ (\A j \in Keys \ {k, d} : c.allowed[j] = {})
  /\ c.alias = TRUE /\ c.targets = {p}
  /\ c.child[x].of = p /\ \A y \in Children \ {x} : c.child[y] = NoChild

LEMMA CurrentRows ==
  ASSUME NEW p \in Providers, NEW k \in Keys, NEW d \in Keys, NEW x \in Children, d # k
  PROVE  CurrentRowsOf(CurrentCatalogue(p, k, d, x), p, k, d, x)
<1> DEFINE e == LegacyCatalogue(p, k)
           D == {DefaultGroup}  P == {p}  B == {p, k, d, x}  K == {k, d}
           M == [e.member EXCEPT ![p] = D]
           G == [[e.keygroup EXCEPT ![k] = D] EXCEPT ![d] = D]
           U == [[e.auth EXCEPT ![k] = "compat"] EXCEPT ![d] = "direct"]
           A == [[e.allowed EXCEPT ![k] = P] EXCEPT ![d] = P]
           r == [of |-> p, enabled |-> TRUE, priority |-> 1]
           C == [e.child EXCEPT ![x] = r]
           b == TRUE
<1>0. /\ e \in CatalogueRows
      /\ e.providers = P /\ e.enabled = P /\ e.special = P /\ e.member = [q \in Providers |-> {}]
      /\ e.keygroup = [j \in Keys |-> {}] /\ e.auth = [j \in Keys |-> "none"]
      /\ e.allowed = [j \in Keys |-> {}] /\ e.child = [c \in Children |-> NoChild]
  BY LegacyRows
<1> HIDE DEF e
<1> DEFINE e1 == [e EXCEPT !.groups = D, !.member[p] = D, !.keys = K, !.live = K, !.born = B]
           e2 == [e1 EXCEPT !.keygroup[k] = D, !.keygroup[d] = D]
           e3 == [e2 EXCEPT !.auth[k] = "compat", !.auth[d] = "direct"]
           e4 == [e3 EXCEPT !.allowed[k] = P, !.allowed[d] = P]
           l  == [e4 EXCEPT !.route = P, !.alias = b, !.targets = P, !.child[x] = r]
<1>1. CurrentCatalogue(p, k, d, x) = l
  BY DEF CurrentCatalogue, e
<1>2. D \in SUBSET Groups /\ P \in SUBSET Providers /\ P \in Policies /\ K \in SUBSET Keys
      /\ B \in SUBSET (Providers \cup Keys \cup Groups \cup Children) /\ b \in BOOLEAN
  <2>1. D \in SUBSET Groups
    BY CatalogueAssumption, Zenon
  <2>2. P \in SUBSET Providers /\ K \in SUBSET Keys /\ b \in BOOLEAN
    OBVIOUS
  <2>3. B \in SUBSET (Providers \cup Keys \cup Groups \cup Children)
    OBVIOUS
  <2> QED BY <2>1, <2>2, <2>3 DEF Policies
<1>3. M \in [Providers -> SUBSET Groups] /\ M[p] = D
  BY <1>0, <1>2
<1>4. G \in [Keys -> SUBSET Groups] /\ G[k] = D
  BY <1>0, <1>2
<1>5. U \in [Keys -> {"none", "compat", "direct"}] /\ U[k] = "compat" /\ U[d] = "direct"
      /\ \A j \in Keys \ {k, d} : U[j] = "none"
  BY <1>0
<1>6. A \in [Keys -> SUBSET Providers] /\ A[k] = P /\ A[d] = P /\ \A j \in Keys \ {k, d} : A[j] = {}
  BY <1>0, <1>2
<1>7. r \in ChildRows /\ r.of = p
  BY DEF ChildRows
<1>8. C \in [Children -> ChildRows \cup {NoChild}] /\ C[x] = r /\ \A y \in Children \ {x} : C[y] = NoChild
  <2> HIDE DEF r
  <2> QED BY <1>0, <1>7
<1> HIDE DEF D, P, B, K, r, b
<1>9. /\ e1 \in CatalogueRows
      /\ e1.groups = D /\ e1.member = M /\ e1.keys = K /\ e1.live = K /\ e1.born = B
      /\ e1.providers = e.providers /\ e1.enabled = e.enabled /\ e1.keygroup = e.keygroup /\ e1.auth = e.auth
      /\ e1.allowed = e.allowed /\ e1.route = e.route /\ e1.special = e.special /\ e1.model = e.model
      /\ e1.alias = e.alias /\ e1.targets = e.targets /\ e1.child = e.child
  BY <1>0, <1>2, <1>3 DEF CatalogueRows
<1> HIDE DEF e1, M
<1>10. OnlyGroups(e1, e2, G)
  <2> DEFINE v == D  w == D
             h == [e1 EXCEPT !.keygroup[k] = v]
             f == [h EXCEPT !.keygroup[d] = w]
  <2>1. v \in SUBSET Groups /\ w \in SUBSET Groups
    BY <1>2
  <2>2. e1 \in CatalogueRows /\ e1.keygroup = e.keygroup
    BY <1>9
  <2>3. e2 = f
    BY <2>2 DEF CatalogueRows
  <2>4. G = [[e.keygroup EXCEPT ![k] = v] EXCEPT ![d] = w]
    OBVIOUS
  <2> HIDE DEF v, w, e2, G
  <2>5. OnlyGroups(e1, h, [e1.keygroup EXCEPT ![k] = v])
    BY <2>1, <2>2, SetGroups
  <2> HIDE DEF h
  <2>6. h \in CatalogueRows
    BY <2>5 DEF OnlyGroups
  <2>7. OnlyGroups(h, f, [h.keygroup EXCEPT ![d] = w])
    BY <2>1, <2>6, SetGroups
  <2> HIDE DEF f
  <2> QED BY <2>2, <2>3, <2>4, <2>5, <2>7 DEF OnlyGroups
<1> HIDE DEF e2, G
<1>11. OnlyAuth(e2, e3, U)
  <2> DEFINE v == "compat"  w == "direct"
             h == [e2 EXCEPT !.auth[k] = v]
             f == [h EXCEPT !.auth[d] = w]
  <2>1. v \in {"none", "compat", "direct"} /\ w \in {"none", "compat", "direct"}
    BY <1>2
  <2>2. e2 \in CatalogueRows /\ e2.auth = e.auth
    BY <1>9, <1>10 DEF OnlyGroups
  <2>3. e3 = f
    BY <2>2 DEF CatalogueRows
  <2>4. U = [[e.auth EXCEPT ![k] = v] EXCEPT ![d] = w]
    OBVIOUS
  <2> HIDE DEF v, w, e3, U
  <2>5. OnlyAuth(e2, h, [e2.auth EXCEPT ![k] = v])
    BY <2>1, <2>2, SetAuth
  <2> HIDE DEF h
  <2>6. h \in CatalogueRows
    BY <2>5 DEF OnlyAuth
  <2>7. OnlyAuth(h, f, [h.auth EXCEPT ![d] = w])
    BY <2>1, <2>6, SetAuth
  <2> HIDE DEF f
  <2> QED BY <2>2, <2>3, <2>4, <2>5, <2>7 DEF OnlyAuth
<1> HIDE DEF e3, U
<1>12. OnlyAllowed(e3, e4, A)
  <2> DEFINE v == P  w == P
             h == [e3 EXCEPT !.allowed[k] = v]
             f == [h EXCEPT !.allowed[d] = w]
  <2>1. v \in SUBSET Providers /\ w \in SUBSET Providers
    BY <1>2
  <2>2. e3 \in CatalogueRows /\ e3.allowed = e.allowed
    BY <1>9, <1>10, <1>11 DEF OnlyGroups, OnlyAuth
  <2>3. e4 = f
    BY <2>2 DEF CatalogueRows
  <2>4. A = [[e.allowed EXCEPT ![k] = v] EXCEPT ![d] = w]
    OBVIOUS
  <2> HIDE DEF v, w, e4, A
  <2>5. OnlyAllowed(e3, h, [e3.allowed EXCEPT ![k] = v])
    BY <2>1, <2>2, SetAllowed
  <2> HIDE DEF h
  <2>6. h \in CatalogueRows
    BY <2>5 DEF OnlyAllowed
  <2>7. OnlyAllowed(h, f, [h.allowed EXCEPT ![d] = w])
    BY <2>1, <2>6, SetAllowed
  <2> HIDE DEF f
  <2> QED BY <2>2, <2>3, <2>4, <2>5, <2>7 DEF OnlyAllowed
<1> HIDE DEF e4, A
<1>13. /\ l \in CatalogueRows
       /\ l.route = P /\ l.alias = b /\ l.targets = P /\ l.child = C
       /\ l.providers = e4.providers /\ l.born = e4.born /\ l.enabled = e4.enabled /\ l.member = e4.member
       /\ l.groups = e4.groups /\ l.keys = e4.keys /\ l.live = e4.live /\ l.keygroup = e4.keygroup
       /\ l.auth = e4.auth /\ l.allowed = e4.allowed /\ l.special = e4.special /\ l.model = e4.model
  <2> DEFINE X == [e4.child EXCEPT ![x] = r]
  <2>1. X = C
    BY <1>9, <1>10, <1>11, <1>12 DEF OnlyGroups, OnlyAuth, OnlyAllowed
  <2>2. X \in [Children -> ChildRows \cup {NoChild}]
    BY <1>8, <2>1
  <2>3. e4 \in CatalogueRows
    BY <1>12 DEF OnlyAllowed
  <2>4. l = [e4 EXCEPT !.route = P, !.alias = b, !.targets = P, !.child = X]
    BY <2>3 DEF CatalogueRows
  <2> HIDE DEF X, C, l
  <2> QED BY <1>2, <2>1, <2>2, <2>3, <2>4 DEF CatalogueRows
<1> HIDE DEF l, C
<1>14. l.child[x].of = p
  BY <1>7, <1>8, <1>13
<1> QED BY <1>0, <1>1, <1>3, <1>4, <1>5, <1>6, <1>8, <1>9, <1>10, <1>11, <1>12, <1>13, <1>14
           DEF CurrentRowsOf, OnlyGroups, OnlyAuth, OnlyAllowed, P, B, K, D, b

\* A database without tables.
LEMMA NoTables ==
  ASSUME cat = [EmptyCatalogue EXCEPT !.groups = {}], raced = {}, admin = [a \in Admins |-> Idle], migrated = FALSE
  PROVE  CatalogueSafe
<1> DEFINE e == EmptyCatalogue
<1>0. /\ e \in CatalogueRows
      /\ e.providers = {} /\ e.born = {} /\ e.enabled = {}
      /\ e.keys = {} /\ e.live = {}
      /\ e.auth = [k \in Keys |-> "none"] /\ e.allowed = [k \in Keys |-> {}]
      /\ e.route = NoRoute /\ e.special = NoRoute
      /\ e.targets = {} /\ e.child = [c \in Children |-> NoChild]
  BY EmptyRows
<1> HIDE DEF e
<1>1. cat = [e EXCEPT !.groups = {}]
  BY DEF e
<1>2. /\ cat \in CatalogueRows
      /\ cat.providers = {} /\ cat.born = {} /\ cat.enabled = {}
      /\ cat.keys = {} /\ cat.live = {}
      /\ cat.auth = [k \in Keys |-> "none"] /\ cat.allowed = [k \in Keys |-> {}]
      /\ cat.route = NoRoute /\ cat.special = NoRoute
      /\ cat.targets = {} /\ cat.child = [c \in Children |-> NoChild]
  BY <1>0, <1>1 DEF CatalogueRows
<1>3. Sound(cat, raced)
  BY <1>2 DEF Sound, Rooted, Refers
<1>4. CatalogueInv
  BY <1>2, <1>3, FirstCalls
<1>5. \A a \in Admins : ~ Busy(a)
  BY DEF Busy, Idle
<1> QED BY <1>2, <1>4, <1>5 DEF CatalogueSafe, Unserved

\* One from long ago.
LEMMA OldTables ==
  ASSUME NEW p \in Providers, NEW k \in Keys, NEW star \in {NoRoute, {p}},
         cat = [LegacyCatalogue(p, k) EXCEPT !.route = star],
         raced = {}, admin = [a \in Admins |-> Idle], migrated = FALSE
  PROVE  CatalogueSafe
<1> DEFINE l == LegacyCatalogue(p, k)
<1>1. /\ l \in CatalogueRows
      /\ l.providers = {p} /\ l.born = {p, k} /\ l.enabled = {p}
      /\ l.keys = {k} /\ l.live = {k} /\ l.special = {p}
      /\ l.auth = [j \in Keys |-> "none"] /\ l.allowed = [j \in Keys |-> {}]
      /\ l.targets = {} /\ l.child = [c \in Children |-> NoChild]
      /\ cat = [l EXCEPT !.route = star]
  BY LegacyRows
<1> HIDE DEF l
<1>2. /\ cat \in CatalogueRows
      /\ cat.providers = {p} /\ cat.born = {p, k} /\ cat.enabled = {p}
      /\ cat.keys = {k} /\ cat.live = {k} /\ cat.special = {p}
      /\ cat.auth = [j \in Keys |-> "none"] /\ cat.allowed = [j \in Keys |-> {}]
      /\ cat.route = star
      /\ cat.targets = {} /\ cat.child = [c \in Children |-> NoChild]
  <2>1. star \in Policies
    BY DEF Policies
  <2> QED BY <1>1, <2>1 DEF CatalogueRows
<1>3. Sound(cat, raced)
  <2>1. Rooted(cat)
    BY <1>2 DEF Rooted
  <2>2. Refers(cat, raced)
    BY <1>2 DEF Refers
  <2> QED BY <1>2, <2>1, <2>2 DEF Sound
<1>4. CatalogueInv
  <2>1. \A j \in cat.keys : Follows(cat, j)
    BY <1>2 DEF Follows
  <2> QED BY <1>3, <2>1, FirstCalls
<1>5. \A a \in Admins : ~ Busy(a)
  BY DEF Busy, Idle
<1> QED BY <1>2, <1>4, <1>5 DEF CatalogueSafe, Unserved

\* One of this version.
LEMMA CurrentTables ==
  ASSUME NEW p \in Providers, NEW k \in Keys, NEW d \in Keys, NEW x \in Children, d # k,
         cat = CurrentCatalogue(p, k, d, x),
         raced = {}, admin = [a \in Admins |-> Idle], migrated = TRUE
  PROVE  CatalogueSafe
<1>2. /\ cat \in CatalogueRows
      /\ cat.providers = {p} /\ cat.enabled = {p} /\ cat.born = {p, k, d, x}
      /\ cat.keys = {k, d} /\ cat.live = {k, d} /\ cat.special = {p} /\ cat.route = {p}
      /\ cat.member[p] = {DefaultGroup} /\ cat.keygroup[k] = {DefaultGroup}
      /\ cat.auth[k] = "compat" /\ cat.auth[d] = "direct" /\ (\A j \in Keys \ {k, d} : cat.auth[j] = "none")
      /\ cat.allowed[k] = {p} /\ cat.allowed[d] = {p} /\ (\A j \in Keys \ {k, d} : cat.allowed[j] = {})
      /\ cat.alias = TRUE /\ cat.targets = {p}
      /\ cat.child[x].of = p /\ \A y \in Children \ {x} : cat.child[y] = NoChild
  <2>1. CurrentRowsOf(CurrentCatalogue(p, k, d, x), p, k, d, x)
    BY CurrentRows
  <2>2. CurrentRowsOf(cat, p, k, d, x)
    BY <2>1
  <2> QED BY <2>2 DEF CurrentRowsOf
<1>3. Sound(cat, raced)
  <2>1. Rooted(cat)
    BY <1>2 DEF Rooted
  <2>2. \A j \in Keys : cat.allowed[j] \subseteq cat.providers
    BY <1>2
  <2>3. cat.targets \subseteq (IF cat.alias THEN cat.providers ELSE {})
    BY <1>2
  <2>4. \A y \in Children : cat.child[y] # NoChild => cat.child[y].of \in cat.providers
    BY <1>2
  <2>5. \A r \in {cat.route, cat.special} \ {NoRoute} : r \subseteq cat.providers \cup raced
    BY <1>2
  <2> QED BY <1>2, <2>1, <2>2, <2>3, <2>4, <2>5 DEF Sound, Refers
<1>4. CatalogueInv
  <2>1. Union(cat, k) = {p}
    BY <1>2 DEF Union
  <2>2. \A j \in cat.keys : Follows(cat, j)
    BY <1>2, <2>1 DEF Follows
  <2> QED BY <1>3, <2>2, FirstCalls
<1>5. cat.route # NoRoute
  <2>1. {p} # {"no policy"}
    BY CatalogueAssumption, Zenon
  <2> QED BY <1>2, <2>1, Zenon DEF NoRoute
<1> QED BY <1>4, <1>5 DEF CatalogueSafe, Unserved

LEMMA FirstGates ==
  ASSUME Engines, gate = [g \in Gateways |-> Down]
  PROVE  StartsOK
<1> SUFFICES ASSUME NEW g \in Gateways PROVE GateOK(g)
  BY DEF StartsOK
<1>0. gate[g] = Down
  OBVIOUS
<1>1. Len(Program) = 21
  BY ProgramSteps DEF Engines
<1>2. Down.pc = 0 /\ Down.n = 0 /\ Down.rebuilt = FALSE
  BY DEF Down
<1>3. Down \in GateRows
  <2>1. NoWork \in [columns: (SUBSET UNION {Needed[t] : t \in Tables}) \cup {Missing}, rows: BOOLEAN, old: BOOLEAN]
    BY DEF NoWork
  <2>2. 0 \in 0 .. Len(Program) + 1 /\ 0 \in 0 .. 4
    BY <1>1
  <2> HIDE DEF NoWork
  <2> QED BY <2>1, <2>2 DEF Down, GateRows
<1>4. ~ Starting(g)
  BY <1>0, <1>1, <1>2 DEF Starting
<1>5. \A i \in 1 .. gate[g].pc - 1 : FALSE
  BY <1>0, <1>2
<1> QED BY <1>0, <1>2, <1>3, <1>4, <1>5 DEF GateOK, WorkOK, AtStep

\* The columns of each of the three.
LEMMA FirstSchema ==
  ASSUME Engines,
         \/ schema = [t \in Tables |-> Missing] /\ active = TRUE
         \/ schema = Legacy(engine) /\ active = FALSE
         \/ schema = Needed /\ active = TRUE
  PROVE  /\ SchemaOK
         /\ schema["model_prices"] = Missing => active
         /\ "active" \in schema["model_prices"] => ActiveHeld
<1>1. CASE schema = [t \in Tables |-> Missing] /\ active = TRUE
  BY <1>1 DEF SchemaOK, ActiveHeld, Tables
<1>2. CASE schema = Legacy(engine) /\ active = FALSE
  <2>1. schema = [t \in Tables |-> schema[t]]
    BY <1>2 DEF Legacy, Tables
  <2>2. \A t \in Tables : schema[t] \subseteq Needed[t] \cup Legacy(engine)[t]
    BY <1>2
  <2>3. engine = "postgres" => \A t \in {"stats_events", "stats_hourly"} : "usage" \in schema[t]
    BY <1>2 DEF Legacy
  <2>4. schema["model_prices"] = {"fk"}
    BY <1>2, LegacyColumns
  <2> QED BY <2>1, <2>2, <2>3, <2>4 DEF SchemaOK, Missing
<1>3. CASE schema = Needed /\ active = TRUE
  <2>1. schema = [t \in Tables |-> schema[t]]
    BY <1>3 DEF Needed, created, Tables
  <2>2. \A t \in Tables : schema[t] \subseteq Needed[t] \cup Legacy(engine)[t]
    BY <1>3
  <2>3. \A t \in {"stats_events", "stats_hourly"} : "usage" \in schema[t]
    BY <1>3, NeededColumns
  <2> QED BY <1>3, <2>1, <2>2, <2>3 DEF SchemaOK, ActiveHeld
<1> QED BY <1>1, <1>2, <1>3

LEMMA InitInv == Init => StartupInv
<1> SUFFICES ASSUME Init PROVE CatalogueSafe /\ SeenOK /\ StartSafe
  BY InvParts
<1>0. SeenOK
  BY NothingFound DEF Init, SeenOK
<1>1. CatalogueSafe
  BY NoTables, OldTables, CurrentTables DEF Init
<1>2. Engines /\ gate = [g \in Gateways |-> Down] /\ frozen = (IF migrated THEN 1 ELSE 0) /\ migrated \in BOOLEAN
  BY DEF Init, Engines
<1>3. rows \in [Tables -> BOOLEAN]
  BY DEF Init
<1>4. gate = [g \in Gateways |-> gate[g]]
  BY <1>2
<1>5. /\ SchemaOK
      /\ schema["model_prices"] = Missing => active
      /\ "active" \in schema["model_prices"] => ActiveHeld
  BY <1>2, FirstSchema DEF Init
<1> QED BY <1>0, <1>1, <1>2, <1>3, <1>4, <1>5, FirstGates DEF StartSafe

-----------------------------------------------------------------------------
(* What a gateway that serves has passed.                                  *)

\* Only the last steps add a column for good while a start rebuilds request_logs.
LEMMA LostColumns ==
  ASSUME NEW g, NEW i
  PROVE  /\ Lost(g, i) \subseteq {"trace", "format"}
         /\ ~ gate[g].rebuilt => Lost(g, i) = {}
         /\ engine = "sqlite" /\ i \in 19 .. 21 => Lost(g, i) = {}
<1>1. ASSUME engine = "sqlite", i \in 19 .. 21, NEW j \in i .. 21
      PROVE  Program[j] # Rebuild("request_logs")
  <2>1. j \in {19, 20, 21}
    BY <1>1
  <2>2. Program[j] \in {AddTo("request_logs", {"format"}), AddTo("request_logs", {"late"}), Run("upstream")}
    BY <1>1, <2>1, SqliteSteps DEF Program
  <2> QED BY <2>2 DEF AddTo, Run, Rebuild, Step
<1>2. engine = "sqlite" => Len(Program) = 21
  BY SqliteSteps DEF Program
<1> QED BY <1>1, <1>2 DEF Lost

LEMMA AddHeld ==
  ASSUME NEW g, NEW i, NEW t, NEW C, Program[i] = AddTo(t, C), Holds(g, i)
  PROVE  /\ C \ schema[t] \subseteq {"trace", "format"}
         /\ ~ gate[g].rebuilt => C \subseteq schema[t]
         /\ engine = "sqlite" /\ i \in 19 .. 21 => C \subseteq schema[t]
<1>1. Program[i].do = "add" /\ Program[i].table = t /\ Program[i].columns = C
  BY DEF AddTo, Step
<1>2. C \ schema[t] \subseteq Lost(g, i)
  BY <1>1 DEF Holds
<1> QED BY <1>2, LostColumns

LEMMA DropHeld ==
  ASSUME NEW g, NEW i, NEW t, NEW C, Program[i] = DropFrom(t, C), Holds(g, i)
  PROVE  C \cap schema[t] = {}
<1>1. Program[i].do = "drop" /\ Program[i].table = t /\ Program[i].columns = C
  BY DEF DropFrom, Step
<1> QED BY <1>1 DEF Holds

LEMMA RebuildHeld ==
  ASSUME NEW g, NEW i, NEW t, Program[i] = Rebuild(t), Holds(g, i)
  PROVE  ~ NeedsRebuild(t, schema[t])
<1>1. Program[i].do = "rebuild" /\ Program[i].table = t
  BY DEF Rebuild, Step
<1> QED BY <1>1 DEF Holds

LEMMA RunHeld ==
  ASSUME NEW g, NEW i, NEW do, Program[i] = Run(do), Holds(g, i)
  PROVE  /\ do = "tables" => \A t \in Tables : schema[t] # Missing
         /\ do = "key" => KeyHeld
         /\ do = "active" => "active" \in schema["model_prices"]
         /\ do = "upstream" => migrated
<1>1. Program[i].do = do
  BY DEF Run, Step
<1> QED BY <1>1 DEF Holds, KeyHeld

\* The tables of a gateway that serves.
TablesReady(g) ==
  /\ \A t \in Tables :
       /\ Needed[t] \ (schema[t] \cup {"key"}) \subseteq (IF gate[g].rebuilt THEN {"trace"} ELSE {})
       /\ schema[t] \cap {"cost", "fk"} = {}
  /\ KeyHeld
  /\ "active" \in schema["model_prices"]
  /\ migrated

LEMMA SqliteReady ==
  ASSUME engine = "sqlite", SchemaOK, NEW g, \A i \in 1 .. 21 : Holds(g, i)
  PROVE  TablesReady(g)
<1> DEFINE C(t) == schema[t]
<1>1. /\ Program[1] = Run("tables")
      /\ Program[2] = AddTo("request_logs", {"usage"})
      /\ Program[3] = AddTo("stats_daily", {"usage"})
      /\ Program[4] = AddTo("upstream_providers", {"options"})
      /\ Program[6] = AddTo("request_logs", {"span", "trace"})
      /\ Program[10] = AddTo("stats_events", {"usage"})
      /\ Program[11] = AddTo("stats_hourly", {"usage"})
      /\ Program[12] = Rebuild("model_prices")
      /\ Program[13] = Rebuild("stats_daily")
      /\ Program[14] = Rebuild("stats_hourly")
      /\ Program[15] = Rebuild("request_logs")
      /\ Program[16] = Rebuild("stats_events")
      /\ Program[17] = Run("active")
      /\ Program[18] = AddTo("provider_models", {"available"})
      /\ Program[19] = AddTo("request_logs", {"format"})
      /\ Program[20] = AddTo("request_logs", {"late"})
      /\ Program[21] = Run("upstream")
  BY SqliteSteps DEF Program
<1>2. \A t \in Tables : C(t) # Missing /\ C(t) \subseteq Needed[t] \cup Legacy(engine)[t]
  <2>1. \A t \in Tables : C(t) # Missing
    BY <1>1, RunHeld
  <2> QED BY <2>1 DEF SchemaOK
<1>3. "usage" \in C("request_logs") /\ "span" \in C("request_logs") /\ (~ gate[g].rebuilt => "trace" \in C("request_logs"))
  <2>1. {"usage"} \ C("request_logs") \subseteq {"trace", "format"}
    BY <1>1, AddHeld
  <2>2. {"span", "trace"} \ C("request_logs") \subseteq {"trace", "format"}
        /\ (~ gate[g].rebuilt => {"span", "trace"} \subseteq C("request_logs"))
    BY <1>1, AddHeld
  <2> QED BY <2>1, <2>2
<1>4. "format" \in C("request_logs") /\ "late" \in C("request_logs")
  <2>1. {"format"} \subseteq C("request_logs")
    BY <1>1, AddHeld
  <2>2. {"late"} \subseteq C("request_logs")
    BY <1>1, AddHeld
  <2> QED BY <2>1, <2>2
<1>5. \A t \in {"model_prices", "stats_daily", "stats_hourly", "request_logs", "stats_events"} : ~ NeedsRebuild(t, C(t))
  BY <1>1, RebuildHeld
<1>6. "usage" \in C("stats_daily") /\ "usage" \in C("stats_events") /\ "usage" \in C("stats_hourly")
  <2>1. {"usage"} \ C("stats_daily") \subseteq {"trace", "format"}
    BY <1>1, AddHeld
  <2>2. {"usage"} \ C("stats_events") \subseteq {"trace", "format"}
    BY <1>1, AddHeld
  <2>3. {"usage"} \ C("stats_hourly") \subseteq {"trace", "format"}
    BY <1>1, AddHeld
  <2> QED BY <2>1, <2>2, <2>3
<1>7. "options" \in C("upstream_providers") /\ "available" \in C("provider_models")
  <2>1. {"options"} \ C("upstream_providers") \subseteq {"trace", "format"}
    BY <1>1, AddHeld
  <2>2. {"available"} \ C("provider_models") \subseteq {"trace", "format"}
    BY <1>1, AddHeld
  <2> QED BY <2>1, <2>2
<1>8. "active" \in C("model_prices") /\ migrated
  BY <1>1, RunHeld
<1>9. /\ "price" \in C("request_logs") /\ "price" \in C("stats_events")
      /\ "price" \in C("stats_hourly") /\ "key" \in C("stats_hourly")
      /\ \A t \in {"model_prices", "stats_daily", "stats_hourly", "request_logs", "stats_events"} :
           C(t) \cap {"cost", "fk"} = {}
  BY <1>5 DEF NeedsRebuild
<1>10. \A t \in {"upstream_providers", "provider_models"} : C(t) \cap {"cost", "fk"} = {}
  BY <1>2, NeededColumns, LegacyColumns DEF Tables
<1> QED BY <1>3, <1>4, <1>6, <1>7, <1>8, <1>9, <1>10, NeededColumns DEF TablesReady, KeyHeld, Tables

LEMMA PostgresReady ==
  ASSUME engine = "postgres", SchemaOK, NEW g, ~ gate[g].rebuilt, \A i \in 1 .. 21 : Holds(g, i)
  PROVE  TablesReady(g)
<1> DEFINE C(t) == schema[t]
<1>1. /\ Program[1] = Run("tables")
      /\ Program[2] = AddTo("request_logs", {"usage"})
      /\ Program[3] = AddTo("stats_daily", {"usage"})
      /\ Program[4] = AddTo("upstream_providers", {"options"})
      /\ Program[6] = AddTo("request_logs", {"span", "trace"})
      /\ Program[7] = AddTo("provider_models", {"available"})
      /\ Program[8] = AddTo("request_logs", {"format"})
      /\ Program[10] = DropFrom("model_prices", {"fk"})
      /\ Program[11] = AddTo("request_logs", {"price"})
      /\ Program[12] = DropFrom("request_logs", {"cost"})
      /\ Program[13] = AddTo("stats_events", {"price"})
      /\ Program[14] = DropFrom("stats_events", {"cost"})
      /\ Program[15] = DropFrom("stats_daily", {"cost"})
      /\ Program[16] = AddTo("stats_hourly", {"price"})
      /\ Program[17] = DropFrom("stats_hourly", {"cost"})
      /\ Program[18] = Run("key")
      /\ Program[19] = Run("active")
      /\ Program[20] = AddTo("request_logs", {"late"})
      /\ Program[21] = Run("upstream")
  BY PostgresSteps DEF Program
<1>2. \A t \in Tables : C(t) # Missing /\ C(t) \subseteq Needed[t] \cup Legacy(engine)[t]
  <2>1. \A t \in Tables : C(t) # Missing
    BY <1>1, RunHeld
  <2> QED BY <2>1 DEF SchemaOK
<1>3. {"usage"} \subseteq C("request_logs") /\ {"span", "trace"} \subseteq C("request_logs")
      /\ {"format"} \subseteq C("request_logs") /\ {"price"} \subseteq C("request_logs")
      /\ {"late"} \subseteq C("request_logs")
  <2>1. {"usage"} \subseteq C("request_logs")
    BY <1>1, AddHeld
  <2>2. {"span", "trace"} \subseteq C("request_logs")
    BY <1>1, AddHeld
  <2>3. {"format"} \subseteq C("request_logs")
    BY <1>1, AddHeld
  <2>4. {"price"} \subseteq C("request_logs")
    BY <1>1, AddHeld
  <2>5. {"late"} \subseteq C("request_logs")
    BY <1>1, AddHeld
  <2> QED BY <2>1, <2>2, <2>3, <2>4, <2>5
<1>4. {"usage"} \subseteq C("stats_daily") /\ {"options"} \subseteq C("upstream_providers")
      /\ {"available"} \subseteq C("provider_models")
      /\ {"price"} \subseteq C("stats_events") /\ {"price"} \subseteq C("stats_hourly")
  <2>1. {"usage"} \subseteq C("stats_daily")
    BY <1>1, AddHeld
  <2>2. {"options"} \subseteq C("upstream_providers")
    BY <1>1, AddHeld
  <2>3. {"available"} \subseteq C("provider_models")
    BY <1>1, AddHeld
  <2>4. {"price"} \subseteq C("stats_events")
    BY <1>1, AddHeld
  <2>5. {"price"} \subseteq C("stats_hourly")
    BY <1>1, AddHeld
  <2> QED BY <2>1, <2>2, <2>3, <2>4, <2>5
<1>5. "usage" \in C("stats_events") /\ "usage" \in C("stats_hourly")
  BY <1>2 DEF SchemaOK, Tables
<1>6. /\ {"fk"} \cap C("model_prices") = {} /\ {"cost"} \cap C("request_logs") = {}
      /\ {"cost"} \cap C("stats_events") = {} /\ {"cost"} \cap C("stats_daily") = {}
      /\ {"cost"} \cap C("stats_hourly") = {}
  <2>1. {"fk"} \cap C("model_prices") = {}
    BY <1>1, DropHeld
  <2>2. {"cost"} \cap C("request_logs") = {}
    BY <1>1, DropHeld
  <2>3. {"cost"} \cap C("stats_events") = {}
    BY <1>1, DropHeld
  <2>4. {"cost"} \cap C("stats_daily") = {}
    BY <1>1, DropHeld
  <2>5. {"cost"} \cap C("stats_hourly") = {}
    BY <1>1, DropHeld
  <2> QED BY <2>1, <2>2, <2>3, <2>4, <2>5
<1>7. "active" \in C("model_prices") /\ migrated /\ KeyHeld
  BY <1>1, RunHeld
<1>8. \A t \in Tables : C(t) \cap {"cost", "fk"} = {}
  <2>1. /\ "cost" \notin C("model_prices")
        /\ \A t \in Tables \ {"model_prices"} : "fk" \notin C(t)
        /\ \A t \in {"upstream_providers", "provider_models"} : "cost" \notin C(t)
    BY <1>2, NeededColumns, LegacyColumns DEF Tables
  <2> QED BY <1>6, <2>1 DEF Tables
<1>9. \A t \in Tables : Needed[t] \ (C(t) \cup {"key"}) = {}
  BY <1>3, <1>4, <1>5, <1>7, NeededColumns DEF Tables
<1> QED BY <1>7, <1>8, <1>9 DEF TablesReady

-----------------------------------------------------------------------------
(* The theorems.                                                           *)

\* migrate and the calls of the administration API keep the invariant that
\* relates the tables, the columns, the starts, the calls on their way and what
\* their open transactions found, for any number of gateways and calls, however
\* their statements interleave and wherever any of them is cut short.
THEOREM StartupInvariant == Spec => []StartupInv
<1>1. StartupInv /\ [Next]_vars => StartupInv'
  BY StepKeeps
<1> QED BY <1>1, InitInv, PTL DEF Spec

\* The tables, the starts and the calls keep their types.
THEOREM TypeCorrect == Spec => []TypeOK
<1>1. StartupInv => TypeOK
  <2> SUFFICES ASSUME StartupInv PROVE TypeOK
    OBVIOUS
  <2>1. CatalogueTypeOK
    <3>1. cat \in CatalogueRows /\ Rooted(cat) /\ CallsOK
      BY DEF StartupInv, CatalogueInv, Sound
    <3>2. cat.auth \in [Keys -> {"none", "compat", "direct"}] /\ cat.allowed \in [Keys -> SUBSET Providers]
      BY <3>1 DEF CatalogueRows
    <3>3. \A a \in Admins : Busy(a) \/ (admin[a] = Idle /\ seen[a] = Nothing)
      BY <3>1 DEF CallsOK, CallOK, Busy, StartupInv, SeenOK
    <3> QED BY <3>1, <3>2, <3>3 DEF CatalogueTypeOK, Rooted
  <2>2. \A t \in Tables : schema[t] = Missing \/ "missing" \notin schema[t]
    BY ColumnFacts DEF StartupInv, SchemaOK
  <2>3. rows \in [Tables -> BOOLEAN] /\ gate \in [Gateways -> GateRows]
    BY DEF StartupInv, StartsOK, GateOK
  <2> QED BY <2>1, <2>2, <2>3 DEF TypeOK, GateRows
<1> QED BY <1>1, StartupInvariant, PTL

\* delete_upstream_provider and the foreign keys: no list of a key, alias,
\* endpoint or key of a provider refers to a provider that is gone, and no route
\* does, but for one that was on its way while the provider was deleted.
THEOREM ReferencesHoldAlways == Spec => []ReferencesHold
<1>1. StartupInv => ReferencesHold
  BY DEF StartupInv, CatalogueInv, Sound, Refers, ReferencesHold
<1> QED BY <1>1, StartupInvariant, PTL

\* refresh_compat_authorizations and insert_provider_bundle: a key that follows
\* its groups may use exactly what they give, once every refresh has run and none
\* has committed over another transaction (as on Postgres it may).
THEOREM CompatFollowsAlways == Spec => []CompatFollows
<1>1. StartupInv => CompatFollows
  BY DEF StartupInv, CatalogueInv, CompatFollowsOrWaits, Follows, CompatFollows
<1> QED BY <1>1, StartupInvariant, PTL

\* migrate: whatever series of starts went before, a gateway serves over tables
\* that have the columns, the key, the active prices and the routes its
\* statements need, and none of the columns they leave without a value.
THEOREM ReadyToServeAlways == Spec => []ReadyToServe
<1>1. StartupInv => ReadyToServe
  <2> SUFFICES ASSUME StartupInv, NEW g \in Gateways, Serving(g)
               PROVE  /\ \A t \in Tables :
                           /\ Needed[t] \ (schema[t] \cup {"key"}) \subseteq (IF gate[g].rebuilt THEN {"trace"} ELSE {})
                           /\ schema[t] \cap {"cost", "fk"} = {}
                      /\ "key" \in schema["stats_hourly"] \/ Between("key") \/ "key" \in cut
                      /\ active \/ Between("active") \/ "active" \in cut
                      /\ migrated /\ frozen = 1
    BY DEF ReadyToServe
  <2>1. Engines /\ SchemaOK /\ GateOK(g)
    BY DEF StartupInv, Engines, StartsOK
  <2>2. \A i \in 1 .. 21 : Holds(g, i)
    <3>1. gate[g].pc = 22 /\ \A i \in 1 .. gate[g].pc - 1 : Holds(g, i)
      BY <2>1, GateFacts
    <3>2. gate[g].pc - 1 = 21
      BY <3>1
    <3> QED BY <3>1, <3>2
  <2>3. TablesReady(g)
    <3>1. engine = "postgres" => ~ gate[g].rebuilt
      BY <2>1 DEF GateOK
    <3> QED BY <2>1, <2>2, <3>1, SqliteReady, PostgresReady DEF Engines
  <2> QED BY <2>3 DEF TablesReady, KeyHeld, StartupInv
<1> QED BY <1>1, StartupInvariant, PTL

\* The rebuilds of migrate_sqlite_pricing_storage, wherever they are cut short,
\* and the statements of migrate_postgres_pricing_storage: the rows of an earlier
\* version stay in every table.
THEOREM UsageKeptAlways == Spec => UsageKept
<1>1. StartupInv /\ [Next]_vars => [\A t \in Tables : rows[t] => rows'[t]]_rows
  BY StepKeeps
<1> QED BY <1>1, StartupInvariant, PTL DEF Spec, UsageKept

\* replace_allowed_providers, upsert_provider_models: refreshes, syncs,
\* migrations and the calls for other keys and models leave the list that a key
\* was given, and the models that were switched off, as they are; except that a
\* Postgres transaction that found the key without a list commits what it found.
THEOREM AdminDecidesAlways == Spec => AdminDecides
<1>1. StartupInv /\ [Next]_vars => Decided \/ cat' = cat
  BY StepKeeps
<1>2. Decided \/ cat' = cat =>
        [/\ \A k \in cat.keys \cap cat'.keys : cat.auth[k] = "direct" =>
              /\ cat'.auth[k] = "direct"
              /\ \/ cat'.allowed[k] = cat.allowed[k] \cap cat'.providers
                 \/ \E a \in Admins : Due(a, "allowed") /\ Current(a).id = k
                 \/ \E a \in Admins : (Due(a, "refresh") \/ Due(a, "bundle")) /\ k \in Touches(a) /\ seen'[a] = Nothing
         /\ \A o \in Owners :
              (cat.model[o].present /\ ~ cat.model[o].enabled /\ cat'.model[o].enabled) =>
                \E a \in Admins : (Due(a, "enabled") \/ Due(a, "gateway")) /\ Current(a).id = o]_cat
  BY DEF Decided
<1> QED BY <1>1, <1>2, StartupInvariant, PTL DEF Spec, AdminDecides
============================================================================
