--------------------------- MODULE AffinityProofs ---------------------------
(***************************************************************************)
(* Proofs about Affinity for every finite set of sessions, every set of    *)
(* requests and targets, and every lifetime and size of the book.          *)
(***************************************************************************)
EXTENDS Affinity, FiniteSetTheorems, TLAPS

-----------------------------------------------------------------------------
(* The two maps of the book.                                               *)

Small(f) == Cardinality(DOMAIN f) =< MaxEntries
Room(f)  == Cardinality(DOMAIN f) < MaxEntries

LEMMA MapFinite ==
  ASSUME NEW f, NEW V, MapTo(f, V)
  PROVE  IsFiniteSet(DOMAIN f) /\ Cardinality(DOMAIN f) \in Nat
<1>1. IsFiniteSet(DOMAIN f)
  BY AffinityAssumption, FS_Subset DEF MapTo
<1> QED  BY <1>1, FS_CardinalityType

LEMMA RestrictMap ==
  ASSUME NEW f, NEW V, MapTo(f, V), NEW S \in SUBSET DOMAIN f
  PROVE  /\ MapTo(Restrict(f, S), V)
         /\ DOMAIN Restrict(f, S) = S
         /\ \A s \in S : Restrict(f, S)[s] = f[s]
         /\ Cardinality(S) =< Cardinality(DOMAIN f) /\ Cardinality(S) \in Nat
<1>1. /\ DOMAIN Restrict(f, S) = S /\ \A s \in S : Restrict(f, S)[s] = f[s]
      /\ MapTo(Restrict(f, S), V)
  BY DEF Restrict, MapTo
<1>2. Cardinality(S) =< Cardinality(DOMAIN f) /\ Cardinality(S) \in Nat
  BY MapFinite, FS_Subset, FS_CardinalityType
<1> QED  BY <1>1, <1>2

LEMMA PutMap ==
  ASSUME NEW f, NEW V, MapTo(f, V), NEW s \in Sessions, NEW x \in V
  PROVE  /\ MapTo(Put(f, s, x), V)
         /\ DOMAIN Put(f, s, x) = DOMAIN f \cup {s}
         /\ Put(f, s, x)[s] = x
         /\ \A u \in DOMAIN f : u # s => Put(f, s, x)[u] = f[u]
         /\ Small(f) /\ s \in DOMAIN f => Small(Put(f, s, x))
         /\ Room(f) => Small(Put(f, s, x))
<1>1. /\ DOMAIN Put(f, s, x) = DOMAIN f \cup {s}
      /\ Put(f, s, x)[s] = x
      /\ \A u \in DOMAIN f : u # s => Put(f, s, x)[u] = f[u]
  BY DEF Put
<1>2. MapTo(Put(f, s, x), V)
  BY DEF Put, MapTo
<1>3. Cardinality(DOMAIN f \cup {s}) =
        IF s \in DOMAIN f THEN Cardinality(DOMAIN f) ELSE Cardinality(DOMAIN f) + 1
  BY MapFinite, FS_AddElement
<1>4. Cardinality(DOMAIN f) \in Nat /\ MaxEntries \in Nat
  BY MapFinite, AffinityAssumption
<1> QED  BY <1>1, <1>2, <1>3, <1>4 DEF Small, Room

\* ensure_*_capacity leaves room: of at least MaxEntries entries all but
\* MaxEntries - 1 go.
LEMMA VictimsMakeRoom ==
  ASSUME NEW f, NEW V, MapTo(f, V), NEW W \in Victims(f)
  PROVE  /\ DOMAIN f \ W \in SUBSET DOMAIN f
         /\ Room(Without(f, W))
<1>1. W \in SUBSET DOMAIN f
  BY DEF Victims
<1>2. DOMAIN Without(f, W) = DOMAIN f \ W
  BY RestrictMap DEF Without
<1>3. Cardinality(DOMAIN f) \in Nat /\ IsFiniteSet(DOMAIN f) /\ MaxEntries \in Nat \ {0}
  BY MapFinite, AffinityAssumption
<1>4. Cardinality(DOMAIN f \ W) = Cardinality(DOMAIN f) - Cardinality(DOMAIN f \cap W)
  BY <1>3, FS_Difference
<1>5. Cardinality(DOMAIN f \ W) = Cardinality(DOMAIN f) - Cardinality(W)
  <2>1. DOMAIN f \cap W = W
    BY <1>1
  <2> QED  BY <1>4, <2>1
<1>8. Cardinality(DOMAIN Without(f, W)) < MaxEntries => Room(Without(f, W))
  BY DEF Room
<1>6. CASE Cardinality(DOMAIN f) < MaxEntries
  <2>1. W = {}
    BY <1>6 DEF Victims
  <2>2. DOMAIN f \ W = DOMAIN f
    BY <2>1
  <2> QED  BY <1>2, <1>6, <1>8, <2>2
<1>7. CASE ~ (Cardinality(DOMAIN f) < MaxEntries)
  <2>1. Cardinality(W) = Cardinality(DOMAIN f) - MaxEntries + 1
    BY <1>7 DEF Victims
  <2>2. Cardinality(DOMAIN f \ W) = MaxEntries - 1
    BY <1>3, <1>5, <2>1
  <2> QED  BY <1>2, <1>3, <1>8, <2>2
<1> QED  BY <1>6, <1>7

-----------------------------------------------------------------------------
(* A good book: of its type, within its limit, and with confirmed bindings *)
(* only to providers that have answered the session (sv).                  *)

Honest(e, sv) ==
  \A s \in DOMAIN e : e[s].binding.confirmed => e[s].binding.target.provider \in sv[s]

GoodEntries(e, sv) == MapTo(e, EntryState) /\ Small(e) /\ Honest(e, sv)
GoodAvoided(a)     == MapTo(a, AvoidState) /\ Small(a)

GoodBook(b, sv) ==
  /\ b = [entries |-> b.entries, avoided |-> b.avoided, next_generation |-> b.next_generation]
  /\ GoodEntries(b.entries, sv)
  /\ GoodAvoided(b.avoided)
  /\ b.next_generation \in Nat

LEMMA GoodRecord ==
  ASSUME NEW sv, NEW e, GoodEntries(e, sv), NEW a, GoodAvoided(a), NEW n \in Nat,
         NEW b, b = [entries |-> e, avoided |-> a, next_generation |-> n]
  PROVE  GoodBook(b, sv)
BY DEF GoodBook

LEMMA BookRecord ==
  ASSUME NEW b, NEW sv, GoodBook(b, sv)
  PROVE  /\ b \in [entries: {b.entries}, avoided: {b.avoided},
                    next_generation: {b.next_generation}]
         /\ GoodEntries(b.entries, sv) /\ GoodAvoided(b.avoided) /\ b.next_generation \in Nat
BY DEF GoodBook

\* Changing the entries, the avoided providers, or both.
LEMMA BookWith ==
  ASSUME NEW b, NEW sv, GoodBook(b, sv), NEW e, NEW a, GoodEntries(e, sv), GoodAvoided(a),
         NEW c, \/ c = [b EXCEPT !.entries = e]
                \/ c = [b EXCEPT !.avoided = a]
                \/ c = [b EXCEPT !.entries = e, !.avoided = a]
  PROVE  GoodBook(c, sv)
<1> DEFINE x == b.entries
           y == b.avoided
           z == b.next_generation
<1>1. /\ b \in [entries: {x}, avoided: {y}, next_generation: {z}]
      /\ GoodEntries(x, sv) /\ GoodAvoided(y) /\ z \in Nat
  BY BookRecord
<1> HIDE DEF x, y, z
<1>2. CASE c = [b EXCEPT !.entries = e]
  <2>1. c = [entries |-> e, avoided |-> y, next_generation |-> z]
    BY <1>1, <1>2
  <2> QED  BY <1>1, <2>1, GoodRecord
<1>3. CASE c = [b EXCEPT !.avoided = a]
  <2>1. c = [entries |-> x, avoided |-> a, next_generation |-> z]
    BY <1>1, <1>3
  <2> QED  BY <1>1, <2>1, GoodRecord
<1>4. CASE c = [b EXCEPT !.entries = e, !.avoided = a]
  <2>1. c \in [entries: {e}, avoided: {a}, next_generation: {z}]
    BY <1>1, <1>4
  <2>2. c = [entries |-> e, avoided |-> a, next_generation |-> z]
    BY <2>1
  <2> QED  BY <1>1, <2>2, GoodRecord
<1> QED  BY <1>2, <1>3, <1>4

\* Dropping entries keeps the maps good.
LEMMA FewerEntries ==
  ASSUME NEW e, NEW sv, GoodEntries(e, sv), NEW S \in SUBSET DOMAIN e
  PROVE  GoodEntries(Restrict(e, S), sv) /\ DOMAIN Restrict(e, S) = S
<1>1. MapTo(e, EntryState) /\ Small(e) /\ Honest(e, sv) /\ MaxEntries \in Nat
  BY AffinityAssumption DEF GoodEntries
<1>2. Small(Restrict(e, S))
  BY <1>1, RestrictMap, MapFinite DEF Small
<1>3. Honest(Restrict(e, S), sv)
  BY <1>1, RestrictMap DEF Honest
<1> QED  BY <1>1, <1>2, <1>3, RestrictMap DEF GoodEntries

LEMMA FewerAvoided ==
  ASSUME NEW a, GoodAvoided(a), NEW S \in SUBSET DOMAIN a
  PROVE  GoodAvoided(Restrict(a, S)) /\ DOMAIN Restrict(a, S) = S
<1>1. MapTo(a, AvoidState) /\ Small(a) /\ MaxEntries \in Nat
  BY AffinityAssumption DEF GoodAvoided
<1>2. Small(Restrict(a, S))
  BY <1>1, RestrictMap, MapFinite DEF Small
<1> QED  BY <1>1, <1>2, RestrictMap DEF GoodAvoided

LEMMA PutGood ==
  ASSUME NEW e, NEW sv, GoodEntries(e, sv), NEW s \in Sessions, NEW x \in EntryState,
         s \in DOMAIN e \/ Room(e),
         x.binding.confirmed => x.binding.target.provider \in sv[s]
  PROVE  GoodEntries(Put(e, s, x), sv)
<1>1. MapTo(e, EntryState) /\ Small(e) /\ Honest(e, sv)
  BY DEF GoodEntries
<1> DEFINE f == Put(e, s, x)
<1>2. /\ MapTo(f, EntryState) /\ DOMAIN f = DOMAIN e \cup {s}
      /\ f[s] = x /\ \A u \in DOMAIN e : u # s => f[u] = e[u]
      /\ Small(e) /\ s \in DOMAIN e => Small(f)
      /\ Room(e) => Small(f)
  <2> HIDE DEF EntryState, f
  <2> QED  BY <1>1, PutMap, SMTT(30) DEF f
<1> HIDE DEF f
<1>4. Small(f)
  BY <1>1, <1>2
<1>3. Honest(f, sv)
  BY <1>1, <1>2 DEF Honest
<1>5. GoodEntries(f, sv)
  BY <1>2, <1>3, <1>4 DEF GoodEntries
<1> QED  BY <1>5 DEF f

LEMMA WriteGood ==
  ASSUME NEW e, NEW sv, GoodEntries(e, sv), NEW s \in DOMAIN e, NEW x \in EntryState,
         x.binding.confirmed => x.binding.target.provider \in sv[s]
  PROVE  GoodEntries([e EXCEPT ![s] = x], sv)
<1>1. MapTo(e, EntryState) /\ Small(e) /\ Honest(e, sv)
  BY DEF GoodEntries
<1>2. /\ MapTo([e EXCEPT ![s] = x], EntryState) /\ DOMAIN [e EXCEPT ![s] = x] = DOMAIN e
      /\ [e EXCEPT ![s] = x][s] = x /\ \A u \in DOMAIN e : u # s => [e EXCEPT ![s] = x][u] = e[u]
  BY <1>1 DEF MapTo
<1>3. Honest([e EXCEPT ![s] = x], sv)
  BY <1>1, <1>2 DEF Honest
<1>4. Small([e EXCEPT ![s] = x])
  BY <1>1, <1>2 DEF Small
<1> QED  BY <1>2, <1>3, <1>4 DEF GoodEntries

-----------------------------------------------------------------------------
(* The operations of the book keep it good.                                *)

LEMMA Dropped ==
  ASSUME NEW b, NEW sv, GoodBook(b, sv), NEW s
  PROVE  /\ GoodBook(Forget(b, s), sv) /\ GoodBook(Unavoid(b, s), sv)
         /\ DOMAIN Forget(b, s).entries = DOMAIN b.entries \ {s}
<1> DEFINE e == Restrict(b.entries, DOMAIN b.entries \ {s})
           a == Restrict(b.avoided, DOMAIN b.avoided \ {s})
<1>1. Forget(b, s) = [b EXCEPT !.entries = e] /\ Unavoid(b, s) = [b EXCEPT !.avoided = a]
  BY DEF Forget, Unavoid, Without
<1>2. GoodEntries(e, sv) /\ GoodAvoided(a)
  BY BookRecord, FewerEntries, FewerAvoided
<1>3. Forget(b, s).entries = e /\ DOMAIN e = DOMAIN b.entries \ {s}
  BY <1>1, BookRecord, FewerEntries
<1> HIDE DEF e, a
<1> QED  BY <1>1, <1>2, <1>3, BookWith

\* An entry is written in place: the session is bound before and after.
LEMMA Rewritten ==
  ASSUME NEW b, NEW sv, GoodBook(b, sv), NEW s, Bound(b, s), NEW x \in EntryState,
         x.binding.confirmed => x.binding.target.provider \in sv[s],
         NEW c, c = [b EXCEPT !.entries = [b.entries EXCEPT ![s] = x]]
  PROVE  GoodBook(c, sv) /\ c.entries[s] = x /\ Bound(c, s)
<1> DEFINE e == [b.entries EXCEPT ![s] = x]
<1>1. GoodEntries(b.entries, sv) /\ GoodAvoided(b.avoided) /\ s \in DOMAIN b.entries
  BY BookRecord DEF Bound
<1>2. GoodEntries(e, sv)
  BY <1>1, WriteGood
<1>3. e[s] = x /\ s \in DOMAIN e
  BY <1>1
<1>4. c.entries = e
  <2>1. b \in [entries: {b.entries}, avoided: {b.avoided}, next_generation: {b.next_generation}]
    BY BookRecord
  <2> HIDE DEF e
  <2> QED  BY <2>1 DEF e
<1>5. c = [b EXCEPT !.entries = e]
  OBVIOUS
<1> HIDE DEF e
<1> QED  BY <1>1, <1>2, <1>3, <1>4, <1>5, BookWith DEF Bound

LEMMA EntryOf ==
  ASSUME NEW b, NEW sv, GoodBook(b, sv), NEW s, Bound(b, s)
  PROVE  /\ b.entries[s] \in EntryState /\ s \in Sessions
         /\ b.entries[s].binding \in Binding
         /\ b.entries[s].binding.confirmed => b.entries[s].binding.target.provider \in sv[s]
BY BookRecord DEF GoodEntries, MapTo, Bound, Honest, EntryState

LEMMA TouchedEntry ==
  ASSUME NEW x \in EntryState
  PROVE  /\ [x EXCEPT !.age = 0] \in EntryState
         /\ [x EXCEPT !.age = 0].binding = x.binding /\ [x EXCEPT !.age = 0].age = 0
         /\ [[x EXCEPT !.age = 0] EXCEPT !.binding.confirmed = TRUE] \in EntryState
         /\ [[x EXCEPT !.age = 0] EXCEPT !.binding.confirmed = TRUE].binding.target = x.binding.target
<1>0. 0 \in 0 .. Ttl
  BY AffinityAssumption
<1>1. /\ [x EXCEPT !.age = 0] \in EntryState
      /\ [x EXCEPT !.age = 0].binding = x.binding /\ [x EXCEPT !.age = 0].age = 0
  BY <1>0 DEF EntryState
<1> DEFINE y == [x EXCEPT !.age = 0]
<1>2. y \in EntryState /\ y.binding = x.binding
  BY <1>1
<1> HIDE DEF y
<1>3. /\ [y EXCEPT !.binding.confirmed = TRUE] \in EntryState
      /\ [y EXCEPT !.binding.confirmed = TRUE].binding.target = x.binding.target
  BY <1>2 DEF EntryState, Binding
<1> QED  BY <1>1, <1>3 DEF y

LEMMA Touched ==
  ASSUME NEW b, NEW sv, GoodBook(b, sv), NEW s, Bound(b, s)
  PROVE  /\ GoodBook(Touch(b, s), sv) /\ Bound(Touch(b, s), s)
         /\ Touch(b, s).entries[s] = [b.entries[s] EXCEPT !.age = 0]
         /\ Touch(b, s).entries[s].binding = b.entries[s].binding
         /\ Touch(b, s).entries[s].age = 0
<1> DEFINE x == [b.entries[s] EXCEPT !.age = 0]
<1>1. x \in EntryState /\ x.binding = b.entries[s].binding /\ x.age = 0
  BY EntryOf, TouchedEntry
<1>2. x.binding.confirmed => x.binding.target.provider \in sv[s]
  BY <1>1, EntryOf
<1>3. Touch(b, s) = [b EXCEPT !.entries = [b.entries EXCEPT ![s] = x]]
  BY DEF Touch
<1>4. x = [b.entries[s] EXCEPT !.age = 0]
  OBVIOUS
<1> HIDE DEF x
<1>5. GoodBook(Touch(b, s), sv) /\ Touch(b, s).entries[s] = x /\ Bound(Touch(b, s), s)
  BY <1>1, <1>2, <1>3, Rewritten
<1> QED  BY <1>1, <1>4, <1>5

\* An entry of a provider that has answered may be confirmed.
Confirming(b, s) == [Touch(b, s) EXCEPT !.entries[s].binding.confirmed = TRUE]

LEMMA Confirmed ==
  ASSUME NEW b, NEW sv, GoodBook(b, sv), NEW s, Bound(b, s),
         b.entries[s].binding.target.provider \in sv[s]
  PROVE  GoodBook(Confirming(b, s), sv)
<1> DEFINE c == Touch(b, s)
           y == b.entries[s]
           x == [[y EXCEPT !.age = 0] EXCEPT !.binding.confirmed = TRUE]
<1>1. GoodBook(c, sv) /\ Bound(c, s) /\ c.entries[s] = [y EXCEPT !.age = 0]
  BY Touched
<1>2. y \in EntryState
  BY EntryOf
<1>3. x \in EntryState /\ x.binding.target = y.binding.target
  BY <1>2, TouchedEntry
<1>4. x.binding.confirmed => x.binding.target.provider \in sv[s]
  BY <1>3
<1>5. x = [c.entries[s] EXCEPT !.binding.confirmed = TRUE]
  BY <1>1
<1>6. Confirming(b, s) = [c EXCEPT !.entries = [c.entries EXCEPT ![s] =
                            [c.entries[s] EXCEPT !.binding.confirmed = TRUE]]]
  BY DEF Confirming
<1> HIDE DEF c, y, x
<1>7. Confirming(b, s) = [c EXCEPT !.entries = [c.entries EXCEPT ![s] = x]]
  BY <1>5, <1>6
<1> QED  BY <1>1, <1>3, <1>4, <1>7, Rewritten

\* lookup
LEMMA LookedUp ==
  ASSUME NEW b, NEW sv, GoodBook(b, sv), NEW s
  PROVE  GoodBook(after_lookup(b, s), sv) /\ found(b, s) \in Binding \cup {NoBinding}
<1>1. GoodBook(after_lookup(b, s), sv)
  BY Dropped, Touched DEF after_lookup
<1>2. found(b, s) \in Binding \cup {NoBinding}
  BY EntryOf DEF found
<1> QED  BY <1>1, <1>2

LEMMA EntryRoom ==
  ASSUME NEW b, NEW sv, GoodBook(b, sv), NEW c \in ensure_entry_capacity(b)
  PROVE  GoodBook(c, sv) /\ Room(c.entries)
<1>1. CASE Cardinality(DOMAIN b.entries) < MaxEntries
  BY <1>1 DEF ensure_entry_capacity, Room
<1>2. CASE ~ (Cardinality(DOMAIN b.entries) < MaxEntries)
  <2> DEFINE live == Restrict(b.entries, {s \in DOMAIN b.entries : ~ Expired(b, s)})
  <2>1. PICK V \in Victims(live) :
          c = [b EXCEPT !.entries = Without(live, V), !.avoided = Without(b.avoided, V)]
    BY <1>2 DEF ensure_entry_capacity
  <2>2. GoodEntries(b.entries, sv) /\ GoodAvoided(b.avoided)
    BY BookRecord
  <2>3. GoodEntries(live, sv)
    BY <2>2, FewerEntries
  <2> HIDE DEF live
  <2> DEFINE e == Without(live, V)
             a == Without(b.avoided, V)
  <2>4. GoodEntries(e, sv) /\ Room(e)
    BY <2>1, <2>3, FewerEntries, VictimsMakeRoom DEF Without, GoodEntries
  <2>5. GoodAvoided(a)
    BY <2>2, FewerAvoided DEF Without
  <2>6. c = [b EXCEPT !.entries = e, !.avoided = a]
    BY <2>1
  <2> HIDE DEF e, a
  <2>7. c.entries = e
    BY <2>6, BookRecord
  <2> QED  BY <2>4, <2>5, <2>6, <2>7, BookWith
<1> QED  BY <1>1, <1>2

LEMMA AvoidRoom ==
  ASSUME NEW b, NEW sv, GoodBook(b, sv), NEW c \in ensure_avoid_capacity(b)
  PROVE  GoodBook(c, sv) /\ Room(c.avoided)
<1>1. CASE Cardinality(DOMAIN b.avoided) < MaxEntries
  BY <1>1 DEF ensure_avoid_capacity, Room
<1>2. CASE ~ (Cardinality(DOMAIN b.avoided) < MaxEntries)
  <2> DEFINE live == Restrict(b.avoided, {s \in DOMAIN b.avoided : b.avoided[s].left > 0})
  <2>1. PICK V \in Victims(live) : c = [b EXCEPT !.avoided = Without(live, V)]
    BY <1>2 DEF ensure_avoid_capacity
  <2>2. GoodEntries(b.entries, sv) /\ GoodAvoided(b.avoided)
    BY BookRecord
  <2>3. GoodAvoided(live)
    BY <2>2, FewerAvoided
  <2> HIDE DEF live
  <2> DEFINE a == Without(live, V)
  <2>4. GoodAvoided(a) /\ Room(a)
    BY <2>1, <2>3, FewerAvoided, VictimsMakeRoom DEF Without, GoodAvoided
  <2>5. c = [b EXCEPT !.avoided = a]
    BY <2>1
  <2> HIDE DEF a
  <2>6. c.avoided = a
    BY <2>5, BookRecord
  <2> QED  BY <2>2, <2>4, <2>5, <2>6, BookWith
<1> QED  BY <1>1, <1>2

\* What Insert puts into the map.
LEMMA NewEntry ==
  ASSUME NEW t \in Bindable, NEW n \in Nat, NEW f \in BOOLEAN
  PROVE  LET x == [binding |-> [target |-> t, generation |-> n + 1, confirmed |-> f], age |-> 0]
         IN  /\ x \in EntryState /\ x.age = 0
             /\ x.binding \in Binding /\ x.binding.target = t /\ x.binding.confirmed = f
<1>1. 0 \in 0 .. Ttl /\ n + 1 \in Nat \ {0}
  BY AffinityAssumption
<1> QED  BY <1>1 DEF EntryState, Binding

LEMMA Inserted ==
  ASSUME NEW b, NEW sv, GoodBook(b, sv), NEW s \in Sessions, NEW t \in Bindable,
         NEW f \in BOOLEAN, Bound(b, s) \/ Room(b.entries), f => t.provider \in sv[s]
  PROVE  LET c == Insert(b, s, t, f)
         IN  /\ GoodBook(c, sv) /\ Bound(c, s)
             /\ c.entries[s].age = 0 /\ c.entries[s].binding \in Binding
<1> DEFINE n == b.next_generation
           x == [binding |-> [target |-> t, generation |-> n + 1, confirmed |-> f], age |-> 0]
           e == Put(b.entries, s, x)
           c == Insert(b, s, t, f)
<1>1. /\ b \in [entries: {b.entries}, avoided: {b.avoided}, next_generation: {n}]
      /\ GoodEntries(b.entries, sv) /\ GoodAvoided(b.avoided) /\ n \in Nat
  BY BookRecord
<1>2. c = [b EXCEPT !.next_generation = n + 1, !.entries = e]
  BY DEF Insert
<1>3. /\ x \in EntryState /\ x.age = 0 /\ x.binding \in Binding
      /\ x.binding.target = t /\ x.binding.confirmed = f
  BY <1>1, NewEntry
<1> HIDE DEF n, x, c
<1>4. x.binding.confirmed => x.binding.target.provider \in sv[s]
  BY <1>3
<1>5. GoodEntries(e, sv)
  BY <1>1, <1>3, <1>4, PutGood DEF Bound
<1>6. e[s] = x /\ s \in DOMAIN e
  BY DEF Put
<1> HIDE DEF e
<1>7. c \in [entries: {e}, avoided: {b.avoided}, next_generation: {n + 1}]
  BY <1>1, <1>2
<1>8. c = [entries |-> e, avoided |-> b.avoided, next_generation |-> n + 1]
  BY <1>7
<1>9. n + 1 \in Nat
  BY <1>1
<1>10. GoodBook(c, sv)
  BY <1>1, <1>5, <1>8, <1>9, GoodRecord
<1>11. c.entries = e
  BY <1>8
<1>12. Bound(c, s) /\ c.entries[s].age = 0 /\ c.entries[s].binding \in Binding
  BY <1>3, <1>6, <1>11 DEF Bound
<1> QED  BY <1>10, <1>12 DEF c

\* claim: whether somebody else came first or not, the session is bound then.
LEMMA Claimed ==
  ASSUME NEW b, NEW sv, GoodBook(b, sv), NEW s \in Sessions, NEW t \in Bindable,
         NEW c \in claim_target(b, s, t)
  PROVE  GoodBook(c, sv) /\ found(c, s) \in Binding
<1>0. Ttl > 0
  BY AffinityAssumption
<1>1. ASSUME Bound(c, s), c.entries[s].age = 0, c.entries[s].binding \in Binding
      PROVE  found(c, s) \in Binding
  BY <1>0, <1>1, AffinityAssumption DEF found, Expired
<1>2. CASE Bound(b, s) /\ ~ Expired(b, s)
  <2>1. c = Touch(b, s)
    BY <1>2 DEF claim_target
  <2> QED  BY <1>1, <1>2, <2>1, Touched, EntryOf
<1>3. CASE ~ (Bound(b, s) /\ ~ Expired(b, s))
  <2>1. PICK d \in ensure_entry_capacity(Forget(b, s)) : c = Insert(d, s, t, FALSE)
    BY <1>3 DEF claim_target
  <2>2. GoodBook(d, sv) /\ Room(d.entries)
    BY <2>1, Dropped, EntryRoom
  <2> QED  BY <1>1, <2>1, <2>2, Inserted
<1> QED  BY <1>2, <1>3

LEMMA Migrated ==
  ASSUME NEW b, NEW sv, GoodBook(b, sv), NEW s \in Sessions, NEW t \in Bindable,
         t.provider \in sv[s], NEW c \in migrate_target(b, s, t)
  PROVE  GoodBook(c, sv)
<1>1. PICK d : /\ c = Unavoid(Insert(d, s, t, TRUE), s)
               /\ IF Bound(b, s) THEN d = b ELSE d \in ensure_entry_capacity(b)
  BY DEF migrate_target
<1>2. GoodBook(d, sv) /\ (Bound(d, s) \/ Room(d.entries))
  BY <1>1, EntryRoom
<1>3. GoodBook(Insert(d, s, t, TRUE), sv)
  BY <1>2, Inserted
<1> QED  BY <1>1, <1>3, Dropped

\* confirm, refresh_if_provider, refresh_if_target, of a provider that has
\* answered.
LEMMA Affirmed ==
  ASSUME NEW b, NEW sv, GoodBook(b, sv), NEW s, NEW x, x.target.provider \in sv[s]
  PROVE  /\ GoodBook(confirm(b, s, x), sv)
         /\ GoodBook(refresh_if_target(b, s, x), sv)
         /\ GoodBook(refresh_if_provider(b, s, x.target.provider), sv)
<1>1. GoodBook(confirm(b, s, x), sv)
  <2>1. confirm(b, s, x) = IF /\ Bound(b, s)
                              /\ b.entries[s].binding.target.provider = x.target.provider
                              /\ b.entries[s].binding.generation = x.generation
                             THEN Unavoid(Confirming(b, s), s) ELSE b
    BY DEF confirm, Confirming
  <2> QED  BY <2>1, Confirmed, Dropped
<1>2. GoodBook(refresh_if_target(b, s, x), sv)
  <2>1. refresh_if_target(b, s, x) = IF /\ Bound(b, s)
                                        /\ b.entries[s].binding.target = x.target
                                        /\ b.entries[s].binding.generation = x.generation
                                       THEN Confirming(b, s) ELSE b
    BY DEF refresh_if_target, Confirming
  <2> QED  BY <2>1, Confirmed
<1>3. GoodBook(refresh_if_provider(b, s, x.target.provider), sv)
  <2>1. refresh_if_provider(b, s, x.target.provider) =
          IF Bound(b, s) /\ b.entries[s].binding.target.provider = x.target.provider
            THEN Confirming(b, s) ELSE b
    BY DEF refresh_if_provider, Confirming
  <2> QED  BY <2>1, Confirmed
<1> QED  BY <1>1, <1>2, <1>3

LEMMA Cleared ==
  ASSUME NEW b, NEW sv, GoodBook(b, sv), NEW s, NEW p
  PROVE  GoodBook(clear_if_provider(b, s, p), sv)
BY Dropped DEF clear_if_provider

LEMMA PutAvoided ==
  ASSUME NEW a, GoodAvoided(a), NEW s \in Sessions, NEW x \in AvoidState,
         s \in DOMAIN a \/ Room(a)
  PROVE  GoodAvoided(Put(a, s, x))
<1>1. MapTo(a, AvoidState) /\ Small(a)
  BY DEF GoodAvoided
<1> DEFINE f == Put(a, s, x)
<1>2. /\ MapTo(f, AvoidState)
      /\ Small(a) /\ s \in DOMAIN a => Small(f)
      /\ Room(a) => Small(f)
  <2> HIDE DEF f
  <2> QED  BY <1>1, PutMap DEF f
<1> QED  BY <1>1, <1>2 DEF GoodAvoided

LEMMA MarkedFailed ==
  ASSUME NEW b, NEW sv, GoodBook(b, sv), NEW s \in Sessions, NEW p \in Providers,
         NEW c \in mark_provider_failed(b, s, p)
  PROVE  GoodBook(c, sv)
<1> DEFINE d == clear_if_provider(b, s, p)
           x == [provider |-> p, left |-> AvoidFor, age |-> 0]
<1>1. PICK g \in IF s \in DOMAIN d.avoided THEN {d} ELSE ensure_avoid_capacity(d) :
        c = [g EXCEPT !.avoided = Put(g.avoided, s, x)]
  BY DEF mark_provider_failed
<1>2. GoodBook(d, sv)
  BY Cleared
<1> HIDE DEF d
<1>3. GoodBook(g, sv) /\ (s \in DOMAIN g.avoided \/ Room(g.avoided))
  BY <1>1, <1>2, AvoidRoom
<1>4. x \in AvoidState
  BY AffinityAssumption DEF AvoidState
<1> HIDE DEF x
<1> DEFINE a == Put(g.avoided, s, x)
<1>5. GoodAvoided(a) /\ GoodEntries(g.entries, sv)
  BY <1>3, <1>4, BookRecord, PutAvoided
<1>6. c = [g EXCEPT !.avoided = a]
  BY <1>1
<1> HIDE DEF a
<1> QED  BY <1>3, <1>5, <1>6, BookWith

LEMMA AvoidChecked ==
  ASSUME NEW b, NEW sv, GoodBook(b, sv), NEW s
  PROVE  GoodBook(after_avoid_check(b, s), sv)
<1>1. CASE s \notin DOMAIN b.avoided \/ b.avoided[s].left = 0
  BY <1>1, Dropped DEF after_avoid_check
<1>2. CASE s \in DOMAIN b.avoided /\ b.avoided[s].left # 0
  <2> DEFINE x == [b.avoided[s] EXCEPT !.age = 0]
             a == [b.avoided EXCEPT ![s] = x]
             c == after_avoid_check(b, s)
  <2>1. c = [b EXCEPT !.avoided = a]
    BY <1>2 DEF after_avoid_check
  <2>2. MapTo(b.avoided, AvoidState) /\ Small(b.avoided) /\ GoodEntries(b.entries, sv)
    BY BookRecord DEF GoodAvoided
  <2>3. x \in AvoidState
    <3>1. b.avoided[s] \in AvoidState /\ 0 \in 0 .. AvoidFor
      BY <1>2, <2>2, AffinityAssumption DEF MapTo
    <3> QED  BY <3>1 DEF AvoidState
  <2> HIDE DEF x
  <2>4. MapTo(a, AvoidState) /\ DOMAIN a = DOMAIN b.avoided
    BY <2>2, <2>3 DEF MapTo
  <2>5. GoodAvoided(a)
    BY <2>2, <2>4 DEF GoodAvoided, Small
  <2> HIDE DEF a, c
  <2>6. GoodBook(c, sv)
    BY <2>1, <2>2, <2>5, BookWith
  <2> QED  BY <2>6 DEF c
<1> QED  BY <1>1, <1>2

LEMMA EmptyGood == \A sv : GoodBook(EmptyBook, sv)
<1>1. DOMAIN <<>> = {} /\ \A V : <<>> \in [{} -> V]
  OBVIOUS
<1>2. Cardinality(DOMAIN <<>>) = 0 /\ MaxEntries \in Nat
  BY <1>1, FS_EmptySet, AffinityAssumption
<1>3. Small(<<>>) /\ MapTo(<<>>, EntryState) /\ MapTo(<<>>, AvoidState)
  BY <1>1, <1>2 DEF Small, MapTo
<1>4. ASSUME NEW sv
      PROVE  GoodBook(EmptyBook, sv)
  <2>1. GoodEntries(<<>>, sv) /\ GoodAvoided(<<>>)
    BY <1>1, <1>3 DEF GoodEntries, GoodAvoided, Honest
  <2>2. EmptyBook = [entries |-> <<>>, avoided |-> <<>>, next_generation |-> 0]
    BY DEF EmptyBook
  <2> QED  BY <2>1, <2>2, GoodRecord
<1> QED  BY <1>4

\* The administrator's calls only drop entries.
LEMMA AdminGood ==
  ASSUME NEW sv, GoodBook(book, sv), Admin
  PROVE  GoodBook(book', sv)
<1>1. GoodEntries(book.entries, sv) /\ GoodAvoided(book.avoided)
  BY BookRecord
<1>2. ASSUME NEW S \in SUBSET DOMAIN book.entries, NEW T \in SUBSET DOMAIN book.avoided,
             \/ book' = [book EXCEPT !.entries = Restrict(book.entries, S)]
             \/ book' = [book EXCEPT !.entries = Restrict(book.entries, S),
                                     !.avoided = Restrict(book.avoided, T)]
      PROVE  GoodBook(book', sv)
  <2> DEFINE e == Restrict(book.entries, S)
             a == Restrict(book.avoided, T)
  <2>1. GoodEntries(e, sv) /\ GoodAvoided(a)
    BY <1>1, FewerEntries, FewerAvoided
  <2>2. book' = [book EXCEPT !.entries = e] \/ book' = [book EXCEPT !.entries = e, !.avoided = a]
    BY <1>2
  <2> HIDE DEF e, a
  <2> QED  BY <2>1, <2>2, BookWith
<1>3. ASSUME NEW p, purge_provider(p)
      PROVE  GoodBook(book', sv)
  <2> DEFINE S == {s \in DOMAIN book.entries : book.entries[s].binding.target.provider # p}
             T == {s \in DOMAIN book.avoided : book.avoided[s].provider # p}
  <2>1. book' = [book EXCEPT !.entries = Restrict(book.entries, S),
                             !.avoided = Restrict(book.avoided, T)]
    BY <1>3 DEF purge_provider, Keep
  <2>2. S \in SUBSET DOMAIN book.entries /\ T \in SUBSET DOMAIN book.avoided
    OBVIOUS
  <2> HIDE DEF S, T
  <2> QED  BY <1>2, <2>1, <2>2
<1>4. ASSUME NEW k, purge_upstream_key(k)
      PROVE  GoodBook(book', sv)
  <2> DEFINE S == {s \in DOMAIN book.entries : book.entries[s].binding.target.key # k}
  <2>1. book' = [book EXCEPT !.entries = Restrict(book.entries, S)]
    BY <1>4 DEF purge_upstream_key, Keep
  <2>2. S \in SUBSET DOMAIN book.entries /\ {} \in SUBSET DOMAIN book.avoided
    OBVIOUS
  <2> HIDE DEF S
  <2> QED  BY <1>2, <2>1, <2>2
<1>5. ASSUME NEW k, purge_endpoint(k)
      PROVE  GoodBook(book', sv)
  <2> DEFINE S == {s \in DOMAIN book.entries : book.entries[s].binding.target.endpoint # k}
  <2>1. book' = [book EXCEPT !.entries = Restrict(book.entries, S)]
    BY <1>5 DEF purge_endpoint, Keep
  <2>2. S \in SUBSET DOMAIN book.entries /\ {} \in SUBSET DOMAIN book.avoided
    OBVIOUS
  <2> HIDE DEF S
  <2> QED  BY <1>2, <2>1, <2>2
<1>6. CASE binding_counts_by_provider
  <2> DEFINE S == {s \in DOMAIN book.entries : book.entries[s].age < Ttl}
             T == {s \in DOMAIN book.avoided : book.avoided[s].left > 0}
  <2>1. book' = [book EXCEPT !.entries = Restrict(book.entries, S),
                             !.avoided = Restrict(book.avoided, T)]
    BY <1>6 DEF binding_counts_by_provider, Keep
  <2>2. S \in SUBSET DOMAIN book.entries /\ T \in SUBSET DOMAIN book.avoided
    OBVIOUS
  <2> HIDE DEF S, T
  <2> QED  BY <1>2, <2>1, <2>2
<1>7. CASE clear
  BY <1>7, EmptyGood DEF clear
<1> QED  BY <1>3, <1>4, <1>5, <1>6, <1>7 DEF Admin

\* Time passes: ages grow as far as they matter.
LEMMA TickGood ==
  ASSUME NEW sv, GoodBook(book, sv), Tick
  PROVE  GoodBook(book', sv)
<1> DEFINE e == [s \in DOMAIN book.entries |-> AgedEntry(book.entries[s])]
           a == [s \in DOMAIN book.avoided |-> AgedAvoidance(book.avoided[s])]
<1>0. /\ MapTo(book.entries, EntryState) /\ Small(book.entries) /\ Honest(book.entries, sv)
      /\ MapTo(book.avoided, AvoidState) /\ Small(book.avoided)
  BY BookRecord DEF GoodEntries, GoodAvoided
<1>1. book' = [book EXCEPT !.entries = e, !.avoided = a]
  BY DEF Tick
<1>2. ASSUME NEW x \in EntryState
      PROVE  AgedEntry(x) \in EntryState /\ AgedEntry(x).binding = x.binding
  <2>1. Older(x.age, Ttl) \in 0 .. Ttl
    BY AffinityAssumption DEF EntryState, Older
  <2> QED  BY <2>1 DEF EntryState, AgedEntry
<1>3. ASSUME NEW x \in AvoidState
      PROVE  AgedAvoidance(x) \in AvoidState
  <2> DEFINE l == IF x.left = 0 THEN 0 ELSE x.left - 1
             o == Older(x.age, AvoidFor)
  <2>1. l \in 0 .. AvoidFor /\ o \in 0 .. AvoidFor
    BY AffinityAssumption DEF AvoidState, Older
  <2>2. AgedAvoidance(x) = [x EXCEPT !.age = o, !.left = l]
    BY DEF AgedAvoidance
  <2> HIDE DEF l, o
  <2> QED  BY <2>1, <2>2 DEF AvoidState
<1>4. GoodEntries(e, sv)
  <2>1. /\ DOMAIN e = DOMAIN book.entries
        /\ \A s \in DOMAIN e : e[s] \in EntryState /\ e[s].binding = book.entries[s].binding
    BY <1>0, <1>2 DEF MapTo
  <2>2. e \in [DOMAIN e -> EntryState]
    BY <2>1
  <2> HIDE DEF e
  <2>3. MapTo(e, EntryState) /\ Small(e) /\ Honest(e, sv)
    BY <1>0, <2>1, <2>2 DEF MapTo, Small, Honest
  <2> QED  BY <2>3 DEF GoodEntries
<1>5. GoodAvoided(a)
  <2>1. DOMAIN a = DOMAIN book.avoided /\ \A s \in DOMAIN a : a[s] \in AvoidState
    BY <1>0, <1>3 DEF MapTo
  <2>2. a \in [DOMAIN a -> AvoidState]
    BY <2>1
  <2> HIDE DEF a
  <2>3. MapTo(a, AvoidState) /\ Small(a)
    BY <1>0, <2>1, <2>2 DEF MapTo, Small
  <2> QED  BY <2>3 DEF GoodAvoided
<1> HIDE DEF e, a
<1> QED  BY <1>1, <1>4, <1>5, BookWith

-----------------------------------------------------------------------------
(* The requests.                                                           *)

ReqOK(x, sv) ==
  /\ x \in RequestState
  /\ x.pc # "idle" => x.session \in Sessions
  /\ x.pc \in {"open", "settle", "confirm"} => x.at \in Providers
  /\ x.pc \in {"try", "confirm"} => x.binding \in Binding
  /\ x.pc \in {"settle", "confirm"} => x.at \in sv[x.session]
  /\ x.pc = "confirm" => x.binding.target.provider = x.at

Inv ==
  /\ GoodBook(book, served)
  /\ req \in [Requests -> RequestState]
  /\ \A r \in Requests : ReqOK(req[r], served)
  /\ served \in [Sessions -> SUBSET Providers]

Grows == served' \in [Sessions -> SUBSET Providers] /\ \A s \in Sessions : served[s] \subseteq served'[s]

LEMMA InvMeans == Inv <=> TypeOK /\ Bounded /\ ConfirmedServed /\ SettleInv
<1>1. GoodBook(book, served) <=> /\ BookOK(book) /\ Bounded /\ ConfirmedServed
  BY DEF GoodBook, GoodEntries, GoodAvoided, Small, Honest, BookOK, Bounded, ConfirmedServed
<1>2. ASSUME NEW r \in Requests
      PROVE  ReqOK(req[r], served) <=>
               /\ req[r] \in RequestState
               /\ ~ At(r, "idle") => req[r].session \in Sessions
               /\ req[r].pc \in {"open", "settle", "confirm"} => req[r].at \in Providers
               /\ req[r].pc \in {"try", "confirm"} => req[r].binding \in Binding
               /\ req[r].pc \in {"settle", "confirm"} => req[r].at \in served[req[r].session]
               /\ At(r, "confirm") => req[r].binding.target.provider = req[r].at
  BY DEF ReqOK, At
<1>3. req \in [Requests -> RequestState] => \A r \in Requests : req[r] \in RequestState
  OBVIOUS
<1> QED  BY <1>1, <1>2, <1>3 DEF Inv, TypeOK, SettleInv

LEMMA TargetsBind ==
  /\ \A t \in Targets : t \in Bindable /\ t.provider \in Providers
  /\ \A p \in Providers : Wildcard(p) \in Bindable /\ Wildcard(p).provider = p
BY DEF Bindable, Providers, Wildcard

LEMMA NoBindingApart == NoBinding \notin Binding
BY DEF NoBinding, Binding

\* Answers only add to what is known of the providers.
LEMMA GrowGood ==
  ASSUME Inv, Grows
  PROVE  GoodBook(book, served')
<1>1. GoodEntries(book.entries, served) /\ GoodBook(book, served)
  BY BookRecord DEF Inv
<1>2. Honest(book.entries, served')
  BY <1>1 DEF GoodEntries, Honest, MapTo, Grows
<1> QED  BY <1>1, <1>2 DEF GoodBook, GoodEntries

LEMMA Unanswered ==
  ASSUME Inv, UNCHANGED served
  PROVE  Grows /\ GoodBook(book, served')
BY DEF Inv, Grows

LEMMA Answered ==
  ASSUME Inv, NEW r \in Requests, req[r].session \in Sessions, NEW p \in Providers, Serves(r, p)
  PROVE  Grows /\ p \in served'[req[r].session] /\ GoodBook(book, served')
<1>1. Grows /\ p \in served'[req[r].session]
  BY DEF Serves, Grows, Inv
<1> QED  BY <1>1, GrowGood

LEMMA Moved ==
  ASSUME Inv, Grows, GoodBook(book', served'), NEW r \in Requests, NEW y, Become(r, y),
         ReqOK(y, served')
  PROVE  Inv'
<1>1. y \in RequestState /\ req' = [req EXCEPT ![r] = y]
  BY DEF ReqOK, Become
<1>2. req' \in [Requests -> RequestState]
  BY <1>1 DEF Inv
<1>3. ASSUME NEW q \in Requests
      PROVE  ReqOK(req'[q], served')
  <2>1. CASE q = r
    BY <1>1, <2>1 DEF Inv
  <2>2. CASE q # r
    <3>1. req'[q] = req[q] /\ ReqOK(req[q], served)
      BY <1>1, <2>2 DEF Inv
    <3> QED  BY <3>1 DEF ReqOK, Grows
  <2> QED  BY <2>1, <2>2
<1> QED  BY <1>2, <1>3 DEF Inv, Grows

LEMMA Stays ==
  ASSUME Inv, UNCHANGED <<req, served>>, GoodBook(book', served)
  PROVE  Inv'
BY DEF Inv

LEMMA IdleOK == Idle \in RequestState /\ \A sv : ReqOK(Idle, sv)
<1>1. Idle \in RequestState /\ Idle.pc = "idle"
  BY DEF Idle, RequestState
<1> QED  BY <1>1 DEF ReqOK

\* Open and Settled.
LEMMA OpenOK ==
  ASSUME Inv, NEW r \in Requests, req[r].session \in Sessions, NEW p \in Providers, NEW sv
  PROVE  ReqOK(Open(r, p), sv)
<1>1. /\ Open(r, p) \in RequestState /\ Open(r, p).pc = "open"
      /\ Open(r, p).session = req[r].session /\ Open(r, p).at = p
  BY IdleOK DEF Open, RequestState
<1> QED  BY <1>1 DEF ReqOK

LEMMA RetryOK ==
  ASSUME Inv, NEW r \in Requests, NEW t \in Targets, NEW f \in BOOLEAN, Tries(r, t),
         Retry(r, t, f), NEW sv
  PROVE  \E y : Become(r, y) /\ ReqOK(y, sv)
<1>1. ReqOK(req[r], served) /\ req[r].pc = "try"
  BY DEF Inv, Tries, At
<1>2. CASE Remaining(r, t) = {}
  BY <1>2, IdleOK DEF Retry
<1>3. CASE Remaining(r, t) # {}
  <2> DEFINE g == req[r].faulted \/ (f /\ req[r].binding.target.provider = t.provider)
             R == Remaining(r, t)
             y == [req[r] EXCEPT !.plan = R, !.faulted = g]
  <2>1. Become(r, y)
    BY <1>3 DEF Retry
  <2>2. g \in BOOLEAN
    OBVIOUS
  <2>3. R \in SUBSET Targets
    BY <1>1 DEF Remaining, ReqOK, RequestState
  <2> HIDE DEF g, R
  <2>4. /\ y \in RequestState /\ y.pc = "try" /\ y.session = req[r].session
        /\ y.binding = req[r].binding
    BY <1>1, <2>2, <2>3 DEF ReqOK, RequestState
  <2>5. ReqOK(y, sv)
    BY <1>1, <2>4 DEF ReqOK
  <2> QED  BY <2>1, <2>5
<1> QED  BY <1>2, <1>3

-----------------------------------------------------------------------------
(* The steps.                                                              *)

LEMMA Planning ==
  ASSUME Inv, NEW r \in Requests,
         \/ \E s \in Sessions : Lookup(r, s)
         \/ BeginPlan(r)
         \/ \E p \in Providers : PlanProvider(r, p)
  PROVE  Inv'
<1>0. GoodBook(book, served) /\ ReqOK(req[r], served)
  BY DEF Inv
<1>1. ASSUME NEW s \in Sessions, Lookup(r, s)
      PROVE  Inv'
  <2> DEFINE f == found(book, s)
             y == [Idle EXCEPT !.pc = "plan", !.session = s, !.existing = f]
  <2>1. f \in Binding \cup {NoBinding} /\ GoodBook(after_lookup(book, s), served)
    BY <1>0, LookedUp
  <2>2. Become(r, y) /\ book' = after_lookup(book, s) /\ UNCHANGED served
    BY <1>1 DEF Lookup
  <2> HIDE DEF f
  <2>3. y \in RequestState /\ y.pc = "plan" /\ y.session = s
    BY <2>1, IdleOK DEF RequestState
  <2>4. ReqOK(y, served')
    BY <2>3 DEF ReqOK
  <2> QED  BY <2>1, <2>2, <2>4, Unanswered, Moved
<1>2. CASE BeginPlan(r)
  <2> DEFINE y == [req[r] EXCEPT !.pc = "providers", !.todo = Providers]
             s == req[r].session
  <2>1. Become(r, y) /\ book' = after_lookup(book, s) /\ UNCHANGED served /\ req[r].pc = "plan"
    BY <1>2 DEF BeginPlan, At
  <2>2. GoodBook(book', served')
    BY <1>0, <2>1, LookedUp
  <2>3. y \in RequestState /\ y.pc = "providers" /\ y.session = req[r].session
    BY <1>0 DEF ReqOK, RequestState
  <2>4. ReqOK(y, served')
    BY <1>0, <2>1, <2>3 DEF ReqOK
  <2> QED  BY <2>1, <2>2, <2>4, Unanswered, Moved
<1>3. ASSUME NEW p \in Providers, PlanProvider(r, p)
      PROVE  Inv'
  <2> DEFINE done == [req[r] EXCEPT !.todo = req[r].todo \ {p}]
             mine == {t \in Targets : t.provider = p}
  <2>1. /\ req[r].pc = "providers" /\ UNCHANGED served
        /\ book' = after_avoid_check(book, req[r].session)
        /\ \/ Become(r, done)
           \/ \E T \in SUBSET mine : Become(r, [done EXCEPT !.plan = done.plan \cup T])
           \/ Become(r, [done EXCEPT !.spill = TRUE])
    BY <1>3 DEF PlanProvider, At
  <2>2. GoodBook(book', served')
    BY <1>0, <2>1, AvoidChecked
  <2>3. done \in RequestState /\ done.pc = "providers" /\ done.session \in Sessions
    BY <1>0, <2>1 DEF ReqOK, RequestState
  <2>4. mine \in SUBSET Targets
    OBVIOUS
  <2> HIDE DEF done, mine
  <2>5. ReqOK(done, served') /\ ReqOK([done EXCEPT !.spill = TRUE], served')
    BY <2>3 DEF ReqOK, RequestState
  <2>6. ASSUME NEW T \in SUBSET mine
        PROVE  ReqOK([done EXCEPT !.plan = done.plan \cup T], served')
    <3> DEFINE u == done.plan \cup T
    <3>1. u \in SUBSET Targets
      BY <2>3, <2>4 DEF RequestState
    <3> HIDE DEF u
    <3>2. ReqOK([done EXCEPT !.plan = u], served')
      BY <2>3, <3>1 DEF ReqOK, RequestState
    <3> QED  BY <3>2 DEF u
  <2>7. \E y : Become(r, y) /\ ReqOK(y, served')
    BY <2>1, <2>5, <2>6
  <2> QED  BY <2>1, <2>2, <2>7, Unanswered, Moved
<1> QED  BY <1>1, <1>2, <1>3

LEMMA Binds ==
  ASSUME Inv, NEW r \in Requests, KeepBinding(r) \/ DropBinding(r) \/ Claim(r) \/ GiveUp(r)
  PROVE  Inv'
<1>0. GoodBook(book, served) /\ ReqOK(req[r], served)
  BY DEF Inv
<1>1. CASE KeepBinding(r)
  <2> DEFINE x == req[r].existing
             y == [req[r] EXCEPT !.pc = "try", !.binding = x, !.existing = NoBinding,
                                 !.spill = FALSE]
  <2>1. Become(r, y) /\ UNCHANGED <<book, served>> /\ req[r].pc = "providers" /\ x # NoBinding
    BY <1>1 DEF KeepBinding, At
  <2>2. x \in Binding
    BY <1>0, <2>1 DEF ReqOK, RequestState
  <2> HIDE DEF x
  <2>3. y \in RequestState /\ y.pc = "try" /\ y.session = req[r].session /\ y.binding = x
    BY <1>0, <2>2 DEF ReqOK, RequestState
  <2>4. ReqOK(y, served')
    BY <1>0, <2>1, <2>2, <2>3 DEF ReqOK
  <2> QED  BY <1>0, <2>1, <2>4, Unanswered, Moved
<1>2. CASE DropBinding(r)
  <2> DEFINE y == [req[r] EXCEPT !.existing = NoBinding]
  <2>1. /\ Become(r, y) /\ UNCHANGED served /\ req[r].pc = "providers"
        /\ book' = clear_if_provider(book, req[r].session, req[r].existing.target.provider)
    BY <1>2 DEF DropBinding, At
  <2>2. y \in RequestState /\ y.pc = "providers" /\ y.session = req[r].session
    BY <1>0, <2>1 DEF ReqOK, RequestState
  <2>3. ReqOK(y, served')
    BY <1>0, <2>1, <2>2 DEF ReqOK
  <2>4. GoodBook(book', served')
    BY <1>0, <2>1, Cleared
  <2> QED  BY <2>1, <2>3, <2>4, Unanswered, Moved
<1>3. CASE Claim(r)
  <2> DEFINE s == req[r].session
             f == found(book', s)
             y == [req[r] EXCEPT !.pc = "try", !.binding = f, !.spill = FALSE]
  <2>1. /\ Become(r, y) /\ UNCHANGED served /\ req[r].pc = "providers"
        /\ \E t \in req[r].plan : book' \in claim_target(book, s, t)
    BY <1>3 DEF Claim, At, BookBecomes
  <2>2. s \in Sessions /\ req[r].plan \subseteq Targets
    BY <1>0, <2>1 DEF ReqOK, RequestState
  <2>3. PICK t \in Targets : book' \in claim_target(book, s, t)
    BY <2>1, <2>2
  <2>4. GoodBook(book', served) /\ f \in Binding
    BY <1>0, <2>2, <2>3, Claimed, TargetsBind
  <2> HIDE DEF f
  <2>5. y \in RequestState /\ y.pc = "try" /\ y.session = s /\ y.binding = f
    BY <1>0, <2>4 DEF ReqOK, RequestState
  <2>6. ReqOK(y, served')
    BY <2>2, <2>4, <2>5 DEF ReqOK
  <2> QED  BY <2>1, <2>4, <2>6, Unanswered, Moved
<1>4. CASE GiveUp(r)
  BY <1>0, <1>4, IdleOK, Unanswered, Moved DEF GiveUp
<1> QED  BY <1>1, <1>2, <1>3, <1>4

LEMMA Attempts ==
  ASSUME Inv, NEW r \in Requests, NEW t \in Targets, Attempt(r, t)
  PROVE  Inv'
<1> DEFINE s == req[r].session
           x == req[r].binding
           p == t.provider
<1>0. GoodBook(book, served) /\ ReqOK(req[r], served)
  BY DEF Inv
<1>1. /\ Tries(r, t) /\ req[r].pc = "try" /\ s \in Sessions /\ x \in Binding
      /\ t \in Bindable /\ p \in Providers
  BY <1>0, TargetsBind DEF Attempt, HttpFails, ConnectFails, ConnectRejected, OtherFailure,
     HttpSucceeds, Connected, Bridged, Tries, At, ReqOK
<1>2. ASSUME NEW f \in BOOLEAN, Retry(r, t, f), UNCHANGED served,
             book' = book \/ book' \in mark_provider_failed(book, s, p)
      PROVE  Inv'
  <2>1. PICK y : Become(r, y) /\ ReqOK(y, served')
    BY <1>1, <1>2, RetryOK
  <2>2. GoodBook(book', served')
    BY <1>0, <1>1, <1>2, MarkedFailed
  <2> QED  BY <1>2, <2>1, <2>2, Unanswered, Moved
<1>3. CASE HttpFails(r, t) \/ ConnectFails(r, t) \/ ConnectRejected(r, t) \/ OtherFailure(r, t)
  BY <1>2, <1>3 DEF HttpFails, ConnectFails, ConnectRejected, OtherFailure
<1>4. CASE HttpSucceeds(r, t)
  <2>1. Serves(r, p) /\ Become(r, Idle)
    BY <1>4 DEF HttpSucceeds
  <2>2. Grows /\ p \in served'[s] /\ GoodBook(book, served')
    BY <1>1, <2>1, Answered
  <2>3. CASE x.target = t
    <3>1. book' = refresh_if_target(book, s, x) \/ book' = confirm(book, s, x)
      BY <1>4, <2>3 DEF HttpSucceeds
    <3>2. x.target.provider \in served'[s]
      BY <2>2, <2>3
    <3>3. GoodBook(book', served')
      BY <2>2, <3>1, <3>2, Affirmed
    <3> QED  BY <2>1, <2>2, <3>3, IdleOK, Moved
  <2>4. CASE x.target # t
    <3>1. book' \in migrate_target(book, s, t)
      BY <1>4, <2>4 DEF HttpSucceeds, BookBecomes
    <3>2. GoodBook(book', served')
      BY <1>1, <2>2, <3>1, Migrated
    <3> QED  BY <2>1, <2>2, <3>2, IdleOK, Moved
  <2> QED  BY <2>3, <2>4
<1>5. CASE Connected(r, t)
  <2>1. Serves(r, p) /\ Become(r, Open(r, p))
    BY <1>5 DEF Connected
  <2>2. Grows /\ p \in served'[s] /\ GoodBook(book, served')
    BY <1>1, <2>1, Answered
  <2>3. GoodBook(book', served')
    <3>1. CASE x.target.provider = p
      <4>1. book' = refresh_if_provider(book, s, x.target.provider) \/ book' = confirm(book, s, x)
        BY <1>5, <3>1 DEF Connected
      <4>2. x.target.provider \in served'[s]
        BY <2>2, <3>1
      <4> QED  BY <2>2, <4>1, <4>2, Affirmed
    <3>2. CASE x.target.provider # p
      <4>1. book' = book \/ book' \in migrate_target(book, s, Wildcard(p))
        BY <1>5, <3>2 DEF Connected, BookBecomes
      <4> QED  BY <1>1, <2>2, <4>1, TargetsBind, Migrated
    <3> QED  BY <3>1, <3>2
  <2>4. ReqOK(Open(r, p), served')
    BY <1>1, OpenOK
  <2> QED  BY <2>1, <2>2, <2>3, <2>4, Moved
<1>6. CASE Bridged(r, t)
  <2>1. ReqOK(Open(r, p), served')
    BY <1>1, OpenOK
  <2>2. Become(r, Open(r, p)) /\ UNCHANGED <<book, served>>
    BY <1>6 DEF Bridged
  <2> QED  BY <1>0, <2>1, <2>2, Unanswered, Moved
<1> QED  BY <1>3, <1>4, <1>5, <1>6 DEF Attempt

LEMMA Turns ==
  ASSUME Inv, NEW r \in Requests,
         TurnFails(r) \/ TurnSucceeds(r) \/ SettleTurn(r) \/ ClaimTurn(r) \/ ConfirmTurn(r)
           \/ Close(r)
  PROVE  Inv'
<1> DEFINE s == req[r].session
           x == req[r].binding
           p == req[r].at
<1>0. GoodBook(book, served) /\ ReqOK(req[r], served)
  BY DEF Inv
<1>1. req[r].pc \in {"open", "settle", "confirm"} /\ s \in Sessions /\ p \in Providers
  BY <1>0 DEF TurnFails, TurnSucceeds, SettleTurn, ClaimTurn, ConfirmTurn, Close, At, ReqOK
<1>2. CASE TurnFails(r)
  <2>1. GoodBook(book', served)
    BY <1>0, <1>1, <1>2, MarkedFailed DEF TurnFails
  <2> QED  BY <1>2, <2>1, Stays DEF TurnFails
<1>3. CASE TurnSucceeds(r)
  <2> DEFINE f == found(book, s)
             y == [req[r] EXCEPT !.pc = "settle", !.binding = f]
  <2>1. Become(r, y) /\ book' = after_lookup(book, s) /\ Serves(r, p)
    BY <1>3 DEF TurnSucceeds
  <2>2. Grows /\ p \in served'[s] /\ GoodBook(book, served')
    BY <1>1, <2>1, Answered
  <2>3. GoodBook(book', served') /\ f \in Binding \cup {NoBinding}
    BY <2>1, <2>2, LookedUp
  <2> HIDE DEF f
  <2>4. y \in RequestState /\ y.pc = "settle" /\ y.session = s /\ y.at = p
    BY <1>0, <2>3 DEF ReqOK, RequestState
  <2>5. ReqOK(y, served')
    BY <1>1, <2>2, <2>4 DEF ReqOK
  <2> QED  BY <2>1, <2>2, <2>3, <2>5, Moved
<1>4. CASE SettleTurn(r)
  <2>1. Become(r, Open(r, p)) /\ UNCHANGED served /\ p \in served[s]
    BY <1>0, <1>4 DEF SettleTurn, Settled, At, ReqOK
  <2>2. GoodBook(book', served)
    <3>1. CASE x.target.provider = p
      <4>1. book' = refresh_if_provider(book, s, x.target.provider) \/ book' = confirm(book, s, x)
        BY <1>4, <3>1 DEF SettleTurn
      <4>2. x.target.provider \in served[s]
        BY <2>1, <3>1
      <4> QED  BY <1>0, <4>1, <4>2, Affirmed
    <3>2. CASE x.target.provider # p
      <4>1. book' \in migrate_target(book, s, Wildcard(p))
        BY <1>4, <3>2 DEF SettleTurn, BookBecomes
      <4>2. Wildcard(p) \in Bindable /\ Wildcard(p).provider \in served[s]
        BY <1>1, <2>1, TargetsBind
      <4> QED  BY <1>0, <1>1, <4>1, <4>2, Migrated
    <3> QED  BY <3>1, <3>2
  <2>3. ReqOK(Open(r, p), served')
    BY <1>1, OpenOK
  <2> QED  BY <2>1, <2>2, <2>3, Unanswered, Moved
<1>5. CASE ClaimTurn(r)
  <2> DEFINE f == found(book', s)
             y == [req[r] EXCEPT !.pc = "confirm", !.binding = f]
  <2>1. /\ UNCHANGED served /\ p \in served[s]
        /\ book' \in claim_target(book, s, Wildcard(p))
        /\ Become(r, IF f.target.provider = p THEN y ELSE Open(r, p))
    BY <1>0, <1>5 DEF ClaimTurn, Settled, At, ReqOK, BookBecomes
  <2>2. Wildcard(p) \in Bindable
    BY <1>1, TargetsBind
  <2>3. GoodBook(book', served) /\ f \in Binding
    BY <1>0, <1>1, <2>1, <2>2, Claimed
  <2> HIDE DEF f
  <2>4. /\ y \in RequestState /\ y.pc = "confirm" /\ y.session = s /\ y.at = p
        /\ y.binding = f
    BY <1>0, <2>3 DEF ReqOK, RequestState
  <2>5. f.target.provider = p => ReqOK(y, served')
    BY <1>1, <2>1, <2>3, <2>4 DEF ReqOK
  <2>6. ReqOK(Open(r, p), served')
    BY <1>1, OpenOK
  <2> HIDE DEF y
  <2>7. \E z : Become(r, z) /\ ReqOK(z, served')
    BY <2>1, <2>5, <2>6
  <2> QED  BY <2>1, <2>3, <2>7, Unanswered, Moved
<1>6. CASE ConfirmTurn(r)
  <2>1. /\ Become(r, Open(r, p)) /\ UNCHANGED served /\ book' = confirm(book, s, x)
        /\ x.target.provider \in served[s]
    BY <1>0, <1>6 DEF ConfirmTurn, Settled, At, ReqOK
  <2>2. GoodBook(book', served)
    BY <1>0, <2>1, Affirmed
  <2>3. ReqOK(Open(r, p), served')
    BY <1>1, OpenOK
  <2> QED  BY <2>1, <2>2, <2>3, Unanswered, Moved
<1>7. CASE Close(r)
  BY <1>0, <1>7, IdleOK, Unanswered, Moved DEF Close
<1> QED  BY <1>2, <1>3, <1>4, <1>5, <1>6, <1>7

LEMMA InitOK ==
  ASSUME Init
  PROVE  Inv
<1>1. GoodBook(book, served)
  BY EmptyGood DEF Init
<1>2. req \in [Requests -> RequestState] /\ \A r \in Requests : ReqOK(req[r], served)
  BY IdleOK DEF Init
<1> QED  BY <1>1, <1>2 DEF Inv, Init

LEMMA StepOK ==
  ASSUME Inv, [Next]_vars
  PROVE  Inv'
<1>1. CASE Admin
  <2>1. GoodBook(book', served)
    BY <1>1, AdminGood DEF Inv
  <2> QED  BY <1>1, <2>1, Stays DEF Admin
<1>2. CASE Tick
  <2>1. GoodBook(book', served)
    BY <1>2, TickGood DEF Inv
  <2> QED  BY <1>2, <2>1, Stays DEF Tick
<1>3. CASE UNCHANGED vars
  BY <1>3 DEF vars, Inv
<1> QED  BY <1>1, <1>2, <1>3, Planning, Binds, Attempts, Turns DEF Next

-----------------------------------------------------------------------------

\* The inductive invariant of the book and its requests.
THEOREM AffinityInvariant == Spec => []Inv
<1>1. Init => Inv
  BY InitOK
<1>2. Inv /\ [Next]_vars => Inv'
  BY StepOK
<1> QED  BY <1>1, <1>2, PTL DEF Spec

\* The type invariant; with it, that whoever claims a binding is given one.
THEOREM TypeCorrect == Spec => []TypeOK
<1>1. Inv => TypeOK
  BY InvMeans
<1> QED  BY <1>1, AffinityInvariant, PTL

\* SESSION_AFFINITY_MAX_ENTRIES: neither map ever holds more, whatever number
\* of sessions there is and whichever calls come between.
THEOREM BoundedHolds == Spec => []Bounded
<1>1. Inv => Bounded
  BY InvMeans
<1> QED  BY <1>1, AffinityInvariant, PTL

\* confirm, refresh_if_provider, refresh_if_target, migrate_target: a confirmed
\* binding names a provider that has answered the session.
THEOREM ConfirmedServedHolds == Spec => []ConfirmedServed
<1>1. Inv => ConfirmedServed
  BY InvMeans
<1> QED  BY <1>1, AffinityInvariant, PTL
=============================================================================
