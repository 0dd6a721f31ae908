------------------------ MODULE RequestCachesProofs ------------------------
(***************************************************************************)
(* Proofs about the configuration cache as requests use it, for every set  *)
(* of requests and keys, every number of queries in load_snapshot, and any *)
(* number of changes.                                                      *)
(***************************************************************************)
EXTENDS RequestCaches, TLAPS

\* The steps of the configuration cache alone.
UpstreamStep ==
  \/ \E r \in Readers :
       \/ Get(r) \/ Acquire(r) \/ LoadTable(r) \/ set_snapshot(r)
       \/ LoadFails(r) \/ Leave(r) \/ Abandon(r)
  \/ \E t \in TableSet : Commit(t) \/ invalidate(t)
  \/ Tick
  \/ UNCHANGED vars

LEMMA StepOfUpstream == [CachesNext]_allVars => UpstreamStep
BY DEF CachesNext, allVars, UpstreamStep, Progress, Dropped, Validation, Snapshots, Fails,
       Ends, Administrator, Clock

-----------------------------------------------------------------------------
(* Type correctness.                                                       *)

ReaderState == [pc: {"idle", "wait", "load", "served"}, read: 0 .. Len(Tables),
                stale: Entry \cup {Nothing}, snap: Snapshot]

LEMMA ReaderStates ==
  /\ Len(Tables) \in Nat
  /\ \A i \in 1 .. Len(Tables) : Tables[i] \in TableSet
  /\ Fresh \in Snapshot
  /\ Idle \in ReaderState
<1>1. Len(Tables) \in Nat /\ \A i \in 1 .. Len(Tables) : Tables[i] \in TableSet
  BY UpstreamCacheAssumption DEF TableSet
<1>2. Fresh \in Snapshot
  BY DEF Fresh, Snapshot
<1> QED  BY <1>1, <1>2 DEF Idle, ReaderState

LEMMA TypeInit == Init => TypeOK
<1> SUFFICES ASSUME Init PROVE TypeOK
  OBVIOUS
<1>1. reader \in [Readers -> ReaderState]
  BY ReaderStates DEF Init
<1> QED  BY <1>1, ReaderStates DEF Init, TypeOK, ReaderState

LEMMA ServedType ==
  ASSUME TypeOK, NEW r \in Readers, NEW s \in Snapshot
  PROVE  Served(r, s) \in ReaderState
<1>1. reader[r] \in ReaderState /\ 0 \in 0 .. Len(Tables)
  BY ReaderStates DEF TypeOK, ReaderState
<1>2. Served(r, s) = [reader[r] EXCEPT !.pc = "served", !.snap = s, !.stale = Nothing, !.read = 0]
  BY DEF Served
<1> QED  BY <1>1, <1>2 DEF ReaderState

LEMMA TypeStep == TypeOK /\ UpstreamStep => TypeOK'
<1> SUFFICES ASSUME TypeOK, UpstreamStep PROVE TypeOK'
  OBVIOUS
<1>0. /\ reader \in [Readers -> ReaderState]
      /\ cached \in Entry \cup {Nothing} /\ db \in Snapshot
      /\ TooOld \in Nat
  BY UpstreamCacheAssumption DEF TypeOK, ReaderState, TooOld
<1>1. ASSUME NEW r \in Readers, NEW x \in ReaderState, Become(r, x)
      PROVE  reader' \in [Readers -> ReaderState]
  BY <1>0, <1>1 DEF Become
<1>2. ASSUME reader' \in [Readers -> ReaderState], db' \in Snapshot,
             cached' \in Entry \cup {Nothing}, lock' \in Readers \cup {Nobody},
             owed' \subseteq TableSet, installed' \in Snapshot
      PROVE  TypeOK'
  BY <1>2 DEF TypeOK, ReaderState
<1>3. ASSUME NEW r \in Readers, Get(r) PROVE TypeOK'
  <2>1. get_fresh(cached) => cached.value \in Snapshot
    BY <1>0 DEF get_fresh, Entry
  <2>2. [reader[r] EXCEPT !.pc = "wait",
           !.stale = IF get_stale_within_grace(cached) THEN cached ELSE Nothing] \in ReaderState
    BY <1>0 DEF ReaderState
  <2>3. reader' \in [Readers -> ReaderState]
    BY <1>1, <1>3, <2>1, <2>2, ServedType DEF Get
  <2> QED  BY <1>2, <1>3, <2>3 DEF Get, TypeOK
<1>4. ASSUME NEW r \in Readers, Acquire(r) PROVE TypeOK'
  <2>1. get_fresh(cached) => cached.value \in Snapshot
    BY <1>0 DEF get_fresh, Entry
  <2>2. [reader[r] EXCEPT !.pc = "load"] \in ReaderState
    BY <1>0 DEF ReaderState
  <2>3. reader' \in [Readers -> ReaderState]
    BY <1>1, <1>4, <2>1, <2>2, ServedType DEF Acquire
  <2> QED  BY <1>2, <1>4, <2>3 DEF Acquire, TypeOK
<1>5. ASSUME NEW r \in Readers, LoadTable(r) PROVE TypeOK'
  <2> DEFINE n == reader[r].read
             t == Tables[n + 1]
             x == [reader[r] EXCEPT !.read = n + 1, !.snap[t] = db[t]]
  <2>1. n \in Nat /\ n < Len(Tables) /\ n + 1 \in 0 .. Len(Tables) /\ t \in TableSet
    BY <1>0, <1>5, ReaderStates DEF LoadTable, ReaderState
  <2>2. Become(r, x)
    BY <1>5 DEF LoadTable
  <2>3. [reader[r].snap EXCEPT ![t] = db[t]] \in Snapshot
    BY <1>0, <2>1 DEF ReaderState, Snapshot
  <2>4. x \in ReaderState
    BY <1>0, <2>1, <2>3 DEF ReaderState
  <2> HIDE DEF x
  <2>5. reader' \in [Readers -> ReaderState]
    BY <1>1, <2>2, <2>4
  <2> QED  BY <1>2, <1>5, <2>5 DEF LoadTable, TypeOK
<1>6. ASSUME NEW r \in Readers, set_snapshot(r) PROVE TypeOK'
  <2>1. reader[r].snap \in Snapshot
    BY <1>0 DEF ReaderState
  <2>2. reader' \in [Readers -> ReaderState]
    BY <1>1, <1>6, <2>1, ServedType DEF set_snapshot
  <2>3. cached' \in Entry /\ installed' \in Snapshot
    BY <1>0, <1>6, <2>1 DEF set_snapshot, Entry
  <2> QED  BY <1>2, <1>6, <2>2, <2>3 DEF set_snapshot, Release, TypeOK
<1>7. ASSUME NEW r \in Readers, LoadFails(r) PROVE TypeOK'
  <2>1. reader[r].stale # Nothing => reader[r].stale.value \in Snapshot
    BY <1>0 DEF ReaderState, Entry
  <2>2. reader' \in [Readers -> ReaderState]
    BY <1>1, <1>7, <2>1, ServedType, ReaderStates DEF LoadFails
  <2> QED  BY <1>2, <1>7, <2>2 DEF LoadFails, Release, TypeOK
<1>8. ASSUME NEW r \in Readers, Leave(r) \/ Abandon(r) PROVE TypeOK'
  <2>1. reader' \in [Readers -> ReaderState]
    BY <1>1, <1>8, ReaderStates DEF Leave, Abandon
  <2> QED  BY <1>2, <1>8, <2>1 DEF Leave, Abandon, Release, TypeOK
<1>9. ASSUME NEW t \in TableSet, Commit(t) \/ invalidate(t) PROVE TypeOK'
  BY <1>0, <1>2, <1>9 DEF Commit, invalidate, TypeOK, Snapshot
<1>10. CASE Tick
  <2>1. cached' \in Entry \cup {Nothing}
    <3>1. CASE cached = Nothing \/ cached.age = TooOld
      BY <1>0, <1>10, <3>1 DEF Tick, Older
    <3>2. CASE cached # Nothing /\ cached.age # TooOld
      <4> DEFINE n == cached.age + 1
      <4>1. cached \in Entry /\ n \in 0 .. TooOld
        BY <1>0, <3>2 DEF Entry
      <4>2. cached' = [cached EXCEPT !.age = n]
        BY <1>10, <3>2 DEF Tick, Older
      <4> HIDE DEF n
      <4> QED  BY <4>1, <4>2 DEF Entry
    <3> QED  BY <3>1, <3>2
  <2> QED  BY <1>0, <1>2, <1>10, <2>1 DEF Tick, TypeOK
<1>11. CASE UNCHANGED vars
  BY <1>11 DEF vars, TypeOK
<1> QED  BY <1>3, <1>4, <1>5, <1>6, <1>7, <1>8, <1>9, <1>10, <1>11 DEF UpstreamStep

\* The snapshot, the lock and every reader stay well typed as keys, tables and
\* time change under them.
THEOREM TypeCorrect == CachesSpec => []TypeOK
<1>1. CachesInit => TypeOK
  BY TypeInit DEF CachesInit
<1>2. TypeOK /\ [CachesNext]_allVars => TypeOK'
  BY TypeStep, StepOfUpstream
<1> QED  BY <1>1, <1>2, PTL DEF CachesSpec

-----------------------------------------------------------------------------
(* The refresh lock.                                                       *)

\* What a step does to the labels and to the lock.
LEMMA LockStep == TypeOK /\ LockHeld /\ UpstreamStep => LockHeld'
<1> SUFFICES ASSUME TypeOK, LockHeld, UpstreamStep PROVE LockHeld'
  OBVIOUS
<1>0. reader \in [Readers -> ReaderState] /\ lock \in Readers \cup {Nobody}
  BY DEF TypeOK, ReaderState
<1>1. \A r \in Readers : \A s : Served(r, s).pc = "served" /\ Idle.pc = "idle"
  BY <1>0 DEF Served, Idle, ReaderState
<1>2. ASSUME NEW r \in Readers, NEW x, Become(r, x)
      PROVE  \A q \in Readers : reader'[q] = IF q = r THEN x ELSE reader[q]
  BY <1>0, <1>2 DEF Become
<1>3. ASSUME NEW r \in Readers, NEW x, Become(r, x), x.pc # "load", ~At(r, "load"), lock' = lock
      PROVE  LockHeld'
  BY <1>2, <1>3 DEF LockHeld, At
<1>4. ASSUME NEW r \in Readers, NEW x, Become(r, x), x.pc # "load", Release(r)
      PROVE  LockHeld'
  BY <1>2, <1>4, ReadersAssumption DEF LockHeld, At, Release
<1>5. ASSUME NEW r \in Readers, Get(r) PROVE LockHeld'
  <2>1. [reader[r] EXCEPT !.pc = "wait",
           !.stale = IF get_stale_within_grace(cached) THEN cached ELSE Nothing].pc = "wait"
    BY <1>0 DEF ReaderState
  <2>2. ~At(r, "load") /\ lock' = lock
    BY <1>5 DEF Get, At
  <2> QED  BY <1>1, <1>3, <1>5, <2>1, <2>2 DEF Get
<1>6. ASSUME NEW r \in Readers, Acquire(r) PROVE LockHeld'
  <2>1. CASE get_fresh(cached)
    BY <1>1, <1>3, <1>6, <2>1 DEF Acquire, At
  <2>2. CASE ~get_fresh(cached)
    <3>1. /\ Become(r, [reader[r] EXCEPT !.pc = "load"]) /\ lock' = r /\ lock = Nobody
      BY <1>6, <2>2 DEF Acquire
    <3>2. [reader[r] EXCEPT !.pc = "load"].pc = "load"
      BY <1>0 DEF ReaderState
    <3> QED  BY <1>2, <3>1, <3>2, ReadersAssumption, ZenonT(60) DEF LockHeld, At
  <2> QED  BY <2>1, <2>2
<1>7. ASSUME NEW r \in Readers, LoadTable(r) PROVE LockHeld'
  <2> DEFINE t == Tables[reader[r].read + 1]
             x == [reader[r] EXCEPT !.read = @ + 1, !.snap[t] = db[t]]
  <2>1. Become(r, x) /\ lock' = lock
    BY <1>7 DEF LoadTable
  <2>2. x.pc = reader[r].pc
    BY <1>0 DEF ReaderState
  <2> HIDE DEF x
  <2> QED  BY <1>2, <2>1, <2>2 DEF LockHeld, At
<1>8. ASSUME NEW r \in Readers, set_snapshot(r) \/ LoadFails(r) \/ Abandon(r) PROVE LockHeld'
  <2>1. PICK x : Become(r, x) /\ x.pc # "load" /\ Release(r)
    BY <1>1, <1>8 DEF set_snapshot, LoadFails, Abandon
  <2> QED  BY <1>4, <2>1
<1>9. ASSUME NEW r \in Readers, Leave(r) PROVE LockHeld'
  BY <1>1, <1>3, <1>9 DEF Leave, At
<1>10. ASSUME UNCHANGED <<lock, reader>> PROVE LockHeld'
  BY <1>10 DEF LockHeld, At
<1> QED  BY <1>5, <1>6, <1>7, <1>8, <1>9, <1>10
         DEF UpstreamStep, Commit, invalidate, Tick, vars

LEMMA LockInit == Init => LockHeld
BY ReadersAssumption DEF Init, LockHeld, At, Idle

\* The refresh lock is held exactly while its holder loads: every way out of
\* the load, an error and a dropped request included, gives it back.
THEOREM LockHeldHolds == CachesSpec => []LockHeld
<1>1. CachesInit => LockHeld
  BY LockInit DEF CachesInit
<1>2. TypeOK /\ LockHeld /\ [CachesNext]_allVars => LockHeld'
  BY LockStep, StepOfUpstream
<1> QED  BY <1>1, <1>2, TypeCorrect, PTL DEF CachesSpec

-----------------------------------------------------------------------------
(* The cache never goes back.                                              *)

LEMMA LoadInit == Init => LoadInv
<1> SUFFICES ASSUME Init PROVE LoadInv
  OBVIOUS
<1>1. \A r \in Readers : reader[r].read = 0
  BY DEF Init, Idle
<1>2. \A t \in TableSet : installed[t] =< db[t]
  BY DEF Init, Fresh
<1> QED  BY <1>1, <1>2 DEF LoadInv

\* Only the loader has made queries, so installing its snapshot meets no other
\* half-finished one, and each of its queries was made after the snapshot it
\* replaces was complete.
LEMMA LoadStep == TypeOK /\ LockHeld /\ LoadInv /\ UpstreamStep => LoadInv'
<1> SUFFICES ASSUME TypeOK, LockHeld, LoadInv, UpstreamStep PROVE LoadInv'
  OBVIOUS
<1>0. /\ reader \in [Readers -> ReaderState]
      /\ \A t \in TableSet : db[t] \in Nat /\ installed[t] \in Nat
      /\ \A r \in Readers, t \in TableSet : reader[r].snap[t] \in Nat
      /\ \A r \in Readers : reader[r].read \in 0 .. Len(Tables)
  BY DEF TypeOK, ReaderState, Snapshot
<1>1. \A r \in Readers : \A i \in 1 .. reader[r].read : Tables[i] \in TableSet
  BY <1>0, ReaderStates
<1>2. \A r \in Readers : \A s : /\ Served(r, s).pc = "served" /\ Served(r, s).read = 0
                            /\ Idle.pc = "idle" /\ Idle.read = 0
  BY <1>0 DEF Served, Idle, ReaderState
<1>3. ASSUME NEW r \in Readers, NEW x, Become(r, x)
      PROVE  \A q \in Readers : reader'[q] = IF q = r THEN x ELSE reader[q]
  BY <1>0, <1>3 DEF Become
<1>4. ASSUME NEW r \in Readers, NEW x, Become(r, x), x.read = 0, UNCHANGED <<db, installed>>
      PROVE  LoadInv'
  BY <1>3, <1>4 DEF LoadInv, At
<1>5. ASSUME NEW r \in Readers, Get(r) PROVE LoadInv'
  <2>1. [reader[r] EXCEPT !.pc = "wait",
           !.stale = IF get_stale_within_grace(cached) THEN cached ELSE Nothing].read = 0
    BY <1>0, <1>5 DEF ReaderState, LoadInv, Get, At
  <2> QED  BY <1>2, <1>4, <1>5, <2>1 DEF Get
<1>6. ASSUME NEW r \in Readers, Acquire(r) PROVE LoadInv'
  <2>1. [reader[r] EXCEPT !.pc = "load"].read = 0
    BY <1>0, <1>6 DEF ReaderState, LoadInv, Acquire, At
  <2> QED  BY <1>2, <1>4, <1>6, <2>1 DEF Acquire
<1>7. ASSUME NEW r \in Readers, LoadTable(r) PROVE LoadInv'
  <2> DEFINE n == reader[r].read
             t == Tables[n + 1]
             x == [reader[r] EXCEPT !.read = n + 1, !.snap[t] = db[t]]
  <2>1. /\ Become(r, x) /\ UNCHANGED <<db, installed>>
        /\ reader[r].pc = "load" /\ n < Len(Tables)
    BY <1>7 DEF LoadTable, At
  <2>2. n \in Nat /\ t \in TableSet
    BY <1>0, <2>1, ReaderStates
  <2>3. /\ x.pc = "load" /\ x.read = n + 1
        /\ x.snap = [reader[r].snap EXCEPT ![t] = db[t]]
    BY <1>0, <2>1 DEF ReaderState
  <2> HIDE DEF x
  <2>4. \A u \in TableSet : x.snap[u] = IF u = t THEN db[t] ELSE reader[r].snap[u]
    BY <1>0, <2>2, <2>3 DEF ReaderState, Snapshot
  <2>5. ASSUME NEW i \in 1 .. n + 1
        PROVE  installed[Tables[i]] =< x.snap[Tables[i]] /\ x.snap[Tables[i]] =< db[Tables[i]]
    <3>1. CASE Tables[i] = t
      <4>1. x.snap[t] = db[t] /\ installed[t] =< db[t]
        BY <2>2, <2>4 DEF LoadInv
      <4> QED  BY <1>0, <2>2, <3>1, <4>1
    <3>2. CASE Tables[i] # t
      <4>1. i \in 1 .. n
        BY <2>2, <3>2
      <4>2. Tables[i] \in TableSet
        BY <1>1, <4>1
      <4> QED  BY <2>4, <3>2, <4>1, <4>2 DEF LoadInv
    <3> QED  BY <3>1, <3>2
  <2>6. \A q \in Readers : reader'[q] = IF q = r THEN x ELSE reader[q]
    BY <1>3, <2>1
  <2> QED  BY <2>1, <2>3, <2>5, <2>6 DEF LoadInv, At
<1>8. ASSUME NEW r \in Readers, set_snapshot(r) PROVE LoadInv'
  <2>1. /\ reader[r].pc = "load" /\ reader[r].read = Len(Tables)
        /\ installed' = reader[r].snap /\ db' = db
        /\ Become(r, Served(r, reader[r].snap))
    BY <1>8 DEF set_snapshot, At
  <2>2. \A q \in Readers : q # r => reader[q].read = 0
    BY <2>1 DEF LockHeld, LoadInv, At
  <2>3. \A q \in Readers : reader'[q].read = 0
    BY <1>2, <1>3, <2>1, <2>2
  <2>4. \A t \in TableSet : installed'[t] =< db'[t]
    <3> SUFFICES ASSUME NEW t \in TableSet PROVE reader[r].snap[t] =< db[t]
      BY <2>1
    <3>1. PICK i \in 1 .. Len(Tables) : t = Tables[i]
      BY UpstreamCacheAssumption DEF TableSet
    <3> QED  BY <2>1, <3>1 DEF LoadInv
  <2> QED  BY <2>3, <2>4 DEF LoadInv
<1>9. ASSUME NEW r \in Readers, LoadFails(r) \/ Abandon(r) \/ Leave(r) PROVE LoadInv'
  <2>1. PICK x : Become(r, x) /\ x.read = 0
    BY <1>2, <1>9 DEF LoadFails, Abandon, Leave
  <2> QED  BY <1>4, <1>9, <2>1 DEF LoadFails, Abandon, Leave
<1>10. ASSUME NEW t \in TableSet, Commit(t) PROVE LoadInv'
  <2>1. /\ \A u \in TableSet : db'[u] \in Nat /\ db'[u] >= db[u]
        /\ UNCHANGED <<reader, installed>>
    BY <1>0, <1>10 DEF Commit, TypeOK, Snapshot
  <2>2. \A u \in TableSet : installed'[u] =< db'[u]
    BY <1>0, <2>1 DEF LoadInv
  <2>3. ASSUME NEW r \in Readers, NEW i \in 1 .. reader[r].read
        PROVE  reader[r].snap[Tables[i]] =< db'[Tables[i]]
    <3>1. Tables[i] \in TableSet /\ reader[r].snap[Tables[i]] =< db[Tables[i]]
      BY <1>1 DEF LoadInv
    <3> QED  BY <1>0, <2>1, <3>1
  <2> QED  BY <2>1, <2>2, <2>3 DEF LoadInv, At
<1>11. ASSUME UNCHANGED <<db, installed, reader>> PROVE LoadInv'
  BY <1>11 DEF LoadInv, At
<1> QED  BY <1>5, <1>6, <1>7, <1>8, <1>9, <1>10, <1>11
         DEF UpstreamStep, invalidate, Tick, vars

\* What a load has read lies between the installed snapshot and the database.
THEOREM LoadInvariant == CachesSpec => []LoadInv
<1>1. CachesInit => LoadInv
  BY LoadInit DEF CachesInit
<1>2. TypeOK /\ LockHeld /\ LoadInv /\ [CachesNext]_allVars => LoadInv'
  BY LoadStep, StepOfUpstream
<1> QED  BY <1>1, <1>2, TypeCorrect, LockHeldHolds, PTL DEF CachesSpec

\* However loads, failures, changes and invalidations interleave, no installed
\* snapshot has an older version of any table than the one it replaces.
THEOREM NeverBackwardsHolds == CachesSpec => NeverBackwards
<1>1. TypeOK /\ LoadInv /\ [CachesNext]_allVars =>
        [\A t \in TableSet : installed'[t] >= installed[t]]_vars
  <2> SUFFICES ASSUME TypeOK, LoadInv, UpstreamStep, NEW t \in TableSet
               PROVE  installed'[t] >= installed[t]
    BY StepOfUpstream
  <2>1. \A u \in TableSet : installed[u] \in Nat
    BY DEF TypeOK, Snapshot
  <2>2. ASSUME NEW r \in Readers, set_snapshot(r) PROVE installed'[t] >= installed[t]
    <3>1. reader[r].read = Len(Tables) /\ installed' = reader[r].snap
      BY <2>2 DEF set_snapshot
    <3>2. PICK i \in 1 .. Len(Tables) : t = Tables[i]
      BY UpstreamCacheAssumption DEF TableSet
    <3>3. installed[t] =< reader[r].snap[t] /\ reader[r].snap[t] \in Nat
      BY <3>1, <3>2 DEF LoadInv, TypeOK, Snapshot
    <3> QED  BY <2>1, <3>1, <3>3
  <2>3. ASSUME installed' = installed PROVE installed'[t] >= installed[t]
    BY <2>1, <2>3
  <2> QED  BY <2>2, <2>3 DEF UpstreamStep, Get, Acquire, LoadTable, LoadFails, Leave,
                             Abandon, Commit, invalidate, Tick, vars
<1> QED  BY <1>1, TypeCorrect, LoadInvariant, PTL DEF CachesSpec, NeverBackwards
============================================================================
