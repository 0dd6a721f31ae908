--------------------------- MODULE UpstreamCache ---------------------------
(***************************************************************************)
(* The snapshot of the upstream configuration that every request works     *)
(* from: UpstreamCache of backend/src/cache/upstream_cache.rs.             *)
(*                                                                         *)
(* get() answers from the cache while the snapshot is fresh.  Otherwise it *)
(* remembers the stale snapshot, waits for the refresh lock, looks again,  *)
(* and loads the tables of the database one after the other (load_snapshot *)
(* runs a dozen queries without a transaction).  The administrator commits *)
(* a change to a table and then, in a later step, invalidates the cache.   *)
(*                                                                         *)
(* A table is a version number: how many changes it has seen.  The cache   *)
(* holds a snapshot's age instead of its loading time, so that time needs  *)
(* no bound.                                                               *)
(***************************************************************************)
EXTENDS Naturals, Sequences

CONSTANTS
  Readers,     \* requests that call get()
  Tables,      \* the queries of load_snapshot in order
  Ttl,         \* policy.ttl
  StaleGrace,  \* policy.stale_grace
  MaxEdits     \* bound: changes the administrator makes

ASSUME UpstreamCacheAssumption ==
  /\ Tables \in Seq(STRING)
  /\ Ttl \in Nat
  /\ StaleGrace \in Nat
  /\ MaxEdits \in Nat

VARIABLES
  db,        \* the committed tables
  cached,    \* state: the snapshot and its age, or Nothing
  lock,      \* refresh_lock: who holds it, or Nobody
  reader,    \* each reader inside get()
  owed,      \* tables changed whose change has not invalidated the cache yet
  installed  \* history: the snapshot set last

vars == <<db, cached, lock, reader, owed, installed>>

TableSet == {Tables[i] : i \in DOMAIN Tables}
Snapshot == [TableSet -> Nat]
Nobody   == "nobody"
Nothing  == [age |-> 0, value |-> <<>>]   \* None
Fresh    == [t \in TableSet |-> 0]

ASSUME ReadersAssumption == Nobody \notin Readers

\* How old a snapshot may get before it is of no use at all.
TooOld == Ttl + StaleGrace + 1

Idle == [pc |-> "idle", stale |-> Nothing, read |-> 0, snap |-> Fresh]

Init ==
  /\ db = Fresh
  /\ cached = Nothing
  /\ lock = Nobody
  /\ reader = [r \in Readers |-> Idle]
  /\ owed = {}
  /\ installed = Fresh

-----------------------------------------------------------------------------
(* get().                                                                  *)

\* Mutant: the age of a snapshot is not looked at.
get_fresh_ageless(c) == c # Nothing

\* get_fresh and get_stale_within_grace have an answer.
get_fresh(c) == c # Nothing /\ c.age =< Ttl

get_stale_within_grace(c) == c # Nothing /\ c.age =< Ttl + StaleGrace

At(r, label) == reader[r].pc = label

Become(r, x) == reader' = [reader EXCEPT ![r] = x]

Served(r, snap) == [reader[r] EXCEPT !.pc = "served", !.snap = snap, !.stale = Nothing, !.read = 0]

\* A new request: answered from the cache, or off to the lock with what is stale.
Get(r) ==
  /\ At(r, "idle")
  /\ Become(r, IF get_fresh(cached) THEN Served(r, cached.value)
               ELSE [reader[r] EXCEPT !.pc = "wait",
                       !.stale = IF get_stale_within_grace(cached) THEN cached ELSE Nothing])
  /\ UNCHANGED <<db, cached, lock, owed, installed>>

\* Mutant: the lock is not waited for.
acquire_at_once(r) ==
  /\ At(r, "wait")
  /\ Become(r, [reader[r] EXCEPT !.pc = "load"])
  /\ UNCHANGED <<db, cached, lock, owed, installed>>

\* The lock is free: look again, and load if there is still nothing fresh.
Acquire(r) ==
  /\ At(r, "wait")
  /\ lock = Nobody
  /\ IF get_fresh(cached)
       THEN Become(r, Served(r, cached.value)) /\ UNCHANGED lock
       ELSE Become(r, [reader[r] EXCEPT !.pc = "load"]) /\ lock' = r
  /\ UNCHANGED <<db, cached, owed, installed>>

\* One query of load_snapshot.
LoadTable(r) ==
  /\ At(r, "load")
  /\ reader[r].read < Len(Tables)
  /\ LET t == Tables[reader[r].read + 1]
     IN  Become(r, [reader[r] EXCEPT !.read = @ + 1, !.snap[t] = db[t]])
  /\ UNCHANGED <<db, cached, lock, owed, installed>>

Release(r) == lock' = IF lock = r THEN Nobody ELSE lock

\* set_snapshot: whatever was committed or invalidated since the queries ran.
set_snapshot(r) ==
  /\ At(r, "load")
  /\ reader[r].read = Len(Tables)
  /\ cached' = [age |-> 0, value |-> reader[r].snap]
  /\ installed' = reader[r].snap
  /\ Become(r, Served(r, reader[r].snap))
  /\ Release(r)
  /\ UNCHANGED <<db, owed>>

\* Mutant: an error return that keeps the lock.
load_fails_locked(r) ==
  /\ At(r, "load")
  /\ Become(r, IF reader[r].stale # Nothing THEN Served(r, reader[r].stale.value) ELSE Idle)
  /\ UNCHANGED <<db, cached, lock, owed, installed>>

\* A query failed: serve the stale snapshot, or the error if there is none.
LoadFails(r) ==
  /\ At(r, "load")
  /\ Become(r, IF reader[r].stale # Nothing THEN Served(r, reader[r].stale.value) ELSE Idle)
  /\ Release(r)
  /\ UNCHANGED <<db, cached, owed, installed>>

\* The request is dropped at an await (the lock, a query); its lock goes with it.
Abandon(r) ==
  /\ At(r, "wait") \/ At(r, "load")
  /\ Become(r, Idle)
  /\ Release(r)
  /\ UNCHANGED <<db, cached, owed, installed>>

\* The request is over; the next one is new.
Leave(r) ==
  /\ At(r, "served")
  /\ Become(r, Idle)
  /\ UNCHANGED <<db, cached, lock, owed, installed>>

-----------------------------------------------------------------------------
(* The administrator and time.                                             *)

\* A handler of admin.rs commits its change to one table.
Commit(t) ==
  /\ db[t] < MaxEdits
  /\ t \notin owed
  /\ db' = [db EXCEPT ![t] = @ + 1]
  /\ owed' = owed \cup {t}
  /\ UNCHANGED <<cached, lock, reader, installed>>

\* ... then invalidates the cache and answers.
invalidate(t) ==
  /\ t \in owed
  /\ cached' = Nothing
  /\ owed' = owed \ {t}
  /\ UNCHANGED <<db, lock, reader, installed>>

Older(c) == IF c = Nothing \/ c.age = TooOld THEN c ELSE [c EXCEPT !.age = @ + 1]

\* Time passes for the cached snapshot.  A stale snapshot that a reader took
\* along is not looked at again, however long its load takes.
Tick ==
  /\ cached' = Older(cached)
  /\ UNCHANGED <<db, lock, reader, owed, installed>>

-----------------------------------------------------------------------------
(* Properties.                                                             *)

Entry == [age: 0 .. TooOld, value: Snapshot]

TypeOK ==
  /\ db \in Snapshot
  /\ cached \in Entry \cup {Nothing}
  /\ lock \in Readers \cup {Nobody}
  /\ reader \in [Readers -> [pc: {"idle", "wait", "load", "served"}, read: 0 .. Len(Tables),
                             stale: Entry \cup {Nothing}, snap: Snapshot]]
  /\ owed \subseteq TableSet
  /\ installed \in Snapshot

\* The refresh lock is held by a reader that is loading, and every way out of
\* the load gives it back: a lock left behind would stop every later request.
LockHeld == \A r \in Readers : (lock = r) <=> At(r, "load")

\* The cache never goes back to an older configuration, although its
\* snapshots are put together query by query while the tables change.
NeverBackwards ==
  [][\A t \in TableSet : installed'[t] >= installed[t]]_vars

\* Behind it: what is installed is never ahead of the database, and every query
\* a load has made so far is between the two; only a load has made queries.
LoadInv ==
  /\ \A t \in TableSet : installed[t] =< db[t]
  /\ \A r \in Readers :
       /\ ~At(r, "load") => reader[r].read = 0
       /\ \A i \in 1 .. reader[r].read :
            /\ installed[Tables[i]] =< reader[r].snap[Tables[i]]
            /\ reader[r].snap[Tables[i]] =< db[Tables[i]]

\* Once the administrator has stopped, old configuration is served for a while
\* only, however loads, failures and invalidations interleaved before.
StaleEnds ==
  <>[](\A r \in Readers : At(r, "served") => reader[r].snap = db)
============================================================================
