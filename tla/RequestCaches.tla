--------------------------- MODULE RequestCaches ---------------------------
(***************************************************************************)
(* The two caches in the order a request meets them (proxy_openai of       *)
(* backend/src/proxy.rs): its key is validated, then it gets the snapshot  *)
(* it works from.  One clock ages both.                                    *)
(***************************************************************************)
EXTENDS ApiKeyCache, UpstreamCache

ASSUME SameRequests == Clients = Readers

allVars == <<keyVars, vars>>

CachesInit == KeyInit /\ Init

\* A request on its way to the snapshot.
Validation(r) ==
  /\ validate(r) \/ find_api_key_by_hash(r) \/ insert_entry(r)
  /\ UNCHANGED vars

\* Only a request with a valid key asks for the snapshot.
Snapshots(r) ==
  /\ Doing(r, "admitted")
  /\ Get(r) \/ Acquire(r) \/ LoadTable(r) \/ set_snapshot(r)
  /\ UNCHANGED keyVars

\* Without a snapshot the request ends with an error.
Fails(r) ==
  /\ LoadFails(r)
  /\ IF reader'[r] = Idle THEN depart(r) ELSE UNCHANGED keyVars

\* The request is over, refused, or dropped by its client.
Ends(r) ==
  \/ Leave(r) /\ depart(r)
  \/ Doing(r, "refused") /\ depart(r) /\ UNCHANGED vars

Dropped(r) ==
  \/ Abandon(r) /\ depart(r)
  \/ give_up(r) /\ UNCHANGED vars

Administrator ==
  \/ (\E k \in Keys : change_key(k) \/ delete_key(k)) /\ UNCHANGED vars
  \/ invalidate_all /\ UNCHANGED vars
  \/ (\E t \in TableSet : Commit(t) \/ invalidate(t)) /\ UNCHANGED keyVars

Clock ==
  /\ Tick
  /\ key_tick
  /\ UNCHANGED <<row, client, uncleared, keyEdits>>

Progress(r) == Validation(r) \/ Snapshots(r) \/ Fails(r) \/ Ends(r)

CachesNext ==
  \/ \E r \in Readers : Progress(r) \/ Dropped(r)
  \/ (\E k \in Keys : trim_to_budget(k)) /\ UNCHANGED vars
  \/ Administrator
  \/ Clock

CachesSpec == CachesInit /\ [][CachesNext]_allVars

\* Requests go on, the lock is fair (tokio's Mutex is first come, first
\* served), queries end with an answer or an error, time passes.
FairSpec ==
  /\ CachesSpec
  /\ WF_allVars(Clock)
  /\ \A r \in Readers : SF_allVars(Snapshots(r) /\ Acquire(r)) /\ WF_allVars(Progress(r))
============================================================================
