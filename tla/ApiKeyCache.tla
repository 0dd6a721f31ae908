---------------------------- MODULE ApiKeyCache ----------------------------
(***************************************************************************)
(* Who may use the gateway: ApiKeyCache of backend/src/cache/              *)
(* api_key_cache.rs.  validate() answers from the cache while an entry is  *)
(* fresh; otherwise it asks the database, remembers the row and drops the  *)
(* oldest entries above the limit.  Between the query and the insertion    *)
(* the administrator may change the key and clear the cache.               *)
(*                                                                         *)
(* A row is live, off (disabled) or gone (deleted).  An entry has an age   *)
(* instead of the time it was loaded at.  The limit is reached with the    *)
(* keys of other clients, which are not in the model: an entry may go at   *)
(* any time.  An expiry date works like a row that is off from then on,   *)
(* with a clock instead of an administrator, and is left out.              *)
(***************************************************************************)
EXTENDS Naturals

CONSTANTS
  Clients,       \* requests
  Keys,          \* access keys that clients present
  KeyTtl,        \* policy.ttl
  MaxKeyEdits    \* bound: changes to keys

ASSUME ApiKeyCacheAssumption ==
  /\ KeyTtl \in Nat
  /\ MaxKeyEdits \in Nat

VARIABLES
  row,       \* the committed rows
  entries,   \* by_hash
  client,    \* each request: before, inside or after validate()
  uncleared, \* a change whose handler has not cleared the cache yet
  keyEdits   \* changes so far

keyVars == <<row, entries, client, uncleared, keyEdits>>

NoKey   == "no key"
NoEntry == [age |-> 0, row |-> "gone"]    \* rows that are gone are not remembered
Outside == [pc |-> "idle", key |-> NoKey, row |-> "gone"]

KeyInit ==
  /\ row \in [Keys -> {"live", "off"}]
  /\ entries = [k \in Keys |-> NoEntry]
  /\ client = [c \in Clients |-> Outside]
  /\ uncleared = FALSE
  /\ keyEdits = 0

Doing(c, label) == client[c].pc = label

Cached == {k \in Keys : entries[k] # NoEntry}

\* Mutant: the age of an entry is not looked at.
get_fresh_key_ageless(k) == k \in Cached

get_fresh_key(k) == k \in Cached /\ entries[k].age =< KeyTtl

\* The answer of validate(), from the cache or from the database.
check_live(c, k, r) ==
  client' = [client EXCEPT ![c] = [pc |-> IF r = "live" THEN "admitted" ELSE "refused",
                                   key |-> k, row |-> "gone"]]

validate(c) ==
  \E k \in Keys :
    /\ Doing(c, "idle")
    /\ IF get_fresh_key(k) THEN check_live(c, k, entries[k].row)
       ELSE client' = [client EXCEPT ![c] = [pc |-> "query", key |-> k, row |-> "gone"]]
    /\ UNCHANGED <<row, entries, uncleared, keyEdits>>

find_api_key_by_hash(c) ==
  /\ Doing(c, "query")
  /\ client' = [client EXCEPT ![c].pc = "found", ![c].row = row[client[c].key]]
  /\ UNCHANGED <<row, entries, uncleared, keyEdits>>

\* The row is remembered, whatever was committed or cleared since the query.
insert_entry(c) ==
  /\ Doing(c, "found")
  /\ LET k == client[c].key
         r == client[c].row
     IN  /\ IF r = "gone" THEN UNCHANGED entries
            ELSE entries' = [entries EXCEPT ![k] = [age |-> 0, row |-> r]]
         /\ check_live(c, k, r)
  /\ UNCHANGED <<row, uncleared, keyEdits>>

\* Requests with other keys fill the cache, and this entry is the oldest.
trim_to_budget(k) ==
  /\ k \in Cached
  /\ entries' = [entries EXCEPT ![k] = NoEntry]
  /\ UNCHANGED <<row, client, uncleared, keyEdits>>

\* The query fails or the request is dropped at its await.
give_up(c) ==
  /\ Doing(c, "query")
  /\ client' = [client EXCEPT ![c] = Outside]
  /\ UNCHANGED <<row, entries, uncleared, keyEdits>>

depart(c) ==
  /\ Doing(c, "admitted") \/ Doing(c, "refused")
  /\ client' = [client EXCEPT ![c] = Outside]
  /\ UNCHANGED <<row, entries, uncleared, keyEdits>>

-----------------------------------------------------------------------------
\* A handler of admin.rs changes a key ...
change_key(k) ==
  /\ keyEdits < MaxKeyEdits
  /\ row[k] # "gone"
  /\ row' = [row EXCEPT ![k] = IF @ = "live" THEN "off" ELSE "live"]
  /\ keyEdits' = keyEdits + 1
  /\ uncleared' = TRUE
  /\ UNCHANGED <<entries, client>>

delete_key(k) ==
  /\ keyEdits < MaxKeyEdits
  /\ row[k] # "gone"
  /\ row' = [row EXCEPT ![k] = "gone"]
  /\ keyEdits' = keyEdits + 1
  /\ uncleared' = TRUE
  /\ UNCHANGED <<entries, client>>

\* ... then clears the cache and answers.
invalidate_all ==
  /\ uncleared
  /\ entries' = [k \in Keys |-> NoEntry]
  /\ uncleared' = FALSE
  /\ UNCHANGED <<row, client, keyEdits>>

\* Entries older than the TTL are all alike.
aged(e) == IF e = NoEntry \/ e.age > KeyTtl THEN e ELSE [e EXCEPT !.age = @ + 1]

key_tick == entries' = [k \in Keys |-> aged(entries[k])]

-----------------------------------------------------------------------------
\* A key that was disabled or deleted is accepted for a while only, although a
\* row read before the change may be remembered after the cache was cleared;
\* and one that was enabled is not refused for good.
RevokedEnds ==
  <>[](\A c \in Clients :
         /\ Doing(c, "admitted") => row[client[c].key] = "live"
         /\ Doing(c, "refused") => row[client[c].key] # "live")
============================================================================
