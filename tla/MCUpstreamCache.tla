-------------------------- MODULE MCUpstreamCache --------------------------
(* The caches with two tables: enough for a snapshot of two moments.       *)
EXTENDS RequestCaches, TLC

CONSTANTS r1, r2

TwoTables == <<"providers", "keys">>
============================================================================
