---------------------------- MODULE MCCodexLogin ----------------------------
EXTENDS CodexLogin

\* Two gateways on one database: c1 runs beside the one with the logins.
MCGateway == [c \in Callers |-> IF c = "c1" THEN "g2" ELSE "g1"]
MCKeyOf   == [c \in Callers |-> "k1"]
=============================================================================
