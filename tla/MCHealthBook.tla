--------------------------- MODULE MCHealthBook ---------------------------
(* Small instances of HealthBook for TLC: constants are given in the cfg.  *)
EXTENDS HealthBook
============================================================================
