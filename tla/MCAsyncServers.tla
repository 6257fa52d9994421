----------------------------- MODULE MCAsyncServers -----------------------------
(* Values of AsyncServers' constants for TLC. *)
EXTENDS AsyncServers

CONSTANTS c1, c2, c3
================================================================================
