---------------------------- MODULE MCProcessStart ----------------------------
(* Two process names, of which a run may wait for one or for any; a ring   *)
(* of two records, so that starts between two runs fill it.                *)
EXTENDS ProcessStart

CONSTANTS app, other

MCNames == {app, other}
MCPids == {0, 1}
===============================================================================
