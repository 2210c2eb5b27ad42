------------------------------ MODULE MCAgent ------------------------------
(* One create, one change and one read-only call.                          *)
EXTENDS AgentChat

CONSTANTS create, change, look
=============================================================================
