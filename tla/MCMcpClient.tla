---------------------------- MODULE MCMcpClient ----------------------------
(* Instances of McpClient for TLC. *)
EXTENDS McpClient

CONSTANTS c1, c2

TwoCallers == {c1, c2}
OneCaller == {c1}
=============================================================================
