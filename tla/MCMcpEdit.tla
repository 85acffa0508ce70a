----------------------------- MODULE MCMcpEdit -----------------------------
(* Two pods, one edit, called twice. *)
EXTENDS McpEdit, TLC

CONSTANTS a, b, e

MCPods == {a, b}
MCOneEdit == {e}
=============================================================================
