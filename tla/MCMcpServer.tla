------------------------------ MODULE MCMcpServer ------------------------------
(* One cq-mcp session and two commands, one of which starts a daemon. *)
EXTENDS McpServer

CONSTANTS c1, c2

Lines == {<<"notification", "call">>, <<"garbage", "local", "call">>}

MCInit == McpInit /\ mode[c1] = "daemon" /\ mode[c2] \in {"daemon", "oneshot"}
MCSpec == MCInit /\ [][McpNext]_mcpVars /\ McpFairness
=============================================================================
