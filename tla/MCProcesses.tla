---------------------------- MODULE MCProcesses ----------------------------
(***************************************************************************)
(* Two launches of the app on two ports, two indexes, one MCP server.      *)
(* Nothing tells the indexes apart.                                        *)
(***************************************************************************)
EXTENDS McpServer, TLC

CONSTANTS a, b
MCIndexes == {a, b}
MCSymmetry == Permutations(MCIndexes)
=============================================================================
