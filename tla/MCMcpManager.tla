---------------------------- MODULE MCMcpManager ----------------------------
(* A small instance of McpManager for TLC. *)
EXTENDS McpManager, TLC

CONSTANTS npx, tools_npx, bash, path, token

\* A listed command, a program of the same name elsewhere, and another.
MCCommands == {npx, tools_npx, bash}
MCBasename == [c \in MCCommands |-> IF c = tools_npx THEN npx ELSE c]
MCAllowedCommands == {npx}
MCEnvVars == {path, token}
MCAllowedEnv == {path}

Symmetry == Permutations(Tasks) \cup Permutations(Names)
=============================================================================
