---------------------------- MODULE MCBytezModels ----------------------------
(* A small instance of BytezModels for TLC. *)
EXTENDS BytezModels

CONSTANTS gpt2, llama, qwen, named, c1, c2

MCCalls == {c1, c2}
MCModels == {gpt2, llama, qwen, named}

\* One pinned model is configured as well, one is not.
MCPins == {llama, named}

\* The default may be among the fallbacks.
MCFallbacks == <<llama, gpt2, qwen>>
=============================================================================
