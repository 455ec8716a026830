----------------------------- MODULE MCExecutor -----------------------------
(* Small instances of Executor for TLC. *)
EXTENDS ExecutorRefinement, TLC

CONSTANTS write, read, garbled, ghost

\* file_write is gated and not retry_safe, a read is retry_safe; one call comes
\* with arguments that are not JSON, one names a tool that does not exist.
MCCalls == {write, read, garbled, ghost}
MCGated == {write}
MCRetrySafe == {read}
MCMalformed == {garbled}
MCUnknown == {ghost}

MCBatches == {<<write>>, <<write, write>>, <<read, write>>, <<garbled, read>>,
              <<ghost>>}
MCPlans == {<<"look", "act">>, <<"act">>}
MCSteps == {"look", "act"}

Symmetry == Permutations(Tasks) \cup Permutations(Runs) \cup Permutations(ConfIds)
=============================================================================
