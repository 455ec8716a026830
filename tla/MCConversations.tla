--------------------------- MODULE MCConversations ---------------------------
(* A small instance of Conversations for TLC. *)
EXTENDS Conversations, TLC

CONSTANTS t1, t2, t3, s1, s2, dflt, coder

MCTurns == {t1, t2, t3}
MCSessions == {s1, s2}
MCNames == {dflt, coder}

MCSymmetry == Permutations(MCTurns) \cup Permutations(MCSessions)
=============================================================================
