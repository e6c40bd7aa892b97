------------------------- MODULE MCKnowledgeFactor -------------------------
(* KnowledgeFactor for TLC: sessions, tokens and calls are interchangeable. *)
EXTENDS KnowledgeFactor, TLC

MCSymmetry == Permutations(Sessions) \cup Permutations(Tokens) \cup Permutations(Calls)
=============================================================================
