--------------------------- MODULE MCRequestClaims ---------------------------
(* RequestClaims for TLC: every demand of at most three entries, two per name. *)
EXTENDS RequestClaims, FiniteSetsExt

MCDemands == {d \in [Names -> 0..2] :
                LET entries(c) == d[c]
                IN  d[Blank] <= 1 /\ MapThenSumSet(entries, Names) <= 3}
=============================================================================
