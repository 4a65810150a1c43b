------------------------- MODULE MCLiveContextCache -------------------------
(* LiveContextCache on a small instance: two queries that have one key, as *)
(* active-alerts queries with different limits have, and a key of neither. *)
EXTENDS LiveContextCache, TLC

CONSTANTS q1, q2, k1, k2

KeyShared == (q1 :> k1) @@ (q2 :> k1)

Symmetry == Permutations(Readers) \cup Permutations({q1, q2})
=============================================================================
