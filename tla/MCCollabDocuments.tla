------------------------- MODULE MCCollabDocuments -------------------------
(* CollabDocuments on a small instance: content c1 and the blank document convert, raw, *)
(* written by an API client, has a node the server's schema lacks.                      *)
EXTENDS CollabDocuments, TLC

Symmetry == Permutations(Requests)
=============================================================================
