-------------------------- MODULE MCDocumentHistory --------------------------
(* DocumentHistory on a small instance. *)
EXTENDS DocumentHistory, TLC

\* Requests and contents are interchangeable: no definition singles one out.
Symmetry == Permutations(Requests) \cup Permutations(Contents)
=============================================================================
