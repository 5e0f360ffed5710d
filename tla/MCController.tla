---------------------------- MODULE MCController ----------------------------
(* Small instances of Controller for TLC. *)
EXTENDS Controller, TLC

\* The calls of Start are interchangeable, and so are the workers.
Interchangeable == Permutations(Starters) \cup Permutations(Workers)
=============================================================================
