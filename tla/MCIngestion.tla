---------------------------- MODULE MCIngestion ----------------------------
(* Small instances of Ingestion for TLC.                                    *)
EXTENDS Ingestion, TLC

\* Requests, like worker slots, are interchangeable.
Symmetry == Permutations(Users) \cup Permutations(Workers)
=============================================================================
