-------------------------- MODULE MCCodeInjection --------------------------
(* Small instances of CodeInjection: files of one product, with and without  *)
(* a face, and of another; chunks of the product, with and without a face.   *)
EXTENDS CodeInjection, TLC

CONSTANTS p, q, A

MCFilenames == {[products |-> {p}, suffixes |-> {A}],
                [products |-> {p}, suffixes |-> {}],
                [products |-> {q}, suffixes |-> {}]}

MCKinds == {[product |-> p, suffix |-> A], [product |-> p, suffix |-> None]}

MCEditKinds == {[product |-> p, suffix |-> None]}

Symmetry == Permutations(Injectors) \cup Permutations(Documents)
=============================================================================
