--------------------------- MODULE MCPreviewPage ---------------------------
(* Small instances of PreviewPage; the slots of requests are interchangeable. *)
EXTENDS PreviewPage, TLC

SlotSymmetry == Permutations(Slots)
=============================================================================
