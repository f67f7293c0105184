---------------------------- MODULE MCVectorWriter ----------------------------
(* Small instances of VectorWriter for TLC: one document of three chunks, so  *)
(* that a majority and a tie exist, next to a document of one chunk.          *)
EXTENDS VectorWriter, TLC

CONSTANTS d, e, m, n, none

MCSize == (d :> 3) @@ (e :> 1)

\* A majority that is read last; a tie next to a chunk without a name.
MCNamings == (d :> {<<m, n, n>>, <<n, m, none>>}) @@ (e :> {<<m>>})

\* For the run that watches the embedding calls.
MCSmallSize == (d :> 2)
MCSmallNamings == (d :> {<<m, n>>})
=============================================================================
