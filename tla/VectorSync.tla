------------------------------ MODULE VectorSync ------------------------------
(***************************************************************************)
(* What the vectorisation of a document promises, seen from outside (the   *)
(* "clear, then write" of ingest_chunks in app/routers/internal/tasks.py   *)
(* and _ingest_chunks_background in app/routers/sessions.py):              *)
(*                                                                         *)
(*   - one job at a time touches the points of the document, and nobody    *)
(*     else does;                                                          *)
(*   - while it runs the session keeps its status;                         *)
(*   - the points are those of before the job or some of the job's own,    *)
(*     never a mixture of the two;                                         *)
(*   - a job ends in done only if the points are exactly its rows.         *)
(*                                                                         *)
(* Ingestion implements it with a row lock, crashes and redeliveries, and  *)
(* VectorWriter with concurrent embeddings, batches and rollbacks.         *)
(***************************************************************************)

VARIABLES
    status,     \* the status of the document's session
    vectors,    \* the points of the document in Qdrant
    job         \* the rows being vectorised; {}: no job

syncVars == <<status, vectors, job>>

Free == job = {}

Init ==
    /\ vectors = {}
    /\ Free

\* The rest of the session's life, and a session without chunks.
Lifecycle ==
    /\ Free
    /\ status' # status
    /\ UNCHANGED <<vectors, job>>

Begin ==
    /\ Free
    /\ job' # {}
    /\ UNCHANGED <<status, vectors>>

\* The clear, an upsert, a rollback.
Rewrite ==
    /\ ~Free
    /\ vectors' \subseteq job
    /\ UNCHANGED <<status, job>>

Done ==
    /\ ~Free
    /\ vectors = job
    /\ status' = "done"
    /\ job' = {}
    /\ UNCHANGED vectors

Fail ==
    /\ ~Free
    /\ status' = "failed"
    /\ job' = {}
    /\ UNCHANGED vectors

\* The job is rolled back or its instance dies, perhaps with its clear applied.
Drop ==
    /\ ~Free
    /\ job' = {}
    /\ vectors' = vectors \/ vectors' = {}
    /\ UNCHANGED status

Next == Lifecycle \/ Begin \/ Rewrite \/ Done \/ Fail \/ Drop

Spec == Init /\ [][Next]_syncVars
=============================================================================
