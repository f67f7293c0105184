----------------------------- MODULE VectorWriter -----------------------------
(***************************************************************************)
(* The vectorisation of several documents in one process (steps 3 to 6 of  *)
(* ingest_chunks in app/routers/internal/tasks.py, the same steps of       *)
(* _ingest_chunks_background, app/services/ai/qdrant_service.py), with the *)
(* questions that embed next to it.                                        *)
(*                                                                         *)
(* The row lock that leaves one run to a document is Ingestion's subject.  *)
(* Here the runs of different documents share the embedding client and the *)
(* collection, an execution is any number of attempts at the same rows,    *)
(* and each Qdrant call is a step.  Calls on the collection take effect in *)
(* the order they are sent.                                                *)
(***************************************************************************)
EXTENDS Naturals, FiniteSets, Sequences, FiniteSetsExt

CONSTANTS
    Docs,
    Questions,      \* questions being embedded
    Runs,           \* numbers of runs whose calls may still be under way
    Size,           \* the number of chunks of each document
    Names, NoName,  \* product names, and a chunk without one
    Namings,        \* the names a conversion may give the chunks of a document
    Slots, Attempts,\* of the embedding client
    BatchSize,      \* UPSERT_BATCH_SIZE
    PageSize,       \* the limit of a scroll
    MaxConversions, \* bound: conversions of a document
    MaxFaults       \* bound: crashes and failing Qdrant calls

ASSUME WriterAssumption ==
    /\ Docs \cap Questions = {}
    /\ IsFiniteSet(Docs) /\ IsFiniteSet(Questions) /\ IsFiniteSet(Runs)
    /\ Runs # {}
    /\ Size \in [Docs -> Nat \ {0}]
    /\ NoName \notin Names
    /\ \A d \in Docs : Namings[d] \subseteq [1..Size[d] -> Names \cup {NoName}]
    /\ Slots \in Nat \ {0}
    /\ Attempts \in Nat \ {0}
    /\ BatchSize \in Nat \ {0}
    /\ PageSize \in Nat \ {0}
    /\ MaxConversions \in Nat
    /\ MaxFaults \in Nat

VARIABLES
    status,         \* of the session of each document
    conversion,     \* the number of its last conversion
    chunks,         \* the committed chunks rows of each document
    points,         \* the points of the collection
    at,             \* where the run of each document is
    run,            \* its number
    todo,           \* the chunks it has yet to upsert
    read,           \* the points its scroll has returned
    faults,
    call, tries, queue, permits     \* the embedding client

runVars == <<at, run, todo, read>>
docVars == <<status, conversion, chunks>>

-----------------------------------------------------------------------------
\* One call for each chunk of a run, one for each question.
CallsOf(d, k) == {<<d, k, i>> : i \in 1..Size[d]}
QuestionCall(q) == <<q, 0, 0>>
Calls == {QuestionCall(q) : q \in Questions}
            \cup (UNION {CallsOf(d, k) : d \in Docs, k \in Runs})

INSTANCE EmbeddingClient WITH
    awaited <- {QuestionCall(q) : q \in Questions}
                 \cup UNION {CallsOf(d, run[d]) : d \in {x \in Docs : at[x] = "embed"}}

clientVars == <<call, tries, queue, permits>>
vars == <<docVars, points, runVars, faults, clientVars>>

\* A chunk has a fresh id in every conversion; ids are ordered, and Qdrant
\* scrolls in their order.
Conversions(d, n) ==
    {{[doc |-> d, id |-> n * Size[d] + i, name |-> naming[i]] : i \in 1..Size[d]} :
        naming \in Namings[d]}

Ids(S) == {p.id : p \in S}

PointsOf(d) == {p \in points : p.doc = d}

\* upsert_chunks: a batch replaces the points with the same ids.
SameId(p, r) == p.doc = r.doc /\ p.id = r.id
Upserted(batch) == {p \in points : \A r \in batch : ~SameId(p, r)} \cup batch

Batches(S) == {b \in SUBSET S : Cardinality(b) = BatchSize \/ (b = S /\ Cardinality(b) < BatchSize)}

\* (variant) the filter of the delete has lost its doc_id condition.
CompanyCleared(d) == {}

\* delete_chunks_by_doc_ids.
Cleared(d) == points \ PointsOf(d)

\* delete_chunks_by_ids, with the ids of the run.
RolledBack(d) == {p \in points : \A r \in chunks[d] : ~SameId(p, r)}

\* The next page of a scroll over the points of the document.
Unread(d) == {p \in PointsOf(d) : \A r \in read[d] : r.id < p.id}
Page(d) == {p \in Unread(d) : Cardinality({q \in Unread(d) : q.id < p.id}) < PageSize}

\* (variant) the offset of the next page is not followed.
FirstPageOnly(d) == TRUE

LastPage(d) == Unread(d) = Page(d)

\* Counter(names).most_common(1): the most frequent name, the first one read
\* among equals.
Frequency(S, n) == Cardinality({p \in S : p.name = n})
NamesIn(S) == {p.name : p \in S} \ {NoName}
FirstId(S, n) == Min(Ids({p \in S : p.name = n}))
MajorityName(S) ==
    CHOOSE n \in NamesIn(S) :
        \A m \in NamesIn(S) \ {n} :
            \/ Frequency(S, n) > Frequency(S, m)
            \/ Frequency(S, n) = Frequency(S, m) /\ FirstId(S, n) < FirstId(S, m)

Minority(S) == {p \in S : p.name # NoName /\ p.name # MajorityName(S)}

\* set_payload on the minority's ids.
Renamed(S) ==
    {IF \E r \in Minority(S) : SameId(p, r)
     THEN [p EXCEPT !.name = MajorityName(S)] ELSE p : p \in points}

-----------------------------------------------------------------------------
Init ==
    /\ status = [d \in Docs |-> "confirmed"]
    /\ conversion = [d \in Docs |-> 1]
    /\ chunks \in [Docs -> UNION {Conversions(d, 1) : d \in Docs}]
    /\ \A d \in Docs : chunks[d] \in Conversions(d, 1)
    /\ points = {}
    /\ at = [d \in Docs |-> "idle"]
    /\ run = [d \in Docs |-> CHOOSE k \in Runs : TRUE]
    /\ todo = [d \in Docs |-> {}]
    /\ read = [d \in Docs |-> {}]
    /\ faults = 0
    /\ EmbedInit

Fault ==
    /\ faults < MaxFaults
    /\ faults' = faults + 1

Goto(d, location) == at' = [at EXCEPT ![d] = location]

Reset(d) ==
    /\ todo' = [todo EXCEPT ![d] = {}]
    /\ read' = [read EXCEPT ![d] = {}]
    /\ UNCHANGED run

Finish(d) == Goto(d, "idle") /\ Reset(d)

-----------------------------------------------------------------------------
(* A run.                                                                   *)

\* The document is reprocessed and confirmed again; each conversion names its
\* chunks anew.
Reconfirm(d) ==
    /\ at[d] = "idle"
    /\ status[d] \in {"done", "failed"}
    /\ conversion[d] < MaxConversions
    /\ conversion' = [conversion EXCEPT ![d] = @ + 1]
    /\ \E new \in Conversions(d, conversion[d] + 1) :
            chunks' = [chunks EXCEPT ![d] = new]
    /\ status' = [status EXCEPT ![d] = "confirmed"]
    /\ UNCHANGED <<points, runVars, faults, clientVars>>

\* embed_texts: calls an earlier run has left behind do not matter.
Begin(d) ==
    /\ at[d] = "idle"
    /\ status[d] = "confirmed"
    /\ \E k \in Runs :
        /\ \A c \in CallsOf(d, k) : call[c] = "none"
        /\ run' = [run EXCEPT ![d] = k]
        /\ Start(CallsOf(d, k))
    /\ Goto(d, "embed")
    /\ UNCHANGED <<docVars, points, todo, read, faults>>

Embedded(d) ==
    /\ at[d] = "embed"
    /\ \A c \in CallsOf(d, run[d]) : call[c] = "ok"
    /\ Gather(CallsOf(d, run[d]))
    /\ Goto(d, "clear")
    /\ UNCHANGED <<docVars, points, run, todo, read, faults>>

\* The first exception ends the gather, whatever is still under way.
EmbedRaises(d) ==
    /\ at[d] = "embed"
    /\ \E c \in CallsOf(d, run[d]) : call[c] = "error"
    /\ Gather(CallsOf(d, run[d]))
    /\ Goto(d, "abort")
    /\ UNCHANGED <<docVars, points, run, todo, read, faults>>

Clear(d) ==
    /\ at[d] = "clear"
    /\ points' = Cleared(d)
    /\ todo' = [todo EXCEPT ![d] = chunks[d]]
    /\ Goto(d, "upsert")
    /\ UNCHANGED <<docVars, run, read, faults, clientVars>>

Upsert(d) ==
    /\ at[d] = "upsert"
    /\ \E batch \in Batches(todo[d]) :
        /\ points' = Upserted(batch)
        /\ todo' = [todo EXCEPT ![d] = @ \ batch]
        /\ Goto(d, IF batch = todo[d] THEN "scroll" ELSE "upsert")
    /\ UNCHANGED <<docVars, run, read, faults, clientVars>>

\* A batch raises, applied or not.
UpsertRaises(d) ==
    /\ at[d] = "upsert"
    /\ Fault
    /\ \/ UNCHANGED points
       \/ \E batch \in Batches(todo[d]) : points' = Upserted(batch)
    /\ Goto(d, "undo")
    /\ UNCHANGED <<docVars, run, todo, read, clientVars>>

\* Best effort: a rollback that raises is only logged.
Undo(d) ==
    /\ at[d] = "undo"
    /\ \/ points' = RolledBack(d) /\ UNCHANGED faults
       \/ UNCHANGED points /\ Fault
    /\ Goto(d, "abort")
    /\ UNCHANGED <<docVars, run, todo, read, clientVars>>

Abort(d) ==
    /\ at[d] = "abort"
    /\ status' = [status EXCEPT ![d] = "failed"]
    /\ Finish(d)
    /\ UNCHANGED <<conversion, chunks, points, faults, clientVars>>

-----------------------------------------------------------------------------
(* normalize_product_name_by_doc, then the commit of done.                  *)

Scroll(d) ==
    /\ at[d] = "scroll"
    /\ read' = [read EXCEPT ![d] = @ \cup Page(d)]
    /\ Goto(d, IF LastPage(d) THEN "rename" ELSE "scroll")
    /\ UNCHANGED <<docVars, points, run, todo, faults, clientVars>>

Rename(d) ==
    /\ at[d] = "rename"
    /\ points' = Renamed(read[d])
    /\ Goto(d, "commit")
    /\ UNCHANGED <<docVars, run, todo, read, faults, clientVars>>

Done(d) ==
    /\ at[d] = "commit"
    /\ status' = [status EXCEPT ![d] = "done"]
    /\ Finish(d)
    /\ UNCHANGED <<conversion, chunks, points, faults, clientVars>>

\* The delete or the set_payload (applied or not) or a scroll raises and the
\* transaction is rolled back: a task is delivered again, a background run opens
\* a second session to say failed.
RunRaises(d) ==
    /\ at[d] \in {"clear", "scroll", "rename"}
    /\ Fault
    /\ \/ UNCHANGED points
       \/ at[d] = "clear" /\ points' = Cleared(d)
       \/ at[d] = "rename" /\ points' = Renamed(read[d])
    /\ \E next \in {"idle", "giveup"} : Goto(d, next)
    /\ Reset(d)
    /\ UNCHANGED <<docVars, clientVars>>

GiveUp(d) ==
    /\ at[d] = "giveup"
    /\ status' = [status EXCEPT ![d] = "failed"]
    /\ Goto(d, "idle")
    /\ UNCHANGED <<conversion, chunks, points, run, todo, read, faults, clientVars>>

-----------------------------------------------------------------------------
\* The instance dies: every run and every call with it.
Crash ==
    /\ Fault
    /\ \E d \in Docs : at[d] # "idle"
    /\ at' = [d \in Docs |-> "idle"]
    /\ todo' = [d \in Docs |-> {}]
    /\ read' = [d \in Docs |-> {}]
    /\ LoseCalls
    /\ UNCHANGED <<docVars, points, run>>

\* ask: the question is embedded with the process's other texts.
Ask(q) ==
    /\ call[QuestionCall(q)] = "none"
    /\ Start({QuestionCall(q)})
    /\ UNCHANGED <<docVars, points, runVars, faults>>

\* Its vector, or a 500.
Answer(q) ==
    /\ call[QuestionCall(q)] \in Outcomes
    /\ Gather({QuestionCall(q)})
    /\ UNCHANGED <<docVars, points, runVars, faults>>

EmbeddingStep(c) ==
    /\ CallStep(c)
    /\ UNCHANGED <<docVars, points, runVars, faults>>

RunStep(d) ==
    \/ Begin(d) \/ Embedded(d) \/ EmbedRaises(d) \/ Clear(d) \/ Upsert(d)
    \/ UpsertRaises(d) \/ Undo(d) \/ Abort(d) \/ Scroll(d) \/ Rename(d)
    \/ Done(d) \/ RunRaises(d) \/ GiveUp(d)

Next ==
    \/ \E d \in Docs : RunStep(d) \/ Reconfirm(d)
    \/ \E c \in Calls : EmbeddingStep(c)
    \/ \E q \in Questions : Ask(q) \/ Answer(q)
    \/ Crash

Spec == Init /\ [][Next]_vars

\* Coroutines of a live process; users owe no question and no reprocessing.
FairSpec ==
    /\ Spec
    /\ \A d \in Docs : WF_vars(RunStep(d))
    /\ \A c \in Calls : WF_vars(EmbeddingStep(c))
    /\ \A q \in Questions : WF_vars(Answer(q))

-----------------------------------------------------------------------------
(* Properties.                                                              *)

Chunk == [doc : Docs, id : Nat, name : Names \cup {NoName}]

\* Every variable keeps its type.
TypeOK ==
    /\ status \in [Docs -> {"confirmed", "done", "failed"}]
    /\ conversion \in [Docs -> Nat]
    /\ chunks \in [Docs -> SUBSET Chunk]
    /\ points \subseteq Chunk
    /\ at \in [Docs -> {"idle", "embed", "clear", "upsert", "undo", "abort",
                        "scroll", "rename", "commit", "giveup"}]
    /\ run \in [Docs -> Runs]
    /\ todo \in [Docs -> SUBSET Chunk]
    /\ read \in [Docs -> SUBSET Chunk]
    /\ faults \in Nat
    /\ EmbedTypeOK

Sync(d) == INSTANCE VectorSync WITH
                status  <- status[d],
                vectors <- Ids(PointsOf(d)),
                job     <- IF at[d] \in {"idle", "giveup"} THEN {} ELSE Ids(chunks[d])

\* Seen from its points, every document's vectorisation keeps the promise of
\* VectorSync, whatever the other documents, the failing calls and the crashes
\* do: nobody but its own run touches its points.  (\A d \in Docs : Sync(d)!Spec,
\* in the form TLC evaluates.)
ImplementsVectorSync ==
    /\ \A d \in Docs : Sync(d)!Init
    /\ [][\A d \in Docs : [Sync(d)!Next]_(Sync(d)!syncVars)]_vars

\* A done document answers under a single product name, one of the most frequent
\* of those its chunks were given; chunks without a name keep none.
OneMajorityName ==
    \A d \in Docs : status[d] = "done" =>
        \A p \in PointsOf(d) :
            /\ (p.name = NoName) = (\E r \in chunks[d] : SameId(p, r) /\ r.name = NoName)
            /\ p.name # NoName =>
                /\ \A r \in PointsOf(d) : r.name \in {NoName, p.name}
                /\ \A n \in Names : Frequency(chunks[d], n) <= Frequency(chunks[d], p.name)

\* Every run ends, done, failed or to be delivered again.
RunEnds == \A d \in Docs : at[d] # "idle" ~> at[d] = "idle"

\* Every question gets its vector or its error, behind any number of chunks and
\* of calls left behind.
QuestionEnds ==
    \A q \in Questions : call[QuestionCall(q)] # "none" ~> call[QuestionCall(q)] = "none"
=============================================================================
