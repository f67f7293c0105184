------------------------------ MODULE Ingestion ------------------------------
(***************************************************************************)
(* The life of one ingestion session: upload, preview, confirmation,       *)
(* vectorisation, rejection and reprocessing (app/routers/upload.py,       *)
(* app/routers/sessions.py, app/routers/internal/tasks.py).                *)
(*                                                                         *)
(* A session owns exactly one document, every SQL statement below filters  *)
(* on that session or that document, and every Qdrant call filters on that *)
(* document, so one session is modelled and the others run beside it.      *)
(*                                                                         *)
(* The unit of atomicity is the committed SQL transaction (READ COMMITTED, *)
(* get_db commits when the handler returns) and the single Qdrant call: a  *)
(* handler that reads, awaits and writes is one action per such step.      *)
(* SQLAlchemy emits an UPDATE only for an attribute whose value differs    *)
(* from the one loaded, so what a handler writes depends on what it read.  *)
(***************************************************************************)
EXTENDS Naturals, FiniteSets

CONSTANTS
    Users,          \* concurrent API requests on the session
    Workers,        \* concurrent executions of a task (any instance)
    NoWorker,       \* the session row is not locked
    Parts,          \* the upsert batches (50 points) a document's chunks fill
    Vectorised,     \* TRUE: docx / pdf.  FALSE: tap, nc, dxf, unknown
    EmptyOutput,    \* may the conversion return no chunk (a docx can)
    Operations,     \* the requests the users issue
    FaultKinds,     \* the faults the environment may inject
    MaxTries,       \* attempts at creating a Cloud Task
    \* bounds of the exploration
    MaxBatches, MaxRequests, MaxFaults, MaxRevision

ASSUME ConstantsAssumption ==
    /\ NoWorker \notin Workers
    /\ Vectorised \in BOOLEAN
    /\ EmptyOutput \in BOOLEAN
    /\ Operations \subseteq {"confirm", "reject", "reprocess", "patch"}
    /\ FaultKinds \subseteq {"crash", "error", "duplicate", "exhaust", "enqueue"}
    /\ Parts # {}
    /\ MaxTries \in Nat \ {0}
    /\ MaxBatches \in Nat
    /\ MaxRequests \in Nat
    /\ MaxFaults \in Nat
    /\ MaxRevision \in Nat

VARIABLES
    status,      \* ingestion_sessions.status as committed; "absent": no row
    ruleUsed,    \* ingestion_sessions.rule_version_used IS NOT NULL
    chunks,      \* the committed chunks rows of the document
    lock,        \* the worker holding the row lock of the session
    qdrant,      \* the points of the document in Qdrant
    processQ,    \* queued process-document tasks
    ingestQ,     \* queued ingest-chunks tasks
    processBG,   \* pending _process_document_background calls
    ingestBG,    \* pending _ingest_chunks_background calls
    rpc,         \* where each request is
    seen,        \* the session status a reprocess request has read
    target,      \* the chunk id a patch request is about (a set of at most one)
    tries,       \* failed attempts of the enqueue loop of a request
    pc,          \* where each worker is
    via,         \* how its execution was started
    loaded,      \* the session status a process-document run has read
    rows,        \* chunks rows it has deleted, or is vectorising
    todo,        \* rows it will insert, or has yet to upsert
    nextBatch,   \* the next batch of chunk ids (uuid4)
    requests,    \* requests accepted so far
    faults,      \* faults injected so far
    lost,        \* the kinds of work a fault has silently dropped
    slips        \* what has happened that done does not survive (history)

pgVars     == <<status, ruleUsed, chunks, lock>>
queueVars  == <<processQ, ingestQ, processBG, ingestBG>>
reqVars    == <<rpc, seen, target, tries>>
workerVars == <<pc, via, loaded, rows, todo>>
vars == <<pgVars, qdrant, queueVars, reqVars, workerVars,
          nextBatch, requests, faults, lost, slips>>

-----------------------------------------------------------------------------
(* A chunks row is its batch (one conversion), its part and its revision;  *)
(* batch and part stand for the chunk_id.                                  *)

Row    == Nat \X Parts \X Nat
Id(r)  == <<r[1], r[2]>>
Ids(S) == {Id(r) : r \in S}

\* Qdrant replaces the point that has the same id.
Upserted(points, new) == {p \in points : Id(p) \notin Ids(new)} \cup new
\* (variant) the old points are not cleared before the upserts.
NotCleared == qdrant
Cleared == {}
Without(points, ids)  == {p \in points : Id(p) \notin ids}

Status == {"absent", "pending_preview", "confirmed", "done", "failed"}

\* Locations of a request between its read and its commit, and between its
\* commit and the enqueue.
Handling  == {"confirming", "rejecting", "reprocessing", "patching"}
Enqueuing == {"enqueueProcess", "enqueueIngest"}

\* Locations of process-document, and of ingest-chunks without and with the
\* session row locked.
Processing  == {"convert", "delete", "save", "fail"}
Unlocked    == {"bgChunks", "bgEmpty", "bgLock", "bgFail"}
Vectorising == {"embed", "clear", "upsert", "undo", "abort", "normalize"}
Ingesting   == Unlocked \cup Vectorising

RowFree == lock = NoWorker

\* The session row stays locked from the flush (or the SELECT ... FOR UPDATE)
\* to the end of the transaction.
Hold(w)    == lock' = w
Release(w) == lock' = IF lock = w THEN NoWorker ELSE lock

Fault(kind) ==
    /\ kind \in FaultKinds
    /\ faults < MaxFaults
    /\ faults' = faults + 1

\* What leaves done without its chunks behind: a confirmation of a session that
\* has none yet, a second conversion, a vectorisation of what is done already,
\* an edit after the preview.
Slip(name, happens) == slips' = IF happens THEN slips \cup {name} ELSE slips

-----------------------------------------------------------------------------
Init ==
    /\ status = "absent"
    /\ ruleUsed = FALSE
    /\ chunks = {}
    /\ lock = NoWorker
    /\ qdrant = {}
    /\ processQ = 0 /\ ingestQ = 0 /\ processBG = 0 /\ ingestBG = 0
    /\ rpc = [u \in Users |-> "idle"]
    /\ seen = [u \in Users |-> "absent"]
    /\ target = [u \in Users |-> {}]
    /\ tries = [u \in Users |-> 0]
    /\ pc = [w \in Workers |-> "idle"]
    /\ via = [w \in Workers |-> "task"]
    /\ loaded = [w \in Workers |-> "absent"]
    /\ rows = [w \in Workers |-> {}]
    /\ todo = [w \in Workers |-> {}]
    /\ nextBatch = 0
    /\ requests = 0
    /\ faults = 0
    /\ lost = {}
    /\ slips = {}

-----------------------------------------------------------------------------
(* API requests.                                                           *)

Goto(u, location) == rpc' = [rpc EXCEPT ![u] = location]

Respond(u) ==
    /\ Goto(u, "idle")
    /\ seen' = [seen EXCEPT ![u] = "absent"]
    /\ target' = [target EXCEPT ![u] = {}]
    /\ tries' = [tries EXCEPT ![u] = 0]

\* POST /upload: the session and its document are committed together, then
\* the task is created.  A refused file or a failed GCS write changes nothing.
Upload(u) ==
    /\ rpc[u] = "idle"
    /\ status = "absent"
    /\ status' = "pending_preview"
    /\ Goto(u, "enqueueProcess")
    /\ UNCHANGED <<ruleUsed, chunks, lock, qdrant, queueVars, seen, target, tries,
                   workerVars, nextBatch, requests, faults, lost, slips>>

\* The handlers' guards, on a plain SELECT of the session.
Accept(u, operation, location) ==
    /\ rpc[u] = "idle"
    /\ operation \in Operations
    /\ requests < MaxRequests
    /\ requests' = requests + 1
    /\ Goto(u, location)
    /\ UNCHANGED <<pgVars, qdrant, queueVars, tries, workerVars, nextBatch,
                   faults, lost>>

\* The preview page offers the button for a converted document or a code file;
\* the handler does not ask.
CanConfirm == chunks # {} \/ ~Vectorised

ConfirmRead(u) ==
    /\ status = "pending_preview"
    /\ Accept(u, "confirm", "confirming")
    /\ Slip("unready", ~CanConfirm)
    /\ UNCHANGED <<seen, target>>

RejectRead(u) ==
    /\ status \in {"pending_preview", "confirmed"}
    /\ Accept(u, "reject", "rejecting")
    /\ UNCHANGED <<seen, target, slips>>

ReprocessRead(u) ==
    /\ status \in {"pending_preview", "done", "failed"}
    /\ Accept(u, "reprocess", "reprocessing")
    /\ seen' = [seen EXCEPT ![u] = status]
    /\ Slip("again", TRUE)
    /\ UNCHANGED target

PatchRead(u) ==
    /\ status = "pending_preview"
    /\ \E r \in chunks :
        /\ r[3] < MaxRevision
        /\ target' = [target EXCEPT ![u] = {Id(r)}]
    /\ Accept(u, "patch", "patching")
    /\ UNCHANGED <<seen, slips>>

\* (variant) the transient status is what gets committed.
SetTransient(new) ==
    /\ RowFree
    /\ status' = "processing"

\* (variant) the UPDATE does not wait for the row lock.
SetAtOnce(new) == status' = new

\* An UPDATE of the session row waits for the row lock and overwrites the
\* status whatever it has become since it was read.
SetStatus(new) ==
    /\ RowFree
    /\ status' = new

ConfirmCommit(u) ==
    /\ rpc[u] = "confirming"
    /\ SetStatus("confirmed")
    /\ Goto(u, "enqueueIngest")
    /\ UNCHANGED <<ruleUsed, chunks, lock, qdrant, queueVars, seen, target, tries,
                   workerVars, nextBatch, requests, faults, lost, slips>>

RejectCommit(u) ==
    /\ rpc[u] = "rejecting"
    /\ SetStatus("failed")
    /\ Respond(u)
    /\ UNCHANGED <<ruleUsed, chunks, lock, qdrant, queueVars, workerVars,
                   nextBatch, requests, faults, lost, slips>>

\* A session read as pending_preview keeps its status: the assignment
\* changes no column, so none is written.
ReprocessCommit(u) ==
    /\ rpc[u] = "reprocessing"
    /\ \/ seen[u] # "pending_preview" /\ SetStatus("pending_preview")
       \/ seen[u] = "pending_preview" /\ UNCHANGED status
    /\ Goto(u, "enqueueProcess")
    /\ seen' = [seen EXCEPT ![u] = "absent"]
    /\ UNCHANGED <<ruleUsed, chunks, lock, qdrant, queueVars, target, tries,
                   workerVars, nextBatch, requests, faults, lost, slips>>

\* UPDATE chunks by primary key, without another look at the session; a row
\* deleted meanwhile fails the flush.
PatchCommit(u) ==
    /\ rpc[u] = "patching"
    /\ \/ \E r \in chunks :
            /\ Id(r) \in target[u]
            /\ r[3] < MaxRevision
            /\ chunks' = (chunks \ {r}) \cup {<<r[1], r[2], r[3] + 1>>}
            /\ Slip("lateEdit", status # "pending_preview")
       \/ target[u] \cap Ids(chunks) = {} /\ UNCHANGED <<chunks, slips>>
    /\ Respond(u)
    /\ UNCHANGED <<status, ruleUsed, lock, qdrant, queueVars, workerVars,
                   nextBatch, requests, faults, lost>>

-----------------------------------------------------------------------------
(* _enqueue_with_fallback and _enqueue_ingest_with_fallback.               *)

CreateTask(u) ==
    \/ /\ rpc[u] = "enqueueProcess"
       /\ processQ' = processQ + 1
       /\ UNCHANGED ingestQ
    \/ /\ rpc[u] = "enqueueIngest"
       /\ ingestQ' = ingestQ + 1
       /\ UNCHANGED processQ

EnqueueOk(u) ==
    /\ CreateTask(u)
    /\ Respond(u)
    /\ UNCHANGED <<pgVars, qdrant, processBG, ingestBG, workerVars,
                   nextBatch, requests, faults, lost, slips>>

\* background_tasks.add_task.
Fallback(u) ==
    \/ /\ rpc[u] = "enqueueProcess"
       /\ processBG' = processBG + 1
       /\ UNCHANGED ingestBG
    \/ /\ rpc[u] = "enqueueIngest"
       /\ ingestBG' = ingestBG + 1
       /\ UNCHANGED processBG

\* create_task raises.  Under the fault "duplicate" the task exists all the
\* same (the answer was lost).  The last attempt falls back to the API process.
EnqueueError(u) ==
    /\ rpc[u] \in Enqueuing
    /\ "enqueue" \in FaultKinds
    /\ \/ UNCHANGED <<processQ, ingestQ, faults, slips>>
       \/ /\ CreateTask(u)
          /\ Fault("duplicate")
          /\ Slip("again", rpc[u] = "enqueueProcess")
    /\ IF tries[u] + 1 < MaxTries
       THEN /\ tries' = [tries EXCEPT ![u] = @ + 1]
            /\ UNCHANGED <<rpc, seen, target, processBG, ingestBG>>
       ELSE /\ Respond(u)
            /\ Fallback(u)
    /\ UNCHANGED <<pgVars, qdrant, workerVars, nextBatch, requests, lost>>

\* The instance dies while it serves the request: an open transaction rolls
\* back, a commit already made stays, its task is never created.
RequestCrash(u) ==
    /\ rpc[u] # "idle"
    /\ Fault("crash")
    /\ lost' = lost \cup (CASE rpc[u] = "enqueueProcess" -> {"process"}
                            [] rpc[u] = "enqueueIngest"  -> {"ingest"}
                            [] OTHER -> {})
    /\ Respond(u)
    /\ UNCHANGED <<pgVars, qdrant, queueVars, workerVars, nextBatch, requests, slips>>

-----------------------------------------------------------------------------
(* Cloud Tasks and FastAPI BackgroundTasks.  A start with the fault         *)
(* "duplicate" leaves the task in the queue: it is delivered again, while   *)
(* this execution runs or after it.                                         *)

TakeProcessTask ==
    /\ processQ > 0
    /\ \/ processQ' = processQ - 1 /\ UNCHANGED <<faults, slips>>
       \/ processQ' = processQ /\ Fault("duplicate") /\ Slip("again", TRUE)
    /\ UNCHANGED <<ingestQ, processBG, ingestBG>>

TakeIngestTask ==
    /\ ingestQ > 0
    /\ \/ ingestQ' = ingestQ - 1 /\ UNCHANGED faults
       \/ ingestQ' = ingestQ /\ Fault("duplicate")
    /\ UNCHANGED <<processQ, processBG, ingestBG>>

\* (variants) the handler answers 200 whatever happened.
AckProcess == UNCHANGED processQ
AckIngest  == UNCHANGED ingestQ

\* An execution that did not answer 2xx is delivered again.
RedeliverProcess == processQ' = processQ + 1
RedeliverIngest  == ingestQ' = ingestQ + 1

\* The queue gives a task up after its last attempt.
ExhaustTask ==
    /\ Fault("exhaust")
    /\ \/ /\ processQ > 0
          /\ processQ' = processQ - 1
          /\ lost' = lost \cup {"process"}
          /\ UNCHANGED ingestQ
       \/ /\ ingestQ > 0
          /\ ingestQ' = ingestQ - 1
          /\ lost' = lost \cup {"ingest"}
          /\ UNCHANGED processQ
    /\ UNCHANGED <<pgVars, qdrant, processBG, ingestBG, reqVars, workerVars,
                   nextBatch, requests, slips>>

\* The instance dies before it has run its BackgroundTask.
BackgroundCrash ==
    /\ Fault("crash")
    /\ \/ /\ processBG > 0
          /\ processBG' = processBG - 1
          /\ lost' = lost \cup {"process"}
          /\ UNCHANGED ingestBG
       \/ /\ ingestBG > 0
          /\ ingestBG' = ingestBG - 1
          /\ lost' = lost \cup {"ingest"}
          /\ UNCHANGED processBG
    /\ UNCHANGED <<pgVars, qdrant, processQ, ingestQ, reqVars, workerVars,
                   nextBatch, requests, slips>>

-----------------------------------------------------------------------------
(* Worker bookkeeping.                                                      *)

Jump(w, location) == pc' = [pc EXCEPT ![w] = location]

Finish(w) ==
    /\ Jump(w, "idle")
    /\ via' = [via EXCEPT ![w] = "task"]
    /\ loaded' = [loaded EXCEPT ![w] = "absent"]
    /\ rows' = [rows EXCEPT ![w] = {}]
    /\ todo' = [todo EXCEPT ![w] = {}]

-----------------------------------------------------------------------------
(* process-document and _process_document_background.                       *)

\* (variant) the worker waits for the confirmation.
NotConfirmed == status # "confirmed"

\* The task path stops at once when the session is failed.
SessionStopped == status = "failed"

SkipProcess(w) ==
    /\ pc[w] = "idle"
    /\ TakeProcessTask
    /\ SessionStopped
    /\ UNCHANGED <<pgVars, qdrant, reqVars, workerVars, nextBatch, requests, lost>>

StartProcess(w) ==
    /\ pc[w] = "idle"
    /\ \/ /\ TakeProcessTask
          /\ ~SessionStopped
          /\ UNCHANGED via
       \/ /\ processBG > 0
          /\ processBG' = processBG - 1
          /\ via' = [via EXCEPT ![w] = "background"]
          /\ UNCHANGED <<processQ, ingestQ, ingestBG, faults, slips>>
    /\ loaded' = [loaded EXCEPT ![w] = status]
    /\ Jump(w, "convert")
    /\ UNCHANGED <<pgVars, qdrant, reqVars, rows, todo, nextBatch, requests, lost>>

\* Download, parse and Gemini; a code file goes straight to its status write.
Convert(w) ==
    /\ pc[w] = "convert"
    /\ \/ /\ Vectorised
          /\ nextBatch < MaxBatches
          /\ \E produced \in {Parts} \cup (IF EmptyOutput THEN {{}} ELSE {}) :
                todo' = [todo EXCEPT ![w] = {nextBatch} \X produced \X {0}]
          /\ nextBatch' = nextBatch + 1
          /\ Jump(w, "delete")
       \/ /\ ~Vectorised
          /\ Jump(w, "save")
          /\ UNCHANGED <<todo, nextBatch>>
    /\ UNCHANGED <<pgVars, qdrant, queueVars, reqVars, via, loaded, rows,
                   requests, faults, lost, slips>>

\* GeminiMaxRetriesError, or any other exception before the first SQL write.
ConvertFails(w) ==
    /\ pc[w] = "convert"
    /\ Jump(w, "fail")
    /\ UNCHANGED <<pgVars, qdrant, queueVars, reqVars, via, loaded, rows, todo,
                   nextBatch, requests, faults, lost, slips>>

\* (variant) the chunks an engineer has edited survive the DELETE.
KeepEdited == {r \in chunks : r[3] = 0}

\* The rows a DELETE ... WHERE doc_id sees.
Deleted == chunks

\* DELETE FROM chunks WHERE doc_id: it sees the rows committed so far.  Row
\* locks on chunks and documents order the commits of two runs; both orders
\* remain possible.
DeleteRows(w) ==
    /\ pc[w] = "delete"
    /\ rows' = [rows EXCEPT ![w] = Deleted]
    /\ Jump(w, "save")
    /\ UNCHANGED <<pgVars, qdrant, queueVars, reqVars, via, loaded, todo,
                   nextBatch, requests, faults, lost, slips>>

\* The flush and the commit.  The session row is written, under its lock, when
\* its status was not read as pending_preview or rule_version_used changes: for
\* sure from NULL, later perhaps (no new rule), so then it may go either way.
WritesSession(w) == loaded[w] # "pending_preview" \/ (Vectorised /\ ~ruleUsed)

SaveCommit(w) ==
    /\ pc[w] = "save"
    /\ WritesSession(w) => RowFree
    /\ status' = IF loaded[w] # "pending_preview" THEN "pending_preview" ELSE status
    /\ ruleUsed' = (ruleUsed \/ Vectorised)
    /\ chunks' = Without(chunks, Ids(rows[w])) \cup todo[w]
    /\ Finish(w)
    /\ UNCHANGED <<lock, qdrant, queueVars, reqVars, nextBatch, requests,
                   faults, lost, slips>>

\* The SQL statements of the run fail.  The task path answers 500 (marking the
\* session failed needs the same broken transaction) and is delivered again;
\* the background path opens a new transaction to mark it.
SaveError(w) ==
    /\ pc[w] \in {"delete", "save"}
    /\ Fault("error")
    /\ \/ /\ via[w] = "task"
          /\ RedeliverProcess
          /\ Finish(w)
       \/ /\ via[w] = "background"
          /\ Jump(w, "fail")
          /\ UNCHANGED <<processQ, via, loaded, rows, todo>>
    /\ UNCHANGED <<pgVars, qdrant, ingestQ, processBG, ingestBG, reqVars,
                   nextBatch, requests, lost, slips>>

\* _mark_session_failed, committed.
MarkFailed(w) ==
    /\ pc[w] \in {"fail", "bgFail"}
    /\ SetStatus("failed")
    /\ Finish(w)
    /\ UNCHANGED <<ruleUsed, chunks, lock, qdrant, queueVars, reqVars,
                   nextBatch, requests, faults, lost, slips>>

-----------------------------------------------------------------------------
(* ingest-chunks: SELECT ... FOR UPDATE, held until the handler's commit.   *)
(* The flushed status "processing" is never committed.                      *)

\* (variants) only a session already processing is ingested; one that is done
\* is ingested again.
OnlyProcessing == status = "processing"
DoneAsWell == status \in {"confirmed", "done"}

\* The handlers let "processing" through as well; no transaction commits it.
IngestAllowed == status = "confirmed"

IngestSkip(w) ==
    /\ pc[w] = "idle"
    /\ RowFree
    /\ TakeIngestTask
    /\ ~IngestAllowed
    /\ UNCHANGED <<pgVars, qdrant, reqVars, workerVars, nextBatch, requests, lost, slips>>

IngestEmpty(w) ==
    /\ pc[w] = "idle"
    /\ RowFree
    /\ TakeIngestTask
    /\ IngestAllowed
    /\ chunks = {}
    /\ status' = "done"
    /\ UNCHANGED <<ruleUsed, chunks, lock, qdrant, reqVars, workerVars,
                   nextBatch, requests, lost, slips>>

IngestLock(w) ==
    /\ pc[w] = "idle"
    /\ RowFree
    /\ TakeIngestTask
    /\ IngestAllowed
    /\ chunks # {}
    /\ Hold(w)
    /\ rows' = [rows EXCEPT ![w] = chunks]
    /\ Jump(w, "embed")
    /\ UNCHANGED <<status, ruleUsed, chunks, qdrant, reqVars, via, loaded, todo,
                   nextBatch, requests, lost, slips>>

\* _ingest_chunks_background reads without the lock, and takes it with the
\* UPDATE to "processing".
BgRead(w) ==
    /\ pc[w] = "idle"
    /\ ingestBG > 0
    /\ ingestBG' = ingestBG - 1
    /\ IF IngestAllowed
       THEN /\ Jump(w, "bgChunks")
            /\ via' = [via EXCEPT ![w] = "background"]
       ELSE UNCHANGED <<pc, via>>
    /\ UNCHANGED <<pgVars, qdrant, processQ, ingestQ, processBG, reqVars,
                   loaded, rows, todo, nextBatch, requests, faults, lost, slips>>

BgChunks(w) ==
    /\ pc[w] = "bgChunks"
    /\ Jump(w, IF chunks = {} THEN "bgEmpty" ELSE "bgLock")
    /\ rows' = [rows EXCEPT ![w] = chunks]
    /\ UNCHANGED <<pgVars, qdrant, queueVars, reqVars, via, loaded, todo,
                   nextBatch, requests, faults, lost, slips>>

BgEmpty(w) ==
    /\ pc[w] = "bgEmpty"
    /\ SetStatus("done")
    /\ Finish(w)
    /\ UNCHANGED <<ruleUsed, chunks, lock, qdrant, queueVars, reqVars,
                   nextBatch, requests, faults, lost, slips>>

BgLock(w) ==
    /\ pc[w] = "bgLock"
    /\ RowFree
    /\ Hold(w)
    /\ Jump(w, "embed")
    /\ Slip("redone", status = "done")
    /\ UNCHANGED <<status, ruleUsed, chunks, qdrant, queueVars, reqVars, via,
                   loaded, rows, todo, nextBatch, requests, faults, lost>>

Embed(w) ==
    /\ pc[w] = "embed"
    /\ Jump(w, "clear") \/ Jump(w, "abort")
    /\ UNCHANGED <<pgVars, qdrant, queueVars, reqVars, via, loaded, rows, todo,
                   nextBatch, requests, faults, lost, slips>>

\* delete_chunks_by_doc_ids: every point of the document.
Clear(w) ==
    /\ pc[w] = "clear"
    /\ qdrant' = Cleared
    /\ todo' = [todo EXCEPT ![w] = rows[w]]
    /\ Jump(w, "upsert")
    /\ UNCHANGED <<pgVars, queueVars, reqVars, via, loaded, rows, nextBatch,
                   requests, faults, lost, slips>>

\* upsert_chunks, one batch at a time.
Upsert(w) ==
    /\ pc[w] = "upsert"
    /\ \E r \in todo[w] :
        /\ qdrant' = Upserted(qdrant, {r})
        /\ todo' = [todo EXCEPT ![w] = @ \ {r}]
        /\ Jump(w, IF todo[w] = {r} THEN "normalize" ELSE "upsert")
    /\ UNCHANGED <<pgVars, queueVars, reqVars, via, loaded, rows, nextBatch,
                   requests, faults, lost, slips>>

\* A batch raises, before or after Qdrant has applied it.
UpsertError(w) ==
    /\ pc[w] = "upsert"
    /\ \/ UNCHANGED qdrant
       \/ \E r \in todo[w] : qdrant' = Upserted(qdrant, {r})
    /\ Jump(w, "undo")
    /\ UNCHANGED <<pgVars, queueVars, reqVars, via, loaded, rows, todo,
                   nextBatch, requests, faults, lost, slips>>

\* delete_chunks_by_ids, best effort.
Undo(w) ==
    /\ pc[w] = "undo"
    /\ qdrant' = Without(qdrant, Ids(rows[w])) \/ UNCHANGED qdrant
    /\ Jump(w, "abort")
    /\ UNCHANGED <<pgVars, queueVars, reqVars, via, loaded, rows, todo,
                   nextBatch, requests, faults, lost, slips>>

\* An embedding or upsert failure is recorded, in the locked transaction.
Abort(w) ==
    /\ pc[w] = "abort"
    /\ status' = "failed"
    /\ Release(w)
    /\ Finish(w)
    /\ UNCHANGED <<ruleUsed, chunks, qdrant, queueVars, reqVars, nextBatch,
                   requests, faults, lost, slips>>

\* normalize_product_name_by_doc (payloads only), then the commit of "done".
IngestDone(w) ==
    /\ pc[w] = "normalize"
    /\ status' = "done"
    /\ Release(w)
    /\ Finish(w)
    /\ UNCHANGED <<ruleUsed, chunks, qdrant, queueVars, reqVars, nextBatch,
                   requests, faults, lost, slips>>

\* The clear (applied or not) or the normalisation raises: the transaction is
\* rolled back; the task is delivered again, the background path marks failed.
IngestError(w) ==
    /\ pc[w] \in {"clear", "normalize"}
    /\ Fault("error")
    /\ UNCHANGED qdrant \/ (pc[w] = "clear" /\ qdrant' = Cleared)
    /\ Release(w)
    /\ \/ /\ via[w] = "task"
          /\ RedeliverIngest
          /\ Finish(w)
       \/ /\ via[w] = "background"
          /\ Jump(w, "bgFail")
          /\ UNCHANGED <<ingestQ, via, loaded, rows, todo>>
    /\ UNCHANGED <<status, ruleUsed, chunks, processQ, processBG, ingestBG,
                   reqVars, nextBatch, requests, lost, slips>>

-----------------------------------------------------------------------------
\* The instance dies: PostgreSQL rolls back and frees the row, Cloud Tasks
\* delivers the task again, a background execution is gone.
WorkerCrash(w) ==
    /\ pc[w] # "idle"
    /\ Fault("crash")
    /\ Release(w)
    /\ Finish(w)
    /\ IF via[w] = "background"
       THEN /\ lost' = lost \cup {IF pc[w] \in Ingesting THEN "ingest" ELSE "process"}
            /\ UNCHANGED <<processQ, ingestQ>>
       ELSE /\ UNCHANGED lost
            /\ IF pc[w] \in Ingesting
               THEN RedeliverIngest /\ UNCHANGED processQ
               ELSE RedeliverProcess /\ UNCHANGED ingestQ
    /\ UNCHANGED <<status, ruleUsed, chunks, qdrant, processBG, ingestBG,
                   reqVars, nextBatch, requests, slips>>

-----------------------------------------------------------------------------
RequestStep(u) ==
    \/ ConfirmCommit(u) \/ RejectCommit(u) \/ ReprocessCommit(u)
    \/ PatchCommit(u) \/ EnqueueOk(u) \/ EnqueueError(u)

RequestStart(u) ==
    \/ Upload(u) \/ ConfirmRead(u) \/ RejectRead(u) \/ ReprocessRead(u)
    \/ PatchRead(u)

ProcessStep(w) ==
    \/ SkipProcess(w) \/ StartProcess(w) \/ Convert(w) \/ ConvertFails(w)
    \/ DeleteRows(w) \/ SaveCommit(w) \/ SaveError(w) \/ MarkFailed(w)

IngestStep(w) ==
    \/ IngestSkip(w) \/ IngestEmpty(w) \/ IngestLock(w)
    \/ BgRead(w) \/ BgChunks(w) \/ BgEmpty(w) \/ BgLock(w)
    \/ Embed(w) \/ Clear(w) \/ Upsert(w) \/ UpsertError(w) \/ Undo(w)
    \/ Abort(w) \/ IngestDone(w) \/ IngestError(w)

Next ==
    \/ \E u \in Users : RequestStart(u) \/ RequestStep(u) \/ RequestCrash(u)
    \/ \E w \in Workers : ProcessStep(w) \/ IngestStep(w) \/ WorkerCrash(w)
    \/ ExhaustTask
    \/ BackgroundCrash

Spec == Init /\ [][Next]_vars

\* Handlers and workers are coroutines of a live server, and Cloud Tasks
\* dispatches what it holds; users owe nothing.
FairSpec ==
    /\ Spec
    /\ \A u \in Users : WF_vars(RequestStep(u))
    /\ \A w \in Workers : WF_vars(ProcessStep(w)) /\ WF_vars(IngestStep(w))

-----------------------------------------------------------------------------
(* Properties.                                                              *)

\* Every variable keeps its type.
TypeOK ==
    /\ status \in Status
    /\ ruleUsed \in BOOLEAN
    /\ chunks \subseteq Row
    /\ lock \in Workers \cup {NoWorker}
    /\ qdrant \subseteq Row
    /\ processQ \in Nat /\ ingestQ \in Nat /\ processBG \in Nat /\ ingestBG \in Nat
    /\ rpc \in [Users -> {"idle"} \cup Handling \cup Enqueuing]
    /\ seen \in [Users -> Status]
    /\ target \in [Users -> SUBSET (Nat \X Parts)]
    /\ tries \in [Users -> Nat]
    /\ pc \in [Workers -> {"idle"} \cup Processing \cup Ingesting]
    /\ via \in [Workers -> {"task", "background"}]
    /\ loaded \in [Workers -> Status]
    /\ rows \in [Workers -> SUBSET Row]
    /\ todo \in [Workers -> SUBSET Row]
    /\ nextBatch \in Nat
    /\ requests \in Nat
    /\ faults \in Nat
    /\ lost \subseteq {"process", "ingest"}
    /\ slips \subseteq {"unready", "again", "redone", "lateEdit"}

\* Whoever is between its row lock and its commit in ingest-chunks, on either
\* path, holds the session row: no two runs interleave their Qdrant calls.
WriterHoldsRow == \A w \in Workers : pc[w] \in Vectorising => lock = w

\* "Clear, then write" replaces the document's points as a whole: when the
\* upserts are over, and so when done is committed, Qdrant holds exactly the
\* rows this run has read, whatever earlier runs, crashes and failed rollbacks
\* left behind.
VectorsExact ==
    \A w \in Workers :
        /\ pc[w] = "upsert" => qdrant = rows[w] \ todo[w]
        /\ pc[w] = "normalize" => qdrant = rows[w]

IngestPending ==
    \/ ingestQ > 0
    \/ ingestBG > 0
    \/ \E u \in Users : rpc[u] = "enqueueIngest"
    \/ \E w \in Workers : pc[w] \in Ingesting

ProcessPending ==
    \/ processQ > 0
    \/ processBG > 0
    \/ \E u \in Users : rpc[u] = "enqueueProcess"
    \/ \E w \in Workers : pc[w] \in Processing

\* A confirmed session is never silently left alone: somebody still has to
\* vectorise it, unless a crash or the queue has dropped an ingest.
NoSilentConfirm ==
    status = "confirmed" => IngestPending \/ "ingest" \in lost

\* A document that was never converted still has its process-document coming,
\* unless a crash or the queue has dropped one.
NoSilentUpload ==
    status = "pending_preview" /\ Vectorised /\ ~ruleUsed
        => ProcessPending \/ "process" \in lost

Quiet ==
    /\ processQ + ingestQ + processBG + ingestBG = 0
    /\ \A u \in Users : rpc[u] = "idle"
    /\ \A w \in Workers : pc[w] = "idle"

\* "done" means searchable, whatever fails, dies, is delivered twice, confirmed
\* twice or rejected on the way: the points are the chunks, text for text, unless
\* one of the slips has happened, and still id for id after a late edit.
SearchableWhenDone ==
    status = "done" /\ slips \subseteq {"lateEdit"} =>
        /\ Ids(qdrant) = Ids(chunks)
        /\ slips = {} => qdrant = chunks

\* Overlapping conversions may both leave their chunks, never parts of them:
\* a document holds every chunk of a conversion or none.
WholeConversions == \A r \in chunks : {r[1]} \X Parts \subseteq Ids(chunks)

\* The rows being vectorised are those of the worker that holds the row.
Sync == INSTANCE VectorSync WITH
            vectors <- qdrant,
            job     <- IF lock = NoWorker THEN {} ELSE rows[lock]

\* Under every interleaving, crash and redelivery the vectorisation keeps its
\* promise: one job at a time, the status frozen meanwhile, the points never a
\* mixture of two snapshots, done only on exact points.
ImplementsVectorSync == Sync!Spec

\* A confirmed session is vectorised, failed, or taken back, eventually.
ConfirmResolved ==
    status = "confirmed" ~> (status # "confirmed" \/ "ingest" \in lost)

\* An uploaded document is converted or its session leaves the preview.
UploadResolved ==
    (status = "pending_preview" /\ Vectorised /\ ~ruleUsed)
        ~> (status # "pending_preview" \/ ruleUsed \/ "process" \in lost)

-----------------------------------------------------------------------------
(* What the repository says and the code does not do; each is refuted by a  *)
(* run of its own.                                                          *)

\* The docstring of reprocess: the old vectors are replaced as a whole at the
\* next ingest and leave no orphan (sessions.py:258).
NoOrphanWhenDone == status = "done" /\ Quiet => Ids(qdrant) \subseteq Ids(chunks)

\* The docstring of patch_session_chunk: an edit need not be embedded again nor
\* touch Qdrant, where the document has no vector yet (sessions.py:121-122).  So
\* the vectorisation that follows finds it.
EditsReachQdrant ==
    status = "done" /\ Quiet /\ slips \subseteq {"lateEdit"} => chunks \subseteq qdrant
=============================================================================
