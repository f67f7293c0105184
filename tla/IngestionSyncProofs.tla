------------------------- MODULE IngestionSyncProofs -------------------------
(***************************************************************************)
(* Ingestion implements VectorSync, for every number of requests, workers, *)
(* upsert batches and faults; overlapping conversions never mix parts; and *)
(* a done session's points are its chunks, if its tasks are dispatched     *)
(* once and nothing reprocesses it.                                        *)
(***************************************************************************)
EXTENDS IngestionProofs

-----------------------------------------------------------------------------
(* What the refinement needs to know of a reachable state.                  *)

\* Before the upload there is nothing to run.
NothingBeforeUpload ==
    status = "absent" =>
        /\ lock = NoWorker
        /\ processQ = 0 /\ ingestQ = 0 /\ processBG = 0 /\ ingestBG = 0
        /\ \A u \in Users : rpc[u] = "idle"
        /\ \A w \in Workers : pc[w] = "idle"

\* The row is locked by a vectorisation, and a vectorisation has rows.
HolderHasRows ==
    /\ lock # NoWorker => lock \in Workers /\ pc[lock] \in Vectorising
    /\ \A w \in Workers : pc[w] \in Vectorising \cup {"bgLock"} => rows[w] # {}

\* A failed batch has left nothing but points of its own run.
UndoneAreOwn == \A w \in Workers : pc[w] = "undo" => qdrant \subseteq rows[w]

LEMMA NothingBefore == Spec => []NothingBeforeUpload
<1>1. Init => NothingBeforeUpload
  BY DEF Init, NothingBeforeUpload
<1>2. TypeOK /\ NothingBeforeUpload /\ [Next]_vars => NothingBeforeUpload'
  <2> SUFFICES ASSUME TypeOK, NothingBeforeUpload, [Next]_vars, status' = "absent"
               PROVE  NothingBeforeUpload'
    BY DEF NothingBeforeUpload
  <2> USE DEF NothingBeforeUpload, TypeOK, pgVars, queueVars, reqVars, workerVars
  <2>1. ASSUME NEW u \in Users, RequestStart(u) \/ RequestStep(u) \/ RequestCrash(u)
        PROVE  NothingBeforeUpload'
    <3>1. CASE EnqueueOk(u) \/ EnqueueError(u)
      <4>1. rpc[u] \in Enqueuing
        BY <3>1 DEF EnqueueOk, EnqueueError, CreateTask, Enqueuing
      <4>2. UNCHANGED status
        BY <3>1 DEF EnqueueOk, EnqueueError
      <4>3. FALSE
        BY <4>1, <4>2 DEF Enqueuing
      <4>4. QED
        BY <4>3
    <3>2. CASE ~(EnqueueOk(u) \/ EnqueueError(u))
      BY <2>1, <3>2 DEF RequestStart, Upload, ConfirmRead, RejectRead, ReprocessRead, PatchRead,
         Accept, RequestStep, ConfirmCommit, RejectCommit, ReprocessCommit, PatchCommit,
         RequestCrash, SetStatus
    <3>3. QED
      BY <3>1, <3>2
  <2>2. ASSUME NEW w \in Workers, ProcessStep(w) PROVE NothingBeforeUpload'
    <3>1. status = "absent"
      BY <2>2 DEF ProcessStep, SkipProcess, StartProcess, Convert, ConvertFails, DeleteRows,
         SaveCommit, SaveError, MarkFailed, SetStatus
    <3>2. processQ > 0 \/ processBG > 0 \/ pc[w] # "idle"
      BY <2>2 DEF ProcessStep, SkipProcess, StartProcess, Convert, ConvertFails, DeleteRows,
         SaveCommit, SaveError, MarkFailed, TakeProcessTask
    <3>3. QED
      BY <3>1, <3>2
  <2>3. ASSUME NEW w \in Workers, IngestStep(w) PROVE NothingBeforeUpload'
    BY <2>3 DEF IngestStep, IngestSkip, IngestEmpty, IngestLock, BgRead, BgChunks, BgEmpty,
       BgLock, Embed, Clear, Upsert, UpsertError, Undo, Abort, IngestDone, IngestError,
       SetStatus, TakeIngestTask
  <2>4. ASSUME NEW w \in Workers, WorkerCrash(w) PROVE NothingBeforeUpload'
    BY <2>4 DEF WorkerCrash
  <2>5. CASE ExhaustTask \/ BackgroundCrash
    BY <2>5 DEF ExhaustTask, BackgroundCrash
  <2>6. CASE UNCHANGED vars
    BY <2>6 DEF vars
  <2>7. QED
    BY <2>1, <2>2, <2>3, <2>4, <2>5, <2>6 DEF Next
<1>3. QED
  BY <1>1, <1>2, TypeCorrect, PTL DEF Spec

LEMMA HolderAlwaysHasRows == Spec => []HolderHasRows
<1>1. Init => HolderHasRows
  BY DEF Init, HolderHasRows, Vectorising
<1>2. TypeOK /\ WriterHoldsRow /\ HolderHasRows /\ [Next]_vars => HolderHasRows'
  <2> SUFFICES ASSUME TypeOK, WriterHoldsRow, HolderHasRows, [Next]_vars
               PROVE  HolderHasRows'
    OBVIOUS
  <2> USE ConstantsAssumption
          DEF HolderHasRows, WriterHoldsRow, TypeOK, pgVars, queueVars, reqVars, workerVars,
              Jump, Vectorising
  <2>1. ASSUME UNCHANGED <<lock, pc, rows>> PROVE HolderHasRows'
    BY <2>1
  \* A step of a worker that does not hold the row and does not come to do so.
  <2>2. ASSUME NEW w \in Workers, pc[w] \notin Vectorising, UNCHANGED lock,
               \A v \in Workers \ {w} : pc'[v] = pc[v] /\ rows'[v] = rows[v],
               pc'[w] \notin Vectorising, pc'[w] = "bgLock" => rows'[w] # {}
        PROVE  HolderHasRows'
    BY <2>2
  <2>3. ASSUME NEW w \in Workers, Release(w), Finish(w) PROVE HolderHasRows'
    BY <2>3 DEF Release, Finish
  <2>4. ASSUME NEW w \in Workers, pc[w] \in Vectorising, UNCHANGED <<lock, rows>>,
               NEW l \in Vectorising, pc' = [pc EXCEPT ![w] = l]
        PROVE  HolderHasRows'
    BY <2>4
  <2>5. ASSUME NEW u \in Users, RequestStart(u) \/ RequestStep(u) \/ RequestCrash(u)
        PROVE  HolderHasRows'
    BY <2>5, <2>1 DEF RequestStart, Upload, ConfirmRead, RejectRead, ReprocessRead,
       PatchRead, Accept, RequestStep, ConfirmCommit, RejectCommit, ReprocessCommit,
       PatchCommit, EnqueueOk, EnqueueError, RequestCrash
  <2>6. ASSUME NEW w \in Workers, ProcessStep(w) PROVE HolderHasRows'
    <3>1. CASE SkipProcess(w)
      BY <3>1, <2>1 DEF SkipProcess
    <3>2. CASE StartProcess(w)
      BY <3>2, <2>2 DEF StartProcess
    <3>3. CASE Convert(w)
      BY <3>3, <2>2 DEF Convert
    <3>4. CASE ConvertFails(w) \/ DeleteRows(w)
      BY <3>4, <2>2 DEF ConvertFails, DeleteRows
    <3>5. CASE SaveCommit(w) \/ MarkFailed(w)
      BY <3>5, <2>2 DEF SaveCommit, MarkFailed, Finish
    <3>6. CASE SaveError(w)
      BY <3>6, <2>2 DEF SaveError, Finish
    <3>7. QED
      BY <2>6, <3>1, <3>2, <3>3, <3>4, <3>5, <3>6 DEF ProcessStep
  <2>7. ASSUME NEW w \in Workers, IngestStep(w) PROVE HolderHasRows'
    <3>1. CASE IngestSkip(w) \/ IngestEmpty(w)
      BY <3>1, <2>1 DEF IngestSkip, IngestEmpty
    <3>2. CASE IngestLock(w) \/ BgLock(w)
      BY <3>2 DEF IngestLock, BgLock, Hold, RowFree
    <3>3. CASE BgRead(w)
      BY <3>3, <2>2, <2>1 DEF BgRead
    <3>4. CASE BgChunks(w)
      BY <3>4, <2>2 DEF BgChunks
    <3>5. CASE BgEmpty(w)
      BY <3>5, <2>2 DEF BgEmpty, Finish
    <3>6. CASE Embed(w) \/ Clear(w) \/ UpsertError(w) \/ Undo(w)
      BY <3>6, <2>4 DEF Embed, Clear, UpsertError, Undo
    <3>7. CASE Upsert(w)
      <4>1. PICK l \in {"normalize", "upsert"} : pc' = [pc EXCEPT ![w] = l]
        BY <3>7 DEF Upsert
      <4>2. QED
        BY <3>7, <4>1, <2>4 DEF Upsert
    <3>8. CASE Abort(w) \/ IngestDone(w)
      BY <3>8, <2>3 DEF Abort, IngestDone
    <3>9. CASE IngestError(w)
      <4>1. CASE Finish(w)
        BY <3>9, <4>1, <2>3 DEF IngestError
      <4>2. CASE pc' = [pc EXCEPT ![w] = "bgFail"] /\ rows' = rows
        BY <3>9, <4>2 DEF IngestError, Release
      <4>3. QED
        BY <3>9, <4>1, <4>2 DEF IngestError
    <3>10. QED
      BY <2>7, <3>1, <3>2, <3>3, <3>4, <3>5, <3>6, <3>7, <3>8, <3>9 DEF IngestStep
  <2>8. ASSUME NEW w \in Workers, WorkerCrash(w) PROVE HolderHasRows'
    BY <2>8, <2>3 DEF WorkerCrash
  <2>9. CASE ExhaustTask \/ BackgroundCrash
    BY <2>9, <2>1 DEF ExhaustTask, BackgroundCrash
  <2>10. CASE UNCHANGED vars
    BY <2>10, <2>1 DEF vars
  <2>11. QED
    BY <2>5, <2>6, <2>7, <2>8, <2>9, <2>10 DEF Next
<1>3. QED
  BY <1>1, <1>2, TypeCorrect, OneWriter, PTL DEF Spec

LEMMA UndoneAlwaysOwn == Spec => []UndoneAreOwn
<1>1. Init => UndoneAreOwn
  BY DEF Init, UndoneAreOwn
<1>2. TypeOK /\ WriterHoldsRow /\ Snapshots /\ VectorsExact /\ UndoneAreOwn /\ [Next]_vars
        => UndoneAreOwn'
  <2> SUFFICES ASSUME TypeOK, WriterHoldsRow, Snapshots, VectorsExact, UndoneAreOwn, [Next]_vars
               PROVE  UndoneAreOwn'
    OBVIOUS
  <2> USE DEF TypeOK, UndoneAreOwn, WriterHoldsRow, pgVars, workerVars, Jump
  <2>1. ASSUME UNCHANGED <<qdrant, pc, rows>> PROVE UndoneAreOwn'
    BY <2>1
  <2>2. ASSUME NEW w \in Workers, pc'[w] # "undo",
               \A v \in Workers \ {w} : pc'[v] = pc[v] /\ rows'[v] = rows[v],
               UNCHANGED qdrant \/ pc[w] \in Vectorising
        PROVE  UndoneAreOwn'
    BY <2>2 DEF Vectorising
  <2>3. ASSUME NEW u \in Users, RequestStart(u) \/ RequestStep(u) \/ RequestCrash(u)
        PROVE  UndoneAreOwn'
    BY <2>3, <2>1 DEF RequestStart, Upload, ConfirmRead, RejectRead, ReprocessRead,
       PatchRead, Accept, RequestStep, ConfirmCommit, RejectCommit, ReprocessCommit,
       PatchCommit, EnqueueOk, EnqueueError, RequestCrash
  <2>4. ASSUME NEW w \in Workers, ProcessStep(w) PROVE UndoneAreOwn'
    <3>1. CASE SkipProcess(w)
      BY <3>1, <2>1 DEF SkipProcess
    <3>2. CASE StartProcess(w)
      BY <3>2, <2>2 DEF StartProcess
    <3>3. CASE Convert(w)
      BY <3>3, <2>2 DEF Convert
    <3>4. CASE ConvertFails(w) \/ DeleteRows(w)
      BY <3>4, <2>2 DEF ConvertFails, DeleteRows
    <3>5. CASE SaveCommit(w) \/ MarkFailed(w)
      BY <3>5, <2>2 DEF SaveCommit, MarkFailed, Finish
    <3>6. CASE SaveError(w)
      BY <3>6, <2>2 DEF SaveError, Finish
    <3>7. QED
      BY <2>4, <3>1, <3>2, <3>3, <3>4, <3>5, <3>6 DEF ProcessStep
  <2>5. ASSUME NEW w \in Workers, IngestStep(w) PROVE UndoneAreOwn'
    <3>1. CASE IngestSkip(w) \/ IngestEmpty(w)
      BY <3>1, <2>1 DEF IngestSkip, IngestEmpty
    <3>2. CASE IngestLock(w) \/ BgLock(w) \/ BgChunks(w) \/ Embed(w)
      BY <3>2, <2>2 DEF IngestLock, BgLock, BgChunks, Embed
    <3>3. CASE BgRead(w)
      BY <3>3, <2>1, <2>2 DEF BgRead
    <3>4. CASE BgEmpty(w) \/ Abort(w) \/ IngestDone(w)
      BY <3>4, <2>2 DEF BgEmpty, Abort, IngestDone, Finish
    <3>5. CASE Clear(w) \/ Undo(w)
      BY <3>5, <2>2 DEF Clear, Undo, Vectorising
    <3>6. CASE Upsert(w)
      <4>1. PICK l \in {"normalize", "upsert"} : pc' = [pc EXCEPT ![w] = l]
        BY <3>6 DEF Upsert
      <4>2. QED
        BY <3>6, <4>1, <2>2 DEF Upsert, Vectorising
    <3>7. CASE UpsertError(w)
      <4>1. /\ pc[w] = "upsert" /\ rows' = rows /\ pc' = [pc EXCEPT ![w] = "undo"]
        BY <3>7 DEF UpsertError
      <4>2. qdrant \subseteq rows[w] /\ todo[w] \subseteq rows[w]
        BY <4>1 DEF VectorsExact, Snapshots
      <4>3. qdrant' \subseteq rows'[w]
        BY <3>7, <4>1, <4>2 DEF UpsertError, Upserted
      <4>4. \A v \in Workers \ {w} : pc[v] # "undo"
        BY <4>1, ConstantsAssumption DEF Vectorising
      <4>5. QED
        BY <4>1, <4>3, <4>4
    <3>8. CASE IngestError(w)
      BY <3>8, <2>2 DEF IngestError, Finish, Vectorising
    <3>9. QED
      BY <2>5, <3>1, <3>2, <3>3, <3>4, <3>5, <3>6, <3>7, <3>8 DEF IngestStep
  <2>6. ASSUME NEW w \in Workers, WorkerCrash(w) PROVE UndoneAreOwn'
    BY <2>6, <2>2 DEF WorkerCrash, Finish
  <2>7. CASE ExhaustTask \/ BackgroundCrash
    BY <2>7, <2>1 DEF ExhaustTask, BackgroundCrash
  <2>8. CASE UNCHANGED vars
    BY <2>8, <2>1 DEF vars
  <2>9. QED
    BY <2>3, <2>4, <2>5, <2>6, <2>7, <2>8 DEF Next
<1>3. QED
  BY <1>1, <1>2, TypeCorrect, OneWriter, ExactSnapshots, PTL DEF Spec

\* Ingestion implements VectorSync.
THEOREM VectorisationKeepsPromise == Spec => ImplementsVectorSync
<1> DEFINE Job == IF lock = NoWorker THEN {} ELSE rows[lock]
<1>1. Init => Sync!Init
  BY DEF Init, Sync!Init, Sync!Free
<1>2. TypeOK /\ WriterHoldsRow /\ Snapshots /\ VectorsExact /\ NothingBeforeUpload
      /\ HolderHasRows /\ UndoneAreOwn /\ [Next]_vars
        => [Sync!Next]_(Sync!syncVars)
  <2> SUFFICES ASSUME TypeOK, WriterHoldsRow, Snapshots, VectorsExact, NothingBeforeUpload,
                      HolderHasRows, UndoneAreOwn, [Next]_vars
               PROVE  [Sync!Next]_(Sync!syncVars)
    OBVIOUS
  <2> USE ConstantsAssumption DEF TypeOK, pgVars, workerVars, Jump
  <2>1. ASSUME UNCHANGED <<status, qdrant>>, Job' = Job
        PROVE  [Sync!Next]_(Sync!syncVars)
    BY <2>1 DEF Sync!syncVars
  \* The status of a session nobody vectorises.
  <2>2. ASSUME lock = NoWorker, lock' = lock, UNCHANGED qdrant
        PROVE  [Sync!Next]_(Sync!syncVars)
    BY <2>2 DEF Sync!syncVars, Sync!Next, Sync!Lifecycle, Sync!Free
  <2>3. ASSUME NEW w \in Workers, pc[w] \notin Vectorising, UNCHANGED lock,
               \A v \in Workers \ {w} : rows'[v] = rows[v]
        PROVE  Job' = Job
    BY <2>3 DEF HolderHasRows
  <2>4. ASSUME NEW w \in Workers, pc[w] \in Vectorising
        PROVE  Job = rows[w] /\ Job # {} /\ lock = w
    BY <2>4 DEF WriterHoldsRow, HolderHasRows
  <2>5. ASSUME NEW w \in Workers, pc[w] \in Vectorising, Release(w)
        PROVE  Job' = {}
    BY <2>5, <2>4 DEF Release
  <2>6. ASSUME NEW w \in Workers, pc[w] \in Vectorising, UNCHANGED <<status, lock, rows>>,
               qdrant' \subseteq rows[w]
        PROVE  [Sync!Next]_(Sync!syncVars)
    BY <2>6, <2>4 DEF Sync!Next, Sync!Rewrite, Sync!Free
  <2>7. ASSUME NEW u \in Users, RequestStart(u) \/ RequestStep(u) \/ RequestCrash(u)
        PROVE  [Sync!Next]_(Sync!syncVars)
    <3>1. /\ UNCHANGED <<qdrant, lock, rows>>
          /\ status' = status \/ RowFree \/ status = "absent"
      BY <2>7 DEF RequestStart, Upload, ConfirmRead, RejectRead, ReprocessRead, PatchRead,
         Accept, RequestStep, ConfirmCommit, RejectCommit, ReprocessCommit, PatchCommit,
         EnqueueOk, EnqueueError, RequestCrash, SetStatus
    <3>2. status' = status \/ lock = NoWorker
      BY <3>1 DEF RowFree, NothingBeforeUpload
    <3>3. QED
      BY <3>1, <3>2, <2>1, <2>2
  <2>8. ASSUME NEW w \in Workers, ProcessStep(w) PROVE [Sync!Next]_(Sync!syncVars)
    <3>1. /\ pc[w] \notin Vectorising /\ UNCHANGED <<qdrant, lock>>
          /\ \A v \in Workers \ {w} : rows'[v] = rows[v]
      BY <2>8 DEF ProcessStep, SkipProcess, StartProcess, Convert, ConvertFails, DeleteRows,
         SaveCommit, SaveError, MarkFailed, Finish, Vectorising
    <3>2. status' = status \/ lock = NoWorker
      BY <2>8 DEF ProcessStep, SkipProcess, StartProcess, Convert, ConvertFails, DeleteRows,
         SaveCommit, SaveError, MarkFailed, SetStatus, RowFree, WritesSession
    <3>3. QED
      BY <3>1, <3>2, <2>1, <2>2, <2>3
  <2>9. ASSUME NEW w \in Workers, IngestStep(w) PROVE [Sync!Next]_(Sync!syncVars)
    <3>1. CASE IngestSkip(w)
      BY <3>1, <2>1 DEF IngestSkip
    <3>2. CASE IngestEmpty(w)
      BY <3>2, <2>2 DEF IngestEmpty, RowFree
    <3>3. CASE IngestLock(w)
      <4>1. /\ Job = {} /\ Job' = chunks /\ chunks # {} /\ UNCHANGED <<status, qdrant>>
        BY <3>3 DEF IngestLock, RowFree, Hold
      <4>2. QED
        BY <4>1 DEF Sync!Next, Sync!Begin, Sync!Free
    <3>4. CASE BgLock(w)
      <4>1. /\ Job = {} /\ Job' = rows[w] /\ rows[w] # {} /\ UNCHANGED <<status, qdrant>>
        BY <3>4 DEF BgLock, RowFree, Hold, HolderHasRows
      <4>2. QED
        BY <4>1 DEF Sync!Next, Sync!Begin, Sync!Free
    <3>5. CASE BgRead(w) \/ BgChunks(w)
      BY <3>5, <2>1, <2>3 DEF BgRead, BgChunks, Vectorising
    <3>6. CASE BgEmpty(w)
      BY <3>6, <2>2 DEF BgEmpty, SetStatus, RowFree
    <3>7. CASE Embed(w)
      BY <3>7, <2>1 DEF Embed
    <3>8. CASE Clear(w)
      BY <3>8, <2>6 DEF Clear, Cleared, Vectorising
    <3>9. CASE Upsert(w)
      <4>1. /\ pc[w] = "upsert" /\ todo[w] \subseteq Row /\ UNCHANGED <<status, lock, rows>>
        BY <3>9 DEF Upsert
      <4>2. PICK r \in todo[w] : qdrant' = Upserted(qdrant, {r})
        BY <3>9 DEF Upsert
      <4>3. qdrant \subseteq rows[w] /\ todo[w] \subseteq rows[w]
        BY <4>1 DEF VectorsExact, Snapshots
      <4>4. qdrant' \subseteq rows[w]
        BY <4>2, <4>3 DEF Upserted
      <4>5. QED
        BY <4>1, <4>4, <2>6 DEF Vectorising
    <3>10. CASE UpsertError(w)
      <4>1. pc[w] = "upsert" /\ UNCHANGED <<status, lock, rows>>
        BY <3>10 DEF UpsertError
      <4>2. qdrant \subseteq rows[w] /\ todo[w] \subseteq rows[w]
        BY <4>1 DEF VectorsExact, Snapshots
      <4>3. qdrant' = qdrant \/ \E r \in todo[w] : qdrant' = Upserted(qdrant, {r})
        BY <3>10 DEF UpsertError
      <4>4. ASSUME NEW r \in todo[w], qdrant' = Upserted(qdrant, {r})
            PROVE  qdrant' \subseteq rows[w]
        BY <4>2, <4>4 DEF Upserted
      <4>5. qdrant' \subseteq rows[w]
        BY <4>2, <4>3, <4>4
      <4>6. QED
        BY <4>1, <4>5, <2>6 DEF Vectorising
    <3>11. CASE Undo(w)
      <4>1. pc[w] = "undo" /\ UNCHANGED <<status, lock, rows>>
        BY <3>11 DEF Undo
      <4>2. qdrant' \subseteq qdrant /\ qdrant \subseteq rows[w]
        BY <3>11, <4>1 DEF Undo, Without, UndoneAreOwn
      <4>3. QED
        BY <4>1, <4>2, <2>6 DEF Vectorising
    <3>12. CASE Abort(w)
      <4>1. Job' = {} /\ Job # {} /\ status' = "failed" /\ UNCHANGED qdrant
        BY <3>12, <2>4, <2>5 DEF Abort, Vectorising
      <4>2. QED
        BY <4>1 DEF Sync!Next, Sync!Fail, Sync!Free
    <3>13. CASE IngestDone(w)
      <4>1. Job' = {} /\ Job # {} /\ status' = "done" /\ UNCHANGED qdrant /\ qdrant = Job
        BY <3>13, <2>4, <2>5 DEF IngestDone, Vectorising, VectorsExact
      <4>2. QED
        BY <4>1 DEF Sync!Next, Sync!Done, Sync!Free
    <3>14. CASE IngestError(w)
      <4>1. /\ Job' = {} /\ Job # {} /\ UNCHANGED status
            /\ qdrant' = qdrant \/ qdrant' = {}
        BY <3>14, <2>4, <2>5 DEF IngestError, Vectorising, Cleared
      <4>2. QED
        BY <4>1 DEF Sync!Next, Sync!Drop, Sync!Free
    <3>15. QED
      BY <2>9, <3>1, <3>2, <3>3, <3>4, <3>5, <3>6, <3>7, <3>8, <3>9, <3>10,
         <3>11, <3>12, <3>13, <3>14 DEF IngestStep
  <2>10. ASSUME NEW w \in Workers, WorkerCrash(w) PROVE [Sync!Next]_(Sync!syncVars)
    <3>1. UNCHANGED <<status, qdrant>> /\ \A v \in Workers \ {w} : rows'[v] = rows[v]
      BY <2>10 DEF WorkerCrash, Finish
    <3>2. CASE pc[w] \in Vectorising
      <4>1. Job' = {} /\ Job # {}
        BY <2>10, <3>2, <2>4, <2>5 DEF WorkerCrash
      <4>2. QED
        BY <3>1, <4>1 DEF Sync!Next, Sync!Drop, Sync!Free
    <3>3. CASE pc[w] \notin Vectorising
      <4>1. lock' = lock
        BY <2>10, <3>3 DEF WorkerCrash, Release, HolderHasRows
      <4>2. QED
        BY <3>1, <3>3, <4>1, <2>1, <2>3
    <3>4. QED
      BY <3>2, <3>3
  <2>11. CASE ExhaustTask \/ BackgroundCrash
    BY <2>11, <2>1 DEF ExhaustTask, BackgroundCrash
  <2>12. CASE UNCHANGED vars
    BY <2>12, <2>1 DEF vars
  <2>13. QED
    BY <2>7, <2>8, <2>9, <2>10, <2>11, <2>12 DEF Next
<1>3. QED
  BY <1>1, <1>2, TypeCorrect, OneWriter, ExactSnapshots, NothingBefore, HolderAlwaysHasRows,
     UndoneAlwaysOwn, PTL DEF Spec, ImplementsVectorSync, Sync!Spec

-----------------------------------------------------------------------------
(* Whole conversions.                                                       *)

Whole(S) == \A r \in S : {r[1]} \X Parts \subseteq Ids(S)

\* What a conversion has read, will delete and will insert is whole as well.
WholeDrafts ==
    \A w \in Workers :
        /\ pc[w] \in {"idle", "convert"} => rows[w] = {}
        /\ pc[w] = "save" => Whole(rows[w])
        /\ pc[w] \in Converting => Whole(todo[w])

LEMMA WholeEmpty == Whole({})
  BY DEF Whole

LEMMA WholeByParts ==
    ASSUME NEW S, \A r \in S : \A q \in Parts : <<r[1], q>> \in Ids(S)
    PROVE  Whole(S)
<1>1. ASSUME NEW r \in S, NEW x \in {r[1]} \X Parts PROVE x \in Ids(S)
  <2>1. x = <<r[1], x[2]>> /\ x[2] \in Parts
    BY <1>1
  <2>2. QED
    BY <2>1
<1>2. QED
  BY <1>1 DEF Whole

\* A batch without parts, or with all of them, is whole.
LEMMA WholeBatch ==
    ASSUME NEW b
    PROVE  Whole({b} \X Parts \X {0})
<1>1. \A q \in Parts : <<b, q>> \in Ids({b} \X Parts \X {0})
  <2> SUFFICES ASSUME NEW q \in Parts PROVE <<b, q>> \in Ids({b} \X Parts \X {0})
    OBVIOUS
  <2>1. <<b, q, 0>> \in {b} \X Parts \X {0} /\ Id(<<b, q, 0>>) = <<b, q>>
    BY DEF Id
  <2>2. QED
    BY <2>1 DEF Ids
<1>2. QED
  BY <1>1 DEF Whole

\* Deleting and inserting whole conversions leaves whole conversions.
LEMMA WholeReplace ==
    ASSUME NEW S \in SUBSET Row, NEW D \in SUBSET Row, NEW T \in SUBSET Row,
           Whole(S), Whole(D), Whole(T)
    PROVE  Whole(Without(S, Ids(D)) \cup T)
<1> DEFINE N == Without(S, Ids(D)) \cup T
<1>1. SUFFICES ASSUME NEW r \in N, NEW q \in Parts PROVE <<r[1], q>> \in Ids(N)
  BY WholeByParts
<1>2. CASE r \in T
  BY <1>2 DEF Whole, Ids
<1>3. CASE r \in Without(S, Ids(D))
  <2>1. r \in S /\ Id(r) \notin Ids(D)
    BY <1>3 DEF Without
  <2>2. PICK s \in S : Id(s) = <<r[1], q>>
    BY <2>1 DEF Whole, Ids
  <2>3. s[1] = r[1] /\ r[2] \in Parts /\ Id(r) = <<r[1], r[2]>>
    BY <2>1, <2>2, RowComponents DEF Id
  <2>4. Id(s) \notin Ids(D)
    <3>1. SUFFICES ASSUME NEW d \in D, Id(d) = Id(s) PROVE FALSE
      BY DEF Ids
    <3>2. d[1] = r[1]
      BY <3>1, <2>2, <2>3 DEF Id
    <3>3. <<d[1], r[2]>> \in Ids(D)
      BY <2>3 DEF Whole
    <3>4. QED
      BY <3>2, <3>3, <2>1, <2>3
  <2>5. s \in N
    BY <2>4 DEF Without
  <2>6. QED
    BY <2>2, <2>5 DEF Ids
<1>4. QED
  BY <1>2, <1>3

\* An edit changes no id.
LEMMA WholeEdit ==
    ASSUME NEW S \in SUBSET Row, Whole(S), NEW r \in S
    PROVE  Whole((S \ {r}) \cup {<<r[1], r[2], r[3] + 1>>})
<1> DEFINE e == <<r[1], r[2], r[3] + 1>>
           N == (S \ {r}) \cup {e}
<1>1. Id(e) = Id(r) /\ e[1] = r[1]
  BY DEF Id
<1>2. \A i \in Ids(S) : i \in Ids(N)
  BY <1>1 DEF Ids
<1>3. SUFFICES ASSUME NEW x \in N, NEW q \in Parts PROVE <<x[1], q>> \in Ids(N)
  BY WholeByParts
<1>4. PICK y \in S : y[1] = x[1]
  BY <1>1
<1>5. <<x[1], q>> \in Ids(S)
  BY <1>4 DEF Whole
<1>6. QED
  BY <1>2, <1>5

\* Whatever conversions overlap, are redelivered or crash, each leaves all of its
\* chunks or none.
THEOREM ConversionsStayWhole == Spec => []WholeConversions
<1>1. Init => Whole(chunks) /\ WholeDrafts
  BY WholeEmpty DEF Init, WholeDrafts, Converting
<1>2. TypeOK /\ FreshBatches /\ Whole(chunks) /\ WholeDrafts /\ [Next]_vars
        => (Whole(chunks) /\ WholeDrafts)'
  <2> SUFFICES ASSUME TypeOK, FreshBatches, Whole(chunks), WholeDrafts, [Next]_vars
               PROVE  Whole(chunks') /\ WholeDrafts'
    BY DEF Whole, Ids
  <2> USE DEF TypeOK, WholeDrafts, Converting, pgVars, workerVars, Jump
  <2>1. ASSUME UNCHANGED <<chunks, pc, rows, todo>> PROVE Whole(chunks') /\ WholeDrafts'
    BY <2>1
  <2>2. ASSUME NEW w \in Workers, UNCHANGED chunks,
               \A v \in Workers \ {w} : /\ pc'[v] = pc[v] /\ rows'[v] = rows[v]
                                        /\ todo'[v] = todo[v],
               pc'[w] \in {"idle", "convert"} => rows'[w] = {},
               pc'[w] = "save" => Whole(rows'[w]),
               pc'[w] \in Converting => Whole(todo'[w])
        PROVE  Whole(chunks') /\ WholeDrafts'
    BY <2>2
  <2>3. ASSUME NEW u \in Users, RequestStart(u) \/ RequestStep(u) \/ RequestCrash(u)
        PROVE  Whole(chunks') /\ WholeDrafts'
    <3>1. UNCHANGED <<pc, rows, todo>>
      BY <2>3 DEF RequestStart, Upload, ConfirmRead, RejectRead, ReprocessRead, PatchRead,
         Accept, RequestStep, ConfirmCommit, RejectCommit, ReprocessCommit, PatchCommit,
         EnqueueOk, EnqueueError, RequestCrash
    <3>2. CASE PatchCommit(u)
      <4>1. CASE UNCHANGED chunks
        BY <3>1, <4>1, <2>1
      <4>2. CASE \E r \in chunks : chunks' = (chunks \ {r}) \cup {<<r[1], r[2], r[3] + 1>>}
        BY <3>1, <4>2, WholeEdit
      <4>3. QED
        BY <3>2, <4>1, <4>2 DEF PatchCommit
    <3>3. CASE ~PatchCommit(u)
      <4>1. UNCHANGED chunks
        BY <2>3, <3>3 DEF RequestStart, Upload, ConfirmRead, RejectRead, ReprocessRead,
           PatchRead, Accept, RequestStep, ConfirmCommit, RejectCommit, ReprocessCommit,
           EnqueueOk, EnqueueError, RequestCrash
      <4>2. QED
        BY <3>1, <4>1, <2>1
    <3>4. QED
      BY <3>2, <3>3
  <2>4. ASSUME NEW w \in Workers, ProcessStep(w) PROVE Whole(chunks') /\ WholeDrafts'
    <3>1. CASE SkipProcess(w)
      BY <3>1, <2>1 DEF SkipProcess
    <3>2. CASE StartProcess(w) \/ ConvertFails(w)
      BY <3>2, <2>2 DEF StartProcess, ConvertFails
    <3>3. CASE Convert(w)
      <4>1. /\ pc[w] = "convert" /\ rows[w] = {} /\ todo[w] = {} /\ UNCHANGED <<chunks, rows>>
        BY <3>3 DEF Convert, FreshBatches
      <4>2. CASE Vectorised
        <5>1. PICK produced \in {Parts, {}} :
                todo' = [todo EXCEPT ![w] = {nextBatch} \X produced \X {0}]
          BY <3>3, <4>2 DEF Convert
        <5>2. Whole(todo'[w])
          BY <5>1, WholeBatch, WholeEmpty
        <5>3. pc' = [pc EXCEPT ![w] = "delete"]
          BY <3>3, <4>2 DEF Convert
        <5>4. QED
          BY <4>1, <5>1, <5>2, <5>3, <2>2
      <4>3. CASE ~Vectorised
        BY <3>3, <4>1, <4>3, <2>2, WholeEmpty DEF Convert
      <4>4. QED
        BY <4>2, <4>3
    <3>4. CASE DeleteRows(w)
      BY <3>4, <2>2 DEF DeleteRows, Deleted
    <3>5. CASE SaveCommit(w)
      <4>1. /\ chunks' = Without(chunks, Ids(rows[w])) \cup todo[w] /\ Finish(w)
            /\ pc[w] = "save"
        BY <3>5 DEF SaveCommit
      <4>2. Whole(chunks')
        BY <4>1, WholeReplace
      <4>3. QED
        BY <4>1, <4>2 DEF Finish
    <3>6. CASE SaveError(w)
      BY <3>6, <2>2 DEF SaveError, Finish
    <3>7. CASE MarkFailed(w)
      BY <3>7, <2>2 DEF MarkFailed, Finish
    <3>8. QED
      BY <2>4, <3>1, <3>2, <3>3, <3>4, <3>5, <3>6, <3>7 DEF ProcessStep
  <2>5. ASSUME NEW w \in Workers, IngestStep(w) PROVE Whole(chunks') /\ WholeDrafts'
    <3>1. CASE IngestSkip(w) \/ IngestEmpty(w)
      BY <3>1, <2>1 DEF IngestSkip, IngestEmpty
    <3>2. CASE IngestLock(w) \/ BgLock(w) \/ BgChunks(w) \/ Embed(w) \/ Clear(w)
      BY <3>2, <2>2 DEF IngestLock, BgLock, BgChunks, Embed, Clear
    <3>3. CASE BgRead(w)
      BY <3>3, <2>1, <2>2 DEF BgRead
    <3>4. CASE BgEmpty(w) \/ Abort(w) \/ IngestDone(w)
      BY <3>4, <2>2 DEF BgEmpty, Abort, IngestDone, Finish
    <3>5. CASE UpsertError(w) \/ Undo(w)
      BY <3>5, <2>2 DEF UpsertError, Undo
    <3>6. CASE Upsert(w)
      <4>1. PICK l \in {"normalize", "upsert"} : pc' = [pc EXCEPT ![w] = l]
        BY <3>6 DEF Upsert
      <4>2. QED
        BY <3>6, <4>1, <2>2 DEF Upsert
    <3>7. CASE IngestError(w)
      BY <3>7, <2>2 DEF IngestError, Finish
    <3>8. QED
      BY <2>5, <3>1, <3>2, <3>3, <3>4, <3>5, <3>6, <3>7 DEF IngestStep
  <2>6. ASSUME NEW w \in Workers, WorkerCrash(w) PROVE Whole(chunks') /\ WholeDrafts'
    BY <2>6, <2>2 DEF WorkerCrash, Finish
  <2>7. CASE ExhaustTask \/ BackgroundCrash
    BY <2>7, <2>1 DEF ExhaustTask, BackgroundCrash
  <2>8. CASE UNCHANGED vars
    BY <2>8, <2>1 DEF vars
  <2>9. QED
    BY <2>3, <2>4, <2>5, <2>6, <2>7, <2>8 DEF Next
<1>3. Whole(chunks) => WholeConversions
  BY DEF Whole, WholeConversions
<1>4. QED
  BY <1>1, <1>2, <1>3, TypeCorrect, NoIdCollision, PTL DEF Spec

-----------------------------------------------------------------------------
(* Done means searchable, but for the slips.                               *)

Tidy == slips \subseteq {"lateEdit"}

LEMMA SlipsGrow ==
    ASSUME [Next]_vars
    PROVE  slips \subseteq slips'
<1> USE DEF Slip
<1>1. ASSUME NEW u \in Users, RequestStart(u) \/ RequestStep(u) \/ RequestCrash(u)
      PROVE  slips \subseteq slips'
  BY <1>1 DEF RequestStart, Upload, ConfirmRead, RejectRead, ReprocessRead, PatchRead, RequestStep,
     ConfirmCommit, RejectCommit, ReprocessCommit, PatchCommit, EnqueueOk, EnqueueError, RequestCrash
<1>2. ASSUME NEW w \in Workers, ProcessStep(w) PROVE slips \subseteq slips'
  BY <1>2 DEF ProcessStep, SkipProcess, StartProcess, TakeProcessTask, Convert, ConvertFails,
     DeleteRows, SaveCommit, SaveError, MarkFailed
<1>3. ASSUME NEW w \in Workers, IngestStep(w) PROVE slips \subseteq slips'
  BY <1>3 DEF IngestStep, IngestSkip, IngestEmpty, IngestLock, BgRead, BgChunks, BgEmpty, BgLock,
     Embed, Clear, Upsert, UpsertError, Undo, Abort, IngestDone, IngestError, TakeIngestTask
<1>4. ASSUME NEW w \in Workers, WorkerCrash(w) PROVE slips \subseteq slips'
  BY <1>4 DEF WorkerCrash
<1>5. CASE ExhaustTask \/ BackgroundCrash \/ UNCHANGED vars
  BY <1>5 DEF ExhaustTask, BackgroundCrash, vars
<1>6. QED
  BY <1>1, <1>2, <1>3, <1>4, <1>5 DEF Next

\* What is still tidy after a step was before it, and the step is no slip.
LEMMA StillTidy ==
    ASSUME [Next]_vars, Tidy'
    PROVE  /\ Tidy
           /\ slips' = {} => slips = {}
           /\ \A name, happens :
                Slip(name, happens) /\ name \in {"unready", "again", "redone"} => ~happens
BY SlipsGrow DEF Tidy, Slip

\* While tidy, the only process-document is about to be queued, queued, or under
\* way; what fails goes back to the queue.
OneConversion ==
    Tidy =>
        /\ processQ \in {0, 1} /\ processBG \in {0, 1}
        /\ processQ = 0 \/ processBG = 0
        /\ \A u \in Users : rpc[u] # "reprocessing"
        /\ processQ = 1 \/ processBG = 1 =>
              /\ \A u \in Users : rpc[u] # "enqueueProcess"
              /\ \A w \in Workers : pc[w] \notin Processing
        /\ \A u \in Users : rpc[u] = "enqueueProcess" =>
              /\ \A v \in Users \ {u} : rpc[v] # "enqueueProcess"
              /\ \A w \in Workers : pc[w] \notin Processing
        /\ \A w \in Workers : pc[w] \in Processing =>
              \A x \in Workers \ {w} : pc[x] \notin Processing

LEMMA ConvertedOnce == Spec => []OneConversion
<1>1. Init => OneConversion
  BY DEF Init, OneConversion, Processing
<1>2. TypeOK /\ NothingBeforeUpload /\ OneConversion /\ [Next]_vars => OneConversion'
  <2> SUFFICES ASSUME TypeOK, NothingBeforeUpload, OneConversion, [Next]_vars, Tidy'
               PROVE  OneConversion'
    BY DEF OneConversion
  <2>0. /\ Tidy
        /\ \A name, happens :
             Slip(name, happens) /\ name \in {"unready", "again", "redone"} => ~happens
    BY StillTidy
  <2> USE DEF TypeOK, OneConversion, Processing, pgVars, queueVars, reqVars, workerVars
  <2>1. ASSUME NEW u \in Users, UNCHANGED <<processQ, processBG, pc>>,
               NEW l \in {"idle", "confirming", "rejecting", "patching", "enqueueIngest"},
               rpc' = [rpc EXCEPT ![u] = l]
        PROVE  OneConversion'
    BY <2>0, <2>1
  <2>2. ASSUME NEW w \in Workers, UNCHANGED <<processQ, processBG, rpc>>,
               NEW l, l \in Processing => pc[w] \in Processing,
               pc' = [pc EXCEPT ![w] = l]
        PROVE  OneConversion'
    BY <2>0, <2>2
  <2>3. ASSUME NEW u \in Users, RequestStart(u) \/ RequestStep(u) \/ RequestCrash(u)
        PROVE  OneConversion'
    <3>1. CASE Upload(u)
      BY <2>0, <3>1 DEF Upload, Goto, NothingBeforeUpload
    <3>2. CASE ConfirmRead(u) \/ RejectRead(u) \/ PatchRead(u)
      BY <2>1, <3>2 DEF ConfirmRead, RejectRead, PatchRead, Accept, Goto
    <3>3. CASE ReprocessRead(u)
      BY <2>0, <3>3 DEF ReprocessRead
    <3>4. CASE ConfirmCommit(u) \/ RejectCommit(u) \/ PatchCommit(u) \/ RequestCrash(u)
      BY <2>1, <3>4 DEF ConfirmCommit, RejectCommit, PatchCommit, RequestCrash, Respond, Goto
    <3>5. CASE ReprocessCommit(u)
      BY <2>0, <3>5 DEF ReprocessCommit
    <3>6. CASE EnqueueOk(u)
      BY <2>0, <3>6 DEF EnqueueOk, CreateTask, Respond, Goto
    <3>7. CASE EnqueueError(u)
      <4>1. UNCHANGED processQ
        BY <2>0, <3>7 DEF EnqueueError, CreateTask
      <4>2. pc' = pc /\ (UNCHANGED <<rpc, processBG>> \/ (Respond(u) /\ Fallback(u)))
        BY <3>7 DEF EnqueueError
      <4>3. CASE UNCHANGED <<rpc, processBG>>
        BY <2>0, <4>1, <4>2, <4>3
      <4>4. CASE rpc[u] = "enqueueIngest" /\ Respond(u) /\ Fallback(u)
        BY <2>1, <4>1, <4>2, <4>4 DEF Respond, Fallback, Goto
      <4>5. CASE rpc[u] = "enqueueProcess" /\ Respond(u) /\ Fallback(u)
        <5>1. processQ = 0 /\ processBG = 0
          BY <2>0, <4>5
        <5>2. processBG' = 1 /\ rpc' = [rpc EXCEPT ![u] = "idle"]
          BY <4>5, <5>1 DEF Respond, Fallback, Goto
        <5>3. QED
          BY <2>0, <4>1, <4>2, <4>5, <5>1, <5>2
      <4>6. QED
        BY <4>2, <4>3, <4>4, <4>5 DEF Fallback
    <3>8. QED
      BY <2>3, <3>1, <3>2, <3>3, <3>4, <3>5, <3>6, <3>7 DEF RequestStart, RequestStep
  <2>4. ASSUME NEW w \in Workers, ProcessStep(w) PROVE OneConversion'
    <3>0. TakeProcessTask => processQ = 1 /\ processQ' = 0 /\ processBG' = 0
      <4>1. ASSUME TakeProcessTask PROVE processQ' = processQ - 1 /\ processQ > 0 /\ processBG' = processBG
        BY <2>0, <4>1 DEF TakeProcessTask
      <4>2. QED
        BY <2>0, <4>1
    <3>1. CASE SkipProcess(w)
      BY <2>0, <3>0, <3>1 DEF SkipProcess
    <3>2. CASE StartProcess(w)
      <4>1. processQ = 1 \/ processBG = 1
        BY <2>0, <3>0, <3>2 DEF StartProcess
      <4>2. /\ processQ' = 0 /\ processBG' = 0
            /\ rpc' = rpc /\ pc' = [pc EXCEPT ![w] = "convert"]
        BY <2>0, <3>0, <3>2 DEF StartProcess, Jump
      <4>3. QED
        BY <2>0, <4>1, <4>2
    <3>3. CASE Convert(w)
      BY <2>2, <3>3 DEF Convert, Jump
    <3>4. CASE ConvertFails(w) \/ DeleteRows(w)
      BY <2>2, <3>4 DEF ConvertFails, DeleteRows, Jump
    <3>5. CASE SaveCommit(w) \/ MarkFailed(w)
      BY <2>2, <3>5 DEF SaveCommit, MarkFailed, Finish, Jump
    <3>6. CASE SaveError(w)
      BY <2>0, <3>6 DEF SaveError, RedeliverProcess, Finish, Jump
    <3>7. QED
      BY <2>4, <3>1, <3>2, <3>3, <3>4, <3>5, <3>6 DEF ProcessStep
  <2>5. ASSUME NEW w \in Workers, IngestStep(w) PROVE OneConversion'
    <3>1. CASE IngestSkip(w) \/ IngestEmpty(w)
      BY <2>0, <3>1 DEF IngestSkip, IngestEmpty, TakeIngestTask
    <3>2. CASE IngestLock(w)
      BY <2>2, <3>2 DEF IngestLock, TakeIngestTask, Jump
    <3>3. CASE BgRead(w)
      BY <2>0, <2>2, <3>3 DEF BgRead, Jump
    <3>4. CASE BgChunks(w) \/ BgEmpty(w) \/ BgLock(w)
      BY <2>2, <3>4 DEF BgChunks, BgEmpty, BgLock, Finish, Jump
    <3>5. CASE Embed(w) \/ Clear(w) \/ Upsert(w) \/ UpsertError(w) \/ Undo(w)
      BY <2>2, <3>5 DEF Embed, Clear, Upsert, UpsertError, Undo, Jump
    <3>6. CASE Abort(w) \/ IngestDone(w) \/ IngestError(w)
      BY <2>2, <3>6 DEF Abort, IngestDone, IngestError, RedeliverIngest, Finish, Jump
    <3>7. QED
      BY <2>5, <3>1, <3>2, <3>3, <3>4, <3>5, <3>6 DEF IngestStep
  <2>6. ASSUME NEW w \in Workers, WorkerCrash(w) PROVE OneConversion'
    <3>1. pc' = [pc EXCEPT ![w] = "idle"] /\ UNCHANGED <<processBG, rpc>>
      BY <2>6 DEF WorkerCrash, Finish, Jump
    <3>2. CASE UNCHANGED processQ
      BY <2>2, <3>1, <3>2
    <3>3. CASE processQ' = processQ + 1 /\ pc[w] \notin Ingesting /\ pc[w] # "idle"
      BY <2>0, <3>1, <3>3
    <3>4. QED
      BY <2>6, <3>2, <3>3 DEF WorkerCrash, RedeliverProcess
  <2>7. CASE ExhaustTask \/ BackgroundCrash
    BY <2>0, <2>7 DEF ExhaustTask, BackgroundCrash
  <2>8. CASE UNCHANGED vars
    BY <2>0, <2>8 DEF vars
  <2>9. QED
    BY <2>3, <2>4, <2>5, <2>6, <2>7, <2>8 DEF Next
<1>3. QED
  BY <1>1, <1>2, TypeCorrect, NothingBefore, PTL DEF Spec

\* A code file has neither rows nor points.
NoCodeRows ==
    ~Vectorised =>
        /\ chunks = {} /\ qdrant = {}
        /\ \A w \in Workers : todo[w] = {} /\ pc[w] \notin Vectorising \cup {"bgLock"}

LEMMA NoCodeRowsEver == Spec => []NoCodeRows
<1>1. Init => NoCodeRows
  BY DEF Init, NoCodeRows, Vectorising
<1>2. TypeOK /\ NoCodeRows /\ [Next]_vars => NoCodeRows'
  <2> SUFFICES ASSUME TypeOK, NoCodeRows, [Next]_vars, ~Vectorised
               PROVE  NoCodeRows'
    BY DEF NoCodeRows
  <2> USE DEF TypeOK, NoCodeRows, Vectorising, pgVars, queueVars, reqVars, workerVars
  <2>1. ASSUME UNCHANGED <<chunks, qdrant, pc, todo>> PROVE NoCodeRows'
    BY <2>1
  <2>2. ASSUME NEW w \in Workers, chunks' = {}, UNCHANGED qdrant,
               NEW l \in {"idle", "bgChunks", "bgEmpty", "bgFail"} \cup Processing,
               pc' = [pc EXCEPT ![w] = l],
               UNCHANGED todo \/ todo' = [todo EXCEPT ![w] = {}]
        PROVE  NoCodeRows'
    BY <2>2 DEF Processing
  <2>3. ASSUME NEW u \in Users, RequestStart(u) \/ RequestStep(u) \/ RequestCrash(u)
        PROVE  NoCodeRows'
    BY <2>3, <2>1 DEF RequestStart, Upload, ConfirmRead, RejectRead, ReprocessRead, PatchRead,
       Accept, RequestStep, ConfirmCommit, RejectCommit, ReprocessCommit, PatchCommit,
       EnqueueOk, EnqueueError, RequestCrash
  <2>4. ASSUME NEW w \in Workers, ProcessStep(w) PROVE NoCodeRows'
    <3>1. CASE SkipProcess(w)
      BY <3>1, <2>1 DEF SkipProcess
    <3>2. CASE StartProcess(w) \/ Convert(w) \/ ConvertFails(w) \/ DeleteRows(w)
      BY <3>2, <2>2 DEF StartProcess, Convert, ConvertFails, DeleteRows, Jump, Processing
    <3>3. CASE SaveCommit(w)
      BY <3>3, <2>2 DEF SaveCommit, Finish, Jump, Without
    <3>4. CASE SaveError(w) \/ MarkFailed(w)
      BY <3>4, <2>2 DEF SaveError, MarkFailed, Finish, Jump, Processing
    <3>5. QED
      BY <2>4, <3>1, <3>2, <3>3, <3>4 DEF ProcessStep
  <2>5. ASSUME NEW w \in Workers, IngestStep(w) PROVE NoCodeRows'
    <3>1. CASE IngestSkip(w) \/ IngestEmpty(w)
      BY <3>1, <2>1 DEF IngestSkip, IngestEmpty
    <3>2. CASE BgRead(w)
      BY <3>2, <2>1, <2>2 DEF BgRead, Jump
    <3>3. CASE BgChunks(w) \/ BgEmpty(w)
      BY <3>3, <2>2 DEF BgChunks, BgEmpty, Finish, Jump
    <3>4. CASE ~(IngestSkip(w) \/ IngestEmpty(w) \/ BgRead(w) \/ BgChunks(w) \/ BgEmpty(w))
      BY <2>5, <3>4 DEF IngestStep, IngestLock, BgLock, Embed, Clear, Upsert, UpsertError, Undo,
         Abort, IngestDone, IngestError
    <3>5. QED
      BY <3>1, <3>2, <3>3, <3>4
  <2>6. ASSUME NEW w \in Workers, WorkerCrash(w) PROVE NoCodeRows'
    BY <2>6, <2>2 DEF WorkerCrash, Finish, Jump
  <2>7. CASE ExhaustTask \/ BackgroundCrash
    BY <2>7, <2>1 DEF ExhaustTask, BackgroundCrash
  <2>8. CASE UNCHANGED vars
    BY <2>8, <2>1 DEF vars
  <2>9. QED
    BY <2>3, <2>4, <2>5, <2>6, <2>7, <2>8 DEF Next
<1>3. QED
  BY <1>1, <1>2, TypeCorrect, PTL DEF Spec

\* An edit keeps the id of its row.
LEMMA EditKeepsIds ==
    ASSUME NEW S, NEW r \in S, NEW e, Id(e) = Id(r)
    PROVE  Ids((S \ {r}) \cup {e}) = Ids(S)
BY DEF Ids

LEMMA PatchKeepsIds ==
    ASSUME NEW r \in chunks, chunks' = (chunks \ {r}) \cup {<<r[1], r[2], r[3] + 1>>}
    PROVE  Ids(chunks') = Ids(chunks)
<1>1. Id(<<r[1], r[2], r[3] + 1>>) = Id(r)
  BY DEF Id
<1>2. QED
  BY <1>1, EditKeepsIds

\* The rows that count as the session's: its chunks, unless an edit came late.
SameRows(R) ==
    /\ Ids(R) = Ids(chunks)
    /\ slips = {} => R = chunks

\* While tidy: a document still to be converted has no rows, so nobody confirms it;
\* once somebody does its rows keep their ids and the session never is in the
\* preview again, so an edit of rows already read is a late one; and nobody
\* vectorises what is done.
Reading == Vectorising \cup {"bgChunks", "bgEmpty", "bgLock"}

ConversionFirst ==
    Vectorised /\ Tidy =>
        /\ ProcessPending => chunks = {}
        /\ status = "absent" => chunks = {}
        /\ status \in {"confirmed", "done"} => chunks # {}
        /\ \A u \in Users : rpc[u] = "confirming" => chunks # {}
        /\ \A w \in Workers : pc[w] \in Reading =>
             /\ chunks # {}
             /\ status # "pending_preview"
             /\ pc[w] # "bgEmpty"
        /\ \A w \in Workers : pc[w] \in Vectorising => status # "done"
        /\ \A w \in Workers : pc[w] \in Vectorising \cup {"bgLock"} => SameRows(rows[w])

LEMMA ConvertedFirst == Spec => []ConversionFirst
<1>1. Init => ConversionFirst
  BY DEF Init, ConversionFirst, Reading, Vectorising
<1>2. /\ TypeOK /\ NothingBeforeUpload /\ WriterHoldsRow /\ OneConversion /\ ConversionFirst
      /\ [Next]_vars
      => ConversionFirst'
  <2> SUFFICES ASSUME TypeOK, NothingBeforeUpload, WriterHoldsRow, OneConversion,
                      ConversionFirst, [Next]_vars, Vectorised, Tidy'
               PROVE  ConversionFirst'
    BY DEF ConversionFirst
  <2>0. /\ Tidy
        /\ slips' = {} => slips = {}
        /\ \A name, happens :
             Slip(name, happens) /\ name \in {"unready", "again", "redone"} => ~happens
    BY StillTidy
  <2> USE ConstantsAssumption
          DEF TypeOK, ConversionFirst, ProcessPending, Reading, Vectorising, Processing, pgVars,
              queueVars, reqVars, workerVars
  <2>01. ASSUME NEW R, SameRows(R), UNCHANGED chunks PROVE SameRows(R)'
    BY <2>0, <2>01 DEF SameRows
  <2>02. SameRows(chunks)
    BY DEF SameRows
  <2>1. ASSUME UNCHANGED <<status, chunks, pc, rows>>,
               ProcessPending' => ProcessPending,
               \A u \in Users : rpc'[u] = "confirming" => rpc[u] = "confirming" \/ chunks # {}
        PROVE  ConversionFirst'
    BY <2>0, <2>1 DEF SameRows
  \* A worker that is no writer, or stops being one.
  <2>2. ASSUME NEW w \in Workers, UNCHANGED <<chunks, rpc>>,
               \A v \in Workers \ {w} : pc'[v] = pc[v] /\ rows'[v] = rows[v],
               pc'[w] \notin Reading,
               ProcessPending' => ProcessPending,
               status' = "absent" => status = "absent",
               status' \in {"confirmed", "done"} => chunks # {},
               status' = "pending_preview" => status = "pending_preview",
               status' # status => \A v \in Workers \ {w} : pc[v] \notin Vectorising
        PROVE  ConversionFirst'
    BY <2>0, <2>2 DEF SameRows
  <2>3. RowFree => \A w \in Workers : pc[w] \notin Vectorising
    BY DEF RowFree, WriterHoldsRow
  <2>4. ASSUME NEW u \in Users, RequestStart(u) \/ RequestStep(u) \/ RequestCrash(u)
        PROVE  ConversionFirst'
    <3>1. CASE Upload(u)
      <4>1. chunks = {} /\ \A w \in Workers : pc[w] \notin Reading
        BY <2>0, <3>1 DEF Upload
      <4>2. QED
        BY <2>0, <3>1, <4>1 DEF Upload, Goto, NothingBeforeUpload
    <3>2. CASE ConfirmRead(u)
      <4>1. chunks # {}
        BY <2>0, <3>2 DEF ConfirmRead, CanConfirm
      <4>2. QED
        BY <2>1, <3>2, <4>1 DEF ConfirmRead, Accept, Goto
    <3>3. CASE RejectRead(u) \/ PatchRead(u)
      BY <2>1, <3>3 DEF RejectRead, PatchRead, Accept, Goto
    <3>4. CASE ReprocessRead(u)
      BY <2>0, <3>4 DEF ReprocessRead
    <3>5. CASE ConfirmCommit(u) \/ RejectCommit(u)
      <4>1. \A w \in Workers : pc[w] \notin Vectorising
        BY <2>3, <3>5 DEF ConfirmCommit, RejectCommit, SetStatus
      <4>2. \/ status' = "confirmed" /\ chunks # {}
            \/ status' = "failed"
        BY <2>0, <3>5 DEF ConfirmCommit, RejectCommit, SetStatus
      <4>3. /\ UNCHANGED <<chunks, pc, rows, processQ, processBG>>
            /\ \A v \in Users : rpc'[v] \in {"confirming", "enqueueProcess"} => rpc'[v] = rpc[v]
        BY <3>5 DEF ConfirmCommit, RejectCommit, Respond, Goto
      <4>4. QED
        BY <2>0, <4>1, <4>2, <4>3 DEF SameRows
    <3>6. CASE ReprocessCommit(u)
      BY <2>0, <3>6 DEF ReprocessCommit, OneConversion
    <3>7. CASE PatchCommit(u)
      <4>1. /\ UNCHANGED <<status, processQ, processBG, pc, rows>>
            /\ \A v \in Users : rpc'[v] \in {"confirming", "enqueueProcess"} => rpc'[v] = rpc[v]
        BY <3>7 DEF PatchCommit, Respond, Goto
      <4>2. CASE UNCHANGED chunks
        BY <2>1, <4>1, <4>2
      <4>3. ASSUME NEW r \in chunks, chunks' = (chunks \ {r}) \cup {<<r[1], r[2], r[3] + 1>>},
                   Slip("lateEdit", status # "pending_preview")
            PROVE  ConversionFirst'
        <5>1. Ids(chunks') = Ids(chunks)
          BY <4>3, PatchKeepsIds
        <5>2. chunks' # {} /\ chunks # {}
          BY <4>3
        <5>3. status # "pending_preview" => slips' # {}
          BY <4>3 DEF Slip
        <5>4. QED
          BY <2>0, <4>1, <5>1, <5>2, <5>3 DEF SameRows
      <4>4. QED
        BY <3>7, <4>2, <4>3 DEF PatchCommit
    <3>8. CASE EnqueueOk(u)
      BY <2>1, <3>8 DEF EnqueueOk, CreateTask, Respond, Goto
    <3>9. CASE EnqueueError(u)
      <4>1. UNCHANGED processQ
        BY <2>0, <3>9 DEF EnqueueError, CreateTask
      <4>2. /\ UNCHANGED <<status, chunks, pc, rows>>
            /\ UNCHANGED <<rpc, processBG>> \/ (Respond(u) /\ Fallback(u))
        BY <3>9 DEF EnqueueError
      <4>3. \A v \in Users : rpc'[v] \in {"confirming", "enqueueProcess"} => rpc'[v] = rpc[v]
        BY <4>2 DEF Respond, Goto
      <4>4. ProcessPending' => ProcessPending
        BY <4>1, <4>2, <4>3 DEF Fallback
      <4>5. QED
        BY <2>1, <4>2, <4>3, <4>4
    <3>10. CASE RequestCrash(u)
      BY <2>1, <3>10 DEF RequestCrash, Respond, Goto
    <3>11. QED
      BY <2>4, <3>1, <3>2, <3>3, <3>4, <3>5, <3>6, <3>7, <3>8, <3>9, <3>10
         DEF RequestStart, RequestStep
  <2>5. ASSUME NEW w \in Workers, ProcessStep(w) PROVE ConversionFirst'
    <3>1. CASE SkipProcess(w)
      BY <2>1, <3>1 DEF SkipProcess, TakeProcessTask
    <3>2. CASE StartProcess(w)
      <4>1. processQ > 0 \/ processBG > 0
        BY <3>2 DEF StartProcess, TakeProcessTask
      <4>2. /\ UNCHANGED <<status, chunks, rpc, rows>>
            /\ pc' = [pc EXCEPT ![w] = "convert"]
        BY <3>2 DEF StartProcess, Jump
      <4>3. ProcessPending
        BY <4>1
      <4>4. /\ chunks = {} /\ status \notin {"confirmed", "done"}
            /\ \A u \in Users : rpc[u] # "confirming"
            /\ \A v \in Workers : pc[v] \notin Reading
        BY <2>0, <4>3
      <4>5. /\ UNCHANGED <<status, chunks, rpc>>
            /\ \A v \in Workers : pc'[v] \notin Reading
        BY <4>2, <4>4
      <4>6. QED
        BY <4>4, <4>5
    <3>3. CASE Convert(w) \/ ConvertFails(w) \/ DeleteRows(w)
      <4>1. /\ UNCHANGED <<status, chunks, rpc>>
            /\ pc'[w] \in {"delete", "save", "fail"}
            /\ \A v \in Workers \ {w} : pc'[v] = pc[v] /\ rows'[v] = rows[v]
        BY <3>3 DEF Convert, ConvertFails, DeleteRows, Jump
      <4>2. ProcessPending
        BY <3>3 DEF Convert, ConvertFails, DeleteRows
      <4>3. pc'[w] \notin Reading
        BY <4>1
      <4>4. QED
        BY <2>0, <2>2, <4>1, <4>2, <4>3
    <3>4. CASE SaveCommit(w)
      <4>1. ProcessPending /\ pc[w] \in Processing
        BY <3>4 DEF SaveCommit
      <4>2. /\ status \notin {"confirmed", "done"}
            /\ \A u \in Users : rpc[u] # "confirming"
            /\ \A v \in Workers : pc[v] \notin Reading
        BY <2>0, <4>1
      <4>3. /\ processQ' = 0 /\ processBG' = 0
            /\ \A u \in Users : rpc'[u] # "enqueueProcess"
            /\ \A v \in Workers : pc'[v] \notin Processing
        BY <2>0, <3>4, <4>1 DEF SaveCommit, Finish, Jump, OneConversion
      <4>4. status' \notin {"absent", "confirmed", "done"}
        BY <3>4, <4>1, <4>2 DEF SaveCommit, NothingBeforeUpload
      <4>5. QED
        BY <3>4, <4>2, <4>3, <4>4 DEF SaveCommit, Finish, Jump
    <3>5. CASE SaveError(w)
      <4>1. ProcessPending
        BY <3>5 DEF SaveError
      <4>2. UNCHANGED <<status, chunks, rpc>>
        BY <3>5 DEF SaveError
      <4>3. /\ pc'[w] \in {"idle", "fail"}
            /\ \A v \in Workers \ {w} : pc'[v] = pc[v] /\ rows'[v] = rows[v]
        BY <3>5 DEF SaveError, Finish, Jump
      <4>4. QED
        BY <2>0, <2>2, <4>1, <4>2, <4>3
    <3>6. CASE MarkFailed(w)
      BY <2>2, <2>3, <3>6 DEF MarkFailed, SetStatus, Finish, Jump
    <3>7. QED
      BY <2>5, <3>1, <3>2, <3>3, <3>4, <3>5, <3>6 DEF ProcessStep
  \* A worker that has just read the rows, or keeps those it has read.
  <2>6. ASSUME NEW w \in Workers, UNCHANGED <<status, chunks, rpc, processQ, processBG>>,
               \A v \in Workers \ {w} : pc'[v] = pc[v] /\ rows'[v] = rows[v],
               pc'[w] \in Reading \ {"bgEmpty"},
               chunks # {}, status # "pending_preview",
               pc'[w] \in Vectorising => status # "done",
               SameRows(rows'[w])
        PROVE  ConversionFirst'
    BY <2>0, <2>6 DEF SameRows
  <2>7. ASSUME NEW w \in Workers, IngestStep(w) PROVE ConversionFirst'
    <3>1. CASE IngestSkip(w)
      BY <2>1, <3>1 DEF IngestSkip, TakeIngestTask
    <3>2. CASE IngestEmpty(w)
      BY <2>0, <3>2 DEF IngestEmpty, IngestAllowed
    <3>3. CASE IngestLock(w)
      <4>1. status = "confirmed" /\ chunks # {} /\ rows'[w] = chunks /\ pc'[w] = "embed"
        BY <3>3 DEF IngestLock, IngestAllowed, Jump
      <4>2. /\ UNCHANGED <<status, chunks, rpc, processQ, processBG>>
            /\ \A v \in Workers \ {w} : pc'[v] = pc[v] /\ rows'[v] = rows[v]
        BY <3>3 DEF IngestLock, TakeIngestTask, Jump
      <4>3. QED
        BY <2>02, <2>6, <4>1, <4>2
    <3>4. CASE BgRead(w)
      <4>1. CASE ~IngestAllowed
        BY <2>1, <3>4, <4>1 DEF BgRead
      <4>2. CASE IngestAllowed
        <5>1. status = "confirmed" /\ chunks # {}
          BY <2>0, <4>2 DEF IngestAllowed
        <5>2. /\ UNCHANGED <<status, chunks, rpc, processQ, rows>>
              /\ processBG' = processBG /\ pc' = [pc EXCEPT ![w] = "bgChunks"]
          BY <3>4, <4>2 DEF BgRead, Jump
        <5>3. QED
          BY <2>0, <5>1, <5>2 DEF SameRows
      <4>3. QED
        BY <4>1, <4>2
    <3>5. CASE BgChunks(w)
      <4>1. chunks # {} /\ status # "pending_preview"
        BY <2>0, <3>5 DEF BgChunks
      <4>2. rows'[w] = chunks /\ pc'[w] = "bgLock"
        BY <3>5, <4>1 DEF BgChunks, Jump
      <4>3. /\ UNCHANGED <<status, chunks, rpc, processQ, processBG>>
            /\ \A v \in Workers \ {w} : pc'[v] = pc[v] /\ rows'[v] = rows[v]
        BY <3>5 DEF BgChunks, Jump
      <4>4. QED
        BY <2>02, <2>6, <4>1, <4>2, <4>3
    <3>6. CASE BgEmpty(w)
      BY <2>0, <3>6 DEF BgEmpty
    <3>7. CASE BgLock(w)
      <4>1. chunks # {} /\ status # "pending_preview" /\ SameRows(rows[w])
        BY <2>0, <3>7 DEF BgLock
      <4>2. status # "done"
        BY <2>0, <3>7 DEF BgLock
      <4>3. /\ UNCHANGED <<status, chunks, rpc, processQ, processBG, rows>>
            /\ pc' = [pc EXCEPT ![w] = "embed"]
        BY <3>7 DEF BgLock, Jump
      <4>4. QED
        BY <2>6, <4>1, <4>2, <4>3
    <3>8. CASE Embed(w) \/ Clear(w) \/ Upsert(w) \/ UpsertError(w) \/ Undo(w)
      <4>1. PICK l \in Vectorising : pc' = [pc EXCEPT ![w] = l]
        BY <3>8 DEF Embed, Clear, Upsert, UpsertError, Undo, Jump
      <4>2. /\ pc[w] \in Vectorising
            /\ UNCHANGED <<status, chunks, rows, rpc, processQ, processBG>>
        BY <3>8 DEF Embed, Clear, Upsert, UpsertError, Undo
      <4>3. chunks # {} /\ status \notin {"pending_preview", "done"} /\ SameRows(rows[w])
        BY <2>0, <4>2
      <4>4. QED
        BY <2>6, <4>1, <4>2, <4>3
    <3>9. CASE Abort(w) \/ IngestDone(w)
      <4>1. lock = w /\ pc[w] \in Vectorising
        BY <3>9 DEF Abort, IngestDone, WriterHoldsRow
      <4>2. chunks # {} /\ \A v \in Workers \ {w} : pc[v] \notin Vectorising
        BY <2>0, <4>1 DEF WriterHoldsRow
      <4>3. /\ status' \in {"failed", "done"}
            /\ UNCHANGED <<chunks, rpc, processQ, processBG>>
        BY <3>9 DEF Abort, IngestDone
      <4>4. /\ pc'[w] = "idle"
            /\ \A v \in Workers \ {w} : pc'[v] = pc[v] /\ rows'[v] = rows[v]
        BY <3>9 DEF Abort, IngestDone, Finish, Jump
      <4>5. ProcessPending' => ProcessPending
        BY <4>3, <4>4
      <4>6. /\ status' \notin {"absent", "confirmed", "pending_preview"}
            /\ pc'[w] \notin Reading
        BY <4>3, <4>4
      <4>8. QED
        BY <2>2, <4>2, <4>3, <4>4, <4>5, <4>6
    <3>10. CASE IngestError(w)
      <4>1. /\ UNCHANGED <<status, chunks, rpc, processQ, processBG>>
            /\ pc'[w] \in {"idle", "bgFail"}
            /\ \A v \in Workers \ {w} : pc'[v] = pc[v] /\ rows'[v] = rows[v]
        BY <3>10 DEF IngestError, Finish, Jump
      <4>2. ProcessPending' => ProcessPending
        BY <4>1
      <4>3. pc'[w] \notin Reading
        BY <4>1
      <4>4. QED
        BY <2>0, <2>2, <4>1, <4>2, <4>3
    <3>11. QED
      BY <2>7, <3>1, <3>2, <3>3, <3>4, <3>5, <3>6, <3>7, <3>8, <3>9, <3>10 DEF IngestStep
  <2>8. ASSUME NEW w \in Workers, WorkerCrash(w) PROVE ConversionFirst'
    <3>1. ProcessPending' => ProcessPending
      BY <2>8 DEF WorkerCrash, Finish, Jump, RedeliverProcess, Ingesting, Unlocked
    <3>2. QED
      BY <2>2, <2>8, <3>1, <2>0 DEF WorkerCrash, Finish, Jump
  <2>9. CASE ExhaustTask \/ BackgroundCrash
    BY <2>1, <2>9 DEF ExhaustTask, BackgroundCrash
  <2>10. CASE UNCHANGED vars
    BY <2>1, <2>10 DEF vars
  <2>11. QED
    BY <2>4, <2>5, <2>7, <2>8, <2>9, <2>10 DEF Next
<1>3. QED
  BY <1>1, <1>2, TypeCorrect, NothingBefore, OneWriter, ConvertedOnce, PTL DEF Spec

\* Done means searchable: the points are those of the session's chunks, text for
\* text, whatever batches fail, instances die, queues give up or deliver twice,
\* transactions are rolled back, users confirm twice or reject on the way, unless
\* one of the four slips has happened; an edit after the preview alone leaves the
\* points of the same chunks, with the text of before.
THEOREM DoneIsSearchable == Spec => []SearchableWhenDone
<1>1. Init => SearchableWhenDone
  BY DEF Init, SearchableWhenDone
<1>2. /\ TypeOK /\ WriterHoldsRow /\ VectorsExact /\ NoCodeRows /\ ConversionFirst
      /\ SearchableWhenDone /\ [Next]_vars
      => SearchableWhenDone'
  <2> DEFINE Searchable == Ids(qdrant) = Ids(chunks) /\ (slips = {} => qdrant = chunks)
  <2> SUFFICES ASSUME TypeOK, WriterHoldsRow, VectorsExact, NoCodeRows, ConversionFirst,
                      SearchableWhenDone, [Next]_vars, status' = "done", Tidy'
               PROVE  Searchable'
    BY DEF SearchableWhenDone, Tidy, Ids
  <2>0. Tidy /\ (slips' = {} => slips = {})
    BY StillTidy
  <2>00. status = "done" => Searchable
    BY <2>0 DEF SearchableWhenDone, Tidy
  <2> USE DEF pgVars, queueVars, reqVars, workerVars
  <2>1. ASSUME UNCHANGED <<status, chunks, qdrant>> PROVE Searchable'
    BY <2>0, <2>00, <2>1
  \* The points of a document that is done are left alone.
  <2>2. ASSUME NEW w \in Workers, pc[w] \in Vectorising, UNCHANGED status PROVE FALSE
    BY <2>0, <2>2 DEF ConversionFirst, NoCodeRows
  <2>3. ASSUME NEW u \in Users, RequestStart(u) \/ RequestStep(u) \/ RequestCrash(u)
        PROVE  Searchable'
    <3>1. CASE PatchCommit(u)
      <4>1. UNCHANGED <<status, qdrant>>
        BY <3>1 DEF PatchCommit
      <4>2. CASE UNCHANGED chunks
        BY <2>1, <4>1, <4>2
      <4>3. ASSUME NEW r \in chunks, chunks' = (chunks \ {r}) \cup {<<r[1], r[2], r[3] + 1>>},
                   Slip("lateEdit", status # "pending_preview")
            PROVE  Searchable'
        <5>1. Ids(chunks') = Ids(chunks)
          BY <4>3, PatchKeepsIds
        <5>2. slips' # {}
          BY <4>1, <4>3 DEF Slip
        <5>3. QED
          BY <2>00, <4>1, <5>1, <5>2
      <4>4. QED
        BY <3>1, <4>2, <4>3 DEF PatchCommit
    <3>2. CASE ~PatchCommit(u)
      BY <2>3, <3>2, <2>1 DEF RequestStart, Upload, ConfirmRead, RejectRead, ReprocessRead,
         PatchRead, Accept, RequestStep, ConfirmCommit, RejectCommit, ReprocessCommit, EnqueueOk,
         EnqueueError, RequestCrash, SetStatus
    <3>3. QED
      BY <3>1, <3>2
  <2>4. ASSUME NEW w \in Workers, ProcessStep(w) PROVE Searchable'
    <3>1. CASE SaveCommit(w)
      <4>1. status = "done" /\ ProcessPending /\ UNCHANGED qdrant
        BY <3>1 DEF SaveCommit, ProcessPending, Processing
      <4>2. ~Vectorised
        BY <2>0, <4>1 DEF ConversionFirst
      <4>3. chunks' = {}
        BY <3>1, <4>2 DEF SaveCommit, NoCodeRows, Without
      <4>4. QED
        BY <4>1, <4>2, <4>3 DEF NoCodeRows
    <3>2. CASE ~SaveCommit(w)
      BY <2>4, <3>2, <2>1 DEF ProcessStep, SkipProcess, StartProcess, Convert, ConvertFails,
         DeleteRows, SaveError, MarkFailed, SetStatus
    <3>3. QED
      BY <3>1, <3>2
  <2>5. ASSUME NEW w \in Workers, IngestStep(w) PROVE Searchable'
    <3>1. CASE IngestDone(w)
      <4>1. pc[w] = "normalize" /\ UNCHANGED <<qdrant, chunks>>
        BY <3>1 DEF IngestDone
      <4>2. SameRows(rows[w])
        BY <2>0, <4>1 DEF NoCodeRows, ConversionFirst, Vectorising
      <4>3. qdrant = rows[w]
        BY <4>1 DEF VectorsExact
      <4>4. QED
        BY <2>0, <4>1, <4>2, <4>3 DEF SameRows
    <3>2. CASE IngestEmpty(w) \/ BgEmpty(w)
      <4>1. UNCHANGED <<qdrant, chunks>>
        BY <3>2 DEF IngestEmpty, BgEmpty
      <4>2. ~Vectorised
        BY <2>0, <3>2 DEF IngestEmpty, BgEmpty, IngestAllowed, ConversionFirst, Reading
      <4>3. QED
        BY <4>1, <4>2 DEF NoCodeRows
    <3>3. CASE IngestSkip(w) \/ IngestLock(w) \/ BgRead(w) \/ BgChunks(w) \/ BgLock(w)
      BY <3>3, <2>1 DEF IngestSkip, IngestLock, BgRead, BgChunks, BgLock
    <3>4. CASE Embed(w) \/ Clear(w) \/ Upsert(w) \/ UpsertError(w) \/ Undo(w) \/ IngestError(w)
      BY <3>4, <2>2 DEF Embed, Clear, Upsert, UpsertError, Undo, IngestError, Vectorising
    <3>5. CASE Abort(w)
      BY <3>5 DEF Abort
    <3>6. QED
      BY <2>5, <3>1, <3>2, <3>3, <3>4, <3>5 DEF IngestStep
  <2>6. ASSUME NEW w \in Workers, WorkerCrash(w) PROVE Searchable'
    BY <2>6, <2>1 DEF WorkerCrash
  <2>7. CASE ExhaustTask \/ BackgroundCrash
    BY <2>7, <2>1 DEF ExhaustTask, BackgroundCrash
  <2>8. CASE UNCHANGED vars
    BY <2>8, <2>1 DEF vars
  <2>9. QED
    BY <2>3, <2>4, <2>5, <2>6, <2>7, <2>8 DEF Next
<1>3. QED
  BY <1>1, <1>2, TypeCorrect, OneWriter, ExactVectors, NoCodeRowsEver, ConvertedFirst, PTL DEF Spec
=============================================================================
