--------------------------- MODULE IngestionProofs ---------------------------
(***************************************************************************)
(* Theorems about Ingestion, for every number of requests, workers, upsert *)
(* batches and every value of the exploration bounds.                      *)
(***************************************************************************)
EXTENDS Ingestion, TLAPS

-----------------------------------------------------------------------------
(* Chunk ids.                                                               *)

\* No two rows of the set carry the same chunk id (the primary key).
UniqueIds(S) == \A x, y \in S : Id(x) = Id(y) => x = y

\* The clear empties; removing points by id only removes.
LEMMA WithoutSubset ==
    ASSUME NEW points, NEW ids
    PROVE  Without(points, ids) \subseteq points
  BY DEF Without

\* Upserting the next row of a half-written snapshot leaves the snapshot minus
\* what remains: the row replaces no other row, ids being unique.
LEMMA UpsertNext ==
    ASSUME NEW snapshot, UniqueIds(snapshot),
           NEW remaining, NEW r \in remaining, remaining \subseteq snapshot
    PROVE  Upserted(snapshot \ remaining, {r}) = snapshot \ (remaining \ {r})
  <1>1. Ids({r}) = {Id(r)}
    BY DEF Ids
  <1>2. \A x \in snapshot \ remaining : Id(x) \notin Ids({r})
    BY <1>1 DEF UniqueIds
  <1>3. Upserted(snapshot \ remaining, {r}) = (snapshot \ remaining) \cup {r}
    BY <1>2 DEF Upserted
  <1>4. QED
    BY <1>3

-----------------------------------------------------------------------------
(* Types.                                                                   *)

LEMMA RowOf ==
    ASSUME NEW b \in Nat, NEW ps \in SUBSET Parts
    PROVE  {b} \X ps \X {0} \subseteq Row
  BY DEF Row

LEMMA RowComponents ==
    ASSUME NEW r \in Row
    PROVE  /\ r[1] \in Nat /\ r[2] \in Parts /\ r[3] \in Nat
           /\ r = <<r[1], r[2], r[3]>>
           /\ Id(r) \in Nat \X Parts
           /\ <<r[1], r[2], r[3] + 1>> \in Row
  BY DEF Row, Id

LEMMA UpsertedType ==
    ASSUME NEW points \in SUBSET Row, NEW new \in SUBSET Row
    PROVE  Upserted(points, new) \in SUBSET Row
  BY DEF Upserted

\* Every variable keeps its type, whatever the bounds.
THEOREM TypeCorrect == Spec => []TypeOK
<1>1. Init => TypeOK
  <2> SUFFICES ASSUME Init PROVE TypeOK
    OBVIOUS
  <2>1. /\ status \in Status /\ ruleUsed \in BOOLEAN
        /\ seen \in [Users -> Status] /\ loaded \in [Workers -> Status]
    BY DEF Init, Status
  <2>2. /\ rpc \in [Users -> {"idle"} \cup Handling \cup Enqueuing]
        /\ pc \in [Workers -> {"idle"} \cup Processing \cup Ingesting]
        /\ via \in [Workers -> {"task", "background"}]
    BY DEF Init
  <2>3. /\ target \in [Users -> SUBSET (Nat \X Parts)]
        /\ rows \in [Workers -> SUBSET Row] /\ todo \in [Workers -> SUBSET Row]
    BY DEF Init
  <2>4. QED
    BY <2>1, <2>2, <2>3 DEF Init, TypeOK
<1>2. TypeOK /\ [Next]_vars => TypeOK'
  <2> SUFFICES ASSUME TypeOK, [Next]_vars PROVE TypeOK'
    OBVIOUS
  <2> USE DEF TypeOK, pgVars, queueVars, reqVars, workerVars, Goto, Jump, Slip
  <2>1. ASSUME NEW u \in Users, RequestStart(u) PROVE TypeOK'
    <3>1. CASE Upload(u)
      BY <3>1 DEF Upload, Enqueuing, Handling, Status
    <3>2. CASE ConfirmRead(u)
      BY <3>2 DEF ConfirmRead, Accept, Enqueuing, Handling
    <3>3. CASE RejectRead(u)
      BY <3>3 DEF RejectRead, Accept, Enqueuing, Handling
    <3>4. CASE ReprocessRead(u)
      BY <3>4 DEF ReprocessRead, Accept, Enqueuing, Handling
    <3>5. CASE PatchRead(u)
      <4>1. PICK r \in chunks : target' = [target EXCEPT ![u] = {Id(r)}]
        BY <3>5 DEF PatchRead
      <4>2. Id(r) \in Nat \X Parts
        BY <4>1, RowComponents
      <4>3. target' \in [Users -> SUBSET (Nat \X Parts)]
        BY <4>1, <4>2
      <4>4. QED
        BY <3>5, <4>3 DEF PatchRead, Accept, Enqueuing, Handling
    <3>6. QED
      BY <2>1, <3>1, <3>2, <3>3, <3>4, <3>5 DEF RequestStart
  <2>2. ASSUME NEW u \in Users, RequestStep(u) PROVE TypeOK'
    <3>1. CASE ConfirmCommit(u)
      BY <3>1 DEF ConfirmCommit, SetStatus, Enqueuing, Handling, Status
    <3>2. CASE RejectCommit(u)
      BY <3>2 DEF RejectCommit, SetStatus, Respond, Status
    <3>3. CASE ReprocessCommit(u)
      BY <3>3 DEF ReprocessCommit, SetStatus, Enqueuing, Handling, Status
    <3>4. CASE PatchCommit(u)
      <4>1. chunks' \in SUBSET Row
        BY <3>4, RowComponents DEF PatchCommit
      <4>2. /\ Respond(u)
            /\ UNCHANGED <<status, ruleUsed, lock, qdrant, queueVars, workerVars,
                           nextBatch, requests, faults, lost>>
            /\ slips' \subseteq {"unready", "again", "redone", "lateEdit"}
        BY <3>4 DEF PatchCommit
      <4>3. QED
        BY <4>1, <4>2 DEF Respond, Status
    <3>5. CASE EnqueueOk(u)
      <4>1. processQ' \in Nat /\ ingestQ' \in Nat
        BY <3>5 DEF EnqueueOk, CreateTask
      <4>2. QED
        BY <3>5, <4>1 DEF EnqueueOk, Respond, Status
    <3>6. CASE EnqueueError(u)
      <4>1. processQ' \in Nat /\ ingestQ' \in Nat /\ faults' \in Nat
        BY <3>6 DEF EnqueueError, CreateTask, Fault
      <4>2. /\ UNCHANGED <<pgVars, qdrant, workerVars, nextBatch, requests, lost>>
            /\ \/ /\ tries' = [tries EXCEPT ![u] = @ + 1]
                  /\ UNCHANGED <<rpc, seen, target, processBG, ingestBG>>
               \/ Respond(u) /\ Fallback(u)
            /\ slips' \subseteq {"unready", "again", "redone", "lateEdit"}
        BY <3>6 DEF EnqueueError
      <4>3. CASE UNCHANGED <<rpc, seen, target, processBG, ingestBG>>
        <5>1. tries' \in [Users -> Nat]
          BY <4>2 DEF Respond
        <5>2. QED
          BY <4>1, <4>2, <4>3, <5>1
      <4>4. CASE Respond(u) /\ Fallback(u)
        <5>1. processBG' \in Nat /\ ingestBG' \in Nat
          BY <4>4 DEF Fallback
        <5>2. QED
          BY <4>1, <4>2, <4>4, <5>1 DEF Respond, Status
      <4>5. QED
        BY <4>2, <4>3, <4>4
    <3>7. QED
      BY <2>2, <3>1, <3>2, <3>3, <3>4, <3>5, <3>6 DEF RequestStep
  <2>3. ASSUME NEW u \in Users, RequestCrash(u) PROVE TypeOK'
    <3>1. lost' \subseteq {"process", "ingest"}
      BY <2>3 DEF RequestCrash
    <3>2. QED
      BY <2>3, <3>1 DEF RequestCrash, Respond, Fault, Status
  <2>4. ASSUME NEW w \in Workers, ProcessStep(w) PROVE TypeOK'
    <3> USE DEF Processing, Ingesting, Unlocked, Vectorising
    <3> DEFINE Slips == SUBSET {"unready", "again", "redone", "lateEdit"}
    <3>0. TakeProcessTask =>
             /\ processQ' \in Nat /\ faults' \in Nat /\ slips' \in Slips
             /\ UNCHANGED <<ingestQ, processBG, ingestBG>>
      <4>1. CASE processQ' = processQ - 1 /\ UNCHANGED <<faults, slips>>
        BY <4>1 DEF TakeProcessTask
      <4>2. CASE processQ' = processQ /\ Fault("duplicate") /\ Slip("again", TRUE)
        BY <4>2 DEF TakeProcessTask, Fault
      <4>3. QED
        BY <4>1, <4>2 DEF TakeProcessTask
    <3>1. CASE SkipProcess(w)
      BY <3>0, <3>1 DEF SkipProcess
    <3>2. CASE StartProcess(w)
      <4>1. /\ processQ' \in Nat /\ faults' \in Nat /\ processBG' \in Nat /\ slips' \in Slips
            /\ UNCHANGED <<ingestQ, ingestBG>>
        <5>1. CASE TakeProcessTask
          BY <3>0, <5>1
        <5>2. CASE /\ processBG > 0 /\ processBG' = processBG - 1
                   /\ UNCHANGED <<processQ, ingestQ, ingestBG, faults, slips>>
          BY <5>2
        <5>3. QED
          BY <3>2, <5>1, <5>2 DEF StartProcess
      <4>2. via' \in [Workers -> {"task", "background"}]
        BY <3>2 DEF StartProcess
      <4>3. /\ loaded' \in [Workers -> Status]
            /\ pc' \in [Workers -> {"idle"} \cup Processing \cup Ingesting]
            /\ UNCHANGED <<pgVars, qdrant, reqVars, rows, todo, nextBatch, requests, lost>>
        BY <3>2 DEF StartProcess
      <4>4. QED
        BY <4>1, <4>2, <4>3
    <3>3. CASE Convert(w)
      <4>1. todo' \in [Workers -> SUBSET Row] /\ nextBatch' \in Nat
        BY <3>3, RowOf DEF Convert
      <4>2. QED
        BY <3>3, <4>1 DEF Convert
    <3>4. CASE ConvertFails(w)
      BY <3>4 DEF ConvertFails
    <3>5. CASE DeleteRows(w)
      BY <3>5 DEF DeleteRows, Deleted
    <3>6. CASE SaveCommit(w)
      <4>1. chunks' \in SUBSET Row
        BY <3>6, WithoutSubset DEF SaveCommit
      <4>2. status' \in Status /\ ruleUsed' \in BOOLEAN
        BY <3>6, ConstantsAssumption DEF SaveCommit, Status
      <4>3. QED
        BY <3>6, <4>1, <4>2 DEF SaveCommit, Finish, Status
    <3>7. CASE SaveError(w)
      BY <3>7 DEF SaveError, Finish, Fault, RedeliverProcess, Status
    <3>8. CASE MarkFailed(w)
      BY <3>8 DEF MarkFailed, SetStatus, Finish, Status
    <3>9. QED
      BY <2>4, <3>1, <3>2, <3>3, <3>4, <3>5, <3>6, <3>7, <3>8 DEF ProcessStep
  <2>5. ASSUME NEW w \in Workers, IngestStep(w) PROVE TypeOK'
    <3> USE DEF Processing, Ingesting, Unlocked, Vectorising
    <3>1. CASE IngestSkip(w)
      BY <3>1 DEF IngestSkip, TakeIngestTask, Fault
    <3>2. CASE IngestEmpty(w)
      BY <3>2 DEF IngestEmpty, TakeIngestTask, Fault, Status
    <3>3. CASE IngestLock(w)
      BY <3>3 DEF IngestLock, TakeIngestTask, Fault, Hold
    <3>4. CASE BgRead(w)
      BY <3>4 DEF BgRead
    <3>5. CASE BgChunks(w)
      BY <3>5 DEF BgChunks
    <3>6. CASE BgEmpty(w)
      BY <3>6 DEF BgEmpty, SetStatus, Finish, Status
    <3>7. CASE BgLock(w)
      BY <3>7 DEF BgLock, Hold
    <3>8. CASE Embed(w)
      BY <3>8 DEF Embed
    <3>9. CASE Clear(w)
      BY <3>9 DEF Clear, Cleared
    <3>10. CASE Upsert(w)
      <4>1. PICK r \in todo[w] : /\ qdrant' = Upserted(qdrant, {r})
                                 /\ todo' = [todo EXCEPT ![w] = @ \ {r}]
        BY <3>10 DEF Upsert
      <4>2. qdrant' \in SUBSET Row
        BY <4>1, UpsertedType
      <4>3. QED
        BY <3>10, <4>1, <4>2 DEF Upsert
    <3>11. CASE UpsertError(w)
      <4>1. qdrant' \in SUBSET Row
        <5>1. CASE UNCHANGED qdrant
          BY <5>1
        <5>2. CASE \E r \in todo[w] : qdrant' = Upserted(qdrant, {r})
          BY <5>2, UpsertedType
        <5>3. QED
          BY <3>11, <5>1, <5>2 DEF UpsertError
      <4>2. QED
        BY <3>11, <4>1 DEF UpsertError
    <3>12. CASE Undo(w)
      <4>1. qdrant' \in SUBSET Row
        BY <3>12, WithoutSubset DEF Undo
      <4>2. QED
        BY <3>12, <4>1 DEF Undo
    <3>13. CASE Abort(w)
      BY <3>13 DEF Abort, Release, Finish, Status
    <3>14. CASE IngestDone(w)
      BY <3>14 DEF IngestDone, Release, Finish, Status
    <3>15. CASE IngestError(w)
      <4>1. qdrant' \in SUBSET Row
        BY <3>15 DEF IngestError, Cleared
      <4>2. QED
        BY <3>15, <4>1 DEF IngestError, Release, Finish, Fault, RedeliverIngest, Status
    <3>16. QED
      BY <2>5, <3>1, <3>2, <3>3, <3>4, <3>5, <3>6, <3>7, <3>8, <3>9, <3>10,
         <3>11, <3>12, <3>13, <3>14, <3>15 DEF IngestStep
  <2>6. ASSUME NEW w \in Workers, WorkerCrash(w) PROVE TypeOK'
    <3>1. lost' \subseteq {"process", "ingest"}
      BY <2>6 DEF WorkerCrash
    <3>2. processQ' \in Nat /\ ingestQ' \in Nat
      BY <2>6 DEF WorkerCrash, RedeliverIngest, RedeliverProcess
    <3>3. QED
      BY <2>6, <3>1, <3>2 DEF WorkerCrash, Release, Finish, Fault, Status
  <2>7. CASE ExhaustTask
    <3>1. lost' \subseteq {"process", "ingest"}
      BY <2>7 DEF ExhaustTask
    <3>2. processQ' \in Nat /\ ingestQ' \in Nat /\ faults' \in Nat
      BY <2>7 DEF ExhaustTask, Fault
    <3>3. QED
      BY <2>7, <3>1, <3>2 DEF ExhaustTask
  <2>8. CASE BackgroundCrash
    <3>1. lost' \subseteq {"process", "ingest"}
      BY <2>8 DEF BackgroundCrash
    <3>2. processBG' \in Nat /\ ingestBG' \in Nat /\ faults' \in Nat
      BY <2>8 DEF BackgroundCrash, Fault
    <3>3. QED
      BY <2>8, <3>1, <3>2 DEF BackgroundCrash
  <2>9. CASE UNCHANGED vars
    BY <2>9 DEF vars
  <2>10. QED
    BY <2>1, <2>2, <2>3, <2>4, <2>5, <2>6, <2>7, <2>8, <2>9 DEF Next
<1>3. QED
  BY <1>1, <1>2, PTL DEF Spec

-----------------------------------------------------------------------------
(* Nothing is lost silently.  Each invariant is inductive given the types:  *)
(* whoever takes the last piece of pending work away moves the status on in *)
(* the same transaction, hands the work over, or records the loss.          *)

\* A confirmed session always has somebody left to vectorise it, unless a crash
\* or the queue dropped an ingest.
THEOREM ConfirmNeverSilent == Spec => []NoSilentConfirm
<1>1. Init => NoSilentConfirm
  BY DEF Init, NoSilentConfirm
<1>2. TypeOK /\ NoSilentConfirm /\ [Next]_vars => NoSilentConfirm'
  <2> SUFFICES ASSUME TypeOK, NoSilentConfirm, [Next]_vars, status' = "confirmed"
               PROVE  IngestPending' \/ "ingest" \in lost'
    BY DEF NoSilentConfirm
  <2> USE DEF TypeOK, NoSilentConfirm, IngestPending, pgVars, queueVars, reqVars,
              workerVars, Goto, Jump
  <2>1. ASSUME NEW u \in Users, RequestStart(u)
        PROVE  IngestPending' \/ "ingest" \in lost'
    BY <2>1 DEF RequestStart, Upload, ConfirmRead, RejectRead, ReprocessRead,
                PatchRead, Accept
  <2>2. ASSUME NEW u \in Users, RequestStep(u)
        PROVE  IngestPending' \/ "ingest" \in lost'
    <3>1. CASE ConfirmCommit(u)
      BY <3>1 DEF ConfirmCommit
    <3>2. CASE RejectCommit(u)
      BY <3>2 DEF RejectCommit, SetStatus
    <3>3. CASE ReprocessCommit(u)
      BY <3>3 DEF ReprocessCommit, SetStatus
    <3>4. CASE PatchCommit(u)
      BY <3>4 DEF PatchCommit, Respond
    <3>5. CASE EnqueueOk(u)
      BY <3>5 DEF EnqueueOk, CreateTask, Respond
    <3>6. CASE EnqueueError(u)
      <4>1. /\ status = "confirmed" /\ lost' = lost /\ pc' = pc
            /\ ingestQ' = ingestQ \/ ingestQ' = ingestQ + 1
        BY <3>6 DEF EnqueueError, CreateTask
      <4>2. CASE UNCHANGED <<rpc, ingestBG>>
        BY <4>1, <4>2
      <4>3. CASE Respond(u) /\ Fallback(u)
        BY <4>1, <4>3 DEF Respond, Fallback
      <4>4. QED
        BY <3>6, <4>2, <4>3 DEF EnqueueError
    <3>7. QED
      BY <2>2, <3>1, <3>2, <3>3, <3>4, <3>5, <3>6 DEF RequestStep
  <2>3. ASSUME NEW u \in Users, RequestCrash(u)
        PROVE  IngestPending' \/ "ingest" \in lost'
    BY <2>3 DEF RequestCrash, Respond
  <2>4. ASSUME NEW w \in Workers, ProcessStep(w)
        PROVE  IngestPending' \/ "ingest" \in lost'
    <3> USE DEF Processing, Ingesting, Unlocked, Vectorising
    <3>1. CASE SkipProcess(w)
      BY <3>1 DEF SkipProcess, TakeProcessTask
    <3>2. CASE StartProcess(w)
      BY <3>2 DEF StartProcess, TakeProcessTask
    <3>3. CASE Convert(w)
      BY <3>3 DEF Convert
    <3>4. CASE ConvertFails(w)
      BY <3>4 DEF ConvertFails
    <3>5. CASE DeleteRows(w)
      BY <3>5 DEF DeleteRows, Deleted
    <3>6. CASE SaveCommit(w)
      BY <3>6 DEF SaveCommit, Finish
    <3>7. CASE SaveError(w)
      BY <3>7 DEF SaveError, Finish
    <3>8. CASE MarkFailed(w)
      BY <3>8 DEF MarkFailed, SetStatus
    <3>9. QED
      BY <2>4, <3>1, <3>2, <3>3, <3>4, <3>5, <3>6, <3>7, <3>8 DEF ProcessStep
  <2>5. ASSUME NEW w \in Workers, IngestStep(w)
        PROVE  IngestPending' \/ "ingest" \in lost'
    <3> USE DEF Ingesting, Unlocked, Vectorising, IngestAllowed
    <3>1. CASE IngestSkip(w)
      BY <3>1 DEF IngestSkip
    <3>2. CASE IngestEmpty(w)
      BY <3>2 DEF IngestEmpty
    <3>3. CASE IngestLock(w)
      BY <3>3 DEF IngestLock
    <3>4. CASE BgRead(w)
      BY <3>4 DEF BgRead
    <3>5. CASE BgChunks(w)
      BY <3>5 DEF BgChunks
    <3>6. CASE BgEmpty(w)
      BY <3>6 DEF BgEmpty, SetStatus
    <3>7. CASE BgLock(w)
      BY <3>7 DEF BgLock
    <3>8. CASE Embed(w)
      BY <3>8 DEF Embed
    <3>9. CASE Clear(w)
      BY <3>9 DEF Clear
    <3>10. CASE Upsert(w)
      BY <3>10 DEF Upsert
    <3>11. CASE UpsertError(w)
      BY <3>11 DEF UpsertError
    <3>12. CASE Undo(w)
      BY <3>12 DEF Undo
    <3>13. CASE Abort(w)
      BY <3>13 DEF Abort
    <3>14. CASE IngestDone(w)
      BY <3>14 DEF IngestDone
    <3>15. CASE IngestError(w)
      BY <3>15 DEF IngestError, RedeliverIngest
    <3>16. QED
      BY <2>5, <3>1, <3>2, <3>3, <3>4, <3>5, <3>6, <3>7, <3>8, <3>9, <3>10,
         <3>11, <3>12, <3>13, <3>14, <3>15 DEF IngestStep
  <2>6. ASSUME NEW w \in Workers, WorkerCrash(w)
        PROVE  IngestPending' \/ "ingest" \in lost'
    BY <2>6 DEF WorkerCrash, Finish, RedeliverIngest, RedeliverProcess
  <2>7. CASE ExhaustTask
    BY <2>7 DEF ExhaustTask
  <2>8. CASE BackgroundCrash
    BY <2>8 DEF BackgroundCrash
  <2>9. CASE UNCHANGED vars
    BY <2>9 DEF vars
  <2>10. QED
    BY <2>1, <2>2, <2>3, <2>4, <2>5, <2>6, <2>7, <2>8, <2>9 DEF Next
<1>3. QED
  BY <1>1, <1>2, TypeCorrect, PTL DEF Spec

\* A document never converted always has its process-document coming, unless a
\* crash or the queue dropped one.
THEOREM UploadNeverSilent == Spec => []NoSilentUpload
<1>1. Init => NoSilentUpload
  BY DEF Init, NoSilentUpload
<1>2. TypeOK /\ NoSilentUpload /\ [Next]_vars => NoSilentUpload'
  <2> SUFFICES ASSUME TypeOK, NoSilentUpload, [Next]_vars,
                      status' = "pending_preview", Vectorised, ~ruleUsed'
               PROVE  ProcessPending' \/ "process" \in lost'
    BY DEF NoSilentUpload
  <2> USE DEF TypeOK, NoSilentUpload, ProcessPending, pgVars, queueVars, reqVars,
              workerVars, Goto, Jump
  <2>1. ASSUME NEW u \in Users, RequestStart(u)
        PROVE  ProcessPending' \/ "process" \in lost'
    <3>1. CASE Upload(u)
      BY <3>1 DEF Upload
    <3>2. CASE ConfirmRead(u) \/ RejectRead(u) \/ ReprocessRead(u) \/ PatchRead(u)
      BY <3>2 DEF ConfirmRead, RejectRead, ReprocessRead, PatchRead, Accept
    <3>3. QED
      BY <2>1, <3>1, <3>2 DEF RequestStart
  <2>2. ASSUME NEW u \in Users, RequestStep(u)
        PROVE  ProcessPending' \/ "process" \in lost'
    <3>1. CASE ConfirmCommit(u)
      BY <3>1 DEF ConfirmCommit, SetStatus
    <3>2. CASE RejectCommit(u)
      BY <3>2 DEF RejectCommit, SetStatus
    <3>3. CASE ReprocessCommit(u)
      BY <3>3 DEF ReprocessCommit
    <3>4. CASE PatchCommit(u)
      BY <3>4 DEF PatchCommit, Respond
    <3>5. CASE EnqueueOk(u)
      BY <3>5 DEF EnqueueOk, CreateTask, Respond
    <3>6. CASE EnqueueError(u)
      <4>1. /\ status = "pending_preview" /\ ruleUsed' = ruleUsed
            /\ lost' = lost /\ pc' = pc
            /\ processQ' = processQ \/ processQ' = processQ + 1
        BY <3>6 DEF EnqueueError, CreateTask
      <4>2. CASE UNCHANGED <<rpc, processBG>>
        BY <4>1, <4>2
      <4>3. CASE Respond(u) /\ Fallback(u)
        BY <4>1, <4>3 DEF Respond, Fallback
      <4>4. QED
        BY <3>6, <4>2, <4>3 DEF EnqueueError
    <3>7. QED
      BY <2>2, <3>1, <3>2, <3>3, <3>4, <3>5, <3>6 DEF RequestStep
  <2>3. ASSUME NEW u \in Users, RequestCrash(u)
        PROVE  ProcessPending' \/ "process" \in lost'
    BY <2>3 DEF RequestCrash, Respond
  <2>4. ASSUME NEW w \in Workers, ProcessStep(w)
        PROVE  ProcessPending' \/ "process" \in lost'
    <3> USE DEF Processing
    <3>1. CASE SkipProcess(w)
      BY <3>1 DEF SkipProcess, SessionStopped
    <3>2. CASE StartProcess(w)
      BY <3>2 DEF StartProcess
    <3>3. CASE Convert(w)
      BY <3>3 DEF Convert
    <3>4. CASE ConvertFails(w)
      BY <3>4 DEF ConvertFails
    <3>5. CASE DeleteRows(w)
      BY <3>5 DEF DeleteRows, Deleted
    <3>6. CASE SaveCommit(w)
      BY <3>6 DEF SaveCommit
    <3>7. CASE SaveError(w)
      BY <3>7 DEF SaveError, RedeliverProcess
    <3>8. CASE MarkFailed(w)
      BY <3>8 DEF MarkFailed, SetStatus
    <3>9. QED
      BY <2>4, <3>1, <3>2, <3>3, <3>4, <3>5, <3>6, <3>7, <3>8 DEF ProcessStep
  <2>5. ASSUME NEW w \in Workers, IngestStep(w)
        PROVE  ProcessPending' \/ "process" \in lost'
    <3> USE DEF Processing, TakeIngestTask
    <3>1. CASE IngestSkip(w)
      BY <3>1 DEF IngestSkip
    <3>2. CASE IngestEmpty(w)
      BY <3>2 DEF IngestEmpty
    <3>3. CASE IngestLock(w)
      BY <3>3 DEF IngestLock
    <3>4. CASE BgRead(w)
      BY <3>4 DEF BgRead
    <3>5. CASE BgChunks(w)
      BY <3>5 DEF BgChunks
    <3>6. CASE BgEmpty(w)
      BY <3>6 DEF BgEmpty, SetStatus
    <3>7. CASE BgLock(w)
      BY <3>7 DEF BgLock
    <3>8. CASE Embed(w)
      BY <3>8 DEF Embed
    <3>9. CASE Clear(w)
      BY <3>9 DEF Clear
    <3>10. CASE Upsert(w)
      BY <3>10 DEF Upsert
    <3>11. CASE UpsertError(w)
      BY <3>11 DEF UpsertError
    <3>12. CASE Undo(w)
      BY <3>12 DEF Undo
    <3>13. CASE Abort(w)
      BY <3>13 DEF Abort
    <3>14. CASE IngestDone(w)
      BY <3>14 DEF IngestDone
    <3>15. CASE IngestError(w)
      BY <3>15 DEF IngestError, Finish
    <3>16. QED
      BY <2>5, <3>1, <3>2, <3>3, <3>4, <3>5, <3>6, <3>7, <3>8, <3>9, <3>10,
         <3>11, <3>12, <3>13, <3>14, <3>15 DEF IngestStep
  <2>6. ASSUME NEW w \in Workers, WorkerCrash(w)
        PROVE  ProcessPending' \/ "process" \in lost'
    <3> USE DEF Processing, Ingesting, Unlocked, Vectorising
    <3>1. QED
      BY <2>6 DEF WorkerCrash, Finish, RedeliverIngest, RedeliverProcess
  <2>7. CASE ExhaustTask
    BY <2>7 DEF ExhaustTask
  <2>8. CASE BackgroundCrash
    BY <2>8 DEF BackgroundCrash
  <2>9. CASE UNCHANGED vars
    BY <2>9 DEF vars
  <2>10. QED
    BY <2>1, <2>2, <2>3, <2>4, <2>5, <2>6, <2>7, <2>8, <2>9 DEF Next
<1>3. QED
  BY <1>1, <1>2, TypeCorrect, PTL DEF Spec

-----------------------------------------------------------------------------
(* Vectorisation.  VectorsExact is not inductive: one must know that the    *)
(* rows a run has read carry distinct ids (or an upsert would replace one   *)
(* of them by another) and that no other run touches Qdrant meanwhile.      *)

\* What a conversion is about to insert collides with no committed row and
\* with no other conversion's rows.
Converting == {"delete", "save"}

FreshBatches ==
    /\ UniqueIds(chunks)
    /\ \A r \in chunks : r[1] < nextBatch
    /\ \A w \in Workers :
        /\ pc[w] \in {"idle", "convert"} => todo[w] = {}
        /\ pc[w] \in Converting =>
            /\ UniqueIds(todo[w])
            /\ \A r \in todo[w] : r[1] < nextBatch
            /\ Ids(todo[w]) \cap Ids(chunks) = {}
    /\ \A v, w \in Workers :
        v # w /\ pc[v] \in Converting /\ pc[w] \in Converting
            => Ids(todo[v]) \cap Ids(todo[w]) = {}

Snapshots ==
    \A w \in Workers : /\ UniqueIds(rows[w])
                       /\ pc[w] = "upsert" => todo[w] \subseteq rows[w]

\* Whoever vectorises holds the session row, on either path, so no two runs
\* interleave their Qdrant calls.
THEOREM OneWriter == Spec => []WriterHoldsRow
<1>1. Init => WriterHoldsRow
  BY DEF Init, WriterHoldsRow, Vectorising
<1>2. TypeOK /\ WriterHoldsRow /\ [Next]_vars => WriterHoldsRow'
  <2> SUFFICES ASSUME TypeOK, WriterHoldsRow, [Next]_vars PROVE WriterHoldsRow'
    OBVIOUS
  <2> USE DEF TypeOK, WriterHoldsRow, Vectorising, pgVars, workerVars, Jump
  <2>1. ASSUME UNCHANGED <<lock, pc>> PROVE WriterHoldsRow'
    BY <2>1
  <2>2. ASSUME NEW u \in Users, RequestStart(u) \/ RequestStep(u) \/ RequestCrash(u)
        PROVE  WriterHoldsRow'
    <3>1. UNCHANGED <<lock, pc>>
      BY <2>2 DEF RequestStart, Upload, ConfirmRead, RejectRead, ReprocessRead,
                  PatchRead, Accept, RequestStep, ConfirmCommit, RejectCommit,
                  ReprocessCommit, PatchCommit, EnqueueOk, EnqueueError, RequestCrash
    <3>2. QED
      BY <2>1, <3>1
  <2>3. ASSUME NEW w \in Workers, UNCHANGED lock, NEW location,
               pc' = [pc EXCEPT ![w] = location],
               location \in Vectorising => pc[w] \in Vectorising
        PROVE  WriterHoldsRow'
    BY <2>3
  <2>4. ASSUME NEW w \in Workers, ProcessStep(w) PROVE WriterHoldsRow'
    <3>1. CASE SkipProcess(w)
      BY <3>1, <2>1 DEF SkipProcess
    <3>2. CASE StartProcess(w)
      BY <3>2, <2>3 DEF StartProcess
    <3>3. CASE Convert(w)
      BY <3>3, <2>3 DEF Convert
    <3>4. CASE ConvertFails(w)
      BY <3>4, <2>3 DEF ConvertFails
    <3>5. CASE DeleteRows(w)
      BY <3>5, <2>3 DEF DeleteRows
    <3>6. CASE SaveCommit(w)
      BY <3>6, <2>3 DEF SaveCommit, Finish
    <3>7. CASE SaveError(w)
      BY <3>7, <2>3 DEF SaveError, Finish
    <3>8. CASE MarkFailed(w)
      BY <3>8, <2>3 DEF MarkFailed, Finish
    <3>9. QED
      BY <2>4, <3>1, <3>2, <3>3, <3>4, <3>5, <3>6, <3>7, <3>8 DEF ProcessStep
  <2>5. ASSUME NEW w \in Workers, RowFree, Hold(w), Jump(w, "embed")
        PROVE  WriterHoldsRow'
    BY <2>5, ConstantsAssumption DEF RowFree, Hold
  <2>6. ASSUME NEW w \in Workers, Release(w), NEW location,
               pc' = [pc EXCEPT ![w] = location], location \notin Vectorising
        PROVE  WriterHoldsRow'
    BY <2>6 DEF Release
  <2>7. ASSUME NEW w \in Workers, IngestStep(w) PROVE WriterHoldsRow'
    <3>1. CASE IngestSkip(w) \/ IngestEmpty(w)
      BY <3>1, <2>1 DEF IngestSkip, IngestEmpty
    <3>2. CASE IngestLock(w) \/ BgLock(w)
      BY <3>2, <2>5 DEF IngestLock, BgLock
    <3>3. CASE BgRead(w)
      BY <3>3, <2>1, <2>3 DEF BgRead
    <3>4. CASE BgChunks(w)
      BY <3>4, <2>3 DEF BgChunks
    <3>5. CASE BgEmpty(w)
      BY <3>5, <2>3 DEF BgEmpty, Finish
    <3>6. CASE Embed(w)
      BY <3>6, <2>3 DEF Embed
    <3>7. CASE Clear(w)
      BY <3>7, <2>3 DEF Clear
    <3>8. CASE Upsert(w)
      BY <3>8, <2>3 DEF Upsert
    <3>9. CASE UpsertError(w)
      BY <3>9, <2>3 DEF UpsertError
    <3>10. CASE Undo(w)
      BY <3>10, <2>3 DEF Undo
    <3>11. CASE Abort(w)
      BY <3>11, <2>6 DEF Abort, Finish
    <3>12. CASE IngestDone(w)
      BY <3>12, <2>6 DEF IngestDone, Finish
    <3>13. CASE IngestError(w)
      BY <3>13, <2>6 DEF IngestError, Finish
    <3>14. QED
      BY <2>7, <3>1, <3>2, <3>3, <3>4, <3>5, <3>6, <3>7, <3>8, <3>9, <3>10,
         <3>11, <3>12, <3>13 DEF IngestStep
  <2>8. ASSUME NEW w \in Workers, WorkerCrash(w) PROVE WriterHoldsRow'
    BY <2>8, <2>6 DEF WorkerCrash, Finish
  <2>9. CASE ExhaustTask \/ BackgroundCrash
    BY <2>9, <2>1 DEF ExhaustTask, BackgroundCrash
  <2>10. CASE UNCHANGED vars
    BY <2>10, <2>1 DEF vars
  <2>11. QED
    BY <2>2, <2>4, <2>7, <2>8, <2>9, <2>10 DEF Next
<1>3. QED
  BY <1>1, <1>2, TypeCorrect, PTL DEF Spec

\* Chunk ids never collide: two conversions may both leave their rows in the
\* document, but never a row under the same id.
THEOREM NoIdCollision == Spec => []FreshBatches
<1>1. Init => FreshBatches
  BY DEF Init, FreshBatches, UniqueIds, Converting
<1>2. TypeOK /\ FreshBatches /\ [Next]_vars => FreshBatches'
  <2> SUFFICES ASSUME TypeOK, FreshBatches, [Next]_vars PROVE FreshBatches'
    OBVIOUS
  <2> USE DEF TypeOK, pgVars, workerVars, Jump
  <2>1. ASSUME UNCHANGED <<chunks, nextBatch, pc, todo>> PROVE FreshBatches'
    BY <2>1 DEF FreshBatches, UniqueIds, Converting
  <2>2. ASSUME UNCHANGED <<chunks, nextBatch>>, NEW w \in Workers,
               \A v \in Workers \ {w} : pc'[v] = pc[v] /\ todo'[v] = todo[v],
               pc'[w] \in {"idle", "convert"} => todo'[w] = {},
               pc'[w] \in Converting => todo'[w] = todo[w] /\ pc[w] \in Converting
        PROVE  FreshBatches'
    <3>1. \A v \in Workers : pc'[v] \in Converting
                                => pc[v] \in Converting /\ todo'[v] = todo[v]
      BY <2>2
    <3>2. \A v \in Workers : pc'[v] \in {"idle", "convert"} => todo'[v] = {}
      BY <2>2 DEF FreshBatches
    <3>3. QED
      BY <2>2, <3>1, <3>2 DEF FreshBatches, UniqueIds, Ids
  <2>3. ASSUME UNCHANGED <<chunks, nextBatch, todo>>, NEW w \in Workers, NEW location,
               pc' = [pc EXCEPT ![w] = location],
               location \in {"idle", "convert"} => pc[w] \in {"idle", "convert"},
               location \in Converting => pc[w] \in Converting
        PROVE  FreshBatches'
    BY <2>3, <2>2 DEF FreshBatches
  <2>4. ASSUME NEW w \in Workers, UNCHANGED <<chunks, nextBatch>>, Finish(w)
        PROVE  FreshBatches'
    BY <2>4, <2>2 DEF Finish, Converting
  <2>5. ASSUME NEW u \in Users, RequestStart(u) \/ RequestCrash(u)
        PROVE  FreshBatches'
    <3>1. UNCHANGED <<chunks, nextBatch, pc, todo>>
      BY <2>5 DEF RequestStart, Upload, ConfirmRead, RejectRead, ReprocessRead,
                  PatchRead, Accept, RequestCrash
    <3>2. QED
      BY <2>1, <3>1
  <2>6. ASSUME NEW u \in Users, RequestStep(u) PROVE FreshBatches'
    <3>1. CASE PatchCommit(u) /\ chunks' # chunks
      <4>1. PICK r \in chunks : chunks' = (chunks \ {r}) \cup {<<r[1], r[2], r[3] + 1>>}
        BY <3>1 DEF PatchCommit
      <4> DEFINE s == <<r[1], r[2], r[3] + 1>>
      <4>2. Id(s) = Id(r) /\ s[1] = r[1]
        BY DEF Id
      <4>3. Ids(chunks') = Ids(chunks)
        <5>1. Ids(chunks') \subseteq Ids(chunks)
          BY <4>1, <4>2 DEF Ids
        <5>2. Ids(chunks) \subseteq Ids(chunks')
          BY <4>1, <4>2 DEF Ids
        <5>3. QED
          BY <5>1, <5>2
      <4>4. UniqueIds(chunks')
        BY <4>1, <4>2 DEF FreshBatches, UniqueIds
      <4>5. \A x \in chunks' : x[1] < nextBatch
        BY <4>1, <4>2 DEF FreshBatches
      <4>6. UNCHANGED <<nextBatch, pc, todo>>
        BY <3>1 DEF PatchCommit
      <4>7. QED
        BY <4>3, <4>4, <4>5, <4>6 DEF FreshBatches
    <3>2. CASE chunks' = chunks
      <4>1. UNCHANGED <<chunks, nextBatch, pc, todo>>
        BY <2>6, <3>2 DEF RequestStep, ConfirmCommit, RejectCommit, ReprocessCommit,
                          PatchCommit, EnqueueOk, EnqueueError
      <4>2. QED
        BY <4>1, <2>1
    <3>3. QED
      BY <2>6, <3>1, <3>2 DEF RequestStep, ConfirmCommit, RejectCommit,
                              ReprocessCommit, EnqueueOk, EnqueueError
  <2>7. ASSUME NEW w \in Workers, ProcessStep(w) PROVE FreshBatches'
    <3>1. CASE SkipProcess(w)
      BY <3>1, <2>1 DEF SkipProcess
    <3>2. CASE StartProcess(w)
      BY <3>2, <2>3 DEF StartProcess, Converting
    <3>3. CASE Convert(w)
      <4>1. CASE Vectorised
        <5>1. PICK produced \in {Parts, {}} :
                todo' = [todo EXCEPT ![w] = {nextBatch} \X produced \X {0}]
          BY <3>3, <4>1 DEF Convert
        <5> DEFINE new == {nextBatch} \X produced \X {0}
        <5>2. /\ UNCHANGED chunks
              /\ nextBatch' = nextBatch + 1
              /\ pc' = [pc EXCEPT ![w] = "delete"]
              /\ todo'[w] = new
              /\ \A v \in Workers \ {w} : todo'[v] = todo[v] /\ pc'[v] = pc[v]
          BY <3>3, <4>1, <5>1 DEF Convert
        <5>3. UniqueIds(new) /\ \A r \in new : r[1] = nextBatch
          BY DEF UniqueIds, Id
        <5>4. \A S : (\A r \in S : r[1] < nextBatch) => Ids(new) \cap Ids(S) = {}
          BY <5>3 DEF Ids, Id
        <5>5. \A v \in Workers \ {w} :
                pc[v] \in Converting => Ids(new) \cap Ids(todo[v]) = {}
          BY <5>4 DEF FreshBatches
        <5>6. Ids(new) \cap Ids(chunks) = {}
          BY <5>4 DEF FreshBatches
        <5>7. \A r \in chunks' : r[1] < nextBatch'
          <6>1. \A r \in chunks : r[1] \in Nat /\ r[1] < nextBatch
            BY RowComponents DEF FreshBatches
          <6>2. QED
            BY <5>2, <6>1
        <5>8. \A v \in Workers : pc'[v] \in Converting =>
                  \A r \in todo'[v] : r[1] < nextBatch'
          <6>1. \A r \in new : r[1] < nextBatch'
            BY <5>2, <5>3
          <6>2. ASSUME NEW v \in Workers \ {w}, pc[v] \in Converting, NEW r \in todo[v]
                PROVE  r[1] < nextBatch'
            <7>1. r[1] \in Nat
              BY <6>2, RowComponents
            <7>2. r[1] < nextBatch
              BY <6>2 DEF FreshBatches
            <7>3. QED
              BY <5>2, <7>1, <7>2
          <6>3. QED
            BY <5>2, <6>1, <6>2
        <5>9. \A v \in Workers : pc'[v] \in Converting =>
                  UniqueIds(todo'[v]) /\ Ids(todo'[v]) \cap Ids(chunks') = {}
          BY <5>2, <5>3, <5>6 DEF FreshBatches
        <5>10. \A v \in Workers : pc'[v] \in {"idle", "convert"} => todo'[v] = {}
          BY <5>2 DEF FreshBatches
        <5>11. \A v, x \in Workers :
                 v # x /\ pc'[v] \in Converting /\ pc'[x] \in Converting
                   => Ids(todo'[v]) \cap Ids(todo'[x]) = {}
          <6>1. \A v, x \in Workers \ {w} :
                  v # x /\ pc[v] \in Converting /\ pc[x] \in Converting
                    => Ids(todo[v]) \cap Ids(todo[x]) = {}
            BY DEF FreshBatches
          <6> HIDE DEF new
          <6>2. QED
            BY <5>2, <5>5, <6>1
        <5>12. UniqueIds(chunks')
          BY <5>2 DEF FreshBatches
        <5> HIDE DEF new
        <5>13. QED
          BY <5>7, <5>8, <5>9, <5>10, <5>11, <5>12 DEF FreshBatches
      <4>2. CASE ~Vectorised
        <5>1. todo[w] = {} /\ UNCHANGED <<chunks, nextBatch, todo>>
              /\ pc' = [pc EXCEPT ![w] = "save"]
          BY <3>3, <4>2 DEF Convert, FreshBatches
        <5>2. Ids(todo[w]) = {} /\ UniqueIds(todo[w])
          BY <5>1 DEF Ids, UniqueIds
        <5>3. \A v \in Workers : pc'[v] \in Converting => v = w \/ pc[v] \in Converting
          BY <5>1
        <5>4. \A v \in Workers : pc'[v] \in {"idle", "convert"} => todo'[v] = {}
          BY <5>1 DEF FreshBatches
        <5>5. QED
          BY <5>1, <5>2, <5>3, <5>4 DEF FreshBatches
      <4>3. QED
        BY <4>1, <4>2
    <3>4. CASE ConvertFails(w)
      BY <3>4, <2>3 DEF ConvertFails, Converting
    <3>5. CASE DeleteRows(w)
      BY <3>5, <2>3 DEF DeleteRows, Converting
    <3>6. CASE SaveCommit(w)
      <4>1. /\ pc[w] = "save" /\ nextBatch' = nextBatch
            /\ chunks' \subseteq chunks \cup todo[w]
            /\ todo' = [todo EXCEPT ![w] = {}] /\ pc' = [pc EXCEPT ![w] = "idle"]
        BY <3>6, WithoutSubset DEF SaveCommit, Finish
      <4>2. /\ UniqueIds(todo[w]) /\ \A r \in todo[w] : r[1] < nextBatch
            /\ Ids(todo[w]) \cap Ids(chunks) = {}
        BY <4>1 DEF FreshBatches, Converting
      <4>3. UniqueIds(chunks') /\ \A r \in chunks' : r[1] < nextBatch'
        <5>1. ASSUME NEW x \in chunks \cup todo[w], NEW y \in chunks \cup todo[w],
                     Id(x) = Id(y)
              PROVE  x = y
          <6>1. x \in chunks => Id(x) \in Ids(chunks)
            BY DEF Ids
          <6>2. y \in chunks => Id(y) \in Ids(chunks)
            BY DEF Ids
          <6>3. x \in todo[w] => Id(x) \in Ids(todo[w])
            BY DEF Ids
          <6>4. y \in todo[w] => Id(y) \in Ids(todo[w])
            BY DEF Ids
          <6>5. QED
            BY <4>2, <5>1, <6>1, <6>2, <6>3, <6>4 DEF FreshBatches, UniqueIds
        <5>2. UniqueIds(chunks')
          BY <4>1, <5>1 DEF UniqueIds
        <5>3. \A r \in chunks' : r[1] < nextBatch'
          BY <4>1, <4>2 DEF FreshBatches
        <5>4. QED
          BY <5>2, <5>3
      <4>4. Ids(chunks') \subseteq Ids(chunks) \cup Ids(todo[w])
        BY <4>1 DEF Ids
      <4>5. \A v \in Workers : pc'[v] \in Converting =>
               /\ v # w /\ pc[v] \in Converting /\ todo'[v] = todo[v]
        BY <4>1 DEF Converting
      <4>6. \A v \in Workers : pc'[v] \in Converting =>
               Ids(todo'[v]) \cap Ids(chunks') = {}
        BY <4>1, <4>4, <4>5 DEF FreshBatches, Converting
      <4>7. \A v \in Workers : pc'[v] \in {"idle", "convert"} => todo'[v] = {}
        BY <4>1 DEF FreshBatches
      <4>8. QED
        BY <4>1, <4>3, <4>5, <4>6, <4>7 DEF FreshBatches
    <3>7. CASE SaveError(w)
      BY <3>7, <2>4, <2>3 DEF SaveError, Converting
    <3>8. CASE MarkFailed(w)
      BY <3>8, <2>4 DEF MarkFailed
    <3>9. QED
      BY <2>7, <3>1, <3>2, <3>3, <3>4, <3>5, <3>6, <3>7, <3>8 DEF ProcessStep
  <2>8. ASSUME NEW w \in Workers, IngestStep(w) PROVE FreshBatches'
    <3>1. CASE IngestSkip(w) \/ IngestEmpty(w)
      BY <3>1, <2>1 DEF IngestSkip, IngestEmpty
    <3>2. CASE IngestLock(w) \/ BgLock(w) \/ BgChunks(w) \/ Embed(w)
      BY <3>2, <2>3 DEF IngestLock, BgLock, BgChunks, Embed, Converting
    <3>3. CASE UpsertError(w) \/ Undo(w)
      BY <3>3, <2>3 DEF UpsertError, Undo, Converting
    <3>4. CASE BgRead(w)
      BY <3>4, <2>1, <2>3 DEF BgRead, Converting
    <3>5. CASE BgEmpty(w) \/ Abort(w) \/ IngestDone(w)
      BY <3>5, <2>4 DEF BgEmpty, Abort, IngestDone
    <3>6. CASE Clear(w)
      BY <3>6, <2>2 DEF Clear, Converting
    <3>7. CASE Upsert(w)
      BY <3>7, <2>2 DEF Upsert, Converting
    <3>8. CASE IngestError(w)
      BY <3>8, <2>3, <2>4 DEF IngestError, Converting
    <3>9. QED
      BY <2>8, <3>1, <3>2, <3>3, <3>4, <3>5, <3>6, <3>7, <3>8 DEF IngestStep
  <2>9. ASSUME NEW w \in Workers, WorkerCrash(w) PROVE FreshBatches'
    BY <2>9, <2>4 DEF WorkerCrash
  <2>10. CASE ExhaustTask \/ BackgroundCrash
    BY <2>10, <2>1 DEF ExhaustTask, BackgroundCrash
  <2>11. CASE UNCHANGED vars
    BY <2>11, <2>1 DEF vars
  <2>12. QED
    BY <2>5, <2>6, <2>7, <2>8, <2>9, <2>10, <2>11 DEF Next
<1>3. QED
  BY <1>1, <1>2, TypeCorrect, PTL DEF Spec

\* The points of a run are the part of its own snapshot it has upserted so far.
LEMMA ExactSnapshots == Spec => [](Snapshots /\ VectorsExact)
<1>1. Init => Snapshots /\ VectorsExact
  BY DEF Init, Snapshots, VectorsExact, UniqueIds
<1>2. TypeOK /\ WriterHoldsRow /\ FreshBatches /\ Snapshots /\ VectorsExact /\ [Next]_vars
        => (Snapshots /\ VectorsExact)'
  <2> SUFFICES ASSUME TypeOK, WriterHoldsRow, FreshBatches, Snapshots, VectorsExact,
                      [Next]_vars
               PROVE  Snapshots' /\ VectorsExact'
    OBVIOUS
  <2> USE DEF TypeOK, pgVars, workerVars, Jump
  <2>1. ASSUME UNCHANGED <<qdrant, pc, rows, todo>> PROVE Snapshots' /\ VectorsExact'
    BY <2>1 DEF Snapshots, VectorsExact, UniqueIds
  <2>2. ASSUME UNCHANGED qdrant, NEW w \in Workers,
               \A v \in Workers \ {w} : /\ pc'[v] = pc[v] /\ rows'[v] = rows[v]
                                        /\ todo'[v] = todo[v],
               UniqueIds(rows'[w]), pc'[w] \notin {"upsert", "normalize"}
        PROVE  Snapshots' /\ VectorsExact'
    BY <2>2 DEF Snapshots, VectorsExact, UniqueIds
  <2>3. ASSUME NEW v \in Workers, NEW w \in Workers, v # w, pc[w] \in Vectorising
        PROVE  pc[v] \notin {"upsert", "normalize"}
    BY <2>3 DEF WriterHoldsRow, Vectorising
  <2>4. ASSUME NEW w \in Workers, pc[w] \in Vectorising,
               \A v \in Workers \ {w} : /\ pc'[v] = pc[v] /\ rows'[v] = rows[v]
                                        /\ todo'[v] = todo[v],
               UniqueIds(rows'[w]),
               pc'[w] = "upsert" => /\ todo'[w] \subseteq rows'[w]
                                    /\ qdrant' = rows'[w] \ todo'[w],
               pc'[w] = "normalize" => qdrant' = rows'[w]
        PROVE  Snapshots' /\ VectorsExact'
    <3>1. \A v \in Workers \ {w} : pc'[v] \notin {"upsert", "normalize"}
      BY <2>3, <2>4
    <3>2. QED
      BY <2>4, <3>1 DEF Snapshots, VectorsExact, UniqueIds
  <2>5. UniqueIds({}) /\ UniqueIds(chunks) /\ \A w \in Workers : UniqueIds(rows[w])
    <3>1. UniqueIds({})
      BY DEF UniqueIds
    <3>2. QED
      BY <3>1 DEF FreshBatches, Snapshots
  <2>6. ASSUME NEW w \in Workers, Finish(w), UNCHANGED qdrant
        PROVE  Snapshots' /\ VectorsExact'
    <3>1. pc'[w] = "idle" /\ rows'[w] = {}
      BY <2>6 DEF Finish
    <3>2. UniqueIds(rows'[w])
      BY <3>1, <2>5
    <3>3. QED
      BY <2>2, <2>6, <3>1, <3>2 DEF Finish
  <2>7. ASSUME NEW u \in Users, RequestStart(u) \/ RequestStep(u) \/ RequestCrash(u)
        PROVE  Snapshots' /\ VectorsExact'
    <3>1. UNCHANGED <<qdrant, pc, rows, todo>>
      BY <2>7 DEF RequestStart, Upload, ConfirmRead, RejectRead, ReprocessRead,
                  PatchRead, Accept, RequestStep, ConfirmCommit, RejectCommit,
                  ReprocessCommit, PatchCommit, EnqueueOk, EnqueueError, RequestCrash
    <3>2. QED
      BY <2>1, <3>1
  <2>8. ASSUME NEW w \in Workers, ProcessStep(w) PROVE Snapshots' /\ VectorsExact'
    <3>1. CASE SkipProcess(w)
      BY <3>1, <2>1 DEF SkipProcess
    <3>2. CASE StartProcess(w)
      BY <3>2, <2>2, <2>5 DEF StartProcess
    <3>3. CASE Convert(w)
      <4>1. /\ UNCHANGED <<qdrant, rows>> /\ pc'[w] \in {"delete", "save"}
            /\ \A v \in Workers \ {w} : pc'[v] = pc[v] /\ todo'[v] = todo[v]
        BY <3>3 DEF Convert
      <4>2. QED
        BY <4>1, <2>2, <2>5
    <3>4. CASE ConvertFails(w)
      BY <3>4, <2>2, <2>5 DEF ConvertFails
    <3>5. CASE DeleteRows(w)
      <4>1. rows'[w] = chunks
        BY <3>5 DEF DeleteRows, Deleted
      <4>2. QED
        BY <3>5, <4>1, <2>2, <2>5 DEF DeleteRows
    <3>6. CASE SaveCommit(w)
      BY <3>6, <2>6 DEF SaveCommit
    <3>7. CASE SaveError(w)
      BY <3>7, <2>2, <2>5, <2>6 DEF SaveError
    <3>8. CASE MarkFailed(w)
      BY <3>8, <2>6 DEF MarkFailed
    <3>9. QED
      BY <2>8, <3>1, <3>2, <3>3, <3>4, <3>5, <3>6, <3>7, <3>8 DEF ProcessStep
  <2>9. ASSUME NEW w \in Workers, IngestStep(w) PROVE Snapshots' /\ VectorsExact'
    <3>1. CASE IngestSkip(w) \/ IngestEmpty(w)
      BY <3>1, <2>1 DEF IngestSkip, IngestEmpty
    <3>2. CASE IngestLock(w) \/ BgChunks(w)
      <4>1. rows'[w] = chunks /\ pc'[w] \in {"embed", "bgEmpty", "bgLock"}
        BY <3>2 DEF IngestLock, BgChunks
      <4>2. UniqueIds(rows'[w])
        BY <4>1, <2>5
      <4>3. QED
        BY <3>2, <4>1, <4>2, <2>2 DEF IngestLock, BgChunks
    <3>3. CASE BgRead(w)
      BY <3>3, <2>1, <2>2, <2>5 DEF BgRead
    <3>4. CASE BgEmpty(w)
      BY <3>4, <2>6 DEF BgEmpty
    <3>5. CASE BgLock(w) \/ Embed(w)
      <4>1. rows'[w] = rows[w] /\ pc'[w] \in {"embed", "clear", "abort"}
        BY <3>5 DEF BgLock, Embed
      <4>2. QED
        BY <3>5, <4>1, <2>2, <2>5 DEF BgLock, Embed
    <3>6. CASE Clear(w)
      <4>1. /\ pc[w] \in Vectorising /\ rows'[w] = rows[w]
            /\ todo'[w] = rows[w] /\ pc'[w] = "upsert" /\ qdrant' = {}
        BY <3>6 DEF Clear, Cleared, Vectorising
      <4>2. QED
        BY <3>6, <4>1, <2>4, <2>5 DEF Clear
    <3>7. CASE Upsert(w)
      <4>1. PICK r \in todo[w] :
              /\ qdrant' = Upserted(qdrant, {r})
              /\ todo' = [todo EXCEPT ![w] = @ \ {r}]
              /\ pc' = [pc EXCEPT ![w] = IF todo[w] = {r} THEN "normalize" ELSE "upsert"]
        BY <3>7 DEF Upsert
      <4>2. /\ pc[w] = "upsert" /\ rows' = rows
            /\ todo[w] \subseteq rows[w] /\ qdrant = rows[w] \ todo[w]
        BY <3>7 DEF Upsert, Snapshots, VectorsExact
      <4>3. qdrant' = rows[w] \ (todo[w] \ {r})
        BY <4>1, <4>2, <2>5, UpsertNext
      <4>4. todo'[w] = todo[w] \ {r}
        BY <4>1
      <4>5. pc'[w] = "normalize" => todo'[w] = {}
        BY <4>1, <4>4
      <4>6. /\ pc[w] \in Vectorising /\ UniqueIds(rows'[w])
            /\ \A v \in Workers \ {w} : /\ pc'[v] = pc[v] /\ rows'[v] = rows[v]
                                        /\ todo'[v] = todo[v]
        BY <4>1, <4>2, <2>5 DEF Vectorising
      <4>7. QED
        BY <4>2, <4>3, <4>4, <4>5, <4>6, <2>4
    <3>8. CASE UpsertError(w) \/ Undo(w)
      <4>1. /\ pc[w] \in Vectorising /\ rows' = rows /\ todo' = todo
            /\ pc'[w] \in {"undo", "abort"}
            /\ \A v \in Workers \ {w} : pc'[v] = pc[v]
        BY <3>8 DEF UpsertError, Undo, Vectorising
      <4>2. QED
        BY <4>1, <2>4, <2>5
    <3>9. CASE Abort(w) \/ IngestDone(w)
      BY <3>9, <2>6 DEF Abort, IngestDone
    <3>10. CASE IngestError(w)
      <4>1. /\ pc[w] \in Vectorising /\ pc'[w] \in {"idle", "bgFail"}
            /\ rows'[w] \in {rows[w], {}}
            /\ \A v \in Workers \ {w} : /\ pc'[v] = pc[v] /\ rows'[v] = rows[v]
                                        /\ todo'[v] = todo[v]
        BY <3>10 DEF IngestError, Vectorising, Finish
      <4>2. UniqueIds(rows'[w])
        BY <4>1, <2>5
      <4>3. QED
        BY <4>1, <4>2, <2>4
    <3>11. QED
      BY <2>9, <3>1, <3>2, <3>3, <3>4, <3>5, <3>6, <3>7, <3>8, <3>9, <3>10
         DEF IngestStep
  <2>10. ASSUME NEW w \in Workers, WorkerCrash(w) PROVE Snapshots' /\ VectorsExact'
    BY <2>10, <2>6 DEF WorkerCrash
  <2>11. CASE ExhaustTask \/ BackgroundCrash
    BY <2>11, <2>1 DEF ExhaustTask, BackgroundCrash
  <2>12. CASE UNCHANGED vars
    BY <2>12, <2>1 DEF vars
  <2>13. QED
    BY <2>7, <2>8, <2>9, <2>10, <2>11, <2>12 DEF Next
<1>3. QED
  BY <1>1, <1>2, TypeCorrect, OneWriter, NoIdCollision, PTL DEF Spec

\* When a run's upserts are over, and until its done is committed, Qdrant holds
\* exactly the rows that run has read.
THEOREM ExactVectors == Spec => []VectorsExact
  BY ExactSnapshots, PTL

=============================================================================
