# Specifications of the document-ingestion backend

TLA+ models of the FastAPI backend under `src/app` (and of the parts of the
Angular front end whose asynchronous behaviour matters), the TLC runs that check
them on small instances, and TLAPS proofs of the theorems that hold for every
instance.

The product: a superadmin uploads a document; a worker converts it into
*chunks* with Gemini; a human looks at them in a preview and confirms; a second
worker embeds the chunks and writes them to Qdrant, from where the query
pipeline answers questions.

## 1. Inventory

One row per part: the state it keeps, its operations, whom it talks to. The
list with sources and status is `components` in `PROJECT.json`.

| Part | State | Operations | Talks to |
|---|---|---|---|
| Upload (`routers/upload.py`) | none of its own | `upload_document`, `_enqueue_with_fallback`, `_process_document_background` | GCS, PostgreSQL, Cloud Tasks |
| Session API (`routers/sessions.py`) | none of its own | status, chunks, chunk edit, confirm, reject, reprocess, list, `_ingest_chunks_background` | PostgreSQL, Cloud Tasks, Qdrant |
| Workers (`routers/internal/tasks.py`) | none of its own | `process_document`, `ingest_chunks`, `inject_gcs_paths` | PostgreSQL, GCS, Gemini, Qdrant |
| Tables (`models/*.py`, `core/database.py`) | `ingestion_sessions`, `documents`, `chunks`, `company_rules`, `users`, `companies`, `conversation_history`, `login_log` | one transaction per request, commit after the handler, rollback on error | – |
| Cloud Tasks (`services/storage/tasks.py`) | the queue (external) | create a task; deliver, redeliver until 2xx | workers |
| GCS (`services/storage/gcs.py`) | objects (external) | upload, download, copy, signed URL | – |
| Qdrant (`services/ai/qdrant_service.py`) | points (external) | upsert, delete by document or id, search, normalise product names | – |
| Gemini (`services/ai/gemini.py`) | the token, its expiry and its lock; of a conversion: segment, attempt, chunks so far | convert a PDF, split a text and convert its segments, each with retries; condense a question | – |
| Embeddings (`services/ai/embedding.py`) | a semaphore of five, shared by the process | embed one text with retries; gather many | – |
| Query (`routers/query.py`, `routers/conversations.py`) | `conversation_history` | answer, guided answer, save history; list | Gemini, Qdrant, PostgreSQL |
| Login (`services/auth.py`, `routers/auth.py`) | `login_log` | login with lockout, logout | PostgreSQL |
| Access control (`core/dependencies.py`) | – | current user, role and company checks | PostgreSQL |
| Administration (`routers/admin/*`, `internal_setup.py`) | users, companies | create, update, deactivate, first superadmin | PostgreSQL |
| Rules (`services/rules.py`, `routers/rules.py`) | `company_rules` | create a version, latest version, history | PostgreSQL |
| Statistics, preview (`stats.py`, `preview.py`) | – | reads | PostgreSQL, GCS |
| Web preview (`web/.../preview.*`) | signals: session, documents, chunks | load, switch, edit, confirm | Session API |
| Web chat (`web/.../chat.*`, `company-context.service.ts`) | signals: messages, typing flag, tenant | send, leave, select a tenant | Query |

What makes it hard:

* **Two services, no transaction across them.** Chunks live in PostgreSQL,
  vectors in Qdrant, work in Cloud Tasks; each pair is kept in step by the order
  of the calls alone.
* **At-least-once delivery.** A task may be delivered again while its first
  execution still runs; a `create_task` that raised may have created the task,
  and then a `BackgroundTask` does the same work in the API process.
* **Check then write.** The API handlers read the status on a plain SELECT under
  READ COMMITTED and write it later.
* **Partial failure.** Batched upserts, best-effort rollback, exceptions that
  leave the SQL transaction unusable.
* **Concurrent requests** on counters and limits: the login window, the rule
  versions, the pool of database connections, of which a question keeps one while
  Gemini answers, the embedding semaphore, the shared Gemini token.
* **Long work read piecemeal.** A conversion reads the rules, then calls Gemini
  many times with retries, then writes two stores; a crash between the two leaves
  one. A gather that raises leaves its other calls running.
* **Late answers** on pages that have moved on: the preview, the chat.

What must hold: a confirmed or uploaded document is never silently forgotten;
two vectorisations never interleave; once `done`, Qdrant holds exactly the
session's chunks; a session being vectorised is not disturbed. Some of these
hold, some do not: section 4 says which. Of a question: the history never says
otherwise than what the chat has shown as its answer, and the input is locked
exactly while an answer is out.
Of a conversion: its rows come from the whole text, of one set of rules, the one
whose version they carry, and its copy in the bucket says what they say. Of the
shared clients: no slot leaks, and one renewal of a token serves everybody.

## 2. Modules

| Module | Models | With it |
|---|---|---|
| `VectorSync` | (abstract) what the vectorisation of a document promises of its points; implemented by the next two | – |
| `Ingestion` | one session from upload to `done`: `upload.py`, `sessions.py`, `internal/tasks.py`, the Qdrant writes, the task queue | `IngestionProofs`, `IngestionSyncProofs`, `MCIngestion` |
| `VectorWriter`, over `EmbeddingClient` | the vectorisations of several documents in one process, call by call: `embedding.py`, `qdrant_service.py`, and the questions that embed beside them | `VectorWriterProofs`, `MCVectorWriter` |
| `Conversion`, over `TextSplit`, `TokenManager`, `RuleVersions` | the conversions of a process, call by call: `gemini.py`, the rules it reads and their saves (`rules.py`), its two writes | `ConversionProofs`, `MCConversion` |
| `PreviewPage` | the preview page and its service (Angular), the confirm loops of the session list, over the session API | `PreviewPageProofs`, `MCPreviewPage` |
| `LoginThrottle` | the failed-login window of `services/auth.py` | `LoginThrottleProofs`, `MCLoginThrottle` |
| `ChatQuery` | a question from the chat page through `POST /query` to its history row and its answer | `ChatQueryProofs`, `MCChatQuery` |
| `CodeInjection` | `inject-gcs-paths` with the copies, the lifecycle rule and everything that writes the rows it reads | `CodeInjectionProofs`, `MCCodeInjection` |

A comment `(variant)` marks an operator no action uses: it is a mutation, a way
to get the definition below it wrong, kept to test that the properties notice.

How they fit: `PreviewPage` sees the backend as the API does, one status per
session, with the workers as an environment (`Work`); `Ingestion` lets every request
come that a handler accepts, whatever the page offers, and records in `slips` a
confirmation of a session that has no chunks yet. The page's loops are proved never
to send one, its button only after a hasty switch. `CodeInjection` sees a
conversion as the replacement of a document's rows, which is what
`SaveCommit` of `Ingestion` does to them. What `Ingestion` takes as one step or
two, `Convert` and `Embed`/`Upsert`, `Conversion` and `VectorWriter` take apart;
what these leave out, the locks and deliveries around a run, is in `Ingestion`.

### VectorSync

What a user of the two stores may rely on, in three variables: the session's
`status`, the document's `vectors`, and the `job`, the rows being vectorised. While
a job runs the status stands still and the vectors are those of before the job or
some of the job's own; it ends in `done` only with exactly its rows; nobody else
touches the vectors. It is implemented twice, under these mappings:

| | `Ingestion` | `VectorWriter`, of each document |
|---|---|---|
| `status` | `status` | `status[d]` |
| `vectors` | `qdrant` | the ids of `PointsOf(d)` |
| `job` | the rows of the worker that holds the row lock | the ids of `chunks[d]` while a run is under way |

In `Ingestion` what could break it are overlapping deliveries, requests and
crashes; in `VectorWriter`, where normalisation rewrites points that stay the
same to `VectorSync`, another document's calls, retries and rollbacks.

### Ingestion

A session owns exactly one document (`upload_document` is the only writer of
both tables), every statement filters on one of the two ids, and every Qdrant
call filters on the document. So one session is modelled, with any number of
API requests (`Users`) and of executions of workers (`Workers`) around it.

*State.* `status`, `ruleUsed` and `chunks` are the committed rows; `lock` is the
row lock of the session; `qdrant` the document's points; `processQ`, `ingestQ`
the queued tasks and `processBG`, `ingestBG` the pending background calls. A
request is at a location (`rpc`) between its read and its commit, or between
its commit and the creation of its task; a worker is at a location (`pc`)
between two of its transactions or external calls. A chunk is its conversion
(`nextBatch` stands for the uuid4 generator), its upsert batch, and how often
it was edited.

*Atomicity.* One action per committed transaction or per Qdrant call: what
another process can observe between two of them is a state of the model.
`get_db` commits after the handler returns, and SQLAlchemy sends only the
columns that differ from what was loaded; `loaded` and `seen` remember what a
run has read, because what it writes depends on it. The status `processing` is
flushed, never committed, so it appears as the row lock and not as a status.

*Actions.* `Upload`; a `...Read` and a `...Commit` for confirm, reject,
reprocess and patch; `EnqueueOk`, `EnqueueError` (the last attempt falls back to
a background call); `StartProcess`, `Convert`, `DeleteRows`, `SaveCommit` and
their failures for `process-document`; `IngestLock` (task) or `BgRead`,
`BgChunks`, `BgLock` (background), then `Embed`, `Clear`, `Upsert`,
`UpsertError`, `Undo`, `Abort`, `IngestDone` for `ingest-chunks`; crashes of a
request, of a worker and of a pending background call; a task the queue gives
up (`ExhaustTask`).

*Slips.* `slips` is a history variable: which of the four things have happened that
leave `done` without the session's chunks in Qdrant. They are a confirmation of a
session that has no chunks yet (`unready`), a second conversion (`again`: a reprocess,
or a `process-document` that is started twice), a vectorisation in the background of
what is `done` by then (`redone`), and an edit that commits after the preview
(`lateEdit`). No guard forbids them: the actions are those of the handlers, and
the property says what is true when none has happened.

*Faults* are counted (`MaxFaults`) and named by `FaultKinds`, so that a run says
which ones it admits. Failures of Gemini, of the embedding service and of an
upsert are not counted: they are part of the normal behaviour. A fault that
drops work records it in `lost`: the properties about lost work are conditional
on it, because nothing in the code restarts a session whose task is gone.

### VectorWriter

*State.* Of a document: its session's `status`, its `chunks`, its run (`at`, the
chunks `todo` in the upsert, the points `read` by the scroll). `points` is the
collection, shared by all documents. Of the embedding client: where each `call`
is, its `tries`, the semaphore (`permits` and the first-in-first-out `queue` of
its waiters). A call belongs to a document, a number of a run and a chunk, or to a
question; a number is taken again once no call of it is under way.

*Actions.* `Begin` creates a call for each chunk. A call takes a token, waits for
the semaphore, posts, succeeds, fails for good or goes back to the token after a
pause (`EmbeddingClient`). `Embedded` or, on the first error, `EmbedRaises`, which
leaves the other calls running. Then one action for each call of Qdrant: `Clear`,
`Upsert` (and `UpsertRaises`, applied or not, with `Undo`), `Scroll` page by page,
`Rename`. `Done`, `Abort`, `RunRaises`, `GiveUp` end a run; `Reconfirm` is a
reprocess with another naming; `Crash` takes the process with all its calls; `Ask`
and `Answer` are a question's embedding.

*Left out.* The row lock that keeps a second run of a document away (in
`Ingestion`). A call of Qdrant whose client has timed out and that the server
applies later: calls take effect in the order they are sent.

### Conversion

*State.* Of a document: its `text`, the `segments` sent for it, its delivery
(`at`, `run`), the `context` read at its start (rules and version), the `answers`
so far, the `attempt`; the copy in converted/ (`file`) and the committed `rows`.
`expiry`, `refreshing` and `queue` are the token manager's cache and lock; `rules`
and `save` the versions of the company's rules and the requests that write one;
`now` counts minutes of the versions and lifetimes of tokens alike. A text is a
sequence of paragraphs, a paragraph one of characters, of which only "blank or
not" counts.

*Actions.* `Begin`, `Download`, a token (`RefreshToken`, `TakeToken`,
`RefreshFails`), the reply (`Answer`, `CallFails`) for each segment and attempt,
`Upload`, `Commit`; failures of the storage and of the commit, a crash of the
process, a reprocess; a save of rules, from the start of its transaction
(`BeginSave`) over the version it makes (`MakeRule`) to its commit (`CommitRule`);
`Tick`. `TextSplit` is the splitting by paragraphs up to a limit and, for
a longer paragraph, by the limit itself, as a fold.

*Left out.* What the prompts say, how the JSON is found in a reply and validated:
a reply is a list of valid chunks or an exception. The size of a PDF.

### PreviewPage

*State.* The server's side is one status per session and the set of sessions that
have rows; `converted` and `confirmed` are history, for the properties. `shown`,
`list`, `loading`, `error` are the signals of `PreviewService`, a singleton that
holds one session; `active`, `batch`, `busy`, `poll` those of the component; `rest`
the sessions left in the two `for ... await` loops. A request is a slot of
`call`, with the session it was sent for and its reply.

*Atomicity.* JavaScript runs a continuation to its next `await`: that is an
action. The server answers a request in an action of its own (`Answer`) and the
continuation runs later (`StatusLoaded`, `ChunksLoaded`, `ActionDone`,
`Checked`, `LoopConfirmed`), in any order among the requests in flight. The
continuations write the signals without asking what is previewed by then, and so
do the actions.

*What misleads it.* The user clicks at any moment and the poll ticks at any moment;
no answer is assumed to be prompt. Two steps are named for the properties:
`HastySwitch`, a switch made with answers out, and `LateTick`, a tick that ends the
interval while the page is fetching. The properties say that nothing else makes the
page show or send what is not so, or loses its poll, and that a selection repairs it.

*Environment.* `Work` is what workers and other users do to a session: a
conversion, with chunks or without, which may be late and put a session of any
status back into the preview; a failure in any status; the end of a
vectorisation; a reprocess.

### LoginThrottle

*State.* `login_logs` and the requests between their count and their row.
`created_at` is the server default `now()`, which PostgreSQL takes when the
transaction begins, so a row is dated at the count and not at the commit. Time is
an integer; `Second` ticks make a second, so that the truncation of Retry-After
is a matter of the model.

*Actions.* `Admit` and `Refuse` are the count and its outcome; `LoginFailed`,
`AccountInactive`, `LoginSuccess` record the row; `RequestLost` is the rollback;
`Logout`, `Tick`. What the password is and who has it does not matter to the
window: after `Admit` any of the three outcomes may follow.

### CodeInjection

*State.* `taps` are the company's tap and nc documents by `created_at`, `raw` and
`converted` which of their objects exist, `chunks` the rows. An injection has read
the first `seen` of `taps`, has rows `todo`, what the storage answered it
(`cache`, i.e. `converted_path_by_doc`) and the rows it will write (`found`). A
file name is the set of product tokens and face suffixes it contains: all that
`_product_id_in_filename` and the suffix test look at. `Candidates` are, of the
latest file of each name, those of the chunk's product and face, or else those of
its product; `Match` takes the newest of them (`NewestOf`). A path carries, besides
the file, the product and face it was chosen for and how many files the injection
knew; that is history, for `BestFile`.

*Actions.* `ReadTaps`, `ReadChunks`, `Match`, `Copied`, `CopyFails`, `Commit` and
`Rollback` are the request, split where it awaits; `UploadTap`, `Expire`,
`Convert`, `Inherit` (rows of the version that stored raw/ paths), `Patch` are what
runs between. The rows of a SELECT come in no order, so `Match` takes any of
`todo`. `Commit` admits both what SQLAlchemy does when an UPDATE misses a row:
with one row it raises, with several it may go unnoticed.
Two files of the same `created_at` do not occur: a request uploads one file.

### ChatQuery

*State.* `messages` and `botTyping` are the signals of the component on the screen,
`tenant` the header's selection; `req` has the request of each question, at a
stage between two of its awaits, `held` the questions whose request holds a
connection of the pool, `rows` the committed `conversation_history`. A text is
its kind: a question within the limits, over those of a question, or over those
of a history turn too; an answer, a refusal, a guided answer, none found, empty.

*Actions.* `Send` is `send()` up to its `await`, `Settle` what follows it in
either branch with the `finally`; it runs on an answer (`Deliver`) or on a broken
connection (`Disconnect`), of which the server knows nothing. A page that is
left (`Leave`) starts anew, so requests of one user overlap. On the server:
`Authenticate` takes the connection, `Validate`, `Condense`, `Embed`, `Search`,
`Generate`, `Guide`, `Save`, and `Commit`, which FastAPI 0.115 runs, as the end of
`get_db`, before it sends the response. The failures are `PoolTimeout`, `Unauthorised`,
`Fail` (any call on the way), `CommitFails`, `CommitInactive`, `Crash`. What
SQLAlchemy does with a session whose flush failed (its transaction is rolled back
and the next commit raises) is external.

*Left out.* The retries and the semaphore of the embedding client: `Embed` has their
outcomes, `VectorWriter` the client itself. The branch of `send()` for a superadmin without a tenant: the page
disables the input then. A company id that is no UUID, which `_save_history` would
skip: the page's ids come from the list of companies.

## 3. Runs

| Run | Instance | Shows |
|---|---|---|
| `ingestion_session` | 2 requests at a time, 2 after the upload, 2 workers, 2 chunks per conversion, 2 conversions, 1 edit, 1 fault of any kind, fair | types; exact points after the upserts; conversions stay whole; no confirmed or unconverted session without pending work or a recorded loss; `done` means the points are the chunks, unless a slip is recorded; `VectorSync` is implemented; confirmed and uploaded sessions are resolved, or lost |
| `vectors` | documents of 3 and 1 chunks, 2 conversions with several namings, batches and pages of 2, 1 fault | `VectorSync` is implemented, whatever the other document does; a `done` document has one name, the most frequent |
| `embedding` | a document of 2 chunks, a question, 2 runs whose calls may overlap, 1 slot, 2 attempts, 1 fault, fair | no slot is lost or made up; runs and questions end |
| `conversion` | a docx and a PDF, segments of 3 characters, 2 attempts, a token of 2 ticks, a save of rules, 1 fault, 2 deliveries of the docx, fair | whole text, one set of rules, the copy holds the rows, one renewal of the token, conversions end; as an ASSUME, that the splitting of each of 306 texts fits and covers it, so that `SplitIsRight` is seen on its inputs, too |
| `preview_page` | 2 sessions, one a code file, 2 requests in flight, 2 clicks at any moment, 1 failing request, conversions at any time, another administrator's bulk confirmation | only a switch with answers out makes the page say what is not so, and a switch without repairs it; only a tick during a fetch stops its poll; the loops confirm converted sessions only; the batch list is truthful |
| `login_window` | 1 e-mail, 3 addresses, 2 overlapping logins, limits 1 and 3, a window of 2 half-seconds | the limits are overrun by the other request at most; the other sources stay in; Retry-After is tight |
| `injection_overlap` | 2 injections, 2 documents, 2 conversions, 2 files of 3 possible names, edits | an injected path resolves for ever; it is the best file known |
| `chat_overlap` | 3 questions, some too long, pages left, a pool of 1, a window of 2 messages, every failure, fair | a question has one row at most, and it never says otherwise than what was shown; the typing flag is truthful and goes away; connections come back; of the conversation, the history sent is exactly the last turns before the question |
| `ingestion_orphan`, `ingestion_stale_edit`, `chat_lost_answer`, `chat_greeting` | one or two users, one worker, no fault; one question, one failing flush | four sentences of the repository that the code contradicts: section 4 |

Why these sizes: every race of the code is between two parties (two workers, two
requests, a request and a switch, two injections), and two rows or chunks are
what distinguishes "some" from "all" in a half-done write. Two conversions make
a rerun. Two requests after the upload are every pair of confirm, reject, reprocess
and edit, also overlapping, and with one fault every single failure beside them; what
more of each can do is left to the proofs. In `login_window` the limits lie as far apart as
requests overlap, the tightest case of `OtherSourcesAdmitted`, and the clock runs
longer than the window, so failures slide out of it. Three names of files are one
with the chunk's face, one of its product only, one of neither. In `chat_overlap` two
questions overlap on the pool and the third has more history than the window.
In `vectors` three chunks in batches and pages of two make a full and a short one of
each, and a majority of two to one; the one-chunk document is the other party. In
`embedding` one slot makes every call wait for every other, also for those a failed
run has left behind. In `conversion` a text of five characters makes two segments, and a token may
expire between them; the splitting inside of a paragraph is in the texts of the
ASSUME.
In `preview_page` two clicks are a confirmation and a switch, or a switch there and
back, with two requests to be out meanwhile; of the environment it has the conversions,
in any status, because with the other kinds of `Work` it has over ten million states, and the
theorems have them all. The bounds
(`MaxBatches`, `MaxRequests`, `MaxFaults`, `MaxRevision`, `MaxTries`, `Slots`,
`MaxErrors`, `MaxClicks`, `MaxNow`, `MaxFailures`, `MaxOthers`, `MaxTaps`, `MaxChunks`,
`MaxQuestions`, `MaxMessages`, `MaxConversions`, `MaxRuns`, `MaxTime`) are
guards and are never part of a property.

Symmetry permutes slots, logins, injections and documents,
in safety runs only. In `Ingestion`, `PreviewPage`, `Conversion` and the safety run of
`VectorWriter` the system may really stop (nobody owes a request, a click, another
conversion or a question), so deadlock is not checked there; the other runs always have a step.

Fairness. `Ingestion!FairSpec`: weak fairness of each request's own steps and of
each worker's: a coroutine of a live server is scheduled again, and Cloud
Tasks dispatches what it holds. A start (upload, any request of a user) has none,
a crash has none. `ChatQuery!FairSpec`: a request that has been sent moves on, because each of its
calls returns, raises or times out; nothing is assumed of users or failures.
`VectorWriter!FairSpec`: each run, each embedding call and each answer to a question
moves on, which is the event loop of a live process; the semaphore wakes its waiters
in order, so weak fairness is enough. `Conversion!FairSpec`: the same for the work of
each conversion. What is fair is the step, not one outcome of it: a call may fail
for ever, and it is the bounded attempts that end it. A delivery, a save of rules and
a crash have no fairness.

## 4. What the code does not do

Four runs must fail; `findings` in `PROJECT.json` quotes the sentences they contradict.

| Run | The repository says | TLC shows |
|---|---|---|
| `ingestion_orphan` | reprocess: old vectors are replaced as a whole, no orphan (sessions.py:258) | a reprocess that yields no chunk ends in `done` with every old point |
| `ingestion_stale_edit` | an edit is made before any vector is in Qdrant, so nothing need be embedded again (sessions.py:121) | the edit reads the status without a lock, the session is confirmed and its rows are read, the edit commits, `done`: Qdrant keeps the old text |
| `chat_lost_answer` | the history row is best effort, its failure does not affect the answer (query.py:102, 128) | the failed flush leaves the transaction inactive, the commit of `get_db` raises (database.py:64), and the user gets an error for the answer |
| `chat_greeting` | the history leaves out the dots and the initial greeting (chat.component.ts:101) | a page's first question sends the greeting, and is condensed for it |

Other limits, met while modelling, which no run checks:

* A late or redelivered `process-document` replaces the chunks under a running
  vectorisation, or after `done`; so does a reprocess whose guard read the
  status before a confirmation. Those are the slip `again`. `confirm` does not ask
  whether there is anything to vectorise: `unready`.
* The old points stay live, and answer queries, while a reprocessed document is
  back in the preview; edits made there do not reach them.
* That the rows are deleted first "to avoid a double INSERT" (tasks.py:674) works for
  one delivery after the other. Two that overlap delete the same rows and both insert theirs, so a
  document may have the chunks of two conversions; the copy in converted/ is then
  that of the last upload. `WholeConversions` says what remains true: each is whole.
* `processing` is flushed and never committed, so no other transaction sees it:
  the guard of reprocess that names it does not fire.
* The background path of `ingest-chunks` reads the status before it has the row
  lock and does not look again, so it may clear a `done` session and write it
  anew: `redone`. `WriterHoldsRow` and `VectorsExact` hold all the same.
* A page whose user switches while requests are in flight may show one session's
  chunks under another's header, offer to confirm on the strength of them, and show
  "此 Session 已確認" (preview.component.html:44) for an answer that was about the
  session before (preview.service.ts:212). `OnlyHasteMisleads` says that this is the
  one way. A poll that ticks while the page loads stops for good, and the banner
  "模型解析中" may stay; `OnlyALateTickStopsPoll` says that this is the one way.
* The version of a set of rules is the minute of its save (rules.py:74, 83-86): two
  saves in one minute share it, and then "the" rules of a version are not one set.
  `created_at` is when the transaction began, so the latest rules are those of the
  save that began last, not of the one that ended last. `RuleVersions` has both;
  `OneContext` asks for some rules of the version.
* A call of Qdrant that timed out at the client may be applied after the rollback
  that follows it. No model has it.
* A conversion without chunks looks, to the page, like one that has not ended.
* Retry-After is truncated, so a client that obeys it to the second may be
  refused once more: `RetryAfterTight` allows less than a second.
* A chunk that got the fallback file (same product, other face) has a path, so no
  later injection selects it, and a file of its own face that arrives in a later
  upload is never taken. Hence `BestFile` speaks of the files the injection knew.
* An answer has no limit of length but a history turn has 4000 characters: after a
  longer answer the following questions are refused (422) until it leaves the
  window. `Validate` has it; so does a question over the limit that was pasted in.
* The history follows the page, not the tenant: after a superadmin has switched,
  the turns about the former tenant are sent along.
* The path of a chunk does not follow an edit of its product or face, and a
  chunk converted again has none until somebody runs the injection again.

## 5. Proofs

Only the named ASSUMEs of the modules are used, and no listed theorem has a hypothesis
on the behaviour of users or of the network. Every module with a state machine that a run
checks has its types proved, and every safety property of a passing run is a
theorem. Of the liveness properties the safety core is proved: of `ConfirmResolved` and
`UploadResolved` it is that nothing is pending silently, of the others that what
waits has somebody to wait for and, of conversions, runs and requests, that each
step brings them nearer to their end and none takes them back.

`IngestionProofs`:

* `TypeCorrect`: inductive as it stands.
* `ConfirmNeverSilent`, `UploadNeverSilent`: inductive given the types. An action
  that takes the last pending piece of work away either moves the status on in
  the same transaction, hands the work over, or records the loss.
* `OneWriter`: whoever is past the row lock still holds it.
* `NoIdCollision` (`FreshBatches`): the rows a conversion is about to insert have
  ids no committed row and no other conversion has. `ExactVectors` needs it,
  because an upsert replaces a point with the same id.
* `ExactVectors`: from `OneWriter` (nobody else touches the points) and
  `NoIdCollision` (the rows read have distinct ids): `qdrant` is the rows read
  minus the rows still to write, after every upsert.

`IngestionSyncProofs`, on top of these:

* `VectorisationKeepsPromise`: `Ingestion` implements `VectorSync`. That a job begins
  only when none runs is `OneWriter`; that `done` has exactly its rows is
  `ExactVectors`; and whoever holds the lock has rows (`HolderHasRows`), or a job
  would be invisible.
* `ConversionsStayWhole`: a delete takes all rows that are committed, a commit
  brings all parts of one conversion, an edit keeps ids.
* `DoneIsSearchable`, the chunks in the points, of every behaviour, by the slips that
  have happened in it. As long as there was none but a late edit (`Tidy`), at most one
  conversion is under way (`OneConversion`) and it is over before any confirmation
  (`ConversionFirst`); so the rows a vectorisation has read keep their ids
  (`EditKeepsIds`, `PatchKeepsIds`), and their text too unless an edit came late. Each
  slip is needed: section 4 has what each of them does.

`VectorWriterProofs`:

* `PointsKeepPromise`: `VectorWriter` implements `VectorSync`, for any number of
  documents, from `RunInv`: by the step a run is at, the points of its document are
  its chunks less those to write. Every Qdrant call is confined to one document.
* `NoSlotLeaks`, from `SlotInv`: the permits and the calls in flight make up the
  slots, and the waiters are distinct calls, none of them in flight; a call nobody
  awaits gives its slot back as any other does.
* `NamesAgree`, from `NamesInv`: what a scroll has read is the lower part of the ids
  (`PagesAscend`), so after the last page it is all chunks, and the name that is
  then written is theirs. That finitely many names have a most frequent one, read
  first among equals (`MajorityIs`), is a choice of least numbers, which the
  well-foundedness of the numbers gives without an induction over names.
* `TypeCorrect`: the majority name is a name, everything else is copied.
* `RunsAdvance`: no step of a run goes back, a batch takes something off the list, and
  a page that is not the last has something on it (`PageThere`).
* `CallsAreKept`, from `SlotInv`: whoever waits is in the queue; if no permit is left,
  by the count of the slots a call holds one and will give it back; the calls of a
  run under way are there, since nobody else's gather takes their outcomes
  (`CallsApart`). These two are the core of `RunEnds` and `QuestionEnds`.

`ConversionProofs`:

* `TokenRenewedOnce`, from `TokenInv`: the lock has one holder, who looks at the
  expiry again once it has it.
* `RowsOfOneContext`, `CopyHoldsRows`, from `RowsInv`: the answers of a delivery carry
  its number and the context it began with; versions once made stay.
* `RowsOfWholeText`, from `TextsInv`: the answers are those of a prefix of the
  segments, whatever attempts failed. That the segments are the text is
  `SplitIsRight`.
* `SplitIsRight`: for every text, the segments fit and hold it, in order. The loop of
  `_split_text` is a recursive function of the paragraphs it has taken. That it is
  the history of its turns (`History`) and that its invariant (`Loop`: the segments
  written and the one being filled hold the ink of the paragraphs so far) always holds
  is proved from the least paragraph at which it would fail (`Upwards`), which needs
  no operator-valued theorem. `str.strip()` takes blanks only (`StripKeeps`).
* `LockIsLeft`, from `LockInv`: those at the token are the queue, each once, so the head,
  who holds the lock, is there and may go on.
* `ConversionAdvances`: each step of a conversion is over, or adds a segment, an attempt
  or a stage (`Rank`), and there are boundedly many of each; nobody else's step takes
  it back. These two are the core of `ConversionEnds`.
* `TypeCorrect`: an answer is asked for a segment there is, because the answers are
  fewer than the segments while the conversion waits for one.

`PreviewPageProofs`:

* `TypeCorrect`.
* `LoopsSafe`, from `LoopInv`: an answer that says "has chunks" was given for a
  session that had been converted, and a loop sends a confirmation only on such
  an answer for the same session. `converted` never shrinks.
* `ListTruthful`, from `ListInv`: the status an answer carries was the server's
  for the session the request was sent for.
* `HasteAloneMisleads`, for every user: while the page tells the truth, what is in flight
  to be shown is about the active session (`AboutActive`), so the late writes of the
  continuations are harmless, until a switch with answers out. After a switch without,
  nothing of the session before is left, whatever the page showed until then.
* `LateTickAlone`, for every user: an interval under the banner ends only at a tick that
  finds the page fetching; a selection starts it anew.

`LoginThrottleProofs`:

* `TypeCorrect`; `ReserveCorrect`, the strengthening: for every limit, the failures
  in the window and the requests under way are together at most the limit less
  one plus the overlap. A failure takes the place of its request, so the sum does
  not grow; a request is admitted only under the limit; time only removes.
* `IpWindowBounded`, `EmailWindowBounded` and `OthersAdmitted` follow by counting.
* `RetryTight`: `FloorSeconds`, the rounding for every length of a second, applied
  to the oldest failure of those counted.

`CodeInjectionProofs`:

* `Resolvable`, from `ResolveInv`: a path reaches a row in three hops (the answer
  is cached, the cache settles the row, the commit writes it), and at each hop the
  file is under converted/, from where nothing is removed.
* `TypeCorrect`.
* `BestChosen`, from `BestInv`: the answers in the cache are about the files the
  injection had read, those only grow, and the latest of the candidates is as good
  as any of them (`NewestIsBest`, by well-founded choice of the latest).

`ChatQueryProofs`, in which `ServerSteps` sorts the actions of the server into
those that move a request on and those that end it:

* `TypeCorrect`, with `TextInv`: a request that is about to be saved has an answer.
* `Recorded`, from `RecordInv` and `OneRowEach`: an answer on its way to the page has its
  row, because the reply and the row are of one step; rows are never removed, and a
  question leaves one at most, so no other can contradict what is shown.
* `Typing`, from `DotsAreBots`: what waits is the dots of a question that was asked,
  and they are last, so one settled answer clears the flag.
* `Connections`: inductive given the types.
* `HistoryPast`, from `LastButOne`: to cut the last of the `Window + 1` last elements of
  a set that has got a new greatest one is to take the `Window` last of the old. The
  greeting is the first message of a page and no other is one (`GreetingFirst`), so it
  takes no place from a turn (`LastTurns`).
* `RequestsEnd`: the stages are ordered and no step goes back (`OnlyFurther`), every
  step that serves a request goes on (`Served`), the dots of a question stand for a
  request under way, and a row is written only by the step that leaves "flushed".
  It is the core of `TypingEnds`.

Model-checked only: the liveness properties themselves (the prover has no ENABLED,
and with it no weak fairness), and what is refuted. Checked by no run, because the
properties of the runs would fail first, are the `TypeOK` of `VectorWriter` and
`Conversion`; they are proved, and hold on the instances of the runs.

## 6. Not modelled

* Parsing of documents, prompts, JSON extraction and validation: pure conversions
  whose outcome (chunks, no chunk, a failure) is all the lifecycle sees.
* Authentication and role checks: each request reads the user and decides; there is
  no state between two requests, and the tenant of a row never changes.
* User and company administration: single-row writes. The e-mail is unique in the
  database (user.py:27), so of two creations of one e-mail one fails, also of the
  first superadmin's, which asks for no other superadmin (internal_setup.py).
* Statistics and the preview endpoint: reads.
* Qdrant's search and the creation of its collection: what a search returns is the
  business of Qdrant; `ChatQuery` takes any outcome.
* Web forms and lists without a protocol of their own; web authentication, whose
  token the plan below takes up.
* Migrations, configuration and deployment: they run once, before the system does.
* The fields of a chunk beyond what an action branches on.

## 7. Plan

In the models and proofs above: the lifecycle and its abstract specification, the
page that drives it, vectorisation and conversion call by call, login, path
injection, questions. What is left, in this order:

1. **`ConfirmPath`**, the composition of `PreviewPage` and `Ingestion` (the page's
   `Work` becomes the worker's steps), so that what the page may do to a session
   (which slips it can cause, and after which switches) is one theorem. It takes the
   place of `preview_page`, whose properties it keeps.
2. **`WebSession`**: the identity of a tab in its sessionStorage against the one
   cookie of the browser; a late 401 to an earlier token that logs out a new login.

The runs are kept few: a new module's questions are asked in one run of small
bounds where they can be, and a run whose properties a composition takes over is
dropped.
