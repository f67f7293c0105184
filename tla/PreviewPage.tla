---------------------------- MODULE PreviewPage ----------------------------
(***************************************************************************)
(* The administrator's preview page (web/src/app/features/preview) over    *)
(* the singleton PreviewService: it loads one session of a batch at a      *)
(* time, polls while the worker runs, and confirms or rejects.             *)
(*                                                                         *)
(* JavaScript runs one continuation at a time, so the code between two     *)
(* awaits is one action.  A request is a slot of call: it is sent, the     *)
(* server handles it, and its answer is delivered to the continuation, at  *)
(* any later time and in any order.  The continuation writes the signals   *)
(* of the service without asking which session is being previewed.         *)
(***************************************************************************)
EXTENDS Naturals, FiniteSets

CONSTANTS
    Sessions,       \* the batch opened in the page
    NoSession,
    CodeOnly,       \* sessions whose document is tap / nc / dxf / unknown
    Slots,          \* bound: requests in flight
    UserOps,        \* what the administrators do
    WorkerOps,      \* what happens to the sessions outside the page
    MaxErrors,      \* bound: requests and tasks that fail
    MaxClicks       \* bound: clicks, here and elsewhere

ASSUME PageAssumption ==
    /\ NoSession \notin Sessions
    /\ CodeOnly \subseteq Sessions
    /\ UserOps \subseteq {"confirm", "reject", "all", "bulk"}
    /\ WorkerOps \subseteq {"convert", "empty", "fail", "finish", "reprocess"}
    /\ MaxErrors \in Nat
    /\ MaxClicks \in Nat

VARIABLES
    \* the server
    status,     \* ingestion_sessions.status
    rows,       \* the sessions that have chunks rows
    converted,  \* the sessions a conversion has given chunks (history)
    confirmed,  \* the sessions whose confirmation was accepted (history)
    \* PreviewService
    shown,      \* session: id and status
    list,       \* documents and chunks: whose, and is there any chunk
    loading, error,
    \* PreviewComponent
    active,     \* activeSessionId
    batch,      \* batchFiles: the status listed for each session
    busy,       \* actionLoading
    poll,       \* the session of the running interval
    rest,       \* sessions left in the loops of onConfirmAll, confirmSelected
    \* requests
    call, meta,
    errors, clicks

server  == <<status, rows, converted, confirmed>>
service == <<shown, list, loading, error>>
page    == <<active, batch, busy, poll>>
bounds  == <<errors, clicks>>
vars    == <<server, service, page, rest, call, meta, bounds>>

Pending == "pending_preview"
Status  == {Pending, "confirmed", "done", "failed"}

Waiting        == [state |-> "waiting", status |-> "none", has |-> FALSE]
Failed         == [state |-> "error", status |-> "none", has |-> FALSE]
Ok(st, has)    == [state |-> "ok", status |-> st, has |-> has]
Replied(c)     == call[c].reply # Waiting
Succeeded(c)   == call[c].reply.state = "ok"

Free           == [op |-> "free", sid |-> NoSession, by |-> "page", reply |-> Waiting]
Call(op, s, by) == [op |-> op, sid |-> s, by |-> by, reply |-> Waiting]
IsFree(c)      == call[c].op = "free"

Nothing        == [sid |-> NoSession, status |-> "none"]
NoList         == [sid |-> NoSession, has |-> FALSE]

Confirms == {"confirm", "confirmRaw"}
Fetches  == {"load", "refresh", "chunks"}

InFlight == {c \in Slots : ~IsFree(c) /\ call[c].by # "bulk"}

Fails  == errors < MaxErrors /\ errors' = errors + 1 /\ UNCHANGED clicks
Clicks == clicks < MaxClicks /\ clicks' = clicks + 1 /\ UNCHANGED errors

-----------------------------------------------------------------------------
(* What the page computes from its signals.                                *)

isCodeFileOnly == list.sid \in CodeOnly

canConfirm == shown.status = Pending /\ (list.has \/ isCodeFileOnly)

isWorkerRunning == shown.status = Pending /\ ~list.has /\ ~isCodeFileOnly

pendingBatch == {s \in Sessions : batch[s] = Pending}

isBatch == Cardinality(Sessions) > 1

\* The template renders the buttons only over a loaded session.
Rendered == ~loading /\ ~error /\ shown # Nothing

\* 確認此份 and 拒絕此份, in the batch bar or alone.
ActionEnabled ==
    /\ Rendered
    /\ canConfirm
    /\ isBatch => pendingBatch # {}
    /\ ~busy

-----------------------------------------------------------------------------
(* Loading a session: status, then chunks.                                 *)

\* (variant) the signals of the previous session are not reset.
LoadOver(c, s) ==
    /\ IsFree(c)
    /\ active' = s
    /\ loading' = TRUE
    /\ error' = FALSE
    /\ poll' = s
    /\ call' = [call EXCEPT ![c] = Call("load", s, "page")]
    /\ UNCHANGED <<shown, list>>

\* _loadActive(s): reset, loadSession and a new polling interval.
LoadActive(c, s) ==
    /\ IsFree(c)
    /\ active' = s
    /\ shown' = Nothing
    /\ list' = NoList
    /\ loading' = TRUE
    /\ error' = FALSE
    /\ poll' = s
    /\ call' = [call EXCEPT ![c] = Call("load", s, "page")]

SelectSession(c, s) ==
    /\ s # active
    /\ LoadActive(c, s)
    /\ Clicks
    /\ UNCHANGED <<server, batch, busy, rest, meta>>

\* loadStatus, as awaited by loadSession: the chunks are asked for even if
\* the status could not be read.
StatusLoaded(c) ==
    /\ call[c].op = "load" /\ Replied(c)
    /\ loading' = FALSE
    /\ IF Succeeded(c)
       THEN /\ shown' = [sid |-> call[c].sid, status |-> call[c].reply.status]
            /\ UNCHANGED error
       ELSE /\ error' = TRUE
            /\ UNCHANGED shown
    /\ call' = [call EXCEPT ![c] = Call("chunks", call[c].sid, "page")]
    /\ UNCHANGED <<server, list, page, rest, meta, bounds>>

\* refreshSilent: a failure leaves everything as it is.
StatusRefreshed(c) ==
    /\ call[c].op = "refresh" /\ Replied(c)
    /\ IF Succeeded(c)
       THEN /\ shown' = [sid |-> call[c].sid, status |-> call[c].reply.status]
            /\ call' = [call EXCEPT ![c] = Call("chunks", call[c].sid, "page")]
       ELSE /\ call' = [call EXCEPT ![c] = Free]
            /\ UNCHANGED shown
    /\ UNCHANGED <<server, list, loading, error, page, rest, meta, bounds>>

\* tryLoadChunks
ChunksLoaded(c) ==
    /\ call[c].op = "chunks" /\ Replied(c)
    /\ list' = IF Succeeded(c)
               THEN [sid |-> call[c].sid, has |-> call[c].reply.has]
               ELSE list
    /\ call' = [call EXCEPT ![c] = Free]
    /\ UNCHANGED <<server, shown, loading, error, page, rest, meta, bounds>>

\* (variant) the interval is cleared once it has refreshed.
TickOnce(c) ==
    /\ poll # NoSession
    /\ IsFree(c)
    /\ poll' = NoSession
    /\ call' = IF isWorkerRunning
               THEN [call EXCEPT ![c] = Call("refresh", poll, "page")]
               ELSE call
    /\ UNCHANGED <<server, service, active, batch, busy, rest, meta, bounds>>

\* One tick of the interval: it refreshes while the worker seems to run and
\* stops for good at the first tick that finds it does not.
Tick(c) ==
    /\ poll # NoSession
    /\ IsFree(c)
    /\ IF poll = active /\ isWorkerRunning
       THEN /\ call' = [call EXCEPT ![c] = Call("refresh", poll, "page")]
            /\ UNCHANGED poll
       ELSE /\ poll' = NoSession
            /\ UNCHANGED call
    /\ UNCHANGED <<server, service, active, batch, busy, rest, meta, bounds>>

\* _loadBatchMeta: the request of each session, on its own.
MetaAnswered(s) ==
    /\ meta[s] = "sent"
    /\ \/ meta' = [meta EXCEPT ![s] = status[s]] /\ UNCHANGED bounds
       \/ meta' = [meta EXCEPT ![s] = "idle"] /\ Fails
    /\ UNCHANGED <<server, service, page, rest, call>>

\* (variant) the entry is written before its answer is there.
MetaUnawaited(s) ==
    /\ meta[s] # "idle"
    /\ batch' = [batch EXCEPT ![s] = meta[s]]
    /\ meta' = [meta EXCEPT ![s] = "idle"]
    /\ UNCHANGED <<server, service, active, busy, poll, rest, call, bounds>>

MetaLoaded(s) ==
    /\ meta[s] \in Status
    /\ batch' = [batch EXCEPT ![s] = meta[s]]
    /\ meta' = [meta EXCEPT ![s] = "idle"]
    /\ UNCHANGED <<server, service, active, busy, poll, rest, call, bounds>>

-----------------------------------------------------------------------------
(* Confirming and rejecting the previewed session.                         *)

\* The service marks whatever session it holds.
Marked(st) == IF shown = Nothing THEN Nothing ELSE [shown EXCEPT !.status = st]

Confirm(c) ==
    /\ "confirm" \in UserOps
    /\ ActionEnabled
    /\ IsFree(c)
    /\ busy' = TRUE
    /\ call' = [call EXCEPT ![c] = Call("confirm", active, "button")]
    /\ Clicks
    /\ UNCHANGED <<server, service, active, batch, poll, rest, meta>>

Reject(c) ==
    /\ "reject" \in UserOps
    /\ ActionEnabled
    /\ IsFree(c)
    /\ busy' = TRUE
    /\ call' = [call EXCEPT ![c] = Call("reject", active, "button")]
    /\ Clicks
    /\ UNCHANGED <<server, service, active, batch, poll, rest, meta>>

\* (variant) the batch entry of whatever session is active by now.
ListedActive(c, st) == [batch EXCEPT ![active] = st]

\* _patchBatch: the session the request was about.
Listed(c, st) == [batch EXCEPT ![call[c].sid] = st]

ActionDone(c) ==
    /\ call[c].op \in {"confirm", "reject"} /\ call[c].by = "button" /\ Replied(c)
    /\ LET st == IF call[c].op = "confirm" THEN "confirmed" ELSE "failed" IN
       IF Succeeded(c)
       THEN /\ shown' = Marked(st)
            /\ batch' = Listed(c, st)
       ELSE UNCHANGED <<shown, batch>>
    /\ busy' = FALSE
    /\ call' = [call EXCEPT ![c] = Free]
    /\ UNCHANGED <<server, list, loading, error, active, poll, rest, meta, bounds>>

-----------------------------------------------------------------------------
(* onConfirmAll of the page and confirmSelected of the sessions list: for  *)
(* each session in turn, checkReady and then the confirmation.  The order  *)
(* of the list is left open.                                               *)

NextOf(c, by, S) ==
    IF S = {}
    THEN /\ call' = [call EXCEPT ![c] = Free]
         /\ rest' = [rest EXCEPT ![by] = {}]
         /\ busy' = IF by = "all" THEN FALSE ELSE busy
    ELSE \E s \in S :
         /\ call' = [call EXCEPT ![c] = Call("check", s, by)]
         /\ rest' = [rest EXCEPT ![by] = S \ {s}]
         /\ busy' = IF by = "all" THEN TRUE ELSE busy

ConfirmAll(c) ==
    /\ "all" \in UserOps
    /\ Rendered
    /\ isBatch
    /\ pendingBatch # {}
    /\ ~busy
    /\ IsFree(c)
    /\ NextOf(c, "all", pendingBatch)
    /\ Clicks
    /\ UNCHANGED <<server, service, active, batch, poll, meta>>

\* Another administrator, or another tab: several clicks are one loop at a time.
ConfirmSelected(c, S) ==
    /\ "bulk" \in UserOps
    /\ IsFree(c)
    /\ \A d \in Slots : call[d].by # "bulk"
    /\ NextOf(c, "bulk", S)
    /\ Clicks
    /\ UNCHANGED <<server, service, active, batch, poll, meta>>

\* (variant) the chunks are not counted.
ReadyPending(c) ==
    /\ Succeeded(c)
    /\ call[c].reply.status = Pending

\* checkReady
Ready(c) ==
    /\ Succeeded(c)
    /\ call[c].reply.status = Pending
    /\ call[c].reply.has \/ call[c].sid \in CodeOnly

Checked(c) ==
    LET s == call[c].sid
        by == call[c].by IN
    /\ call[c].op = "check" /\ Replied(c)
    /\ IF Ready(c)
       THEN /\ call' = [call EXCEPT ![c] =
                  Call(IF by = "all" /\ s = active THEN "confirm" ELSE "confirmRaw", s, by)]
            /\ UNCHANGED <<rest, busy>>
       ELSE NextOf(c, by, rest[by])
    /\ UNCHANGED <<server, service, active, batch, poll, meta, bounds>>

LoopConfirmed(c) ==
    LET by == call[c].by IN
    /\ call[c].op \in Confirms /\ by # "button" /\ Replied(c)
    /\ shown' = IF Succeeded(c) /\ call[c].op = "confirm" THEN Marked("confirmed") ELSE shown
    /\ batch' = IF Succeeded(c) /\ by = "all" THEN Listed(c, "confirmed") ELSE batch
    /\ NextOf(c, by, rest[by])
    /\ UNCHANGED <<server, list, loading, error, active, poll, meta, bounds>>

-----------------------------------------------------------------------------
(* The API: reads, confirm and reject.                                     *)

Reply(c, r) == call' = [call EXCEPT ![c].reply = r]

Answer(c) ==
    LET s == call[c].sid IN
    /\ ~IsFree(c) /\ ~Replied(c)
    /\ \/ /\ call[c].op \in {"load", "refresh"}
          /\ Reply(c, Ok(status[s], FALSE))
          /\ UNCHANGED server
       \/ /\ call[c].op \in {"chunks", "check"}
          /\ Reply(c, Ok(status[s], s \in rows))
          /\ UNCHANGED server
       \/ /\ call[c].op \in Confirms
          /\ status[s] = Pending
          /\ status' = [status EXCEPT ![s] = "confirmed"]
          /\ confirmed' = confirmed \cup {s}
          /\ Reply(c, Ok("confirmed", FALSE))
          /\ UNCHANGED <<rows, converted>>
       \/ /\ call[c].op = "reject"
          /\ status[s] \in {Pending, "confirmed"}
          /\ status' = [status EXCEPT ![s] = "failed"]
          /\ Reply(c, Ok("failed", FALSE))
          /\ UNCHANGED <<rows, converted, confirmed>>
       \/ /\ \/ call[c].op \in Confirms /\ status[s] # Pending
             \/ call[c].op = "reject" /\ status[s] \notin {Pending, "confirmed"}
          /\ Reply(c, Failed)
          /\ UNCHANGED server
    /\ UNCHANGED <<service, page, rest, meta, bounds>>

\* The request, or the answer to a request the server has handled, is lost.
Lose(c) ==
    /\ ~IsFree(c) /\ call[c].reply # Failed
    /\ Fails
    /\ Reply(c, Failed)
    /\ UNCHANGED <<server, service, page, rest, meta>>

(* The workers and the other users, as far as the page can tell (module    *)
(* Ingestion): a conversion replaces the chunks, may give none and, if it   *)
(* is late, may put the session back into the preview.                      *)

Converted(s) == status' = status \/ status' = [status EXCEPT ![s] = Pending]

Work(op, s) ==
    /\ \/ /\ op = "convert" /\ s \notin CodeOnly
          /\ Converted(s)
          /\ rows' = rows \cup {s}
          /\ converted' = converted \cup {s}
          /\ UNCHANGED bounds
       \/ /\ op = "empty"
          /\ Converted(s)
          /\ rows' = rows \ {s}
          /\ UNCHANGED <<converted, bounds>>
       \/ /\ op = "fail"
          /\ status' = [status EXCEPT ![s] = "failed"]
          /\ Fails
          /\ UNCHANGED <<rows, converted>>
       \/ /\ op = "finish"
          /\ s \in confirmed
          /\ status' = [status EXCEPT ![s] = "done"]
          /\ UNCHANGED <<rows, converted, bounds>>
       \/ /\ op = "reprocess"
          /\ status[s] \in {Pending, "done", "failed"}
          /\ status' = [status EXCEPT ![s] = Pending]
          /\ Clicks
          /\ UNCHANGED <<rows, converted>>
    /\ UNCHANGED <<confirmed, service, page, rest, call, meta>>

-----------------------------------------------------------------------------
\* ngOnInit: the batch is listed as pending, its metadata asked for, and the
\* first session loaded.
Init ==
    /\ status = [s \in Sessions |-> Pending]
    /\ rows = {} /\ converted = {} /\ confirmed = {}
    /\ shown = Nothing /\ list = NoList
    /\ loading = TRUE /\ error = FALSE
    /\ active \in Sessions
    /\ poll = active
    /\ batch = [s \in Sessions |-> Pending]
    /\ busy = FALSE
    /\ rest = [l \in {"all", "bulk"} |-> {}]
    /\ \E c \in Slots :
         call = [d \in Slots |-> IF d = c THEN Call("load", active, "page") ELSE Free]
    /\ meta = [s \in Sessions |-> "sent"]
    /\ errors = 0 /\ clicks = 0

User(c) ==
    \/ \E s \in Sessions : SelectSession(c, s)
    \/ Confirm(c)
    \/ Reject(c)
    \/ ConfirmAll(c)
    \/ \E S \in SUBSET Sessions \ {{}} : ConfirmSelected(c, S)

Deliver(c) ==
    \/ StatusLoaded(c)
    \/ StatusRefreshed(c)
    \/ ChunksLoaded(c)
    \/ ActionDone(c)
    \/ Checked(c)
    \/ LoopConfirmed(c)

Next ==
    \/ \E c \in Slots : User(c) \/ Tick(c) \/ Answer(c) \/ Deliver(c) \/ Lose(c)
    \/ \E s \in Sessions : MetaAnswered(s) \/ MetaLoaded(s)
    \/ \E op \in WorkerOps, s \in Sessions : Work(op, s)

Spec == Init /\ [][Next]_vars

-----------------------------------------------------------------------------
ReplyType == {Waiting, Failed} \cup {Ok(st, has) : st \in Status, has \in BOOLEAN}

\* Which part of the pages sends which request.
Kinds == ({"load", "refresh", "chunks"} \X {"page"}) \cup ({"confirm", "reject"} \X {"button"})
            \cup {<<"confirm", "all">>} \cup ({"check", "confirmRaw"} \X {"all", "bulk"})

CallType == {Free} \cup
    {r \in [op : {"load", "refresh", "chunks", "check", "confirm", "confirmRaw", "reject"},
            sid : Sessions, by : {"page", "button", "all", "bulk"}, reply : ReplyType] :
        <<r.op, r.by>> \in Kinds}

\* Type invariant of the page, the service and the server.
TypeOK ==
    /\ status \in [Sessions -> Status]
    /\ rows \subseteq Sessions /\ converted \subseteq Sessions /\ confirmed \subseteq Sessions
    /\ shown \in {Nothing} \cup [sid : Sessions, status : Status]
    /\ list \in {NoList} \cup [sid : Sessions, has : BOOLEAN]
    /\ loading \in BOOLEAN /\ error \in BOOLEAN /\ busy \in BOOLEAN
    /\ active \in Sessions /\ poll \in Sessions \cup {NoSession}
    /\ batch \in [Sessions -> Status]
    /\ rest \in [{"all", "bulk"} -> SUBSET Sessions]
    /\ call \in [Slots -> CallType]
    /\ meta \in [Sessions -> Status \cup {"sent", "idle"}]
    /\ errors \in Nat /\ clicks \in Nat

\* 全部確認 and the bulk confirmation of the sessions list only ever ask to
\* confirm a session whose document has been converted, whatever is previewed,
\* switched, reprocessed or lost in the meantime (checkReady, onConfirmAll).
LoopsConfirmConverted ==
    \A c \in Slots :
        call[c].op \in Confirms /\ call[c].by \in {"all", "bulk"}
            => call[c].sid \in converted \cup CodeOnly

\* A session the batch list shows as confirmed was confirmed, also when
\* answers come back after the user has switched (onConfirm, _patchBatch).
BatchListTruthful ==
    \A s \in Sessions : batch[s] \in {"confirmed", "done"} => s \in confirmed

\* The page tells the truth: what it asks, displays and offers to confirm is
\* about the session it previews, its banner 此 Session 已確認 is over a
\* confirmed session, and what is sent off to be confirmed has been converted.
AboutActive ==
    /\ \A c \in Slots : call[c].op \in Fetches \cup {"confirm", "reject"} => call[c].sid = active
    /\ shown.sid \in {active, NoSession}
    /\ list.sid \in {active, NoSession}

Truthful ==
    /\ AboutActive
    /\ shown.status = "confirmed" => shown.sid \in confirmed
    /\ \A c \in Slots :
         call[c].op \in Confirms => call[c].sid \in converted \cup CodeOnly

Switched    == active' # active
HastySwitch == Switched /\ InFlight # {}

\* One thing only makes the page lie: that its user switches while answers are
\* out, which later write the signals of a session they are not about
\* (preview.service.ts:72, 105, 212).  No failure, poll, loop, worker or other
\* administrator does; and a switch with nothing in flight makes every lie good.
OnlyHasteMisleads ==
    /\ Truthful
    /\ [][/\ Truthful /\ ~HastySwitch => Truthful'
          /\ Switched /\ ~HastySwitch => Truthful']_vars

\* Should the banner 模型解析中…請稍候 come up, there is an interval to take it down.
Watched ==
    \/ poll = active
    \/ ~isWorkerRunning /\ \A c \in Slots : call[c].op \notin Fetches

LateTick == poll' # poll /\ \E c \in Slots : call[c].op \in Fetches

\* The interval is lost under the banner in one way only: a tick that falls while
\* the page still fetches, and finds nothing to wait for yet (_startPolling).
\* Whatever is confirmed, rejected, lost or late then, selecting starts it again.
OnlyALateTickStopsPoll ==
    /\ Watched
    /\ [][/\ Watched => Watched' \/ LateTick
          /\ Switched => Watched']_vars
=============================================================================
