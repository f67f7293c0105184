------------------------- MODULE PreviewPageProofs -------------------------
(***************************************************************************)
(* Theorems about PreviewPage, for every batch, every number of requests   *)
(* in flight and every failure.                                            *)
(***************************************************************************)
EXTENDS PreviewPage, TLAPS

\* What an answer in flight says of the database stays true: chunks were there,
\* so the session has been converted, and a positive answer of checkReady
\* can be acted on at any later time.
ChunksSeen ==
    /\ rows \subseteq converted
    /\ \A c \in Slots :
         ~IsFree(c) /\ Succeeded(c) /\ call[c].reply.has => call[c].sid \in converted
    /\ list.has => list.sid \in converted

LoopInv == TypeOK /\ ChunksSeen /\ LoopsConfirmConverted

\* Only a confirmation leads to the statuses after it, and what the database,
\* an answer or the list says of them is backed by one.
After == {"confirmed", "done"}

StatusSeen ==
    /\ \A s \in Sessions : status[s] \in After => s \in confirmed
    /\ \A s \in Sessions : meta[s] \in After => s \in confirmed
    /\ \A c \in Slots : ~IsFree(c) /\ Succeeded(c) =>
         /\ call[c].reply.status \in After => call[c].sid \in confirmed
         /\ call[c].op \in Confirms => call[c].sid \in confirmed

ListInv == TypeOK /\ StatusSeen /\ BatchListTruthful

LEMMA ReplyTyped ==
    ASSUME NEW st \in Status, NEW has \in BOOLEAN
    PROVE  /\ Ok(st, has) \in ReplyType
           /\ Failed \in ReplyType /\ Waiting \in ReplyType
BY DEF ReplyType

\* A fresh request, and a slot that gets its reply, are typed.
LEMMA CallTyped ==
    ASSUME NEW s \in Sessions, NEW op, NEW by, <<op, by>> \in Kinds
    PROVE  Call(op, s, by) \in CallType /\ Free \in CallType
BY DEF CallType, Call, ReplyType, Free, Kinds

LEMMA BusySlotTyped ==
    ASSUME TypeOK, NEW c \in Slots, ~IsFree(c)
    PROVE  /\ call[c].sid \in Sessions
           /\ <<call[c].op, call[c].by>> \in Kinds
           /\ call[c].reply \in ReplyType
           /\ \A r \in ReplyType : [call[c] EXCEPT !.reply = r] \in CallType
<1>1. call[c] \in CallType /\ call[c] # Free
  BY DEF TypeOK, Free, IsFree
<1> QED BY <1>1 DEF CallType

LEMMA NextOfTyped ==
    ASSUME TypeOK, NEW c \in Slots, NEW by \in {"all", "bulk"},
           NEW S \in SUBSET Sessions, NextOf(c, by, S)
    PROVE  /\ call' \in [Slots -> CallType]
           /\ rest' \in [{"all", "bulk"} -> SUBSET Sessions]
           /\ busy' \in BOOLEAN
<1>1. CASE S = {}
  BY <1>1 DEF NextOf, TypeOK, CallType
<1>2. CASE S # {}
  <2>1. PICK s \in S :
            /\ call' = [call EXCEPT ![c] = Call("check", s, by)]
            /\ rest' = [rest EXCEPT ![by] = S \ {s}]
            /\ busy' = IF by = "all" THEN TRUE ELSE busy
    BY <1>2 DEF NextOf
  <2>2. Call("check", s, by) \in CallType
    BY CallTyped DEF Kinds
  <2> QED BY <2>1, <2>2 DEF TypeOK
<1> QED BY <1>1, <1>2

\* The server states Answer can leave, and the replies it gives.
LEMMA AnswerTyped ==
    ASSUME TypeOK, NEW c \in Slots, Answer(c)
    PROVE  TypeOK'
<1> DEFINE s == call[c].sid
<1>1. s \in Sessions /\ \A r \in ReplyType : [call[c] EXCEPT !.reply = r] \in CallType
  BY BusySlotTyped DEF Answer
<1>2. status[s] \in Status /\ (s \in rows) \in BOOLEAN
  BY <1>1 DEF TypeOK
<1>3. ASSUME NEW r \in ReplyType, Reply(c, r)
      PROVE  call' \in [Slots -> CallType]
  BY <1>1, <1>3 DEF Reply, TypeOK
<1>4. /\ Ok(status[s], FALSE) \in ReplyType
      /\ Ok(status[s], s \in rows) \in ReplyType /\ Failed \in ReplyType
      /\ Ok("confirmed", FALSE) \in ReplyType /\ Ok("failed", FALSE) \in ReplyType
  BY <1>2, ReplyTyped DEF Status
<1>5. call' \in [Slots -> CallType]
  BY <1>3, <1>4 DEF Answer
<1>6. /\ status' \in [Sessions -> Status] /\ rows' \subseteq Sessions
      /\ converted' \subseteq Sessions /\ confirmed' \subseteq Sessions
  <2>1. /\ [status EXCEPT ![s] = "confirmed"] \in [Sessions -> Status]
        /\ [status EXCEPT ![s] = "failed"] \in [Sessions -> Status]
        /\ confirmed \cup {s} \subseteq Sessions
    BY <1>1 DEF TypeOK, Status
  <2>2. /\ status' \in {status, [status EXCEPT ![s] = "confirmed"], [status EXCEPT ![s] = "failed"]}
        /\ confirmed' \in {confirmed, confirmed \cup {s}}
        /\ UNCHANGED <<rows, converted>>
    BY Zenon DEF Answer, server
  <2> QED BY <2>1, <2>2 DEF TypeOK
<1> QED BY <1>5, <1>6 DEF Answer, TypeOK, service, page, bounds

LEMMA WorkTyped ==
    ASSUME TypeOK, NEW op \in WorkerOps, NEW s \in Sessions, Work(op, s)
    PROVE  TypeOK'
<1>1. status' \in [Sessions -> Status] /\ rows' \subseteq Sessions /\ converted' \subseteq Sessions
  BY DEF Work, Converted, TypeOK, Status, Pending
<1>2. confirmed' \subseteq Sessions /\ errors' \in Nat /\ clicks' \in Nat
  BY DEF Work, Fails, Clicks, bounds, TypeOK
<1> QED BY <1>1, <1>2 DEF Work, TypeOK, service, page

LEMMA ClicksTyped ==
    ASSUME TypeOK, Clicks
    PROVE  errors' \in Nat /\ clicks' \in Nat
BY DEF TypeOK, Clicks

\* Deliveries and user steps.
LEMMA SlotTyped ==
    ASSUME TypeOK, NEW c \in Slots,
           User(c) \/ Tick(c) \/ Deliver(c) \/ Lose(c)
    PROVE  TypeOK'
<1>1. ASSUME NEW s \in Sessions, SelectSession(c, s) PROVE TypeOK'
  <2>1. Call("load", s, "page") \in CallType
    BY CallTyped DEF Kinds
  <2>2. Clicks
    BY <1>1 DEF SelectSession
  <2> QED BY <1>1, <2>1, <2>2, ClicksTyped DEF SelectSession, LoadActive, TypeOK, server, Nothing,
         NoList
<1>2. ASSUME Confirm(c) \/ Reject(c) PROVE TypeOK'
  <2>1. Call("confirm", active, "button") \in CallType /\ Call("reject", active, "button") \in CallType
    BY CallTyped DEF TypeOK, Kinds
  <2>2. Clicks
    BY <1>2 DEF Confirm, Reject
  <2> QED BY <1>2, <2>1, <2>2, ClicksTyped DEF Confirm, Reject, TypeOK, server, service
<1>3. ASSUME ConfirmAll(c) PROVE TypeOK'
  <2>1. NextOf(c, "all", pendingBatch) /\ pendingBatch \in SUBSET Sessions
    BY <1>3 DEF ConfirmAll, pendingBatch
  <2> QED BY <1>3, <2>1, NextOfTyped, ClicksTyped DEF ConfirmAll, TypeOK, server, service
<1>4. ASSUME NEW S \in SUBSET Sessions \ {{}}, ConfirmSelected(c, S) PROVE TypeOK'
  <2>1. NextOf(c, "bulk", S) /\ S \in SUBSET Sessions
    BY <1>4 DEF ConfirmSelected
  <2> QED BY <1>4, <2>1, NextOfTyped, ClicksTyped DEF ConfirmSelected, TypeOK, server, service
<1>5. ASSUME Tick(c) PROVE TypeOK'
  <2>1. Call("refresh", poll, "page") \in CallType
    BY <1>5, CallTyped DEF Tick, TypeOK, Kinds
  <2> QED BY <1>5, <2>1 DEF Tick, TypeOK, server, service, bounds
<1>6. ASSUME StatusLoaded(c) \/ StatusRefreshed(c) PROVE TypeOK'
  <2>1. ~IsFree(c)
    BY <1>6 DEF StatusLoaded, StatusRefreshed, IsFree
  <2>2. call[c].sid \in Sessions /\ call[c].reply \in ReplyType
    BY <2>1, BusySlotTyped
  <2>3. Call("chunks", call[c].sid, "page") \in CallType /\ Free \in CallType
    BY <2>2, CallTyped DEF Kinds
  <2>4. Succeeded(c) => call[c].reply.status \in Status
    BY <2>2 DEF ReplyType, Ok, Waiting, Failed, Succeeded
  <2>5. Succeeded(c) => [sid |-> call[c].sid, status |-> call[c].reply.status]
                            \in [sid : Sessions, status : Status]
    BY <2>2, <2>4
  <2>6. shown' \in {Nothing} \cup [sid : Sessions, status : Status]
    BY <1>6, <2>5 DEF StatusLoaded, StatusRefreshed, TypeOK
  <2>7. call' \in [Slots -> CallType]
    BY <1>6, <2>3 DEF StatusLoaded, StatusRefreshed, TypeOK
  <2>8. loading' \in BOOLEAN /\ error' \in BOOLEAN
    BY <1>6 DEF StatusLoaded, StatusRefreshed, TypeOK
  <2>9. UNCHANGED <<server, list, page, rest, meta, bounds>>
    BY <1>6 DEF StatusLoaded, StatusRefreshed
  <2> QED BY <2>6, <2>7, <2>8, <2>9 DEF TypeOK, server, page, bounds
<1>7. ASSUME ChunksLoaded(c) PROVE TypeOK'
  <2>1. call[c].sid \in Sessions /\ call[c].reply \in ReplyType
    BY <1>7, BusySlotTyped DEF ChunksLoaded, IsFree
  <2>2. Succeeded(c) => call[c].reply.has \in BOOLEAN
    BY <2>1 DEF ReplyType, Ok, Waiting, Failed, Succeeded
  <2>3. Free \in CallType
    BY <2>1, CallTyped DEF Kinds
  <2> QED BY <1>7, <2>1, <2>2, <2>3 DEF ChunksLoaded, TypeOK, server, page, bounds
<1>8. ASSUME NEW st \in {"confirmed", "failed"}
      PROVE  Marked(st) \in {Nothing} \cup [sid : Sessions, status : Status]
  BY <1>8 DEF TypeOK, Marked, Status
<1>9. ASSUME NEW st \in {"confirmed", "failed"}, call[c].sid \in Sessions
      PROVE  Listed(c, st) \in [Sessions -> Status]
  BY <1>9 DEF TypeOK, Listed, Status
<1>10. ASSUME ActionDone(c) PROVE TypeOK'
  <2>1. call[c].sid \in Sessions
    BY <1>10, BusySlotTyped DEF ActionDone, IsFree
  <2>2. Free \in CallType
    BY DEF CallType
  <2>3. /\ shown' \in {Nothing} \cup [sid : Sessions, status : Status]
        /\ batch' \in [Sessions -> Status]
    BY <1>8, <1>9, <1>10, <2>1 DEF ActionDone, TypeOK
  <2>4. call' \in [Slots -> CallType] /\ busy' \in BOOLEAN
    BY <1>10, <2>2 DEF ActionDone, TypeOK
  <2> QED BY <1>10, <2>3, <2>4 DEF ActionDone, TypeOK, server, bounds
<1>11. ASSUME Checked(c) PROVE TypeOK'
  <2>1. call[c].sid \in Sessions /\ call[c].by \in {"all", "bulk"}
    BY <1>11, BusySlotTyped DEF Checked, IsFree, Kinds
  <2>2. CASE Ready(c)
    <3>1. Call(IF call[c].by = "all" /\ call[c].sid = active THEN "confirm" ELSE "confirmRaw",
               call[c].sid, call[c].by) \in CallType
      BY <2>1, CallTyped DEF Kinds
    <3> QED BY <1>11, <2>2, <3>1 DEF Checked, TypeOK, server, service, bounds
  <2>3. CASE ~Ready(c)
    <3>1. NextOf(c, call[c].by, rest[call[c].by]) /\ rest[call[c].by] \in SUBSET Sessions
      BY <1>11, <2>1, <2>3 DEF Checked, TypeOK
    <3>2. /\ call' \in [Slots -> CallType]
          /\ rest' \in [{"all", "bulk"} -> SUBSET Sessions]
          /\ busy' \in BOOLEAN
      BY <2>1, <3>1, NextOfTyped
    <3> QED BY <1>11, <3>2 DEF Checked, TypeOK, server, service, bounds
  <2> QED BY <2>2, <2>3
<1>12. ASSUME LoopConfirmed(c) PROVE TypeOK'
  <2>1. call[c].sid \in Sessions /\ call[c].by \in {"all", "bulk"}
    BY <1>12, BusySlotTyped DEF LoopConfirmed, IsFree, Kinds, Confirms
  <2>2. NextOf(c, call[c].by, rest[call[c].by]) /\ rest[call[c].by] \in SUBSET Sessions
    BY <1>12, <2>1 DEF LoopConfirmed, TypeOK
  <2>3. /\ call' \in [Slots -> CallType]
        /\ rest' \in [{"all", "bulk"} -> SUBSET Sessions]
        /\ busy' \in BOOLEAN
    BY <2>1, <2>2, NextOfTyped
  <2>4. /\ Marked("confirmed") \in {Nothing} \cup [sid : Sessions, status : Status]
        /\ Listed(c, "confirmed") \in [Sessions -> Status]
    BY <1>8, <1>9, <2>1
  <2>5. shown' \in {Nothing} \cup [sid : Sessions, status : Status]
    BY <1>12, <2>4 DEF LoopConfirmed, TypeOK
  <2>6. batch' \in [Sessions -> Status]
    BY <1>12, <2>4 DEF LoopConfirmed, TypeOK
  <2>7. UNCHANGED <<server, list, loading, error, active, poll, meta, bounds>>
    BY <1>12 DEF LoopConfirmed
  <2> QED BY <2>3, <2>5, <2>6, <2>7 DEF TypeOK, server, bounds
<1>13. ASSUME Lose(c) PROVE TypeOK'
  <2>1. Failed \in ReplyType
    BY DEF ReplyType
  <2>2. [call[c] EXCEPT !.reply = Failed] \in CallType
    BY <1>13, <2>1, BusySlotTyped DEF Lose
  <2> QED BY <1>13, <2>2 DEF Lose, Reply, Fails, TypeOK, server, service, page
<1> QED BY <1>1, <1>2, <1>3, <1>4, <1>5, <1>6, <1>7, <1>10, <1>11, <1>12, <1>13
   DEF User, Deliver

LEMMA TypeStep == TypeOK /\ [Next]_vars => TypeOK'
<1> SUFFICES ASSUME TypeOK, [Next]_vars PROVE TypeOK'
  OBVIOUS
<1>1. ASSUME NEW s \in Sessions, MetaAnswered(s) \/ MetaLoaded(s) PROVE TypeOK'
  <2>1. meta' \in [Sessions -> Status \cup {"sent", "idle"}] /\ errors' \in Nat /\ clicks' \in Nat
    BY <1>1 DEF MetaAnswered, MetaLoaded, Fails, TypeOK, bounds
  <2>2. batch' \in [Sessions -> Status]
    BY <1>1 DEF MetaAnswered, MetaLoaded, TypeOK, page
  <2> QED BY <1>1, <2>1, <2>2 DEF MetaAnswered, MetaLoaded, TypeOK, server, service, page
<1>2. CASE UNCHANGED vars
  BY <1>2 DEF vars, server, service, page, bounds, TypeOK
<1> QED BY <1>1, <1>2, SlotTyped, AnswerTyped, WorkTyped DEF Next

LEMMA InitTyped == Init => TypeOK
<1> SUFFICES ASSUME Init PROVE TypeOK
  OBVIOUS
<1>1. PICK c \in Slots : call = [d \in Slots |-> IF d = c THEN Call("load", active, "page") ELSE Free]
  BY DEF Init
<1>2. Call("load", active, "page") \in CallType /\ Free \in CallType
  BY CallTyped DEF Init, Kinds
<1>3. call \in [Slots -> CallType]
  BY <1>1, <1>2
<1> QED BY <1>3 DEF Init, TypeOK, Status, Pending

\* Type correctness of the page, the service and the server.
THEOREM TypeCorrect == Spec => []TypeOK
<1> QED BY InitTyped, TypeStep, PTL DEF Spec

-----------------------------------------------------------------------------
(* The loops.                                                              *)

\* What a user step, a tick or a delivery does to its slot: it frees it or
\* sends a request, and a loop confirms only what it has found ready.
SlotEffect(c, X) ==
    /\ call' = [call EXCEPT ![c] = X]
    /\ X = Free \/ X.reply = Waiting
    /\ X.op \in Confirms /\ X.by \in {"all", "bulk"} => X.sid \in converted \cup CodeOnly

LEMMA NextOfEffect ==
    ASSUME NEW c \in Slots, NEW by, NEW S, NextOf(c, by, S)
    PROVE  \E X : SlotEffect(c, X)
<1>1. CASE S = {}
  <2>1. SlotEffect(c, Free)
    BY <1>1 DEF NextOf, SlotEffect, Free, Confirms
  <2> QED BY <2>1
<1>2. CASE S # {}
  <2>1. PICK s \in S : call' = [call EXCEPT ![c] = Call("check", s, by)]
    BY <1>2 DEF NextOf
  <2>2. SlotEffect(c, Call("check", s, by))
    BY <2>1 DEF SlotEffect, Call, Confirms
  <2> QED BY <2>2
<1> QED BY <1>1, <1>2

LEMMA StepEffect ==
    ASSUME TypeOK, ChunksSeen, NEW c \in Slots, User(c) \/ Tick(c) \/ Deliver(c)
    PROVE  UNCHANGED server /\ (call' = call \/ \E X : SlotEffect(c, X))
<1>0. UNCHANGED server
  <2>1. CASE User(c)
    BY <2>1 DEF User, SelectSession, Confirm, Reject, ConfirmAll, ConfirmSelected
  <2>2. CASE Tick(c)
    BY <2>2 DEF Tick
  <2>3. CASE StatusLoaded(c) \/ StatusRefreshed(c) \/ ChunksLoaded(c)
    BY <2>3 DEF StatusLoaded, StatusRefreshed, ChunksLoaded
  <2>4. CASE ActionDone(c)
    BY <2>4 DEF ActionDone
  <2>5. CASE Checked(c) \/ LoopConfirmed(c)
    BY <2>5 DEF Checked, LoopConfirmed
  <2> QED BY <2>1, <2>2, <2>3, <2>4, <2>5 DEF Deliver
<1>1. CASE \E s \in Sessions : SelectSession(c, s)
  <2>1. PICK s \in Sessions : call' = [call EXCEPT ![c] = Call("load", s, "page")]
    BY <1>1 DEF SelectSession, LoadActive
  <2>2. SlotEffect(c, Call("load", s, "page"))
    BY <2>1 DEF SlotEffect, Call, Confirms
  <2> QED BY <1>0, <2>2
<1>2. CASE Confirm(c)
  <2>1. SlotEffect(c, Call("confirm", active, "button"))
    BY <1>2 DEF SlotEffect, Call, Confirm
  <2> QED BY <1>0, <2>1
<1>3. CASE Reject(c)
  <2>1. SlotEffect(c, Call("reject", active, "button"))
    BY <1>3 DEF SlotEffect, Call, Reject
  <2> QED BY <1>0, <2>1
<1>4. CASE ConfirmAll(c) \/ \E S \in SUBSET Sessions \ {{}} : ConfirmSelected(c, S)
  BY <1>0, <1>4, NextOfEffect DEF ConfirmAll, ConfirmSelected
<1>5. CASE Tick(c)
  <2>1. call' = call \/ SlotEffect(c, Call("refresh", poll, "page"))
    BY <1>5 DEF SlotEffect, Call, Confirms, Tick
  <2> QED BY <1>0, <2>1
<1>6. CASE StatusLoaded(c) \/ StatusRefreshed(c) \/ ChunksLoaded(c) \/ ActionDone(c)
  <2>1. SlotEffect(c, Call("chunks", call[c].sid, "page")) \/ SlotEffect(c, Free)
    BY <1>6 DEF SlotEffect, Call, Confirms, Free, StatusLoaded, StatusRefreshed,
       ChunksLoaded, ActionDone
  <2> QED BY <1>0, <2>1
<1>7. CASE Checked(c)
  <2>1. CASE Ready(c)
    <3>1. call[c].sid \in converted \cup CodeOnly
      BY <1>7, <2>1 DEF Checked, Ready, ChunksSeen, IsFree
    <3>2. PICK op \in Confirms : call' = [call EXCEPT ![c] = Call(op, call[c].sid, call[c].by)]
      BY <1>7, <2>1 DEF Checked, Confirms
    <3>3. SlotEffect(c, Call(op, call[c].sid, call[c].by))
      BY <3>1, <3>2 DEF SlotEffect, Call
    <3> QED BY <1>0, <3>3
  <2>2. CASE ~Ready(c)
    BY <1>0, <1>7, <2>2, NextOfEffect DEF Checked
  <2> QED BY <2>1, <2>2
<1>8. CASE LoopConfirmed(c)
  BY <1>0, <1>8, NextOfEffect DEF LoopConfirmed
<1> QED BY <1>1, <1>2, <1>3, <1>4, <1>5, <1>6, <1>7, <1>8 DEF User, Deliver

\* A reply changes nothing else of the requests.
Replying(c, r) ==
    /\ \A d \in Slots \ {c} : call'[d] = call[d]
    /\ call'[c].sid = call[c].sid /\ call'[c].op = call[c].op /\ call'[c].by = call[c].by
    /\ call'[c].reply = r

LEMMA ReplyEffect ==
    ASSUME TypeOK, NEW c \in Slots, NEW r, Reply(c, r)
    PROVE  Replying(c, r)
<1>1. call[c] \in CallType /\ Waiting \in ReplyType
  BY DEF TypeOK, ReplyType
<1>2. call[c] \in [op : {"free", "load", "refresh", "chunks", "check", "confirm", "confirmRaw",
                        "reject"},
                  sid : Sessions \cup {NoSession},
                  by : {"page", "button", "all", "bulk"}, reply : ReplyType]
  BY <1>1 DEF CallType, Free
<1> QED BY <1>2 DEF Reply, Replying, TypeOK

\* The list displayed comes from an answer, or is none.
LEMMA ListLoaded ==
    ASSUME ChunksSeen, NEW c \in Slots, User(c) \/ Tick(c) \/ Deliver(c)
    PROVE  list' = list \/ (list'.has => list'.sid \in converted)
<1>1. CASE User(c)
  BY <1>1 DEF User, SelectSession, LoadActive, NoList, Confirm, Reject, ConfirmAll, ConfirmSelected,
     service
<1>2. CASE Tick(c)
  BY <1>2 DEF Tick, service
<1>3. CASE StatusLoaded(c) \/ StatusRefreshed(c) \/ ActionDone(c) \/ Checked(c) \/ LoopConfirmed(c)
  BY <1>3 DEF StatusLoaded, StatusRefreshed, ActionDone, Checked, LoopConfirmed, service
<1>4. CASE ChunksLoaded(c)
  BY <1>4 DEF ChunksLoaded, ChunksSeen, IsFree
<1> QED BY <1>1, <1>2, <1>3, <1>4 DEF Deliver

LEMMA LoopStep == LoopInv /\ [Next]_vars => LoopInv'
<1> SUFFICES ASSUME LoopInv, [Next]_vars PROVE ChunksSeen' /\ LoopsConfirmConverted'
  BY TypeStep DEF LoopInv
<1> USE DEF LoopInv
<1>0. UNCHANGED <<list, converted>> => (list'.has => list'.sid \in converted')
  BY DEF ChunksSeen
<1>1. ASSUME NEW c \in Slots, User(c) \/ Tick(c) \/ Deliver(c)
      PROVE  ChunksSeen' /\ LoopsConfirmConverted'
  <2>1. UNCHANGED server /\ (call' = call \/ \E X : SlotEffect(c, X))
    BY <1>1, StepEffect
  <2>0. list'.has => list'.sid \in converted'
    BY <1>0, <1>1, <2>1, ListLoaded DEF server
  <2>2. CASE call' = call
    BY <2>0, <2>1, <2>2 DEF ChunksSeen, LoopsConfirmConverted, server, IsFree, Succeeded
  <2>3. ASSUME NEW X, SlotEffect(c, X)
        PROVE  ChunksSeen' /\ LoopsConfirmConverted'
    BY <2>0, <2>1, <2>3 DEF SlotEffect, ChunksSeen, LoopsConfirmConverted, server, IsFree, Succeeded,
       Waiting, Free, TypeOK
  <2> QED BY <2>1, <2>2, <2>3
<1>2. ASSUME NEW c \in Slots, Answer(c)
      PROVE  ChunksSeen' /\ LoopsConfirmConverted'
  <2>1. UNCHANGED <<rows, converted, list>>
    BY <1>2 DEF Answer, server, service
  <2>2. ASSUME NEW r, Reply(c, r), r.has => call[c].sid \in rows
        PROVE  ChunksSeen' /\ LoopsConfirmConverted'
    <3>1. Replying(c, r)
      BY <2>2, ReplyEffect
    <3> QED BY <2>1, <2>2, <3>1 DEF Replying, ChunksSeen, LoopsConfirmConverted, IsFree, Succeeded
  <2>3. /\ Ok(status[call[c].sid], FALSE).has = FALSE /\ Failed.has = FALSE
        /\ Ok("confirmed", FALSE).has = FALSE /\ Ok("failed", FALSE).has = FALSE
        /\ Ok(status[call[c].sid], call[c].sid \in rows).has = (call[c].sid \in rows)
    BY DEF Ok, Failed
  <2> QED BY <1>2, <2>2, <2>3 DEF Answer
<1>3. ASSUME NEW c \in Slots, Lose(c)
      PROVE  ChunksSeen' /\ LoopsConfirmConverted'
  BY <1>3 DEF Lose, Reply, Failed, server, service, ChunksSeen, LoopsConfirmConverted, IsFree, Succeeded, TypeOK
<1>4. ASSUME NEW s \in Sessions, MetaAnswered(s) \/ MetaLoaded(s)
      PROVE  ChunksSeen' /\ LoopsConfirmConverted'
  BY <1>4 DEF MetaAnswered, MetaLoaded, server, service, ChunksSeen, LoopsConfirmConverted, IsFree, Succeeded
<1>5. ASSUME NEW op \in WorkerOps, NEW s \in Sessions, Work(op, s)
      PROVE  ChunksSeen' /\ LoopsConfirmConverted'
  BY <1>5 DEF Work, service, ChunksSeen, LoopsConfirmConverted, IsFree, Succeeded
<1>6. CASE UNCHANGED vars
  BY <1>6 DEF vars, server, service, ChunksSeen, LoopsConfirmConverted, IsFree, Succeeded
<1> QED BY <1>1, <1>2, <1>3, <1>4, <1>5, <1>6 DEF Next

\* 全部確認 and the bulk confirmation of the sessions list only confirm sessions
\* that have been converted, for any number of sessions and requests.
THEOREM LoopsSafe == Spec => []LoopsConfirmConverted
<1>1. Init => ChunksSeen /\ LoopsConfirmConverted
  BY DEF Init, ChunksSeen, LoopsConfirmConverted, NoList, Call, Free, IsFree, Succeeded, Confirms, Waiting
<1>2. LoopInv => LoopsConfirmConverted
  BY DEF LoopInv
<1>3. Spec => []TypeOK
  BY TypeCorrect
<1> QED BY <1>1, <1>2, <1>3, LoopStep, PTL DEF Spec, LoopInv

-----------------------------------------------------------------------------
(* The batch list.                                                         *)

LEMMA ListStep == LoopInv /\ ListInv /\ [Next]_vars => ListInv'
<1> SUFFICES ASSUME LoopInv, ListInv, [Next]_vars PROVE StatusSeen' /\ BatchListTruthful'
  BY TypeStep DEF ListInv
<1> USE DEF ListInv
<1>1. ASSUME NEW c \in Slots, User(c) \/ Tick(c) \/ Deliver(c)
      PROVE  StatusSeen' /\ BatchListTruthful'
  <2>1. UNCHANGED server /\ (call' = call \/ \E X : SlotEffect(c, X))
    BY <1>1, StepEffect DEF LoopInv
  <2>2. meta' = meta
    <3>1. CASE User(c)
      BY <3>1 DEF User, SelectSession, Confirm, Reject, ConfirmAll, ConfirmSelected
    <3>2. CASE Tick(c)
      BY <3>2 DEF Tick
    <3>3. CASE StatusLoaded(c) \/ StatusRefreshed(c) \/ ChunksLoaded(c)
      BY <3>3 DEF StatusLoaded, StatusRefreshed, ChunksLoaded
    <3>4. CASE ActionDone(c)
      BY <3>4 DEF ActionDone
    <3>5. CASE Checked(c) \/ LoopConfirmed(c)
      BY <3>5 DEF Checked, LoopConfirmed
    <3> QED BY <1>1, <3>1, <3>2, <3>3, <3>4, <3>5 DEF Deliver
  <2>3. StatusSeen'
    <3>1. CASE call' = call
      BY <2>1, <2>2, <3>1 DEF StatusSeen, server, IsFree, Succeeded
    <3>2. ASSUME NEW X, SlotEffect(c, X) PROVE StatusSeen'
      BY <2>1, <2>2, <3>2 DEF SlotEffect, StatusSeen, server, IsFree, Succeeded, Waiting, Free, TypeOK
    <3> QED BY <2>1, <3>1, <3>2
  <2>4. BatchListTruthful'
    <3>1. CASE batch' = batch
      BY <2>1, <3>1 DEF BatchListTruthful, server
    <3>2. ASSUME call[c].op \in Confirms, ~IsFree(c), Succeeded(c), batch' = Listed(c, "confirmed")
          PROVE  BatchListTruthful'
      BY <2>1, <3>2 DEF StatusSeen, BatchListTruthful, server, Listed, TypeOK
    <3>3. CASE batch' = Listed(c, "failed")
      BY <2>1, <3>3 DEF BatchListTruthful, server, Listed, TypeOK
    <3>4. CASE User(c)
      BY <3>1, <3>4 DEF User, SelectSession, Confirm, Reject, ConfirmAll, ConfirmSelected
    <3>5. CASE Tick(c)
      BY <3>1, <3>5 DEF Tick
    <3>6. CASE StatusLoaded(c) \/ StatusRefreshed(c) \/ ChunksLoaded(c)
      BY <3>1, <3>6 DEF StatusLoaded, StatusRefreshed, ChunksLoaded, page
    <3>7. CASE ActionDone(c)
      <4>1. CASE call[c].op = "confirm" /\ Succeeded(c)
        BY <3>2, <3>7, <4>1 DEF ActionDone, Confirms, IsFree
      <4>2. CASE call[c].op = "reject" \/ ~Succeeded(c)
        BY <3>1, <3>3, <3>7, <4>2 DEF ActionDone
      <4> QED BY <3>7, <4>1, <4>2 DEF ActionDone
    <3>8. CASE Checked(c)
      BY <3>1, <3>8 DEF Checked
    <3>9. CASE LoopConfirmed(c)
      BY <3>1, <3>2, <3>9 DEF LoopConfirmed, IsFree, Confirms
    <3> QED BY <1>1, <3>4, <3>5, <3>6, <3>7, <3>8, <3>9 DEF Deliver
  <2> QED BY <2>3, <2>4
<1>2. ASSUME NEW c \in Slots, Answer(c)
      PROVE  StatusSeen' /\ BatchListTruthful'
  <2> DEFINE s == call[c].sid
  <2>1. s \in Sessions /\ ~IsFree(c)
    BY <1>2, BusySlotTyped DEF Answer
  <2>2. confirmed \subseteq confirmed' /\ UNCHANGED <<batch, meta>>
    BY <1>2 DEF Answer, server, page
  <2>3. BatchListTruthful'
    BY <2>2 DEF BatchListTruthful
  <2>4. \A t \in Sessions : status'[t] \in After => t \in confirmed'
    BY <1>2, <2>1 DEF Answer, server, StatusSeen, TypeOK, After
  <2>5. ASSUME NEW r, Reply(c, r), r.state = "ok",
               r.status \in After \/ call[c].op \in Confirms => s \in confirmed'
        PROVE  StatusSeen'
    <3>1. Replying(c, r)
      BY <2>5, ReplyEffect
    <3> QED BY <2>2, <2>4, <2>5, <3>1 DEF Replying, StatusSeen, IsFree, Succeeded
  <2>6. ASSUME Reply(c, Failed)
        PROVE  StatusSeen'
    <3>1. Replying(c, Failed)
      BY <2>6, ReplyEffect
    <3> QED BY <2>2, <2>4, <3>1 DEF Replying, StatusSeen, IsFree, Succeeded, Failed
  <2>7. \A st, has : Ok(st, has).state = "ok" /\ Ok(st, has).status = st
    BY DEF Ok
  <2>8. CASE call[c].op \in {"load", "refresh"} /\ Reply(c, Ok(status[s], FALSE)) /\ UNCHANGED server
    <3>1. status[s] \in After \/ call[c].op \in Confirms => s \in confirmed'
      BY <2>1, <2>8 DEF StatusSeen, server, Confirms
    <3> QED BY <2>3, <2>5, <2>7, <2>8, <3>1
  <2>9. CASE call[c].op \in {"chunks", "check"} /\ Reply(c, Ok(status[s], s \in rows)) /\ UNCHANGED server
    <3>1. status[s] \in After \/ call[c].op \in Confirms => s \in confirmed'
      BY <2>1, <2>9 DEF StatusSeen, server, Confirms
    <3> QED BY <2>3, <2>5, <2>7, <2>9, <3>1
  <2>10. CASE confirmed' = confirmed \cup {s} /\ Reply(c, Ok("confirmed", FALSE))
    BY <2>3, <2>5, <2>7, <2>10
  <2>11. CASE call[c].op = "reject" /\ Reply(c, Ok("failed", FALSE))
    <3>1. ~("failed" \in After \/ call[c].op \in Confirms)
      BY <2>11 DEF After, Confirms
    <3> QED BY <2>3, <2>5, <2>7, <2>11, <3>1
  <2> QED BY <1>2, <2>3, <2>6, <2>8, <2>9, <2>10, <2>11 DEF Answer
<1>3. ASSUME NEW c \in Slots, Lose(c)
      PROVE  StatusSeen' /\ BatchListTruthful'
  <2>1. Replying(c, Failed)
    BY <1>3, ReplyEffect DEF Lose
  <2> QED BY <1>3, <2>1 DEF Lose, Replying, Failed, server, page, StatusSeen, BatchListTruthful,
         IsFree, Succeeded
<1>4. ASSUME NEW s \in Sessions, MetaAnswered(s) \/ MetaLoaded(s)
      PROVE  StatusSeen' /\ BatchListTruthful'
  BY <1>4 DEF MetaAnswered, MetaLoaded, server, page, StatusSeen, BatchListTruthful, IsFree, Succeeded,
     TypeOK, After, Status
<1>5. ASSUME NEW op \in WorkerOps, NEW s \in Sessions, Work(op, s)
      PROVE  StatusSeen' /\ BatchListTruthful'
  <2>1. UNCHANGED <<confirmed, batch, meta, call>>
    BY <1>5 DEF Work, page
  <2>2. \A t \in Sessions : status'[t] \in After => t \in confirmed
    BY <1>5 DEF Work, Converted, StatusSeen, TypeOK, After, Pending
  <2> QED BY <2>1, <2>2 DEF StatusSeen, BatchListTruthful, IsFree, Succeeded
<1>6. CASE UNCHANGED vars
  BY <1>6 DEF vars, server, page, StatusSeen, BatchListTruthful, IsFree, Succeeded
<1> QED BY <1>1, <1>2, <1>3, <1>4, <1>5, <1>6 DEF Next

LEMMA InitList == Init => LoopInv /\ ListInv
<1> QED BY InitTyped DEF Init, LoopInv, ListInv, NoList, ChunksSeen, LoopsConfirmConverted, StatusSeen,
       BatchListTruthful, Call, Free, IsFree, Succeeded, Confirms, Waiting, After, Pending

\* What the batch list shows as confirmed was confirmed, however often the user
\* switches and however late the answers are.
THEOREM ListTruthful == Spec => []BatchListTruthful
<1>1. LoopInv /\ ListInv /\ [Next]_vars => LoopInv' /\ ListInv'
  BY LoopStep, ListStep
<1>2. ListInv => BatchListTruthful
  BY DEF ListInv
<1> QED BY <1>1, <1>2, InitList, PTL DEF Spec

-----------------------------------------------------------------------------
(* What the page tells about the session it previews.                      *)

\* What a step leaves in the signals.
SignalsKept ==
    /\ UNCHANGED <<server, active>>
    /\ shown'.sid \in {active, NoSession}
    /\ shown'.status = "confirmed" => shown'.sid \in confirmed
    /\ list'.sid \in {active, NoSession}

LEMMA QuietStep ==
    ASSUME TypeOK, Truthful, NEW c \in Slots, NEW X, SignalsKept,
           call' = [call EXCEPT ![c] = X],
           X.op \in Fetches \cup {"confirm", "reject"} => X.sid = active,
           X.op \in Confirms => X.sid \in converted \cup CodeOnly
    PROVE  Truthful'
BY DEF Truthful, SignalsKept, AboutActive, Fetches, TypeOK, server

LEMMA QuietNextOf ==
    ASSUME TypeOK, Truthful, NEW c \in Slots, NEW by, NEW S, NextOf(c, by, S), SignalsKept
    PROVE  Truthful'
<1>1. CASE S = {}
  <2>1. call' = [call EXCEPT ![c] = Free]
    BY <1>1 DEF NextOf
  <2>2. Free.op \notin Fetches \cup {"confirm", "reject"} /\ Free.op \notin Confirms
    BY DEF Free, Confirms, Fetches
  <2> QED BY <2>1, <2>2, QuietStep DEF Fetches
<1>2. CASE S # {}
  <2>1. PICK s \in S : call' = [call EXCEPT ![c] = Call("check", s, by)]
    BY <1>2 DEF NextOf
  <2>2. /\ Call("check", s, by).op \notin Fetches \cup {"confirm", "reject"}
        /\ Call("check", s, by).op \notin Confirms
    BY DEF Call, Confirms, Fetches
  <2> QED BY <2>1, <2>2, QuietStep DEF Fetches
<1> QED BY <1>1, <1>2

\* A switch with nothing in flight leaves only what a bulk loop has asked for.
LEMMA SelectStep ==
    ASSUME LoopInv, NEW c \in Slots, NEW s \in Sessions, SelectSession(c, s), InFlight = {}
    PROVE  Truthful'
<1> USE DEF LoopInv
<1>1. \A d \in Slots : /\ call[d].op \notin Fetches \cup {"confirm", "reject"}
                       /\ call[d].op \in Confirms => call[d].sid \in converted \cup CodeOnly
  <2> SUFFICES ASSUME NEW d \in Slots, ~IsFree(d)
               PROVE  /\ call[d].op \notin Fetches \cup {"confirm", "reject"}
                      /\ call[d].op \in Confirms => call[d].sid \in converted \cup CodeOnly
    BY DEF IsFree, Fetches, Confirms
  <2>1. call[d].by = "bulk"
    BY DEF InFlight
  <2>2. <<call[d].op, call[d].by>> \in Kinds
    BY BusySlotTyped
  <2> QED BY <2>1, <2>2 DEF Kinds, Fetches, LoopsConfirmConverted
<1>2. /\ call' = [call EXCEPT ![c] = Call("load", s, "page")]
      /\ active' = s /\ shown' = Nothing /\ list' = NoList
      /\ UNCHANGED server
  BY DEF SelectSession, LoadActive
<1>3. Call("load", s, "page").op = "load" /\ Call("load", s, "page").sid = s
  BY DEF Call
<1>4. \A d \in Slots :
        /\ call'[d].op \in Fetches \cup {"confirm", "reject"} => call'[d].sid = s
        /\ call'[d].op \in Confirms => call'[d].sid \in converted \cup CodeOnly
  <2>1. call'[c].op = "load" /\ call'[c].sid = s /\ "load" \notin Confirms
    BY <1>2, <1>3 DEF TypeOK, Confirms
  <2>2. \A d \in Slots \ {c} : call'[d] = call[d]
    BY <1>2 DEF TypeOK
  <2> QED BY <1>1, <2>1, <2>2
<1>5. shown'.sid = NoSession /\ shown'.status # "confirmed" /\ list'.sid = NoSession
  BY <1>2 DEF Nothing, NoList
<1> QED BY <1>2, <1>4, <1>5 DEF Truthful, AboutActive, server

\* Nothing else switches.
LEMMA OnlySelects ==
    ASSUME [Next]_vars, Switched
    PROVE  \E c \in Slots, s \in Sessions : SelectSession(c, s)
<1> SUFFICES ASSUME \A c \in Slots, s \in Sessions : ~SelectSession(c, s)
             PROVE  active' = active
  BY DEF Switched
<1>1. ASSUME NEW c \in Slots, User(c) \/ Tick(c) PROVE active' = active
  BY <1>1 DEF User, Confirm, Reject, ConfirmAll, ConfirmSelected, Tick
<1>2. ASSUME NEW c \in Slots, Deliver(c) PROVE active' = active
  BY <1>2 DEF Deliver, StatusLoaded, StatusRefreshed, ChunksLoaded, ActionDone, Checked,
     LoopConfirmed, page
<1>3. ASSUME NEW c \in Slots, Answer(c) \/ Lose(c) PROVE active' = active
  BY <1>3 DEF Answer, Lose, page
<1>4. ASSUME NEW s \in Sessions, MetaAnswered(s) \/ MetaLoaded(s) PROVE active' = active
  BY <1>4 DEF MetaAnswered, MetaLoaded, page
<1>5. ASSUME NEW op \in WorkerOps, NEW s \in Sessions, Work(op, s) PROVE active' = active
  BY <1>5 DEF Work, page
<1>6. CASE UNCHANGED vars
  BY <1>6 DEF vars, page
<1> QED BY <1>1, <1>2, <1>3, <1>4, <1>5, <1>6 DEF Next

LEMMA SwitchStep ==
    ASSUME LoopInv, [Next]_vars, Switched, ~HastySwitch
    PROVE  Truthful'
<1>1. PICK c \in Slots, s \in Sessions : SelectSession(c, s)
  BY OnlySelects
<1> QED BY <1>1, SelectStep DEF HastySwitch

\* A confirmation that has succeeded may mark the session displayed.
LEMMA MarkedStep ==
    ASSUME TypeOK, Truthful, NEW s \in confirmed, s = active
    PROVE  /\ Marked("confirmed").sid \in {active, NoSession}
           /\ Marked("confirmed").status = "confirmed" => Marked("confirmed").sid \in confirmed
<1>1. CASE shown = Nothing
  BY <1>1 DEF Marked, Nothing
<1>2. CASE shown # Nothing
  <2>1. shown \in [sid : Sessions, status : Status]
    BY <1>2 DEF TypeOK
  <2>2. Marked("confirmed").sid = shown.sid /\ shown.sid \in Sessions
    BY <1>2, <2>1 DEF Marked
  <2>3. shown.sid = active
    BY <2>2, PageAssumption DEF Truthful, AboutActive, Fetches
  <2> QED BY <2>2, <2>3
<1> QED BY <1>1, <1>2

LEMMA TruthfulStep ==
    ASSUME LoopInv, ListInv, Truthful, [Next]_vars, ~HastySwitch
    PROVE  Truthful'
<1> USE DEF LoopInv, ListInv
<1>1. UNCHANGED <<server, shown, list, active>> => SignalsKept
  BY DEF SignalsKept, Truthful, AboutActive, Fetches
<1>2. ASSUME NEW c \in Slots, User(c) PROVE Truthful'
  <2>1. ASSUME NEW s \in Sessions, SelectSession(c, s) PROVE Truthful'
    <3>1. Switched
      BY <2>1 DEF SelectSession, LoadActive, Switched
    <3> QED BY <3>1, SwitchStep
  <2>2. CASE Confirm(c)
    <3>1. active \in converted \cup CodeOnly
      BY <2>2, PageAssumption DEF Confirm, ActionEnabled, canConfirm, isCodeFileOnly, ChunksSeen, Truthful,
         AboutActive, Fetches, TypeOK
    <3>2. /\ Call("confirm", active, "button").op = "confirm"
          /\ Call("confirm", active, "button").sid = active
      BY DEF Call
    <3>3. SignalsKept
      BY <1>1, <2>2 DEF Confirm, service
    <3> QED BY <2>2, <3>1, <3>2, <3>3, QuietStep DEF Fetches, Confirm
  <2>3. CASE Reject(c)
    <3>1. /\ Call("reject", active, "button").op = "reject"
          /\ Call("reject", active, "button").sid = active
          /\ "reject" \notin Confirms
      BY DEF Call, Confirms
    <3>2. SignalsKept
      BY <1>1, <2>3 DEF Reject, service
    <3> QED BY <2>3, <3>1, <3>2, QuietStep DEF Fetches, Reject
  <2>4. CASE ConfirmAll(c) \/ \E S \in SUBSET Sessions \ {{}} : ConfirmSelected(c, S)
    <3>1. SignalsKept
      BY <1>1, <2>4 DEF ConfirmAll, ConfirmSelected, service
    <3> QED BY <2>4, <3>1, QuietNextOf DEF ConfirmAll, ConfirmSelected
  <2> QED BY <1>2, <2>1, <2>2, <2>3, <2>4 DEF User
<1>3. ASSUME NEW c \in Slots, Tick(c) PROVE Truthful'
  <2>1. SignalsKept
    BY <1>1, <1>3 DEF Tick, service
  <2>2. CASE call' = call
    BY <2>1, <2>2 DEF Truthful, SignalsKept, AboutActive, Fetches, server
  <2>3. CASE call' = [call EXCEPT ![c] = Call("refresh", poll, "page")] /\ poll = active
    <3>1. /\ Call("refresh", poll, "page").op = "refresh"
          /\ Call("refresh", poll, "page").sid = active
          /\ "refresh" \notin Confirms
      BY <2>3 DEF Call, Confirms
    <3> QED BY <2>1, <2>3, <3>1, QuietStep DEF Fetches
  <2> QED BY <1>3, <2>2, <2>3 DEF Tick
<1>4. ASSUME NEW c \in Slots, StatusLoaded(c) \/ StatusRefreshed(c) \/ ChunksLoaded(c)
      PROVE  Truthful'
  <2>1. call[c].sid = active /\ ~IsFree(c)
    BY <1>4 DEF StatusLoaded, StatusRefreshed, ChunksLoaded, Truthful, AboutActive, Fetches, IsFree
  <2>2. Succeeded(c) => /\ call[c].reply.status = "confirmed" => call[c].sid \in confirmed
                        /\ call[c].reply.has => call[c].sid \in converted
    BY <2>1 DEF StatusSeen, ChunksSeen, After
  <2>3. SignalsKept
    BY <1>4, <2>1, <2>2 DEF SignalsKept, StatusLoaded, StatusRefreshed, ChunksLoaded, Truthful,
       AboutActive, Fetches, page
  <2>4. /\ Call("chunks", call[c].sid, "page").op = "chunks"
        /\ Call("chunks", call[c].sid, "page").sid = active
        /\ Free.op = "free" /\ "chunks" \notin Confirms /\ "free" \notin Confirms
    BY <2>1 DEF Call, Free, Confirms
  <2>5. \/ call' = [call EXCEPT ![c] = Call("chunks", call[c].sid, "page")]
        \/ call' = [call EXCEPT ![c] = Free]
    BY <1>4 DEF StatusLoaded, StatusRefreshed, ChunksLoaded
  <2> QED BY <2>3, <2>4, <2>5, QuietStep DEF Fetches
<1>5. ASSUME NEW c \in Slots, ActionDone(c) PROVE Truthful'
  <2>1. call[c].sid = active /\ ~IsFree(c)
    BY <1>5 DEF ActionDone, Truthful, AboutActive, Fetches, IsFree
  <2>2. Marked("failed").sid = shown.sid /\ Marked("failed").status # "confirmed"
    BY DEF Marked, Nothing, TypeOK
  <2>3. shown'.sid \in {active, NoSession} /\ (shown'.status = "confirmed" => shown'.sid \in confirmed)
    <3>1. CASE Succeeded(c) /\ call[c].op = "confirm"
      <4>1. call[c].sid \in confirmed
        BY <2>1, <3>1 DEF StatusSeen, Confirms
      <4> QED BY <1>5, <2>1, <3>1, <4>1, MarkedStep DEF ActionDone
    <3>2. CASE Succeeded(c) /\ call[c].op = "reject"
      BY <1>5, <2>2, <3>2 DEF ActionDone, Truthful, AboutActive, Fetches
    <3>3. CASE ~Succeeded(c)
      BY <1>5, <3>3 DEF ActionDone, Truthful, AboutActive, Fetches
    <3> QED BY <1>5, <3>1, <3>2, <3>3 DEF ActionDone
  <2>4. SignalsKept
    BY <1>5, <2>3 DEF SignalsKept, ActionDone, Truthful, AboutActive, Fetches
  <2>5. Free.op = "free" /\ "free" \notin Confirms
    BY DEF Free, Confirms
  <2> QED BY <1>5, <2>4, <2>5, QuietStep DEF Fetches, ActionDone
<1>6. ASSUME NEW c \in Slots, Checked(c) PROVE Truthful'
  <2>1. SignalsKept
    BY <1>1, <1>6 DEF Checked, service
  <2>2. CASE ~Ready(c)
    BY <1>6, <2>1, <2>2, QuietNextOf DEF Checked
  <2>3. CASE Ready(c)
    <3>1. call[c].sid \in converted \cup CodeOnly
      BY <1>6, <2>3 DEF Checked, Ready, ChunksSeen, IsFree
    <3> DEFINE X == Call(IF call[c].by = "all" /\ call[c].sid = active THEN "confirm" ELSE "confirmRaw",
                         call[c].sid, call[c].by)
    <3>2. X.sid = call[c].sid /\ (X.op = "confirm" => call[c].sid = active)
          /\ X.op \in {"confirm", "confirmRaw"}
      BY DEF Call
    <3>3. call' = [call EXCEPT ![c] = X]
      BY <1>6, <2>3 DEF Checked
    <3> QED BY <2>1, <3>1, <3>2, <3>3, QuietStep DEF Fetches
  <2> QED BY <2>2, <2>3
<1>7. ASSUME NEW c \in Slots, LoopConfirmed(c) PROVE Truthful'
  <2>1. ~IsFree(c) /\ (call[c].op = "confirm" => call[c].sid = active)
    BY <1>7 DEF LoopConfirmed, Truthful, AboutActive, Fetches, IsFree, Confirms
  <2>2. shown'.sid \in {active, NoSession} /\ (shown'.status = "confirmed" => shown'.sid \in confirmed)
    <3>1. CASE Succeeded(c) /\ call[c].op = "confirm"
      <4>1. call[c].sid \in confirmed
        BY <2>1, <3>1 DEF StatusSeen, Confirms
      <4> QED BY <1>7, <2>1, <3>1, <4>1, MarkedStep DEF LoopConfirmed
    <3>2. CASE ~(Succeeded(c) /\ call[c].op = "confirm")
      BY <1>7, <3>2 DEF LoopConfirmed, Truthful, AboutActive, Fetches
    <3> QED BY <3>1, <3>2
  <2>3. SignalsKept
    BY <1>7, <2>2 DEF SignalsKept, LoopConfirmed, Truthful, AboutActive, Fetches
  <2> QED BY <1>7, <2>3, QuietNextOf DEF LoopConfirmed
<1>8. ASSUME NEW c \in Slots, Answer(c) \/ Lose(c) PROVE Truthful'
  <2>1. PICK r : Replying(c, r)
    BY <1>8, ReplyEffect DEF Answer, Lose
  <2>2. UNCHANGED <<shown, list, active, converted>> /\ confirmed \subseteq confirmed'
    BY <1>8 DEF Answer, Lose, server, service, page
  <2> QED BY <2>1, <2>2 DEF Replying, Truthful, AboutActive, Fetches
<1>9. ASSUME NEW s \in Sessions, MetaAnswered(s) \/ MetaLoaded(s) PROVE Truthful'
  BY <1>9 DEF MetaAnswered, MetaLoaded, server, service, page, Truthful, AboutActive, Fetches
<1>10. ASSUME NEW op \in WorkerOps, NEW s \in Sessions, Work(op, s) PROVE Truthful'
  <2>1. UNCHANGED <<shown, list, active, confirmed, call>> /\ converted \subseteq converted'
    BY <1>10 DEF Work, service, page
  <2> QED BY <2>1 DEF Truthful, AboutActive, Fetches
<1>11. CASE UNCHANGED vars
  BY <1>11 DEF vars, server, service, page, Truthful, AboutActive, Fetches
<1> QED BY <1>2, <1>3, <1>4, <1>5, <1>6, <1>7, <1>8, <1>9, <1>10, <1>11 DEF Next, Deliver

\* Only the user makes the page lie: what it asks, displays and offers stays about
\* the session it previews, however the poll, the buttons, the loops, the workers
\* and other administrators interleave and whatever is lost or late, unless the
\* user switches while answers are out; a switch with none out restores it.
THEOREM HasteAloneMisleads == Spec => OnlyHasteMisleads
<1>1. Init => Truthful
  BY DEF Init, Truthful, AboutActive, Fetches, Call, Free, Fetches, Confirms, Nothing, NoList
<1>2. LoopInv /\ ListInv /\ [Next]_vars => LoopInv' /\ ListInv'
  BY LoopStep, ListStep
<1>3. LoopInv /\ ListInv /\ [Next]_vars =>
        [/\ Truthful /\ ~HastySwitch => Truthful'
         /\ Switched /\ ~HastySwitch => Truthful']_vars
  BY TruthfulStep, SwitchStep
<1> QED BY <1>1, <1>2, <1>3, InitList, PTL DEF Spec, OnlyHasteMisleads

-----------------------------------------------------------------------------
(* The poll.  An interval that stops with no fetch in flight never leaves   *)
(* the page waiting, and only the choice of a session asks anew.            *)

\* The interval, if there is one, is that of the active session.
PollOfActive == poll \in {active, NoSession}

\* A step that stops no interval and, without one, starts no fetch and no waiting.
LEMMA PollKept ==
    ASSUME Watched, UNCHANGED <<active, poll>>,
           poll # active =>
               /\ list' = list
               /\ shown' = shown \/ shown'.status # Pending
               /\ \A c \in Slots : call'[c].op \in Fetches => call[c].op \in Fetches
    PROVE  Watched'
BY DEF Watched, isWorkerRunning, isCodeFileOnly

LEMMA NextOfFetchesNothing ==
    ASSUME TypeOK, NEW c \in Slots, NEW by, NEW S, NextOf(c, by, S)
    PROVE  \A d \in Slots : call'[d].op \in Fetches => call[d].op \in Fetches
<1>1. PICK X : call' = [call EXCEPT ![c] = X] /\ X.op \in {"free", "check"}
  <2>1. Free.op = "free" /\ \A s : Call("check", s, by).op = "check"
    BY DEF Free, Call
  <2> QED
    BY <2>1 DEF NextOf
<1> QED
  BY <1>1 DEF TypeOK, Fetches

LEMMA SwitchedIsWatched ==
    ASSUME [Next]_vars, Switched
    PROVE  poll' = active'
BY OnlySelects DEF SelectSession, LoadActive

LEMMA PollOfActiveStep ==
    ASSUME TypeOK, PollOfActive, [Next]_vars
    PROVE  PollOfActive'
<1>1. CASE Switched
  BY <1>1, SwitchedIsWatched DEF PollOfActive
<1>2. CASE ~Switched
  <2> SUFFICES poll' \in {poll, active, NoSession}
    BY <1>2 DEF Switched, PollOfActive
  <2>1. ASSUME NEW c \in Slots, User(c) \/ Tick(c) PROVE poll' \in {poll, active, NoSession}
    <3>1. ASSUME NEW s \in Sessions, SelectSession(c, s) PROVE FALSE
      BY <1>2, <3>1 DEF SelectSession, LoadActive, Switched
    <3> QED BY <2>1, <3>1 DEF User, Confirm, Reject, ConfirmAll, ConfirmSelected, Tick
  <2>2. ASSUME NEW c \in Slots, Deliver(c) PROVE poll' = poll
    BY <2>2 DEF Deliver, StatusLoaded, StatusRefreshed, ChunksLoaded, ActionDone, Checked,
       LoopConfirmed, page
  <2>3. ASSUME NEW c \in Slots, Answer(c) \/ Lose(c) PROVE poll' = poll
    BY <2>3 DEF Answer, Lose, page
  <2>4. ASSUME NEW s \in Sessions, MetaAnswered(s) \/ MetaLoaded(s) PROVE poll' = poll
    BY <2>4 DEF MetaAnswered, MetaLoaded, page
  <2>5. ASSUME NEW op \in WorkerOps, NEW s \in Sessions, Work(op, s) PROVE poll' = poll
    BY <2>5 DEF Work, page
  <2>6. CASE UNCHANGED vars
    BY <2>6 DEF vars, page
  <2> QED BY <2>1, <2>2, <2>3, <2>4, <2>5, <2>6 DEF Next
<1> QED BY <1>1, <1>2

LEMMA PollStep ==
    ASSUME TypeOK, PollOfActive, Watched, [Next]_vars, ~LateTick
    PROVE  Watched'
<1>0. call \in [Slots -> CallType] /\ active \in Sessions /\ active # NoSession
  BY PageAssumption DEF TypeOK
<1>1. ASSUME NEW c \in Slots, NEW s \in Sessions, SelectSession(c, s) PROVE Watched'
  BY <1>1 DEF SelectSession, LoadActive, Watched
<1>2. ASSUME NEW c \in Slots, Confirm(c) \/ Reject(c) PROVE Watched'
  <2>1. UNCHANGED <<active, poll, list, shown>>
    BY <1>2 DEF Confirm, Reject, service
  <2>2. \A d \in Slots : call'[d].op \in Fetches => call[d].op \in Fetches
    BY <1>0, <1>2 DEF Confirm, Reject, Call, Fetches
  <2> QED
    BY <2>1, <2>2, PollKept
<1>3. ASSUME NEW c \in Slots,
             ConfirmAll(c) \/ \E S \in SUBSET Sessions \ {{}} : ConfirmSelected(c, S)
      PROVE  Watched'
  <2>1. UNCHANGED <<active, poll, list, shown>>
    BY <1>3 DEF ConfirmAll, ConfirmSelected, service
  <2>2. \A d \in Slots : call'[d].op \in Fetches => call[d].op \in Fetches
    BY <1>3, NextOfFetchesNothing DEF ConfirmAll, ConfirmSelected
  <2> QED
    BY <2>1, <2>2, PollKept
<1>4. ASSUME NEW c \in Slots, Tick(c) PROVE Watched'
  <2>1. UNCHANGED <<active, list, shown>> /\ poll = active
    BY <1>4 DEF Tick, service, PollOfActive
  <2>2. CASE isWorkerRunning
    BY <1>4, <2>1, <2>2 DEF Tick, Watched
  <2>3. CASE ~isWorkerRunning
    <3>1. call' = call /\ poll' = NoSession
      BY <1>4, <2>3 DEF Tick
    <3>2. \A d \in Slots : call[d].op \notin Fetches
      BY <1>0, <2>1, <3>1 DEF LateTick
    <3> QED
      BY <2>1, <2>3, <3>1, <3>2 DEF Watched, isWorkerRunning, isCodeFileOnly
  <2> QED
    BY <2>2, <2>3
<1>5. ASSUME NEW c \in Slots, StatusLoaded(c) \/ StatusRefreshed(c) \/ ChunksLoaded(c)
      PROVE  Watched'
  <2>1. call[c].op \in Fetches /\ UNCHANGED <<active, poll>>
    BY <1>5 DEF StatusLoaded, StatusRefreshed, ChunksLoaded, page, Fetches
  <2>2. poll = active
    BY <2>1 DEF Watched
  <2> QED
    BY <2>1, <2>2, PollKept
<1>6. ASSUME NEW st \in Status \ {Pending}
      PROVE  Marked(st) = shown \/ Marked(st).status # Pending
  BY <1>6 DEF Marked, TypeOK, Nothing
<1>7. "confirmed" \in Status \ {Pending} /\ "failed" \in Status \ {Pending}
  BY DEF Status, Pending
<1>8. ASSUME NEW c \in Slots, ActionDone(c) PROVE Watched'
  <2>1. UNCHANGED <<active, poll, list>>
    BY <1>8 DEF ActionDone
  <2>2. shown' = shown \/ shown'.status # Pending
    BY <1>6, <1>7, <1>8 DEF ActionDone
  <2>3. \A d \in Slots : call'[d].op \in Fetches => call[d].op \in Fetches
    BY <1>0, <1>8 DEF ActionDone, Free, Fetches
  <2> QED
    BY <2>1, <2>2, <2>3, PollKept
<1>9. ASSUME NEW c \in Slots, Checked(c) PROVE Watched'
  <2>1. UNCHANGED <<active, poll, list, shown>>
    BY <1>9 DEF Checked, service
  <2>2. \A d \in Slots : call'[d].op \in Fetches => call[d].op \in Fetches
    <3>1. CASE Ready(c)
      BY <1>0, <1>9, <3>1 DEF Checked, Call, Fetches
    <3>2. CASE ~Ready(c)
      BY <1>9, <3>2, NextOfFetchesNothing DEF Checked
    <3> QED
      BY <3>1, <3>2
  <2> QED
    BY <2>1, <2>2, PollKept
<1>10. ASSUME NEW c \in Slots, LoopConfirmed(c) PROVE Watched'
  <2>1. UNCHANGED <<active, poll, list>>
    BY <1>10 DEF LoopConfirmed
  <2>2. shown' = shown \/ shown'.status # Pending
    BY <1>6, <1>7, <1>10 DEF LoopConfirmed
  <2>3. \A d \in Slots : call'[d].op \in Fetches => call[d].op \in Fetches
    BY <1>10, NextOfFetchesNothing DEF LoopConfirmed
  <2> QED
    BY <2>1, <2>2, <2>3, PollKept
<1>11. ASSUME NEW c \in Slots, Answer(c) \/ Lose(c) PROVE Watched'
  <2>1. PICK r : Replying(c, r)
    <3>1. PICK r : Reply(c, r)
      BY <1>11 DEF Answer, Lose
    <3> QED
      BY <3>1, ReplyEffect
  <2>2. UNCHANGED <<active, poll, list, shown>>
    BY <1>11 DEF Answer, Lose, service, page
  <2>3. \A d \in Slots : call'[d].op \in Fetches => call[d].op \in Fetches
    BY <2>1 DEF Replying
  <2> QED
    BY <2>2, <2>3, PollKept
<1>12. ASSUME UNCHANGED <<active, poll, list, shown, call>> PROVE Watched'
  BY <1>12, PollKept
<1>13. ASSUME NEW s \in Sessions, MetaAnswered(s) \/ MetaLoaded(s) PROVE Watched'
  BY <1>12, <1>13 DEF MetaAnswered, MetaLoaded, service, page
<1>14. ASSUME NEW op \in WorkerOps, NEW s \in Sessions, Work(op, s) PROVE Watched'
  BY <1>12, <1>14 DEF Work, service, page
<1>15. CASE UNCHANGED vars
  BY <1>12, <1>15 DEF vars, service, page
<1> QED
  BY <1>1, <1>2, <1>3, <1>4, <1>5, <1>8, <1>9, <1>10, <1>11, <1>13, <1>14, <1>15
     DEF Next, User, Deliver

\* The banner that waits for the worker loses its interval only to a tick during
\* a fetch, whatever is switched, confirmed, rejected or lost, and each selection
\* starts one again.
THEOREM LateTickAlone == Spec => OnlyALateTickStopsPoll
<1>1. Init => PollOfActive /\ Watched
  BY DEF Init, PollOfActive, Watched
<1>2. TypeOK /\ PollOfActive /\ [Next]_vars => PollOfActive'
  BY PollOfActiveStep
<1>3. TypeOK /\ PollOfActive /\ [Next]_vars =>
        [/\ Watched => Watched' \/ LateTick
         /\ Switched => Watched']_vars
  <2>1. ASSUME [Next]_vars, Switched PROVE Watched'
    BY <2>1, SwitchedIsWatched DEF Watched
  <2> QED
    BY <2>1, PollStep
<1> QED
  BY <1>1, <1>2, <1>3, TypeCorrect, PTL DEF Spec, OnlyALateTickStopsPoll
=============================================================================
