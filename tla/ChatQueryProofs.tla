-------------------------- MODULE ChatQueryProofs --------------------------
(***************************************************************************)
(* The safety properties of ChatQuery for any number of questions, any     *)
(* pool and any length of history.  The server's actions are of two kinds  *)
(* as far as the properties go: Forward moves a request that holds its     *)
(* connection, Ends gives the connection back and answers.                 *)
(***************************************************************************)
EXTENDS ChatQuery, FiniteSetTheorems, SequenceTheorems, TLAPS

Requests == [stage : Stages, tenant : Tenants \cup {NoTenant}, text : Texts,
             history : SUBSET [at : Nat, msg : Messages]]

\* The stages at which a request has an answer to be kept.
Answering == {"guide", "save", "flushed", "inactive"}

Replies == Answers \cup {"failed"}

\* What the types rest on.
TextInv ==
    \A q \in Ids :
        /\ req[q].stage \in Answering => req[q].text \in Answers
        /\ req[q].stage = "reply" => req[q].text \in Replies
        /\ q > asked => req[q].stage = "unasked"

TypeInv == TypeOK /\ TextInv

Forward(q) ==
    /\ req[q].stage \in Handling
    /\ \E r \in Requests :
          /\ r.stage \in Handling
          /\ r.stage \in Answering => r.text \in Answers
          /\ req' = [req EXCEPT ![q] = r]
    /\ UNCHANGED <<page, held, rows>>

Row(q, text) == [question |-> q, tenant |-> req[q].tenant, answer |-> text]

Ends(q, text) ==
    /\ req[q].stage \in Handling \cup {"sent", "reply"}
    /\ Reply(q, text)
    /\ \/ text = "failed" /\ (rows' = rows
                              \/ \E a \in Answers : rows' = rows \cup {Row(q, a)})
       \/ text \in Answers /\ rows' = rows \cup {Row(q, text)}
    /\ UNCHANGED page

-----------------------------------------------------------------------------
\* Every step of the server is of one of the two kinds or takes a connection.
LEMMA ServerSteps ==
    ASSUME TypeInv, NEW q \in Ids,
           Serve(q) \/ Unauthorised(q) \/ Fail(q) \/ CommitFails(q) \/ Crash(q)
    PROVE  \/ Deliver(q) \/ Authenticate(q) \/ Forward(q)
           \/ \E text \in Replies : Ends(q, text)
<1> DEFINE r == req[q]
<1>t. r \in Requests  BY DEF TypeInv, TypeOK, Requests
<1>u. req \in [Ids -> Requests]  BY DEF TypeInv, TypeOK, Requests
<1>a. /\ r.stage \in Answering => r.text \in Answers
      /\ "failed" \in Replies /\ Answers \subseteq Texts
  BY DEF TypeInv, TextInv, Replies, Texts
\* A step that changes the stage alone.
<1>s. ASSUME NEW from \in Handling, NEW to \in Handling, Step(q, from, to),
             to \in Answering => from \in Answering
      PROVE  Forward(q)
  <2> DEFINE n == [r EXCEPT !.stage = to]
  <2>1. n \in Requests /\ n.stage = to /\ n.text = r.text
    BY <1>t DEF Requests, Handling
  <2>2. req' = [req EXCEPT ![q] = n]  BY <1>s, <1>t, <1>u DEF Step, Requests
  <2>3. r.stage = from /\ UNCHANGED <<page, held, rows>>  BY <1>s DEF Step
  <2> HIDE DEF n
  <2> QED BY <1>a, <1>s, <2>1, <2>2, <2>3 DEF Forward
\* A step that sets the text and the stage.
<1>x. ASSUME NEW to \in Handling, NEW text \in Answers, r.stage \in Handling,
             req' = [req EXCEPT ![q].stage = to, ![q].text = text],
             UNCHANGED <<page, held, rows>>
      PROVE  Forward(q)
  <2> DEFINE n == [r EXCEPT !.stage = to, !.text = text]
  <2>1. n \in Requests /\ n.stage = to /\ n.text = text
    BY <1>t, <1>a DEF Requests, Handling
  <2>2. req' = [req EXCEPT ![q] = n]  BY <1>x, <1>t, <1>u DEF Requests
  <2> HIDE DEF n
  <2> QED BY <1>x, <2>1, <2>2 DEF Forward
<1>1. CASE Deliver(q) \/ Authenticate(q)  BY <1>1
<1>2. CASE PoolTimeout(q) \/ Unauthorised(q) \/ Fail(q) \/ CommitInactive(q) \/ Crash(q)
  <2>1. r.stage \in Handling \cup {"sent", "reply"}
    BY <1>2 DEF PoolTimeout, Unauthorised, Fail, CommitInactive, Crash, Handling, Stages
  <2>2. Reply(q, "failed") /\ UNCHANGED <<page, rows>>
    BY <1>2 DEF PoolTimeout, Unauthorised, Fail, CommitInactive, Crash
  <2>3. Ends(q, "failed")  BY <2>1, <2>2 DEF Ends
  <2> QED BY <2>3, <1>a
<1>3. CASE Commit(q) \/ CommitFails(q)
  <2>1. r.stage = "flushed" /\ UNCHANGED page  BY <1>3 DEF Commit, CommitFails
  <2>2. r.text \in Answers  BY <1>a, <2>1 DEF Answering
  <2>3. r.stage \in Handling  BY <2>1 DEF Handling, Stages
  <2>4. CASE Commit(q)
    <3>1. Ends(q, r.text)  BY <2>1, <2>2, <2>3, <2>4 DEF Ends, Commit, Row
    <3> QED BY <3>1, <2>2 DEF Replies
  <2>5. CASE CommitFails(q)
    <3>1. Ends(q, "failed")  BY <2>1, <2>2, <2>3, <2>5 DEF Ends, CommitFails, Row
    <3> QED BY <3>1, <1>a
  <2> QED BY <1>3, <2>4, <2>5
<1>4. CASE Validate(q)
  <2>1. CASE Valid(r)
    <3>1. Step(q, "read", "condense")  BY <1>4, <2>1 DEF Validate
    <3> QED BY <3>1, <1>s DEF Handling, Stages, Answering
  <2>2. CASE ~Valid(r)
    <3>1. r.stage = "read" /\ Reply(q, "failed") /\ UNCHANGED <<page, rows>>
      BY <1>4, <2>2 DEF Validate
    <3>2. Ends(q, "failed")  BY <3>1 DEF Ends, Handling, Stages
    <3> QED BY <3>2, <1>a
  <2> QED BY <2>1, <2>2
<1>5. CASE Condense(q)
  <2> DEFINE n == [r EXCEPT !.stage = "embed", !.history = {}]
  <2>1. n \in Requests /\ n.stage = "embed"  BY <1>t DEF Requests, Stages
  <2>2. req' = [req EXCEPT ![q] = n]  BY <1>5, <1>t, <1>u DEF Condense, Requests
  <2>3. r.stage = "condense" /\ UNCHANGED <<page, held, rows>>  BY <1>5 DEF Condense
  <2> HIDE DEF n
  <2> QED BY <2>1, <2>2, <2>3 DEF Forward, Handling, Stages, Answering
<1>6. CASE Embed(q)
  BY <1>6, <1>s DEF Embed, Handling, Stages, Answering
<1>7. CASE Search(q)
  <2>1. CASE Step(q, "search", "generate")
    BY <2>1, <1>s DEF Handling, Stages, Answering
  <2>2. CASE ~Step(q, "search", "generate")
    <3>1. /\ r.stage = "search" /\ UNCHANGED <<page, held, rows>>
          /\ req' = [req EXCEPT ![q].stage = "save", ![q].text = "none found"]
      BY <1>7, <2>2 DEF Search
    <3> QED BY <3>1, <1>x DEF Handling, Stages, Answers
  <2> QED BY <2>1, <2>2
<1>8. CASE Generate(q)
  <2>1. PICK text \in {"answer", "huge", "empty", "refusal"} :
              req' = [req EXCEPT ![q].stage = "guide", ![q].text = text]
    BY <1>8 DEF Generate
  <2>2. r.stage = "generate" /\ UNCHANGED <<page, held, rows>>  BY <1>8 DEF Generate
  <2> QED BY <2>1, <2>2, <1>x DEF Handling, Stages, Answers
<1>9. CASE Guide(q)
  <2>1. PICK text \in {r.text} \cup {t \in {"guided"} : r.text = "refusal"} :
              req' = [req EXCEPT ![q].stage = "save", ![q].text = text]
    BY <1>9 DEF Guide
  <2>2. r.stage = "guide" /\ UNCHANGED <<page, held, rows>>  BY <1>9 DEF Guide
  <2>3. text \in Answers  BY <1>a, <2>1, <2>2 DEF Answers, Answering
  <2> QED BY <2>1, <2>2, <2>3, <1>x DEF Handling, Stages
<1>10. CASE Save(q)
  <2>1. Step(q, "save", "flushed") \/ Step(q, "save", "inactive")  BY <1>10 DEF Save
  <2> QED BY <2>1, <1>s DEF Handling, Stages, Answering
<1> QED BY <1>1, <1>2, <1>3, <1>4, <1>5, <1>6, <1>7, <1>8, <1>9, <1>10 DEF Serve

LEMMA Steps ==
    ASSUME TypeInv, Next
    PROVE  \/ \E text \in Questions : Send(text)
           \/ \E t \in Tenants \cup {NoTenant} : SelectTenant(t)
           \/ Leave
           \/ \E q \in Ids : \/ Deliver(q) \/ Disconnect(q) \/ Authenticate(q) \/ Forward(q)
                             \/ \E text \in Replies : Ends(q, text)
BY ServerSteps DEF Next

-----------------------------------------------------------------------------
\* What the continuation of send() does to the messages.
LEMMA SettleMessages ==
    ASSUME TypeInv, NEW q \in Ids, NEW text \in Replies, Settle(q, text)
    PROVE  /\ messages' \in Seq(Messages) /\ Len(messages') = Len(messages)
           /\ \A i \in DOMAIN messages :
                 messages'[i] = IF messages[i] = Message("bot", q, "typing")
                                THEN Message("bot", q, text) ELSE messages[i]
           /\ botTyping' = (botTyping /\ ~Awaited(q))
           /\ botTyping' \in BOOLEAN
<1>1. messages \in Seq(Messages) /\ botTyping \in BOOLEAN  BY DEF TypeInv, TypeOK
<1>2. Message("bot", q, text) \in Messages
  BY DEF Message, Messages, Ids, Replies, Texts
<1> DEFINE new(i) == IF messages[i] = Message("bot", q, "typing")
                     THEN Message("bot", q, text) ELSE messages[i]
<1>3. messages' = [i \in 1 .. Len(messages) |-> new(i)]
  BY <1>1 DEF Settle
<1>4. \A i \in 1 .. Len(messages) : new(i) \in Messages
  BY <1>1, <1>2
<1>5. Len(messages) \in Nat /\ DOMAIN messages = 1 .. Len(messages)  BY <1>1
<1> HIDE DEF new
<1>6. messages' \in Seq(Messages) /\ Len(messages') = Len(messages)
  BY <1>3, <1>4, <1>5, IsASeq
<1>7. \A i \in DOMAIN messages : messages'[i] = new(i)  BY <1>3, <1>5
<1>8. botTyping' = (botTyping /\ ~Awaited(q))  BY DEF Settle
<1>9. botTyping' \in BOOLEAN  BY <1>1, <1>8
<1> QED BY <1>6, <1>7, <1>8, <1>9 DEF new

\* What send() adds: the question and the dots of its answer.
LEMMA SendMessages ==
    ASSUME TypeInv, NEW text \in Questions, Send(text)
    PROVE  LET q == asked + 1
               u == Message("user", q, text)
               b == Message("bot", q, "typing")
           IN  /\ q \in Ids /\ u \in Messages /\ b \in Messages
               /\ messages' = Append(Append(messages, u), b)
<1>1. asked + 1 \in Ids /\ asked \in Nat
  BY ChatAssumption DEF TypeInv, TypeOK, Send, Ids
<1>2. text \in Texts  BY ChatAssumption DEF Texts, Answers
<1>3. /\ Message("user", asked + 1, text) \in Messages
      /\ Message("bot", asked + 1, "typing") \in Messages
  BY <1>1, <1>2 DEF Message, Messages, Ids, Texts
<1>4. messages \in Seq(Messages)  BY DEF TypeInv, TypeOK
<1>5. messages' = messages \o <<Message("user", asked + 1, text),
                                Message("bot", asked + 1, "typing")>>
  BY DEF Send
<1> QED BY <1>1, <1>3, <1>4, <1>5

\* The same, message by message.
LEMMA SentMessages ==
    ASSUME TypeInv, NEW text \in Questions, Send(text)
    PROVE  LET n == Len(messages) IN
           /\ n \in Nat /\ Len(messages') = n + 2 /\ DOMAIN messages' = 1 .. (n + 2)
           /\ \A j \in 1 .. n : messages'[j] = messages[j]
           /\ messages'[n + 1] = Message("user", asked + 1, text)
           /\ messages'[n + 2] = Message("bot", asked + 1, "typing")
           /\ \A j \in DOMAIN messages' :
                 \/ j \in DOMAIN messages /\ messages'[j] = messages[j]
                 \/ j = n + 1 \/ j = n + 2
<1> DEFINE u == Message("user", asked + 1, text)
           b == Message("bot", asked + 1, "typing")
<1>1. u \in Messages /\ b \in Messages /\ messages' = Append(Append(messages, u), b)
  BY SendMessages
<1>2. messages \in Seq(Messages)  BY DEF TypeInv, TypeOK
<1> HIDE DEF u, b
<1>3. /\ Append(messages, u) \in Seq(Messages)
      /\ Len(Append(messages, u)) = Len(messages) + 1
      /\ Append(messages, u)[Len(messages) + 1] = u
      /\ \A j \in 1 .. Len(messages) : Append(messages, u)[j] = messages[j]
  BY <1>1, <1>2
<1> QED BY <1>1, <1>2, <1>3 DEF u, b

LEMMA HistoryType ==
    ASSUME NEW ms \in Seq(Messages)
    PROVE  History(ms) \subseteq [at : Nat, msg : Messages]
<1>1. DOMAIN ms \subseteq Nat /\ \A i \in DOMAIN ms : ms[i] \in Messages  OBVIOUS
<1>2. Last(Window + 1, Kept(ms)) \subseteq DOMAIN ms  BY DEF Last, Kept
<1> QED BY <1>1, <1>2 DEF History

LEMMA TypeInit == Init => TypeInv
<1> SUFFICES ASSUME Init PROVE TypeInv  OBVIOUS
<1>1. Greeting \in Seq(Messages)  BY DEF Greeting, Message, Messages, Texts
<1>2. Unasked \in Requests
  BY DEF Unasked, Requests, Stages, Texts, Answers
<1>3. req = [q \in Ids |-> Unasked]  BY DEF Init
<1>4. req \in [Ids -> Requests]  BY <1>2, <1>3
<1>a. botTyping \in BOOLEAN  BY DEF Init
<1>b. 0 \in 0 .. MaxQuestions  BY ChatAssumption
<1>5. TypeOK
  BY <1>1, <1>4, <1>a, <1>b DEF Init, TypeOK, Requests
<1>6. TextInv  BY <1>3 DEF TextInv, Unasked, Answering
<1> QED BY <1>5, <1>6 DEF TypeInv

LEMMA TypeStep == TypeInv /\ [Next]_vars => TypeInv'
<1> SUFFICES ASSUME TypeInv, [Next]_vars PROVE TypeInv'  OBVIOUS
<1> USE DEF TypeInv
<1>t. /\ req \in [Ids -> Requests] /\ asked \in 0 .. MaxQuestions
      /\ messages \in Seq(Messages)
  BY DEF TypeOK, Requests
<1>1. ASSUME NEW text \in Questions, Send(text) PROVE TypeInv'
  <2> DEFINE q == asked + 1
             shown == messages \o <<Message("user", q, text), Message("bot", q, "typing")>>
             r == [stage |-> "sent", tenant |-> tenant, text |-> text,
                   history |-> History(shown)]
  <2>a. /\ q \in Ids
        /\ Message("user", q, text) \in Messages /\ Message("bot", q, "typing") \in Messages
        /\ messages' = Append(Append(messages, Message("user", q, text)),
                              Message("bot", q, "typing"))
    BY <1>1, SendMessages
  <2>b. messages' \in Seq(Messages)  BY <1>t, <2>a
  <2>c. messages' = shown  BY <1>1 DEF Send
  <2>1. q \in Ids /\ messages' \in Seq(Messages) /\ messages' = shown
    BY <2>a, <2>b, <2>c
  <2>2. History(shown) \subseteq [at : Nat, msg : Messages]
    BY <2>b, <2>c, HistoryType
  <2>3. r \in Requests /\ r.stage = "sent"
    <3>1. text \in Texts  BY ChatAssumption DEF Texts, Answers
    <3> HIDE DEF shown
    <3> QED BY <2>2, <3>1 DEF Requests, Stages, TypeOK
  <2>4. req' = [req EXCEPT ![q] = r]  BY <1>1 DEF Send
  <2> HIDE DEF r, shown
  <2>5. req' \in [Ids -> Requests]  BY <1>t, <2>1, <2>3, <2>4
  <2>6. asked' = q /\ botTyping' = TRUE /\ UNCHANGED <<tenant, held, rows>>
    BY <1>1 DEF Send
  <2>7. asked' \in 0 .. MaxQuestions
    BY <1>t, <2>1, <2>6, ChatAssumption DEF Ids
  <2>8. TypeOK'
    BY <2>1, <2>5, <2>6, <2>7 DEF TypeOK, Requests
  <2>9. TextInv'
    BY <1>t, <2>1, <2>3, <2>4, <2>6 DEF TextInv, Answering, Ids
  <2> QED BY <2>8, <2>9
<1>2. ASSUME NEW t \in Tenants \cup {NoTenant}, SelectTenant(t) PROVE TypeInv'
  BY <1>2 DEF SelectTenant, TypeOK, TextInv
<1>3. CASE Leave
  <2>1. Greeting \in Seq(Messages)  BY DEF Greeting, Message, Messages, Texts
  <2> QED BY <1>3, <2>1 DEF Leave, TypeOK, TextInv
<1>4. ASSUME NEW q \in Ids, Deliver(q) PROVE TypeInv'
  <2>1. req[q].text \in Replies  BY <1>4 DEF Deliver, TextInv
  <2>2. messages' \in Seq(Messages) /\ botTyping' \in BOOLEAN
    BY <1>4, <2>1, SettleMessages DEF Deliver
  <2> DEFINE r == [Unasked EXCEPT !.stage = "done"]
  <2>3. r \in Requests /\ r.stage = "done"
    BY DEF Unasked, Requests, Stages, Texts, Answers
  <2>4. req' = [req EXCEPT ![q] = r]  BY <1>4 DEF Deliver
  <2> HIDE DEF r
  <2>5. req' \in [Ids -> Requests]  BY <1>t, <2>3, <2>4
  <2>6. TypeOK'  BY <1>4, <2>2, <2>5 DEF TypeOK, Requests, Deliver
  <2>7. req[q].stage = "reply" /\ asked' = asked  BY <1>4 DEF Deliver
  <2>8. TextInv'  BY <1>t, <2>3, <2>4, <2>7 DEF TextInv, Answering
  <2> QED BY <2>6, <2>8
<1>5. ASSUME NEW q \in Ids, Disconnect(q) PROVE TypeInv'
  <2>1. messages' \in Seq(Messages) /\ botTyping' \in BOOLEAN
    BY <1>5, SettleMessages DEF Disconnect, Replies
  <2> QED BY <1>5, <2>1 DEF Disconnect, TypeOK, TextInv
<1>6. ASSUME NEW q \in Ids, Authenticate(q) PROVE TypeInv'
  <2> DEFINE r == [req[q] EXCEPT !.stage = "read"]
  <2>1. r \in Requests /\ r.stage = "read"  BY <1>t DEF Requests, Stages
  <2>2. req' = [req EXCEPT ![q] = r]  BY <1>6, <1>t DEF Authenticate, Requests
  <2> HIDE DEF r
  <2>3. req' \in [Ids -> Requests]  BY <1>t, <2>1, <2>2
  <2>4. TypeOK'  BY <1>6, <2>3 DEF TypeOK, Requests, Authenticate, page
  <2>5. req[q].stage = "sent" /\ asked' = asked  BY <1>6 DEF Authenticate, page
  <2>6. TextInv'  BY <1>t, <2>1, <2>2, <2>5 DEF TextInv, Answering
  <2> QED BY <2>4, <2>6
<1>7. ASSUME NEW q \in Ids, Forward(q) PROVE TypeInv'
  <2>1. PICK r \in Requests : /\ r.stage \in Handling
                              /\ r.stage \in Answering => r.text \in Answers
                              /\ req' = [req EXCEPT ![q] = r]
    BY <1>7 DEF Forward
  <2>2. req' \in [Ids -> Requests]  BY <1>t, <2>1
  <2>3. TypeOK'  BY <1>7, <2>2 DEF TypeOK, Requests, Forward, page
  <2>4. req[q].stage \in Handling /\ asked' = asked  BY <1>7 DEF Forward, page
  <2>5. TextInv'  BY <1>t, <2>1, <2>4 DEF TextInv, Answering, Handling
  <2> QED BY <2>3, <2>5
<1>8. ASSUME NEW q \in Ids, NEW text \in Replies, Ends(q, text) PROVE TypeInv'
  <2> DEFINE r == [req[q] EXCEPT !.stage = "reply", !.text = text, !.history = {}]
  <2>1. r \in Requests /\ r.stage = "reply" /\ r.text = text
    BY <1>t DEF Requests, Stages, Replies, Texts
  <2>2. req' = [req EXCEPT ![q] = r]  BY <1>8, <1>t DEF Ends, Reply, Requests
  <2> HIDE DEF r
  <2>3. req' \in [Ids -> Requests]  BY <1>t, <2>1, <2>2
  <2>4. \A a \in Answers : Row(q, a) \in [question : Ids, tenant : Tenants \cup {NoTenant},
                                          answer : Answers]
    BY <1>t DEF Row, Requests
  <2>5. rows' \subseteq [question : Ids, tenant : Tenants \cup {NoTenant}, answer : Answers]
    BY <1>8, <2>4 DEF Ends, TypeOK
  <2>6. TypeOK'  BY <1>8, <2>3, <2>5 DEF TypeOK, Requests, Ends, Reply, page
  <2>7. req[q].stage # "unasked" /\ asked' = asked  BY <1>8 DEF Ends, Handling, page
  <2>8. TextInv'  BY <1>t, <2>1, <2>2, <2>7 DEF TextInv, Answering
  <2> QED BY <2>6, <2>8
<1>9. CASE UNCHANGED vars  BY <1>9 DEF vars, TypeOK, TextInv
<1> QED BY <1>1, <1>2, <1>3, <1>4, <1>5, <1>6, <1>7, <1>8, <1>9, Steps

\* Every variable of the page and of the requests stays within its type.
THEOREM TypeCorrect == Spec => []TypeOK
<1>1. TypeInv => TypeOK  BY DEF TypeInv
<1> QED BY TypeInit, TypeStep, <1>1, PTL DEF Spec

-----------------------------------------------------------------------------
\* As the code stands, an answer on its way to the page has its row already, and so
\* has one that is shown: whatever loses the row loses the answer with it.
RepliedIsRecorded ==
    \A q \in Ids : req[q].stage = "reply" /\ req[q].text \in Answers =>
        \E r \in rows : r.question = q /\ r.answer = req[q].text

ShownIsRecorded ==
    \A i \in DOMAIN messages :
        messages[i].role = "bot" /\ messages[i].text \in Answers =>
            \E r \in rows : r.question = messages[i].of /\ r.answer = messages[i].text

RecordInv == RepliedIsRecorded /\ ShownIsRecorded

LEMMA RecordStep == TypeInv /\ RecordInv /\ [Next]_vars => RecordInv'
<1> SUFFICES ASSUME TypeInv, RecordInv, [Next]_vars PROVE RecordInv'  OBVIOUS
<1>t. /\ req \in [Ids -> Requests]
      /\ messages \in Seq(Messages)
  BY DEF TypeInv, TypeOK, Requests
<1>u. {"question", "lengthy", "huge", "greeting", "typing", "failed"} \cap Answers = {"huge"}
  BY DEF Answers
<1>1. ASSUME NEW text \in Questions, Send(text) PROVE RecordInv'
  <2> DEFINE q == asked + 1
  <2>3. ASSUME NEW i \in DOMAIN messages', messages'[i].role = "bot",
               messages'[i].text \in Answers
        PROVE  i \in DOMAIN messages /\ messages'[i] = messages[i]
    <3>1. messages'[i].role = "bot" /\ messages'[i].text \in Answers
      BY <2>3
    <3>2. \/ i \in DOMAIN messages /\ messages'[i] = messages[i]
          \/ messages'[i] = Message("user", q, text)
          \/ messages'[i] = Message("bot", q, "typing")
      BY <1>1, SentMessages
    <3> QED BY <1>u, <3>1, <3>2 DEF Message
  <2>4. ShownIsRecorded'
    BY <1>1, <2>3 DEF RecordInv, ShownIsRecorded, Send
  <2>5. RepliedIsRecorded'
    BY <1>1, <1>t DEF RecordInv, RepliedIsRecorded, Send
  <2> QED BY <2>4, <2>5 DEF RecordInv
<1>2. ASSUME NEW t \in Tenants \cup {NoTenant}, SelectTenant(t) PROVE RecordInv'
  BY <1>2 DEF SelectTenant, RecordInv, RepliedIsRecorded, ShownIsRecorded
<1>3. CASE Leave
  BY <1>3, <1>u DEF Leave, Greeting, Message, RecordInv, RepliedIsRecorded, ShownIsRecorded
\* The message that is settled carries the reply, which has its row.
<1>s. ASSUME NEW q \in Ids, NEW text \in Replies, Settle(q, text), rows' = rows,
             text \in Answers => \E r \in rows : r.question = q /\ r.answer = text
      PROVE  ShownIsRecorded'
  <2>1. /\ DOMAIN messages' = DOMAIN messages
        /\ \A i \in DOMAIN messages :
              \/ messages'[i] = messages[i]
              \/ messages'[i] = Message("bot", q, text)
    BY <1>s, <1>t, SettleMessages
  <2> QED BY <1>s, <2>1 DEF RecordInv, ShownIsRecorded, Message
<1>4. ASSUME NEW q \in Ids, Deliver(q) PROVE RecordInv'
  <2>1. req[q].text \in Replies /\ Settle(q, req[q].text) /\ rows' = rows
    BY <1>4 DEF Deliver, TypeInv, TextInv
  <2>2. req[q].text \in Answers =>
           \E r \in rows : r.question = q /\ r.answer = req[q].text
    BY <1>4 DEF Deliver, RecordInv, RepliedIsRecorded
  <2>3. ShownIsRecorded'  BY <1>s, <2>1, <2>2
  <2>4. req' = [req EXCEPT ![q] = [Unasked EXCEPT !.stage = "done"]]
    BY <1>4 DEF Deliver
  <2>5. req'[q].stage = "done" /\ \A p \in Ids \ {q} : req'[p] = req[p]
    BY <1>t, <2>4 DEF Unasked
  <2>6. RepliedIsRecorded'
    BY <2>1, <2>5 DEF RecordInv, RepliedIsRecorded
  <2> QED BY <2>3, <2>6 DEF RecordInv
<1>5. ASSUME NEW q \in Ids, Disconnect(q) PROVE RecordInv'
  <2>1. "failed" \in Replies /\ "failed" \notin Answers  BY DEF Replies, Answers
  <2>2. Settle(q, "failed") /\ UNCHANGED <<req, rows>>  BY <1>5 DEF Disconnect
  <2>3. ShownIsRecorded'  BY <1>s, <2>1, <2>2
  <2>4. RepliedIsRecorded'  BY <2>2 DEF RecordInv, RepliedIsRecorded
  <2> QED BY <2>3, <2>4 DEF RecordInv
<1>6. ASSUME NEW q \in Ids, Authenticate(q) PROVE RecordInv'
  BY <1>6, <1>t DEF Authenticate, page, RecordInv, RepliedIsRecorded, ShownIsRecorded
<1>7. ASSUME NEW q \in Ids, Forward(q) PROVE RecordInv'
  BY <1>7, <1>t DEF Forward, Handling, page, RecordInv, RepliedIsRecorded, ShownIsRecorded
<1>8. ASSUME NEW q \in Ids, NEW text \in Replies, Ends(q, text) PROVE RecordInv'
  <2>1. rows \subseteq rows' /\ messages' = messages  BY <1>8 DEF Ends, page
  <2>2. ShownIsRecorded'  BY <2>1 DEF RecordInv, ShownIsRecorded
  <2>3. text \in Answers => Row(q, text) \in rows'
    BY <1>8 DEF Ends, Answers
  <2>4. req'[q].text = text /\ \A p \in Ids \ {q} : req'[p] = req[p]
    BY <1>8, <1>t DEF Ends, Reply, Requests
  <2>5. RepliedIsRecorded'
    BY <2>1, <2>3, <2>4 DEF RecordInv, RepliedIsRecorded, Row
  <2> QED BY <2>2, <2>5 DEF RecordInv
<1>9. CASE UNCHANGED vars
  BY <1>9 DEF vars, RecordInv, RepliedIsRecorded, ShownIsRecorded
<1> QED BY <1>1, <1>2, <1>3, <1>4, <1>5, <1>6, <1>7, <1>8, <1>9, Steps

LEMMA RecordInit == Init => RecordInv
<1> SUFFICES ASSUME Init PROVE RecordInv  OBVIOUS
<1>1. \A i \in DOMAIN messages : messages[i].text = "greeting"
  BY DEF Init, Greeting, Message
<1>2. \A q \in Ids : req[q].stage = "unasked"  BY DEF Init, Unasked
<1>3. "greeting" \notin Answers  BY DEF Answers
<1> QED BY <1>1, <1>2, <1>3 DEF RecordInv, RepliedIsRecorded, ShownIsRecorded

-----------------------------------------------------------------------------
\* What waits for an answer is the dots of a question that was asked.
DotsAreBots ==
    \A i \in DOMAIN messages : messages[i].text = "typing" =>
        messages[i].of \in Ids /\ messages[i] = Message("bot", messages[i].of, "typing")

TypingInv == DotsAreBots /\ TypingTruthful

LEMMA TypingInit == Init => TypingInv
<1> SUFFICES ASSUME Init PROVE TypingInv  OBVIOUS
<1>1. \A i \in DOMAIN messages : messages[i].text = "greeting"
  BY DEF Init, Greeting, Message
<1>2. ~botTyping  BY DEF Init
<1>3. \A q \in Ids : ~Awaited(q)  BY <1>1 DEF Awaited, Message
<1> QED BY <1>1, <1>2, <1>3 DEF TypingInv, TypingTruthful, DotsAreBots

LEMMA TypingStep == TypeInv /\ TypingInv /\ [Next]_vars => TypingInv'
<1> SUFFICES ASSUME TypeInv, TypingInv, [Next]_vars PROVE TypingInv'  OBVIOUS
<1>t. messages \in Seq(Messages) /\ Len(messages) \in Nat /\ DOMAIN messages = 1 .. Len(messages)
  BY DEF TypeInv, TypeOK
<1>u. \A i \in DOMAIN messages : messages[i].text = "typing" => i = Len(messages)
  BY DEF TypingInv, TypingTruthful
<1>1. ASSUME NEW text \in Questions, Send(text) PROVE TypingInv'
  <2> DEFINE n == Len(messages)
  <2>1. \A i \in DOMAIN messages : messages[i].text # "typing"
    BY <1>1 DEF Send, TypingInv, TypingTruthful, DotsAreBots, Awaited
  <2>2. /\ Len(messages') = n + 2 /\ DOMAIN messages' = 1 .. (n + 2)
        /\ messages'[n + 1] = Message("user", asked + 1, text)
        /\ messages'[n + 2] = Message("bot", asked + 1, "typing")
        /\ \A j \in DOMAIN messages' :
              \/ j \in DOMAIN messages /\ messages'[j] = messages[j]
              \/ j = n + 1 \/ j = n + 2
    BY <1>1, SentMessages
  <2>3. text # "typing" /\ asked + 1 \in Ids  BY <1>1, ChatAssumption, SendMessages
  <2>4. \A j \in DOMAIN messages' : messages'[j].text = "typing" => j = n + 2
    BY <2>1, <2>2, <2>3 DEF Message
  <2>5. DotsAreBots'  BY <2>2, <2>3, <2>4 DEF DotsAreBots, Message
  <2>6. n + 2 \in DOMAIN messages'  BY <1>t, <2>2
  <2>7. \E q \in Ids : Awaited(q)'  BY <2>2, <2>3, <2>6 DEF Awaited
  <2>8. botTyping'  BY <1>1 DEF Send
  <2>9. \A j \in DOMAIN messages' : messages'[j].text = "typing" => j = Len(messages')
    BY <2>2, <2>4
  <2> QED BY <2>5, <2>7, <2>8, <2>9 DEF TypingInv, TypingTruthful
<1>2. CASE UNCHANGED <<messages, botTyping>>
  BY <1>2 DEF TypingInv, TypingTruthful, DotsAreBots, Awaited
<1>3. CASE Leave
  <2>1. /\ \A i \in DOMAIN Greeting : Greeting[i].text = "greeting"
        /\ messages' = Greeting
    BY <1>3 DEF Leave, Greeting, Message
  <2>2. \A q \in Ids : ~Awaited(q)'  BY <2>1 DEF Awaited, Message
  <2>3. ~botTyping'  BY <1>3 DEF Leave
  <2> QED BY <2>1, <2>2, <2>3 DEF TypingInv, TypingTruthful, DotsAreBots
<1>4. ASSUME NEW q \in Ids, NEW text \in Replies, Settle(q, text) PROVE TypingInv'
  <2>1. /\ Len(messages') = Len(messages) /\ DOMAIN messages' = DOMAIN messages
        /\ \A i \in DOMAIN messages :
              messages'[i] = IF messages[i] = Message("bot", q, "typing")
                             THEN Message("bot", q, text) ELSE messages[i]
    BY <1>4, <1>t, SettleMessages
  <2>2. botTyping' = (botTyping /\ ~Awaited(q))  BY <1>4, SettleMessages
  <2>3. text # "typing"  BY DEF Replies, Answers
  <2>4. \A i \in DOMAIN messages' : messages'[i].text = "typing" =>
           messages'[i] = messages[i] /\ messages[i] # Message("bot", q, "typing")
    BY <2>1, <2>3 DEF Message
  <2>5. DotsAreBots'  BY <2>1, <2>4 DEF TypingInv, DotsAreBots
  <2>6. \A i \in DOMAIN messages' : messages'[i].text = "typing" => i = Len(messages')
    BY <2>1, <2>4, <1>u
  <2>7. botTyping' <=> \E p \in Ids : Awaited(p)'
    <3>1. CASE Awaited(q)
      <4>1. \A i \in DOMAIN messages : messages[i].text = "typing" =>
               messages[i] = Message("bot", q, "typing")
        BY <3>1, <1>u DEF Awaited, Message
      <4>2. \A i \in DOMAIN messages' : messages'[i].text # "typing"
        BY <2>1, <2>4, <4>1
      <4>3. \A p \in Ids : ~Awaited(p)'  BY <4>2 DEF Awaited, Message
      <4> QED BY <2>2, <3>1, <4>3
    <3>2. CASE ~Awaited(q)
      <4>1. \A i \in DOMAIN messages : messages'[i] = messages[i]
        BY <2>1, <3>2 DEF Awaited
      <4>2. \A p \in Ids : Awaited(p)' <=> Awaited(p)
        BY <2>1, <4>1 DEF Awaited
      <4> QED BY <2>2, <3>2, <4>2 DEF TypingInv, TypingTruthful
    <3> QED BY <3>1, <3>2
  <2> QED BY <2>5, <2>6, <2>7 DEF TypingInv, TypingTruthful
<1>5. ASSUME NEW q \in Ids, Deliver(q) PROVE TypingInv'
  <2>1. req[q].text \in Replies /\ Settle(q, req[q].text)
    BY <1>5 DEF Deliver, TypeInv, TextInv
  <2> QED BY <2>1, <1>4
<1>6. ASSUME NEW q \in Ids, Disconnect(q) PROVE TypingInv'
  <2>1. "failed" \in Replies /\ Settle(q, "failed")  BY <1>6 DEF Disconnect, Replies
  <2> QED BY <2>1, <1>4
<1>7. ASSUME NEW q \in Ids, Authenticate(q) \/ Forward(q) \/ \E text \in Replies : Ends(q, text)
      PROVE  UNCHANGED <<messages, botTyping>>
  BY <1>7 DEF Authenticate, Forward, Ends, page
<1>8. ASSUME NEW t \in Tenants \cup {NoTenant}, SelectTenant(t)
      PROVE  UNCHANGED <<messages, botTyping>>
  BY <1>8 DEF SelectTenant
<1>9. CASE UNCHANGED vars  BY <1>9, <1>2 DEF vars
<1> QED BY <1>1, <1>2, <1>3, <1>5, <1>6, <1>7, <1>8, <1>9, Steps

\* The flag that locks the input agrees with the dots on the screen.
THEOREM Typing == Spec => []TypingTruthful
<1>1. TypingInv => TypingTruthful  BY DEF TypingInv
<1> QED BY TypeInit, TypeStep, TypingInit, TypingStep, <1>1, PTL DEF Spec

-----------------------------------------------------------------------------
LEMMA ConnectionStep == TypeInv /\ ConnectionsReturned /\ [Next]_vars => ConnectionsReturned'
<1> SUFFICES ASSUME TypeInv, ConnectionsReturned, [Next]_vars PROVE ConnectionsReturned'
  OBVIOUS
<1>t. req \in [Ids -> Requests]  BY DEF TypeInv, TypeOK, Requests
<1>f. /\ IsFiniteSet(held) /\ Cardinality(held) \in Nat /\ Pool \in Nat
      /\ held = {q \in Ids : req[q].stage \in Handling} /\ Cardinality(held) <= Pool
  <2>1. IsFiniteSet(Ids)  BY ChatAssumption, FS_Interval DEF Ids
  <2>2. IsFiniteSet(held)  BY <2>1, FS_Subset DEF TypeInv, TypeOK
  <2> QED BY <2>2, FS_CardinalityType, ChatAssumption DEF ConnectionsReturned
\* A step of one request that moves it out of or keeps it off the handler.
<1>s. ASSUME NEW q \in Ids, NEW stage \in Stages, held' = held,
             req[q].stage \in Handling <=> stage \in Handling,
             req'[q].stage = stage, \A p \in Ids \ {q} : req'[p] = req[p]
      PROVE  ConnectionsReturned'
  <2>1. held' = {p \in Ids : req'[p].stage \in Handling}  BY <1>s, <1>f
  <2> QED BY <2>1, <1>f, <1>s DEF ConnectionsReturned
<1>1. ASSUME NEW text \in Questions, Send(text) PROVE ConnectionsReturned'
  <2>1. asked + 1 \in Ids  BY <1>1, SendMessages
  <2>2. req[asked + 1].stage \notin Handling /\ held' = held
    <3>1. asked \in Nat  BY ChatAssumption DEF TypeInv, TypeOK
    <3>2. req[asked + 1].stage = "unasked"  BY <2>1, <3>1 DEF TypeInv, TextInv
    <3> QED BY <1>1, <3>2 DEF Send, Handling
  <2>3. req'[asked + 1].stage = "sent" /\ \A p \in Ids \ {asked + 1} : req'[p] = req[p]
    BY <1>1, <1>t, <2>1 DEF Send
  <2> QED BY <1>s, <2>1, <2>2, <2>3 DEF Stages, Handling
<1>2. CASE UNCHANGED <<req, held>>  BY <1>2 DEF ConnectionsReturned
<1>3. ASSUME NEW q \in Ids, Deliver(q) PROVE ConnectionsReturned'
  <2>1. req[q].stage = "reply" /\ held' = held  BY <1>3 DEF Deliver
  <2>2. req'[q].stage = "done" /\ \A p \in Ids \ {q} : req'[p] = req[p]
    BY <1>3, <1>t DEF Deliver, Unasked
  <2> QED BY <1>s, <2>1, <2>2 DEF Stages, Handling
<1>4. ASSUME NEW q \in Ids, Authenticate(q) PROVE ConnectionsReturned'
  <2>1. req[q].stage = "sent" /\ held' = held \cup {q} /\ Cardinality(held) < Pool
    BY <1>4 DEF Authenticate
  <2>2. req'[q].stage = "read" /\ \A p \in Ids \ {q} : req'[p] = req[p]
    BY <1>4, <1>t DEF Authenticate, Requests
  <2>3. held' = {p \in Ids : req'[p].stage \in Handling}
    BY <1>f, <2>1, <2>2 DEF Handling, Stages
  <2>4. Cardinality(held') <= Pool
    <3>1. q \notin held  BY <1>f, <2>1 DEF Handling
    <3>2. IsFiniteSet(held)  BY <1>f
    <3>3. Cardinality(held \cup {q}) = Cardinality(held) + 1
      BY <3>1, <3>2, FS_AddElement
    <3> QED BY <1>f, <2>1, <3>3
  <2> QED BY <2>3, <2>4 DEF ConnectionsReturned
<1>5. ASSUME NEW q \in Ids, Forward(q) PROVE ConnectionsReturned'
  <2>1. PICK r \in Requests : r.stage \in Handling /\ req' = [req EXCEPT ![q] = r]
    BY <1>5 DEF Forward
  <2>2. req[q].stage \in Handling /\ held' = held  BY <1>5 DEF Forward
  <2>3. req'[q].stage = r.stage /\ \A p \in Ids \ {q} : req'[p] = req[p]
    BY <1>t, <2>1
  <2> QED BY <1>s, <2>1, <2>2, <2>3 DEF Requests
<1>6. ASSUME NEW q \in Ids, NEW text \in Replies, Ends(q, text) PROVE ConnectionsReturned'
  <2>1. held' = held \ {q}  BY <1>6 DEF Ends, Reply
  <2>2. req'[q].stage = "reply" /\ \A p \in Ids \ {q} : req'[p] = req[p]
    BY <1>6, <1>t DEF Ends, Reply, Requests
  <2>3. held' = {p \in Ids : req'[p].stage \in Handling}
    BY <1>f, <2>1, <2>2 DEF Handling
  <2>4. Cardinality(held') <= Pool
    <3>1. IsFiniteSet(held \ {q}) /\ Cardinality(held \ {q}) <= Cardinality(held)
      BY <1>f, FS_Subset
    <3>2. Cardinality(held \ {q}) \in Nat  BY <3>1, FS_CardinalityType
    <3> QED BY <1>f, <2>1, <3>1, <3>2
  <2> QED BY <2>3, <2>4 DEF ConnectionsReturned
<1>7. ASSUME NEW q \in Ids, Disconnect(q) PROVE UNCHANGED <<req, held>>
  BY <1>7 DEF Disconnect
<1>8. ASSUME (\E t \in Tenants \cup {NoTenant} : SelectTenant(t)) \/ Leave
      PROVE  UNCHANGED <<req, held>>
  BY <1>8 DEF SelectTenant, Leave
<1>9. CASE UNCHANGED vars  BY <1>9, <1>2 DEF vars
<1> QED BY <1>1, <1>2, <1>3, <1>4, <1>5, <1>6, <1>7, <1>8, <1>9, Steps

\* Every way out of the handler gives the connection back, and only there is
\* one held.
THEOREM Connections == Spec => []ConnectionsReturned
<1>1. ASSUME Init PROVE ConnectionsReturned
  <2>1. \A q \in Ids : req[q].stage \notin Handling
    BY <1>1 DEF Init, Unasked, Handling, Stages
  <2>2. held = {q \in Ids : req[q].stage \in Handling}  BY <1>1, <2>1 DEF Init
  <2>3. Cardinality(held) <= Pool  BY <1>1, FS_EmptySet, ChatAssumption DEF Init
  <2> QED BY <2>2, <2>3 DEF ConnectionsReturned
<1> QED BY TypeInit, TypeStep, ConnectionStep, <1>1, PTL DEF Spec

-----------------------------------------------------------------------------
\* Cutting the last of one more is taking the last of the rest.
LEMMA LastButOne ==
    ASSUME NEW n \in Nat, NEW S \in SUBSET Nat, IsFiniteSet(S),
           NEW m \in Nat, \A i \in S : i < m
    PROVE  Last(n + 1, S \cup {m}) \ Last(1, S \cup {m}) = Last(n, S)
<1> DEFINE T == S \cup {m}
           After(i, U) == {j \in U : j > i}
<1>1. ASSUME NEW i \in S
      PROVE  /\ Cardinality(After(i, S)) \in Nat
             /\ Cardinality(After(i, T)) = Cardinality(After(i, S)) + 1
  <2>1. After(i, T) = After(i, S) \cup {m} /\ m \notin After(i, S)  OBVIOUS
  <2>2. IsFiniteSet(After(i, S))  BY FS_Subset
  <2> HIDE DEF After
  <2> QED BY <2>1, <2>2, FS_AddElement, FS_CardinalityType
<1>2. Cardinality(After(m, T)) = 0
  <2>1. \A j \in T : ~ (j > m)
    <3>1. \A j \in S : j \in Nat /\ j < m  OBVIOUS
    <3> QED BY <3>1
  <2>2. After(m, T) = {}  BY <2>1
  <2> QED BY <2>2, FS_EmptySet
<1>3. \A i \in T : i \in Last(n + 1, T) \ Last(1, T) <=> i \in Last(n, S)
  <2>1. ASSUME NEW i \in S
        PROVE  i \in Last(n + 1, T) \ Last(1, T) <=> i \in Last(n, S)
    <3>1. i \in Last(n + 1, T) <=> Cardinality(After(i, T)) < n + 1  BY DEF Last
    <3>2. i \in Last(1, T) <=> Cardinality(After(i, T)) < 1  BY DEF Last
    <3>3. i \in Last(n, S) <=> Cardinality(After(i, S)) < n  BY DEF Last
    <3> HIDE DEF After, T
    <3> QED BY <1>1, <3>1, <3>2, <3>3
  <2>2. m \in Last(1, T)  BY <1>2 DEF Last
  <2>3. m \notin Last(n, S)  BY DEF Last
  <2> QED BY <2>1, <2>2, <2>3
<1>4. Last(n + 1, T) \subseteq T /\ Last(n, S) \subseteq T  BY DEF Last
<1> QED BY <1>3, <1>4

\* What send() sends along.
LEMMA SentHistory ==
    ASSUME TypeInv, NEW text \in Questions, Send(text)
    PROVE  History(messages') = {[at |-> i, msg |-> messages[i]] :
                                    i \in Last(Window, Kept(messages))}
<1> DEFINE n == Len(messages)
           K == Kept(messages)
<1>1. /\ n \in Nat /\ DOMAIN messages' = 1 .. (n + 2)
      /\ \A j \in 1 .. n : messages'[j] = messages[j]
      /\ messages'[n + 1] = Message("user", asked + 1, text)
      /\ messages'[n + 2] = Message("bot", asked + 1, "typing")
  BY SentMessages
<1>2. DOMAIN messages = 1 .. n  BY DEF TypeInv, TypeOK
<1>3. text \notin {"typing", "empty"}  BY ChatAssumption
<1>4. Kept(messages') = K \cup {n + 1}
  <2>1. \A j \in 1 .. n : j \in Kept(messages') <=> j \in K  BY <1>1, <1>2 DEF Kept
  <2>2. n + 1 \in Kept(messages') /\ n + 2 \notin Kept(messages')
    BY <1>1, <1>3 DEF Kept, Message
  <2>3. Kept(messages') \subseteq 1 .. (n + 2) /\ K \subseteq 1 .. n
    BY <1>1, <1>2 DEF Kept
  <2>4. n \in Nat  BY <1>1
  <2>5. \A j \in 1 .. (n + 2) : j \in 1 .. n \/ j = n + 1 \/ j = n + 2
    <3> HIDE DEF n
    <3> QED BY <2>4
  <2> HIDE DEF K, n
  <2> QED BY <2>1, <2>2, <2>3, <2>4, <2>5
<1>5. K \subseteq 1 .. n  BY <1>2 DEF Kept
<1>n. n \in Nat  BY <1>1
<1> HIDE DEF K, n
<1>6. IsFiniteSet(K)
  <2>1. IsFiniteSet(1 .. n)  BY <1>n, FS_Interval
  <2> QED BY <1>5, <2>1, FS_Subset
<1>7. Last(Window + 1, K \cup {n + 1}) \ Last(1, K \cup {n + 1}) = Last(Window, K)
  <2>1. K \in SUBSET Nat /\ \A i \in K : i < n + 1  BY <1>n, <1>5
  <2>2. n + 1 \in Nat /\ Window \in Nat  BY <1>n, ChatAssumption
  <2> QED BY <1>6, <2>1, <2>2, LastButOne
<1>8. History(messages') = {[at |-> i, msg |-> messages'[i]] : i \in Last(Window, K)}
  BY <1>4, <1>7 DEF History
<1>9. \A i \in Last(Window, K) : messages'[i] = messages[i]
  BY <1>1, <1>5 DEF Last
<1> QED BY <1>8, <1>9 DEF K

\* The greeting comes first.
GreetingFirst == \A i \in DOMAIN messages : messages[i].text = "greeting" => i = 1

LEMMA GreetingInit == Init => GreetingFirst
BY DEF Init, Greeting, GreetingFirst

LEMMA GreetingStep == TypeInv /\ GreetingFirst /\ [Next]_vars => GreetingFirst'
<1> SUFFICES ASSUME TypeInv, GreetingFirst, [Next]_vars PROVE GreetingFirst'  OBVIOUS
<1>t. messages \in Seq(Messages)  BY DEF TypeInv, TypeOK
<1>1. ASSUME NEW text \in Questions, Send(text) PROVE GreetingFirst'
  <2>1. \A j \in DOMAIN messages' :
           \/ j \in DOMAIN messages /\ messages'[j] = messages[j]
           \/ messages'[j] = Message("user", asked + 1, text)
           \/ messages'[j] = Message("bot", asked + 1, "typing")
    BY <1>1, SentMessages
  <2>2. text # "greeting"  BY ChatAssumption
  <2> QED BY <2>1, <2>2 DEF GreetingFirst, Message
<1>2. CASE UNCHANGED messages  BY <1>2 DEF GreetingFirst
<1>3. CASE Leave  BY <1>3 DEF Leave, Greeting, GreetingFirst
<1>4. ASSUME NEW q \in Ids, NEW text \in Replies, Settle(q, text) PROVE GreetingFirst'
  <2>1. /\ DOMAIN messages' = DOMAIN messages
        /\ \A i \in DOMAIN messages :
              \/ messages'[i] = messages[i]
              \/ messages'[i] = Message("bot", q, text)
    BY <1>4, <1>t, SettleMessages
  <2>2. text # "greeting"  BY DEF Replies, Answers
  <2> QED BY <2>1, <2>2 DEF GreetingFirst, Message
<1>5. ASSUME NEW q \in Ids, Deliver(q) PROVE GreetingFirst'
  <2>1. req[q].text \in Replies /\ Settle(q, req[q].text)
    BY <1>5 DEF Deliver, TypeInv, TextInv
  <2> QED BY <2>1, <1>4
<1>6. ASSUME NEW q \in Ids, Disconnect(q) PROVE GreetingFirst'
  <2>1. "failed" \in Replies /\ Settle(q, "failed")  BY <1>6 DEF Disconnect, Replies
  <2> QED BY <2>1, <1>4
<1>7. ASSUME NEW q \in Ids, Authenticate(q) \/ Forward(q) \/ \E text \in Replies : Ends(q, text)
      PROVE  UNCHANGED messages
  BY <1>7 DEF Authenticate, Forward, Ends, page
<1>8. ASSUME (\E t \in Tenants \cup {NoTenant} : SelectTenant(t)) \/ UNCHANGED vars
      PROVE  UNCHANGED messages
  BY <1>8 DEF SelectTenant, vars
<1> QED BY <1>1, <1>2, <1>3, <1>5, <1>6, <1>7, <1>8, Steps

\* Nothing comes before the greeting, so the last messages but for the greeting
\* are the last turns.
LEMMA LastTurns ==
    ASSUME TypeInv, GreetingFirst
    PROVE  {i \in Last(Window, Kept(messages)) : messages[i].text # "greeting"}
              = Last(Window, Turns(messages))
<1> DEFINE K == Kept(messages)
           T == Turns(messages)
<1>1. K \subseteq DOMAIN messages /\ \A i \in DOMAIN messages : i \in Nat /\ i >= 1
  BY DEF TypeInv, TypeOK, Kept
<1>2. T = {i \in K : messages[i].text # "greeting"}  BY DEF Turns
<1>3. \A j \in K : j \in T \/ j = 1  BY <1>1, <1>2 DEF GreetingFirst
<1>4. ASSUME NEW i \in T PROVE {j \in T : j > i} = {j \in K : j > i}
  <2>1. i \in Nat /\ ~(1 > i)  BY <1>1, <1>2
  <2>2. T \subseteq K  BY <1>2
  <2> HIDE DEF K, T
  <2> QED BY <1>3, <2>1, <2>2
<1> HIDE DEF K, T
<1>5. Last(Window, K) \subseteq K /\ Last(Window, T) \subseteq T  BY DEF Last
<1>6. \A i \in T : i \in Last(Window, T) <=> i \in Last(Window, K)
  BY <1>2, <1>4 DEF Last
<1> QED BY <1>2, <1>5, <1>6 DEF K, T

\* Of the conversation, a question is sent with exactly the last turns before it,
\* none of which is a question still being answered.
THEOREM HistoryPast == Spec => HistoryIsPast
<1> DEFINE talk(q) == {turn \in req'[q].history : turn.msg.text # "greeting"}
           turns == {[at |-> i, msg |-> messages[i]] : i \in Last(Window, Turns(messages))}
           A == \A q \in Ids : req[q].stage = "unasked" /\ req'[q].stage = "sent" =>
                   /\ talk(q) = turns
                   /\ \A turn \in talk(q) : ~Awaited(turn.msg.of)
<1>1. ASSUME TypeInv, TypingInv, GreetingFirst, [Next]_vars PROVE [A]_vars
  <2> SUFFICES ASSUME NEW q \in Ids, req[q].stage = "unasked", req'[q].stage = "sent"
               PROVE  talk(q) = turns /\ \A turn \in talk(q) : ~Awaited(turn.msg.of)
    OBVIOUS
  <2>t. req \in [Ids -> Requests]  BY <1>1 DEF TypeInv, TypeOK, Requests
  <2>1. CASE \E text \in Questions : Send(text)
    <3>1. PICK text \in Questions : Send(text)  BY <2>1
    <3>2. q = asked + 1 /\ req'[q].history = History(messages')
      <4>1. req' = [req EXCEPT ![asked + 1] =
                      [stage |-> "sent", tenant |-> tenant, text |-> text,
                       history |-> History(messages')]]
        BY <3>1 DEF Send
      <4> QED BY <2>t, <4>1
    <3>3. talk(q) = turns
      <4>1. req'[q].history = {[at |-> i, msg |-> messages[i]] :
                                  i \in Last(Window, Kept(messages))}
        BY <1>1, <3>1, <3>2, SentHistory
      <4>2. {i \in Last(Window, Kept(messages)) : messages[i].text # "greeting"}
               = Last(Window, Turns(messages))
        BY <1>1, LastTurns
      <4>3. talk(q) = {[at |-> i, msg |-> messages[i]] :
                          i \in {j \in Last(Window, Kept(messages)) :
                                   messages[j].text # "greeting"}}
        BY <4>1
      <4> QED BY <4>2, <4>3
    <3>4. ~botTyping  BY <3>1 DEF Send
    <3>5. \A i \in DOMAIN messages : messages[i].text # "typing"
      BY <1>1, <3>4 DEF TypingInv, TypingTruthful, DotsAreBots, Awaited
    <3>6. \A p : ~Awaited(p)  BY <3>5 DEF Awaited, Message
    <3> QED BY <3>3, <3>6
  <2>2. CASE ~\E text \in Questions : Send(text)
    <3>1. ASSUME NEW p \in Ids, Deliver(p) PROVE FALSE
      <4>1. req' = [req EXCEPT ![p] = [Unasked EXCEPT !.stage = "done"]]
        BY <3>1 DEF Deliver
      <4> QED BY <2>t, <4>1 DEF Unasked
    <3>2. ASSUME NEW p \in Ids, Authenticate(p) PROVE FALSE
      BY <2>t, <3>2 DEF Authenticate, Requests
    <3>3. ASSUME NEW p \in Ids, Forward(p) PROVE FALSE
      BY <2>t, <3>3 DEF Forward, Handling
    <3>4. ASSUME NEW p \in Ids, NEW text \in Replies, Ends(p, text) PROVE FALSE
      BY <2>t, <3>4 DEF Ends, Reply, Requests
    <3>5. ASSUME req' = req PROVE FALSE  BY <3>5
    <3>6. ASSUME NEW p \in Ids, Disconnect(p) PROVE FALSE  BY <3>5, <3>6 DEF Disconnect
    <3>7. ASSUME (\E t \in Tenants \cup {NoTenant} : SelectTenant(t)) \/ Leave PROVE FALSE
      BY <3>5, <3>7 DEF SelectTenant, Leave
    <3>8. ASSUME UNCHANGED vars PROVE FALSE  BY <3>5, <3>8 DEF vars
    <3> QED BY <1>1, <2>2, <3>1, <3>2, <3>3, <3>4, <3>6, <3>7, <3>8, Steps
  <2> QED BY <2>1, <2>2
<1> QED BY TypeInit, TypeStep, TypingInit, TypingStep, GreetingInit, GreetingStep, <1>1, PTL
        DEF Spec, HistoryIsPast

-----------------------------------------------------------------------------
(* What TypingEnds rests on: a request only goes on, every step that serves *)
(* it takes it further, and what the page awaits is the answer of a request *)
(* that is under way.                                                       *)

Order(stage) ==
    CASE stage = "unasked"  -> 0
      [] stage = "sent"     -> 1
      [] stage = "read"     -> 2
      [] stage = "condense" -> 3
      [] stage = "embed"    -> 4
      [] stage = "search"   -> 5
      [] stage = "generate" -> 6
      [] stage = "guide"    -> 7
      [] stage = "save"     -> 8
      [] stage \in {"flushed", "inactive"} -> 9
      [] stage = "reply"    -> 10
      [] OTHER              -> 11

Further(q) == Order(req'[q].stage) > Order(req[q].stage)

RequestsAdvance ==
    [][\A q \in Ids : /\ Further(q) \/ req'[q].stage = req[q].stage
                      /\ Serve(q) => Further(q)]_vars

AwaitedIsServed == \A q \in Ids : Awaited(q) => req[q].stage \notin {"unasked", "done"}

\* A question has one row, and it is there when its answer leaves.
OneRowEach ==
    /\ \A r \in rows : req[r.question].stage \in {"reply", "done"}
    /\ \A r1, r2 \in rows : r1.question = r2.question => r1 = r2

LEMMA Served ==
    ASSUME TypeInv, NEW q \in Ids, Serve(q)
    PROVE  Further(q) /\ \A p \in Ids : p # q => req'[p] = req[p]
<1>t. req \in [Ids -> Requests]  BY DEF TypeInv, TypeOK, Requests
<1>r. ASSUME NEW text, Reply(q, text)
      PROVE  req'[q].stage = "reply" /\ \A p \in Ids : p # q => req'[p] = req[p]
  BY <1>r, <1>t DEF Reply, Requests
<1>s. ASSUME NEW from, NEW to, Step(q, from, to)
      PROVE  /\ req[q].stage = from /\ req'[q].stage = to
             /\ \A p \in Ids : p # q => req'[p] = req[p]
  BY <1>s, <1>t DEF Step, Requests
<1>1. CASE Authenticate(q)
  BY <1>1, <1>t DEF Authenticate, Requests, Further, Order
<1>2. CASE PoolTimeout(q) \/ CommitInactive(q) \/ Commit(q)
  <2>1. req[q].stage \in {"sent", "flushed", "inactive"} /\ \E text : Reply(q, text)
    BY <1>2 DEF PoolTimeout, CommitInactive, Commit
  <2> QED  BY <1>r, <2>1 DEF Further, Order
<1>3. CASE Validate(q)
  <2>1. CASE Valid(req[q])
    <3>1. Step(q, "read", "condense")  BY <1>3, <2>1 DEF Validate
    <3> QED  BY <1>s, <3>1 DEF Further, Order
  <2>2. CASE ~Valid(req[q])
    <3>1. req[q].stage = "read" /\ Reply(q, "failed")  BY <1>3, <2>2 DEF Validate
    <3> QED  BY <1>r, <3>1 DEF Further, Order
  <2> QED  BY <2>1, <2>2
<1>4. CASE Condense(q)
  BY <1>4, <1>t DEF Condense, Requests, Further, Order
<1>5. CASE Embed(q)
  BY <1>5, <1>s DEF Embed, Further, Order
<1>6. CASE Search(q)
  <2>1. CASE Step(q, "search", "generate")
    BY <1>s, <2>1 DEF Further, Order
  <2>2. CASE ~Step(q, "search", "generate")
    <3>1. /\ req[q].stage = "search"
          /\ req' = [req EXCEPT ![q].stage = "save", ![q].text = "none found"]
      BY <1>6, <2>2 DEF Search
    <3>2. req'[q].stage = "save" /\ \A p \in Ids : p # q => req'[p] = req[p]
      BY <1>t, <3>1 DEF Requests
    <3>3. req[q].stage = "search"  BY <3>1
    <3> QED  BY <3>2, <3>3 DEF Further, Order
  <2> QED  BY <2>1, <2>2
<1>7. CASE Generate(q)
  <2>1. PICK text : req' = [req EXCEPT ![q].stage = "guide", ![q].text = text]
    BY <1>7 DEF Generate
  <2>2. req[q].stage = "generate"  BY <1>7 DEF Generate
  <2> QED  BY <1>t, <2>1, <2>2 DEF Requests, Further, Order
<1>8. CASE Guide(q)
  <2>1. PICK text : req' = [req EXCEPT ![q].stage = "save", ![q].text = text]
    BY <1>8 DEF Guide
  <2>2. req[q].stage = "guide"  BY <1>8 DEF Guide
  <2> QED  BY <1>t, <2>1, <2>2 DEF Requests, Further, Order
<1>9. CASE Save(q)
  <2>1. Step(q, "save", "flushed") \/ Step(q, "save", "inactive")  BY <1>9 DEF Save
  <2> QED  BY <1>s, <2>1 DEF Further, Order
<1>10. CASE Deliver(q)
  BY <1>10, <1>t DEF Deliver, Unasked, Further, Order
<1> QED
  BY <1>1, <1>2, <1>3, <1>4, <1>5, <1>6, <1>7, <1>8, <1>9, <1>10 DEF Serve

LEMMA OnlyFurther ==
    ASSUME TypeInv, [Next]_vars, NEW q \in Ids
    PROVE  Further(q) \/ req'[q].stage = req[q].stage
<1>t. req \in [Ids -> Requests]  BY DEF TypeInv, TypeOK, Requests
<1>1. ASSUME NEW p \in Ids, Serve(p) PROVE Further(q) \/ req'[q].stage = req[q].stage
  BY <1>1, Served
<1>2. ASSUME NEW p \in Ids, Unauthorised(p) \/ Fail(p) \/ CommitFails(p) \/ Crash(p)
      PROVE  Further(q) \/ req'[q].stage = req[q].stage
  <2>1. req[p].stage \in Handling \cup {"sent", "reply"} /\ Reply(p, "failed")
    BY <1>2 DEF Unauthorised, Fail, CommitFails, Crash, Handling, Stages
  <2>2. req'[p].stage = "reply" /\ (p # q => req'[q] = req[q])
    BY <1>t, <2>1 DEF Reply, Requests
  <2> QED  BY <2>1, <2>2 DEF Further, Order, Handling, Stages
<1>3. ASSUME NEW text \in Questions, Send(text) PROVE Further(q) \/ req'[q].stage = req[q].stage
  <2>1. req' = [req EXCEPT ![asked + 1] = [stage |-> "sent", tenant |-> tenant, text |-> text,
                                           history |-> History(messages')]]
    BY <1>3 DEF Send
  <2>2. asked + 1 \in Ids /\ asked \in Nat
    BY <1>3, SendMessages, ChatAssumption DEF TypeInv, TypeOK
  <2>3. req[asked + 1].stage = "unasked"
    BY <2>2 DEF TypeInv, TextInv
  <2>4. req'[asked + 1].stage = "sent" /\ (q # asked + 1 => req'[q] = req[q])
    BY <1>t, <2>1, <2>2
  <2> QED  BY <2>3, <2>4 DEF Further, Order
<1>4. CASE UNCHANGED req  BY <1>4
<1>5. ASSUME (\E p \in Ids : Disconnect(p)) \/ (\E t \in Tenants \cup {NoTenant} : SelectTenant(t))
             \/ Leave \/ UNCHANGED vars
      PROVE  UNCHANGED req
  BY <1>5 DEF Disconnect, SelectTenant, Leave, vars
<1> QED
  BY <1>1, <1>2, <1>3, <1>4, <1>5 DEF Next

LEMMA AwaitedStep ==
    ASSUME TypeInv, AwaitedIsServed, [Next]_vars
    PROVE  AwaitedIsServed'
<1>t. req \in [Ids -> Requests]  BY DEF TypeInv, TypeOK, Requests
<1>u. messages \in Seq(Messages)  BY DEF TypeInv, TypeOK
<1>o. ASSUME NEW q \in Ids, req[q].stage # "unasked" PROVE req'[q].stage # "unasked"
  <2>1. req[q].stage \in Stages  BY <1>t DEF Requests
  <2> QED  BY <1>o, <2>1, OnlyFurther DEF Further, Order, Stages
<1>1. ASSUME NEW text \in Questions, Send(text), NEW q \in Ids, Awaited(q)'
      PROVE  req'[q].stage \notin {"unasked", "done"}
  <2>1. req' = [req EXCEPT ![asked + 1] = [stage |-> "sent", tenant |-> tenant, text |-> text,
                                           history |-> History(messages')]]
    BY <1>1 DEF Send
  <2>2. CASE q = asked + 1
    BY <1>t, <2>1, <2>2
  <2>3. CASE q # asked + 1
    <3>1. Awaited(q)
      <4> DEFINE n == Len(messages)
      <4>1. /\ messages'[n + 1] = Message("user", asked + 1, text)
            /\ messages'[n + 2] = Message("bot", asked + 1, "typing")
            /\ \A j \in DOMAIN messages' :
                  \/ j \in DOMAIN messages /\ messages'[j] = messages[j]
                  \/ j = n + 1 \/ j = n + 2
        BY <1>1, SentMessages
      <4>2. PICK j \in DOMAIN messages' : messages'[j] = Message("bot", q, "typing")
        BY <1>1 DEF Awaited
      <4>3. /\ Message("bot", q, "typing") # Message("user", asked + 1, text)
            /\ Message("bot", q, "typing") # Message("bot", asked + 1, "typing")
        BY <2>3 DEF Message
      <4> QED  BY <4>1, <4>2, <4>3 DEF Awaited
    <3> QED  BY <1>t, <2>1, <2>3, <3>1 DEF AwaitedIsServed
  <2> QED  BY <2>2, <2>3
<1>2. ASSUME NEW q \in Ids, NEW p \in Ids, NEW text \in Replies, Settle(p, text), Awaited(q)'
      PROVE  Awaited(q) /\ q # p
  <2>1. /\ DOMAIN messages' = DOMAIN messages
        /\ \A i \in DOMAIN messages :
              messages'[i] = IF messages[i] = Message("bot", p, "typing")
                             THEN Message("bot", p, text) ELSE messages[i]
    BY <1>2, <1>u, SettleMessages
  <2>2. text # "typing"  BY DEF Replies, Answers
  <2> QED  BY <1>2, <2>1, <2>2 DEF Awaited, Message
<1>3. ASSUME NEW p \in Ids, Deliver(p), NEW q \in Ids, Awaited(q)'
      PROVE  req'[q].stage \notin {"unasked", "done"}
  <2>1. req[p].text \in Replies /\ Settle(p, req[p].text)
    BY <1>3 DEF Deliver, TypeInv, TextInv
  <2>2. Awaited(q) /\ q # p  BY <1>2, <1>3, <2>1
  <2>3. req'[q] = req[q]  BY <1>3, <1>t, <2>2 DEF Deliver
  <2> QED  BY <2>2, <2>3 DEF AwaitedIsServed
<1>4. ASSUME NEW p \in Ids, Disconnect(p), NEW q \in Ids, Awaited(q)'
      PROVE  req'[q].stage \notin {"unasked", "done"}
  <2>1. "failed" \in Replies /\ Settle(p, "failed") /\ req' = req
    BY <1>4 DEF Disconnect, Replies
  <2> QED  BY <1>2, <1>4, <2>1 DEF AwaitedIsServed
<1>5. ASSUME NEW p \in Ids, Authenticate(p) \/ Forward(p) \/ \E text \in Replies : Ends(p, text)
      PROVE  AwaitedIsServed'
  <2>1. messages' = messages
    BY <1>5 DEF Authenticate, Forward, Ends, page
  <2>2. \A q \in Ids : req'[q] = req[q] \/ req'[q].stage \notin {"unasked", "done"}
    BY <1>5, <1>t DEF Authenticate, Forward, Ends, Reply, Requests, Handling
  <2> QED  BY <2>1, <2>2 DEF AwaitedIsServed, Awaited
<1>6. CASE Leave
  <2>1. \A i \in DOMAIN Greeting : Greeting[i].text = "greeting"
    BY DEF Greeting, Message
  <2> QED  BY <1>6, <2>1 DEF Leave, AwaitedIsServed, Awaited, Message
<1>7. ASSUME (\E t \in Tenants \cup {NoTenant} : SelectTenant(t)) \/ UNCHANGED vars
      PROVE  AwaitedIsServed'
  BY <1>7 DEF SelectTenant, vars, AwaitedIsServed, Awaited
<1> QED
  BY <1>1, <1>3, <1>4, <1>5, <1>6, <1>7, Steps DEF AwaitedIsServed

LEMMA OneRowStep ==
    ASSUME TypeInv, OneRowEach, [Next]_vars
    PROVE  OneRowEach'
<1>t. req \in [Ids -> Requests] /\ \A r \in rows : r.question \in Ids
  BY DEF TypeInv, TypeOK, Requests
<1>1. ASSUME NEW q \in Ids, req[q].stage \in {"reply", "done"} PROVE req'[q].stage \in {"reply", "done"}
  <2>1. req[q].stage \in Stages /\ req'[q].stage \in Stages
    <3>1. TypeInv'  BY TypeStep
    <3> QED  BY <1>t, <3>1 DEF Requests, TypeInv, TypeOK
  <2> QED  BY <1>1, <2>1, OnlyFurther DEF Further, Order, Stages
<1>2. CASE rows' = rows
  BY <1>t, <1>1, <1>2 DEF OneRowEach
<1>3. ASSUME NEW q \in Ids, NEW a, rows' = rows \cup {Row(q, a)},
             req[q].stage = "flushed", Reply(q, req'[q].text)
      PROVE  OneRowEach'
  <2>1. Row(q, a).question = q  BY DEF Row
  <2>2. \A r \in rows : r.question # q  BY <1>3 DEF OneRowEach
  <2>3. req'[q].stage = "reply"  BY <1>3, <1>t DEF Reply, Requests
  <2> QED  BY <1>t, <1>1, <1>3, <2>1, <2>2, <2>3 DEF OneRowEach
<1>4. ASSUME NEW q \in Ids, Commit(q) \/ CommitFails(q) PROVE OneRowEach'
  <2>1. req[q].stage = "flushed" /\ (rows' = rows \/ rows' = rows \cup {Row(q, req[q].text)})
    BY <1>4 DEF Commit, CommitFails, Row
  <2>2. PICK text : Reply(q, text)
    BY <1>4 DEF Commit, CommitFails
  <2>3. req'[q].text = text
    BY <1>t, <2>2 DEF Reply, Requests
  <2> QED  BY <1>2, <1>3, <2>1, <2>2, <2>3
<1>5. CASE ~\E q \in Ids : Commit(q) \/ CommitFails(q)
  <2>1. rows' = rows
    BY <1>5 DEF Next, Serve, Send, SelectTenant, Leave, Authenticate, PoolTimeout, Validate, Condense,
       Embed, Search, Generate, Guide, Save, CommitInactive, Deliver, Unauthorised, Fail, Crash,
       Disconnect, Step, vars
  <2> QED  BY <1>2, <2>1
<1> QED
  BY <1>4, <1>5

\* No question is forgotten or answered twice over: while the page awaits an answer
\* its request is under way, requests only go on and every step that serves one takes
\* it a stage further, and each leaves at most one row of the conversation, however
\* pages are left, calls fail and commits end.
THEOREM RequestsEnd == Spec => [](AwaitedIsServed /\ OneRowEach) /\ RequestsAdvance
<1> DEFINE A == \A q \in Ids : /\ Further(q) \/ req'[q].stage = req[q].stage
                               /\ Serve(q) => Further(q)
<1>1. Init => AwaitedIsServed /\ OneRowEach
  <2> SUFFICES ASSUME Init PROVE AwaitedIsServed /\ OneRowEach  OBVIOUS
  <2>1. \A i \in DOMAIN messages : messages[i].text = "greeting"
    BY DEF Init, Greeting, Message
  <2> QED  BY <2>1 DEF Init, AwaitedIsServed, OneRowEach, Awaited, Message
<1>2. TypeInv /\ AwaitedIsServed /\ OneRowEach /\ [Next]_vars => AwaitedIsServed' /\ OneRowEach'
  BY AwaitedStep, OneRowStep
<1>3. TypeInv /\ [Next]_vars => [A]_vars
  BY OnlyFurther, Served
<1> QED
  BY TypeInit, TypeStep, <1>1, <1>2, <1>3, PTL DEF Spec, RequestsAdvance

\* A question has at most one row, and the row never says otherwise than the answer
\* under the question on the screen, whichever calls and commits fail and however
\* late an answer comes.
THEOREM Recorded == Spec => []HistoryTruthful
<1>1. ShownIsRecorded /\ OneRowEach => HistoryTruthful
  BY DEF ShownIsRecorded, OneRowEach, HistoryTruthful
<1>2. RecordInv => ShownIsRecorded  BY DEF RecordInv
<1> QED BY TypeInit, TypeStep, RecordInit, RecordStep, RequestsEnd, <1>1, <1>2, PTL DEF Spec
=============================================================================
