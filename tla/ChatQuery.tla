----------------------------- MODULE ChatQuery -----------------------------
(***************************************************************************)
(* A question from the chat page to its answer: send() of the Angular      *)
(* ChatComponent and POST /query behind it, up to the history row that the *)
(* request commits.                                                        *)
(*                                                                         *)
(* One page asks one question at a time, but a page that is left, or whose *)
(* connection breaks, does not stop the request it sent: requests overlap  *)
(* on the server, where each holds a database connection from the          *)
(* authentication to the commit.                                           *)
(*                                                                         *)
(* Questions are numbered in the order they are asked.  Of a text only     *)
(* its length matters: a "lengthy" one is over the 500 characters of a     *)
(* question, a "huge" one over the 4000 of a history turn too.  Vectors,   *)
(* prompts and sources are left out.                                       *)
(***************************************************************************)
EXTENDS Naturals, Sequences, FiniteSets

CONSTANTS
    Tenants, NoTenant,
    Questions,      \* the kinds of question that are asked
    Window,         \* messages of history sent along: 6
    Pool,           \* DB_POOL_SIZE_MAX
    Faults,         \* the kinds of failure that occur
    MaxQuestions, MaxMessages       \* bounds

ASSUME ChatAssumption ==
    /\ NoTenant \notin Tenants
    /\ Questions \subseteq {"question", "lengthy", "huge"}
    /\ Window \in Nat
    /\ Pool \in Nat
    /\ Faults \subseteq {"auth", "call", "flush", "commit", "crash", "disconnect"}
    /\ MaxQuestions \in Nat
    /\ MaxMessages \in Nat

VARIABLES
    tenant,         \* the header's selection, or the company of the user
    messages,       \* the signals of the component that is on the screen
    botTyping,
    asked,          \* questions sent so far
    req,            \* the request of each question
    held,           \* questions whose request holds a connection
    rows            \* conversation_history, committed
vars == <<tenant, messages, botTyping, asked, req, held, rows>>

Ids == 1 .. MaxQuestions

Answers == {"answer", "huge", "empty", "refusal", "guided", "none found"}
Texts   == Answers \cup {"question", "lengthy", "typing", "failed", "greeting"}

\* Message of the component; of is the question it asks or answers.
Message(role, q, text) == [role |-> role, of |-> q, text |-> text]
Messages == [role : {"user", "bot"}, of : Nat, text : Texts]

Greeting == <<Message("bot", 0, "greeting")>>

\* The page awaits the answer to q: its typing dots are on the screen.
Awaited(q) == \E i \in DOMAIN messages : messages[i] = Message("bot", q, "typing")

Unasked == [stage |-> "unasked", tenant |-> NoTenant, text |-> "empty", history |-> {}]

Stages == {"unasked", "sent", "read", "condense", "embed", "search", "generate",
           "guide", "save", "flushed", "inactive", "reply", "done"}

\* Between the authentication and the end of get_db.
Handling == Stages \ {"unasked", "sent", "reply", "done"}

TypeOK ==
    /\ tenant \in Tenants \cup {NoTenant}
    /\ messages \in Seq(Messages)
    /\ botTyping \in BOOLEAN
    /\ asked \in 0 .. MaxQuestions
    /\ req \in [Ids -> [stage : Stages, tenant : Tenants \cup {NoTenant}, text : Texts,
                        history : SUBSET [at : Nat, msg : Messages]]]
    /\ held \subseteq Ids
    /\ rows \subseteq [question : Ids, tenant : Tenants \cup {NoTenant}, answer : Answers]

Init ==
    /\ tenant \in Tenants \cup {NoTenant}
    /\ messages = Greeting
    /\ botTyping = FALSE
    /\ asked = 0
    /\ req = [q \in Ids |-> Unasked]
    /\ held = {}
    /\ rows = {}

-----------------------------------------------------------------------------
(* The page.                                                               *)

\* filter(m => !m.typing && m.text), as positions.
Kept(ms) == {i \in DOMAIN ms : ms[i].text \notin {"typing", "empty"}}

\* The turns of the conversation among them: all but the greeting.
Turns(ms) == {i \in Kept(ms) : ms[i].text # "greeting"}

Last(n, S) == {i \in S : Cardinality({j \in S : j > i}) < n}

\* (variant) slice(-Window): the question itself is not cut off.
HistoryWithQuestion(ms) ==
    {[at |-> i, msg |-> ms[i]] : i \in Last(Window, Kept(ms))}

\* slice(-7, -1) of what is kept, the question having been pushed.
History(ms) ==
    {[at |-> i, msg |-> ms[i]] : i \in Last(Window + 1, Kept(ms)) \ Last(1, Kept(ms))}

\* send().  Without a tenant the page disables its input.
Send(text) ==
    LET q     == asked + 1
        shown == messages \o <<Message("user", q, text), Message("bot", q, "typing")>>
    IN  /\ ~botTyping
        /\ tenant # NoTenant
        /\ q <= MaxQuestions
        /\ Len(shown) <= MaxMessages
        /\ messages' = shown
        /\ botTyping' = TRUE
        /\ asked' = q
        /\ req' = [req EXCEPT ![q] = [stage |-> "sent", tenant |-> tenant, text |-> text,
                                      history |-> History(shown)]]
        /\ UNCHANGED <<tenant, held, rows>>

\* (variant) a late answer clears the typing flag of the component now shown.
SettleAny(q, text) ==
    /\ messages' = [i \in DOMAIN messages |->
                      IF messages[i] = Message("bot", q, "typing")
                      THEN Message("bot", q, text) ELSE messages[i]]
    /\ botTyping' = FALSE

\* (variant) only an answer ends the typing: no finally.
SettleAnswered(q, text) ==
    /\ messages' = [i \in DOMAIN messages |->
                      IF messages[i] = Message("bot", q, "typing")
                      THEN Message("bot", q, text) ELSE messages[i]]
    /\ botTyping' = (botTyping /\ ~(Awaited(q) /\ text # "failed"))

\* (variant) the dots on the screen are replaced, not those of the question.
SettleDots(q, text) ==
    /\ messages' = [i \in DOMAIN messages |->
                      IF messages[i].text = "typing"
                      THEN [messages[i] EXCEPT !.text = text] ELSE messages[i]]
    /\ botTyping' = (botTyping /\ ~Awaited(q))

\* The continuation of send().  In a component that has been left it writes
\* signals nobody sees.
Settle(q, text) ==
    /\ messages' = [i \in DOMAIN messages |->
                      IF messages[i] = Message("bot", q, "typing")
                      THEN Message("bot", q, text) ELSE messages[i]]
    /\ botTyping' = (botTyping /\ ~Awaited(q))

Deliver(q) ==
    /\ req[q].stage = "reply"
    /\ Settle(q, req[q].text)
    /\ req' = [req EXCEPT ![q] = [Unasked EXCEPT !.stage = "done"]]
    /\ UNCHANGED <<tenant, asked, held, rows>>

\* The connection breaks; the server does not learn of it.
Disconnect(q) ==
    /\ "disconnect" \in Faults
    /\ Awaited(q)
    /\ Settle(q, "failed")
    /\ UNCHANGED <<tenant, asked, req, held, rows>>

\* The user goes to another page and comes back to a new component.
Leave ==
    /\ messages # Greeting
    /\ messages' = Greeting
    /\ botTyping' = FALSE
    /\ UNCHANGED <<tenant, asked, req, held, rows>>

\* A superadmin chooses in the header; a user of one company never does.
SelectTenant(t) ==
    /\ tenant' = t
    /\ UNCHANGED <<messages, botTyping, asked, req, held, rows>>

-----------------------------------------------------------------------------
(* The server.                                                             *)
page == <<tenant, messages, botTyping, asked>>

Step(q, from, to) ==
    /\ req[q].stage = from
    /\ req' = [req EXCEPT ![q].stage = to]
    /\ UNCHANGED <<page, held, rows>>

\* The request ends: get_db gives the connection back and then the response
\* is sent.
Reply(q, text) ==
    /\ req' = [req EXCEPT ![q].stage = "reply", ![q].text = text, ![q].history = {}]
    /\ held' = held \ {q}

\* get_current_user reads the user, and so takes a connection of the pool.
Authenticate(q) ==
    /\ req[q].stage = "sent"
    /\ Cardinality(held) < Pool
    /\ req' = [req EXCEPT ![q].stage = "read"]
    /\ held' = held \cup {q}
    /\ UNCHANGED <<page, rows>>

\* No connection within DB_POOL_TIMEOUT.
PoolTimeout(q) ==
    /\ req[q].stage = "sent"
    /\ Cardinality(held) >= Pool
    /\ Reply(q, "failed")
    /\ UNCHANGED <<page, rows>>

\* The cookie has expired or the user is inactive: 401.
Unauthorised(q) ==
    /\ "auth" \in Faults
    /\ req[q].stage \in {"sent", "read"}
    /\ Reply(q, "failed")
    /\ UNCHANGED <<page, rows>>

\* The limits of QueryRequest: 500 characters of question, 4000 of each turn.
Valid(r) ==
    /\ r.text = "question"
    /\ \A turn \in r.history : turn.msg.text # "huge"

Validate(q) ==
    IF Valid(req[q])
    THEN Step(q, "read", "condense")
    ELSE /\ req[q].stage = "read"
         /\ Reply(q, "failed")
         /\ UNCHANGED <<page, rows>>

\* condense_question: rewritten from the history or, if that fails, as asked.
Condense(q) ==
    /\ req[q].stage = "condense"
    /\ req' = [req EXCEPT ![q].stage = "embed", ![q].history = {}]
    /\ UNCHANGED <<page, held, rows>>

Embed(q) == Step(q, "embed", "search")

\* search(): some chunks, or the answer that there are none.
Search(q) ==
    \/ Step(q, "search", "generate")
    \/ /\ req[q].stage = "search"
       /\ req' = [req EXCEPT ![q].stage = "save", ![q].text = "none found"]
       /\ UNCHANGED <<page, held, rows>>

\* (variant) no content becomes no text instead of an empty one.
GenerateNull(q) ==
    /\ req[q].stage = "generate"
    /\ \E text \in {"answer", "huge", "null", "refusal"} :
          req' = [req EXCEPT ![q].stage = "guide", ![q].text = text]
    /\ UNCHANGED <<page, held, rows>>

\* File names and code paths are read, then generate_answer; the answer is
\* cut at 2048 tokens and may be empty.
Generate(q) ==
    /\ req[q].stage = "generate"
    /\ \E text \in {"answer", "huge", "empty", "refusal"} :
          req' = [req EXCEPT ![q].stage = "guide", ![q].text = text]
    /\ UNCHANGED <<page, held, rows>>

\* _maybe_guided, if the answer is 未找到; then the sources.
Guide(q) ==
    /\ req[q].stage = "guide"
    /\ \E text \in {req[q].text} \cup {t \in {"guided"} : req[q].text = "refusal"} :
          req' = [req EXCEPT ![q].stage = "save", ![q].text = text]
    /\ UNCHANGED <<page, held, rows>>

\* (variant) an error leaves the handler without the dependency's exit.
FailLeaking(q) ==
    /\ "call" \in Faults
    /\ req[q].stage \in {"read", "embed", "search", "generate", "guide"}
    /\ req' = [req EXCEPT ![q].stage = "reply", ![q].text = "failed", ![q].history = {}]
    /\ UNCHANGED <<page, held, rows>>

\* A query, the embedding after its retries, Qdrant or Gemini fails: nothing
\* on the way catches it.
Fail(q) ==
    /\ "call" \in Faults
    /\ req[q].stage \in {"read", "embed", "search", "generate", "guide"}
    /\ Reply(q, "failed")
    /\ UNCHANGED <<page, rows>>

\* _save_history flushes the row.  When the flush fails it is logged and
\* skipped, but SQLAlchemy has made the transaction inactive.  (UUID() accepts
\* the company: the page has it from the list of companies.)
Save(q) ==
    \/ Step(q, "save", "flushed")
    \/ "flush" \in Faults /\ Step(q, "save", "inactive")

\* get_db commits when the handler has returned, before the response is sent.
Commit(q) ==
    /\ req[q].stage = "flushed"
    /\ rows' = rows \cup {[question |-> q, tenant |-> req[q].tenant,
                           answer |-> req[q].text]}
    /\ Reply(q, req[q].text)
    /\ UNCHANGED page

\* The commit fails, or its outcome is not known; the error is raised.
CommitFails(q) ==
    /\ "commit" \in Faults
    /\ req[q].stage = "flushed"
    /\ rows' \in {rows, rows \cup {[question |-> q, tenant |-> req[q].tenant,
                                    answer |-> req[q].text]}}
    /\ Reply(q, "failed")
    /\ UNCHANGED page

\* commit() of an inactive transaction raises PendingRollbackError.
CommitInactive(q) ==
    /\ req[q].stage = "inactive"
    /\ Reply(q, "failed")
    /\ UNCHANGED <<page, rows>>

\* The instance dies.
Crash(q) ==
    /\ "crash" \in Faults
    /\ req[q].stage \in Handling \cup {"sent", "reply"}
    /\ Reply(q, "failed")
    /\ UNCHANGED <<page, rows>>

-----------------------------------------------------------------------------
\* What brings a request forward, once it has been sent.
Serve(q) ==
    \/ Authenticate(q) \/ PoolTimeout(q) \/ Validate(q)
    \/ Condense(q) \/ Embed(q) \/ Search(q) \/ Generate(q) \/ Guide(q)
    \/ Save(q) \/ Commit(q) \/ CommitInactive(q)
    \/ Deliver(q)

Next ==
    \/ \E text \in Questions : Send(text)
    \/ \E t \in Tenants \cup {NoTenant} : SelectTenant(t)
    \/ Leave
    \/ \E q \in Ids :
         \/ Serve(q)
         \/ Unauthorised(q) \/ Fail(q) \/ CommitFails(q) \/ Crash(q) \/ Disconnect(q)

Spec == Init /\ [][Next]_vars

FairSpec == Spec /\ \A q \in Ids : WF_vars(Serve(q))

-----------------------------------------------------------------------------
\* The history never says otherwise than the chat has shown: a question has one
\* row at most, and if it has one, the row's answer is the one under the question
\* on the screen, whichever pages were left and whatever fails or comes late.  (The
\* row itself is best effort, query.py:102.)
HistoryTruthful ==
    /\ \A r1, r2 \in rows : r1.question = r2.question => r1 = r2
    /\ \A i \in DOMAIN messages, r \in rows :
          /\ messages[i].role = "bot" /\ messages[i].text \in Answers
          /\ r.question = messages[i].of
          => r.answer = messages[i].text

\* The typing flag, which locks the input, agrees with the messages: it is up
\* exactly while one message, the last, waits for its answer, also when
\* answers to a page that was left come in.
TypingTruthful ==
    /\ botTyping <=> \E q \in Ids : Awaited(q)
    /\ \A i \in DOMAIN messages : messages[i].text = "typing" => i = Len(messages)

\* A request holds a connection exactly from its authentication to the end of
\* get_db, on every way out of the handler, and the pool is never exceeded.
ConnectionsReturned ==
    /\ held = {q \in Ids : req[q].stage \in Handling}
    /\ Cardinality(held) <= Pool

\* Of the conversation, a question is sent with exactly the last Window turns shown
\* before it: not the question itself, and none that is still being answered.  (The
\* greeting is no turn of it; whether it is sent along is asked below.)
HistoryIsPast ==
    [][\A q \in Ids : req[q].stage = "unasked" /\ req'[q].stage = "sent" =>
          LET talk == {turn \in req'[q].history : turn.msg.text # "greeting"}
          IN  /\ talk = {[at |-> i, msg |-> messages[i]] : i \in Last(Window, Turns(messages))}
              /\ \A turn \in talk : ~Awaited(turn.msg.of)]_vars

\* Every question's typing dots go away: an answer, an error or a new page.
TypingEnds == botTyping ~> ~botTyping

-----------------------------------------------------------------------------
(* What the repository says and the code does not do; each is refuted by a  *)
(* run of its own.                                                          *)

\* The docstring of _save_history and the warning it logs: the row is best effort,
\* its failure is skipped and does not affect the answer (query.py:102, :128).  So a
\* request whose flush has failed still replies with its answer.
HistoryBestEffort ==
    [][\A q \in Ids : req[q].stage = "inactive" /\ req'[q].stage = "reply" =>
          req'[q].text = req[q].text]_vars

\* The comment on the history that send() builds: it leaves out the dots and the
\* greeting (chat.component.ts:101).
GreetingLeftOut ==
    [][\A q \in Ids : req[q].stage = "unasked" /\ req'[q].stage = "sent" =>
          \A turn \in req'[q].history : turn.msg.text # "greeting"]_vars
=============================================================================
