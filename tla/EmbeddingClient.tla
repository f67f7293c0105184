--------------------------- MODULE EmbeddingClient ---------------------------
(***************************************************************************)
(* The embedding calls of one process (app/services/ai/embedding.py): each *)
(* call fetches a token, queues at the semaphore the whole process shares, *)
(* posts one text and leaves; a transient failure starts it again from the *)
(* token, any other one ends it.                                           *)
(*                                                                         *)
(* embed_texts gathers its calls: the first exception is raised at once,   *)
(* and the calls still under way go on with nobody awaiting them.          *)
(***************************************************************************)
EXTENDS Naturals, FiniteSets, Sequences

CONSTANTS
    Calls,          \* calls of embed_text, of any caller
    Slots,          \* asyncio.Semaphore(5)
    Attempts        \* stop_after_attempt(3)

VARIABLES
    call,           \* where each call is
    tries,          \* its failed attempts
    queue,          \* the waiters of the semaphore, first in, first out
    permits,        \* the value of the semaphore
    awaited         \* the calls whose gather is still awaited

embedVars == <<call, tries, queue, permits>>

Live     == {"token", "wait", "flight", "backoff"}
Outcomes == {"ok", "error"}

EmbedInit ==
    /\ call = [c \in Calls |-> "none"]
    /\ tries = [c \in Calls |-> 0]
    /\ queue = <<>>
    /\ permits = Slots

\* embed_texts creates one call for each text.
Start(new) ==
    /\ call' = [c \in Calls |-> IF c \in new THEN "token" ELSE call[c]]
    /\ UNCHANGED <<tries, queue, permits>>

\* The results, or the first exception, are taken: what has ended is forgotten.
Gather(mine) ==
    /\ call' = [c \in Calls |->
                    IF c \in mine /\ call[c] \in Outcomes THEN "none" ELSE call[c]]
    /\ UNCHANGED <<tries, queue, permits>>

\* The process dies with all its calls.
LoseCalls ==
    /\ call' = [c \in Calls |-> "none"]
    /\ tries' = [c \in Calls |-> 0]
    /\ queue' = <<>>
    /\ permits' = Slots

\* The outcome of a call nobody awaits is dropped.
End(c, outcome) ==
    /\ call' = [call EXCEPT ![c] = IF c \in awaited THEN outcome ELSE "none"]
    /\ tries' = [tries EXCEPT ![c] = 0]

\* _get_access_token, in the executor, before the semaphore.
GetToken(c) ==
    /\ call[c] = "token"
    /\ call' = [call EXCEPT ![c] = "wait"]
    /\ queue' = Append(queue, c)
    /\ UNCHANGED <<tries, permits>>

\* google-auth's errors are none of httpx's: they are not retried.
TokenFails(c) ==
    /\ call[c] = "token"
    /\ End(c, "error")
    /\ UNCHANGED <<queue, permits>>

Permit == permits > 0

Post(c) ==
    /\ queue # <<>>
    /\ c = Head(queue)
    /\ Permit
    /\ call' = [call EXCEPT ![c] = "flight"]
    /\ queue' = Tail(queue)
    /\ permits' = permits - 1
    /\ UNCHANGED tries

\* (variant) the slot is given back on success only.
KeepSlot == UNCHANGED permits

\* async with: every way out gives the slot back.
FreeSlot == permits' = permits + 1

Answered(c) ==
    /\ call[c] = "flight"
    /\ End(c, "ok")
    /\ permits' = permits + 1
    /\ UNCHANGED queue

\* A 4xx other than 429, or a body of another shape.
Refused(c) ==
    /\ call[c] = "flight"
    /\ End(c, "error")
    /\ FreeSlot
    /\ UNCHANGED queue

\* (variant) an attempt is not counted.
NoAttempt(c) == UNCHANGED tries

FailedAttempt(c) == tries' = [tries EXCEPT ![c] = @ + 1]

\* 429, 5xx, a timeout or a broken connection.
Transient(c) ==
    /\ call[c] = "flight"
    /\ \/ /\ tries[c] + 1 < Attempts
          /\ FailedAttempt(c)
          /\ call' = [call EXCEPT ![c] = "backoff"]
       \/ /\ tries[c] + 1 >= Attempts
          /\ End(c, "error")
    /\ FreeSlot
    /\ UNCHANGED queue

\* After wait_exponential the function starts over.
Retry(c) ==
    /\ call[c] = "backoff"
    /\ call' = [call EXCEPT ![c] = "token"]
    /\ UNCHANGED <<tries, queue, permits>>

CallStep(c) ==
    \/ GetToken(c) \/ TokenFails(c) \/ Post(c)
    \/ Answered(c) \/ Refused(c) \/ Transient(c) \/ Retry(c)

-----------------------------------------------------------------------------
EmbedTypeOK ==
    /\ call \in [Calls -> {"none"} \cup Live \cup Outcomes]
    /\ tries \in [Calls -> Nat]
    /\ queue \in Seq(Calls)
    /\ permits \in Nat

InFlight == {c \in Calls : call[c] = "flight"}

\* Whatever the outcomes, retries and calls left behind by a gather, every slot
\* is either free or held by exactly one call under way: none leaks.
SlotsConserved == permits + Cardinality(InFlight) = Slots
=============================================================================
