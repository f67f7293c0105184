----------------------------- MODULE TokenManager -----------------------------
(***************************************************************************)
(* The access token the Gemini calls of a process share (TokenManager in   *)
(* app/services/ai/gemini.py).  A caller takes the asyncio.Lock, looks at  *)
(* the expiry, refreshes in a thread when less than Margin is left, and    *)
(* leaves with the token or with the exception of the refresh.             *)
(***************************************************************************)
EXTENDS Naturals, Sequences

CONSTANTS
    Callers,
    Life,           \* of a new token
    Margin          \* 300 seconds

VARIABLES
    now,            \* the clock (the composing module's)
    expiry,         \* of the token; 0: none yet
    queue,          \* the lock: its holder, then its waiters, first in, first out
    refreshing      \* the callers whose refresh is under way

TokenInit ==
    /\ expiry = 0
    /\ queue = <<>>
    /\ refreshing = {}

NeedsRefresh == expiry < now + Margin

\* async with self._refresh_lock
Ask(c) ==
    /\ queue' = Append(queue, c)
    /\ UNCHANGED <<expiry, refreshing>>

\* (variant) the expiry is looked at without the lock.
InLine(c) == c \in {queue[i] : i \in DOMAIN queue} \ refreshing

\* The lock is c's, and c is not waiting for its refresh.
Holds(c) ==
    /\ queue # <<>>
    /\ c = Head(queue)
    /\ c \notin refreshing

Refresh(c) ==
    /\ Holds(c)
    /\ NeedsRefresh
    /\ refreshing' = refreshing \cup {c}
    /\ UNCHANGED <<expiry, queue>>

\* (variant) the lock is left locked when the refresh raises.
KeepLock == UNCHANGED queue

Unlock == queue' = Tail(queue)

\* get_token returns: nothing to refresh, or the refresh is made.
Return(c) ==
    /\ \/ /\ Holds(c)
          /\ ~NeedsRefresh
          /\ UNCHANGED expiry
       \/ /\ c \in refreshing
          /\ expiry' = now + Life
    /\ queue' = Tail(queue)
    /\ refreshing' = refreshing \ {c}

Raise(c) ==
    /\ c \in refreshing
    /\ Unlock
    /\ refreshing' = refreshing \ {c}
    /\ UNCHANGED expiry

\* A new process has neither token nor callers.
NewProcess ==
    /\ expiry' = 0
    /\ queue' = <<>>
    /\ refreshing' = {}

-----------------------------------------------------------------------------
TokenTypeOK ==
    /\ expiry \in Nat
    /\ queue \in Seq(Callers)
    /\ refreshing \subseteq Callers

\* However many calls need a token when it runs out, it is renewed once: a
\* refresh is only ever under way while the token does need one, and no two are.
OneRefresh ==
    /\ refreshing # {} => NeedsRefresh
    /\ \A c, e \in refreshing : c = e
=============================================================================
