--------------------------- MODULE LoginThrottle ---------------------------
(***************************************************************************)
(* The failed-login window of app/services/auth.py: login() counts the     *)
(* recent login_failed rows of an e-mail, and of the e-mail from one       *)
(* address, refuses when a limit is reached, and otherwise verifies the    *)
(* password and commits one login_logs row.                                *)
(*                                                                         *)
(* The count and the row are two steps of one transaction with the         *)
(* password verification between them, and requests overlap.  created_at   *)
(* is the server default now(), which PostgreSQL takes when the            *)
(* transaction begins: at the count.  Time is counted in ticks, Second of  *)
(* them to a second, on one clock.                                         *)
(***************************************************************************)
EXTENDS Naturals, FiniteSets

CONSTANTS
    Emails, Ips,
    Attempts,               \* login requests under way at the same time
    LOGIN_FAIL_WINDOW,      \* in ticks
    LOGIN_FAIL_MAX_PER_IP,
    LOGIN_FAIL_MAX_PER_EMAIL,
    Second,                 \* ticks in a second
    MaxNow,                 \* bounds: of the clock,
    MaxFailures, MaxOthers  \* of the login_failed rows and of the others

ASSUME ThrottleAssumption ==
    /\ "none" \notin Emails
    /\ IsFiniteSet(Attempts)
    /\ LOGIN_FAIL_WINDOW \in Nat
    /\ LOGIN_FAIL_MAX_PER_IP \in Nat \ {0}
    /\ LOGIN_FAIL_MAX_PER_EMAIL \in Nat \ {0}
    /\ Second \in Nat \ {0}
    /\ MaxNow \in Nat
    /\ MaxFailures \in Nat
    /\ MaxOthers \in Nat

VARIABLES
    now,
    login_logs,     \* the committed rows
    attempt,        \* Idle, or the e-mail, the address and the begin of the
                    \* transaction of a request whose password is verified
    nextId          \* the next log_id (uuid4)
vars == <<now, login_logs, attempt, nextId>>

Idle == [email |-> "none", ip |-> "none", began |-> 0]

Event == {"login_success", "login_failed", "account_inactive", "logout"}

Row(e, i, ev, t) == [id |-> nextId, email |-> e, ip |-> i, event |-> ev, at |-> t]

-----------------------------------------------------------------------------
\* The rows _recent_login_failures selects: created_at >= now - window.
Recent(r) ==
    /\ r.event = "login_failed"
    /\ r.at + LOGIN_FAIL_WINDOW >= now

EmailFailures(e) == {r \in login_logs : Recent(r) /\ r.email = e}

\* (variant) the FILTER on the address is forgotten.
AddressIgnored(e, i) == {r \in login_logs : Recent(r) /\ r.email = e}

IpFailures(e, i) == {r \in login_logs : Recent(r) /\ r.email = e /\ r.ip = i}

\* (variants) each limit admits one failure too many.
BlockedByIpLate(e, i) == Cardinality(IpFailures(e, i)) > LOGIN_FAIL_MAX_PER_IP
BlockedByEmailLate(e) == Cardinality(EmailFailures(e)) > LOGIN_FAIL_MAX_PER_EMAIL

BlockedByIp(e, i) == Cardinality(IpFailures(e, i)) >= LOGIN_FAIL_MAX_PER_IP
BlockedByEmail(e) == Cardinality(EmailFailures(e)) >= LOGIN_FAIL_MAX_PER_EMAIL
Blocked(e, i)     == BlockedByIp(e, i) \/ BlockedByEmail(e)

\* What _recent_login_failures found of the limit that is reached first.
Counted(e, i) == IF BlockedByIp(e, i) THEN IpFailures(e, i) ELSE EmailFailures(e)

Oldest(S) == CHOOSE t \in {r.at : r \in S} : \A r \in S : t <= r.at

\* (variant) always one second up.
RoundedUp(oldest) == (oldest + LOGIN_FAIL_WINDOW - now) \div Second + 1

\* _retry_after_seconds: int() drops the fraction, and at least one second.
RetryAfterSeconds(oldest) ==
    LET remaining == oldest + LOGIN_FAIL_WINDOW - now IN
    IF remaining < Second THEN 1 ELSE remaining \div Second

\* The time a refused client is told to come back at.
RetryAt(e, i) == now + RetryAfterSeconds(Oldest(Counted(e, i))) * Second

-----------------------------------------------------------------------------
Init ==
    /\ now = 0
    /\ login_logs = {}
    /\ attempt = [a \in Attempts |-> Idle]
    /\ nextId = 0

\* login: the check, before the password is looked at.
Admit(a, e, i) ==
    /\ attempt[a] = Idle
    /\ ~Blocked(e, i)
    /\ attempt' = [attempt EXCEPT ![a] = [email |-> e, ip |-> i, began |-> now]]
    /\ UNCHANGED <<now, login_logs, nextId>>

\* LoginRateLimited: 429 with Retry-After (RetryAt), and no row.
Refuse(a, e, i) ==
    /\ attempt[a] = Idle
    /\ Blocked(e, i)
    /\ UNCHANGED vars

HasRoom(ev) ==
    LET failed == {r \in login_logs : r.event = "login_failed"} IN
    IF ev = "login_failed" THEN Cardinality(failed) < MaxFailures
                           ELSE Cardinality(login_logs \ failed) < MaxOthers

\* (variant) the request's state is cleared before the row is built from it.
RecordAfterReset(a, ev) ==
    /\ attempt[a] # Idle
    /\ HasRoom(ev)
    /\ attempt' = [attempt EXCEPT ![a] = Idle]
    /\ login_logs' = login_logs \cup {Row(attempt'[a].email, attempt'[a].ip, ev, attempt[a].began)}
    /\ nextId' = nextId + 1
    /\ UNCHANGED now

\* record_login_event and the commit that ends the transaction.
Record(a, ev) ==
    /\ attempt[a] # Idle
    /\ HasRoom(ev)
    /\ login_logs' = login_logs \cup {Row(attempt[a].email, attempt[a].ip, ev, attempt[a].began)}
    /\ nextId' = nextId + 1
    /\ attempt' = [attempt EXCEPT ![a] = Idle]
    /\ UNCHANGED now

\* Unknown user or wrong password: 401.
LoginFailed(a) == Record(a, "login_failed")

\* The account is disabled: 403.
AccountInactive(a) == Record(a, "account_inactive")

LoginSuccess(a) == Record(a, "login_success")

\* The request dies between the check and the commit: the transaction is
\* rolled back and leaves no row.
RequestLost(a) ==
    /\ attempt[a] # Idle
    /\ attempt' = [attempt EXCEPT ![a] = Idle]
    /\ UNCHANGED <<now, login_logs, nextId>>

\* logout records its own event.
Logout(e, i) ==
    /\ HasRoom("logout")
    /\ login_logs' = login_logs \cup {Row(e, i, "logout", now)}
    /\ nextId' = nextId + 1
    /\ UNCHANGED <<now, attempt>>

Tick ==
    /\ now < MaxNow
    /\ now' = now + 1
    /\ UNCHANGED <<login_logs, attempt, nextId>>

Next ==
    \/ Tick
    \/ \E e \in Emails, i \in Ips :
         \/ Logout(e, i)
         \/ \E a \in Attempts : Admit(a, e, i) \/ Refuse(a, e, i)
    \/ \E a \in Attempts :
         LoginFailed(a) \/ AccountInactive(a) \/ LoginSuccess(a) \/ RequestLost(a)

Spec == Init /\ [][Next]_vars

-----------------------------------------------------------------------------
RowType == [id : Nat, email : Emails, ip : Ips, event : Event, at : Nat]

\* Type invariant; log_id is unique.
TypeOK ==
    /\ now \in Nat
    /\ login_logs \subseteq RowType /\ IsFiniteSet(login_logs)
    /\ attempt \in [Attempts -> {Idle} \cup [email : Emails, ip : Ips, began : Nat]]
    /\ nextId \in Nat /\ \A r \in login_logs : r.id < nextId

\* However the requests overlap, the window of an e-mail from one address holds
\* at most the limit's failures plus those of the requests that were admitted
\* next to the last one: one for each other request under way (login counts
\* before the password is verified and records after).
IpFailuresBounded ==
    \A e \in Emails, i \in Ips :
        Cardinality(IpFailures(e, i)) <= (LOGIN_FAIL_MAX_PER_IP - 1) + Cardinality(Attempts)

\* The same of the e-mail, whatever the addresses.
EmailFailuresBounded ==
    \A e \in Emails :
        Cardinality(EmailFailures(e)) <= (LOGIN_FAIL_MAX_PER_EMAIL - 1) + Cardinality(Attempts)

\* 「不波及同帳號的其他來源」: while the failures of an e-mail all come from one
\* address, the e-mail can be used from every other, as long as no more requests
\* overlap than the two limits lie apart.
OtherSourcesAdmitted ==
    Cardinality(Attempts) <= LOGIN_FAIL_MAX_PER_EMAIL - LOGIN_FAIL_MAX_PER_IP =>
        \A e \in Emails, i \in Ips :
            (\A r \in EmailFailures(e) : r.ip = i) =>
                \A j \in Ips \ {i} : ~Blocked(e, j)

\* _retry_after_seconds: whole seconds, rounded down: a client that comes back
\* one second after its Retry-After finds the oldest failure it was counted with
\* outside the window, and is not sent away for longer than any failure stays.
RetryAfterTight ==
    \A e \in Emails, i \in Ips :
        Blocked(e, i) =>
            /\ \E r \in Counted(e, i) : r.at + LOGIN_FAIL_WINDOW < RetryAt(e, i) + Second
            /\ \A r \in Counted(e, i) :
                  RetryAt(e, i) <= r.at + LOGIN_FAIL_WINDOW \/ RetryAt(e, i) = now + Second
=============================================================================
