------------------------ MODULE LoginThrottleProofs ------------------------
(***************************************************************************)
(* The window's bounds for any limits and any number of overlapping        *)
(* requests.  Failures and requests under way are counted together: a      *)
(* request is admitted below the limit, and its failure, if it fails, only *)
(* takes the place of the request.                                         *)
(***************************************************************************)
EXTENDS LoginThrottle, FiniteSetTheorems, WellFoundedInduction, TLAPS

\* The failures of e from the addresses J, and the requests admitted that may
\* still add to them.  J is one address for the first limit, all for the second.
Failures(e, J) == {r \in login_logs : Recent(r) /\ r.email = e /\ r.ip \in J}
Pending(e, J)  == {a \in Attempts : attempt[a].email = e /\ attempt[a].ip \in J}

Reserve(e, J, max) ==
    Cardinality(Failures(e, J)) + Cardinality(Pending(e, J)) <= (max - 1) + Cardinality(Attempts)

\* The strengthening of the two bounds.
ReserveInv ==
    \A e \in Emails :
        /\ Reserve(e, Ips, LOGIN_FAIL_MAX_PER_EMAIL)
        /\ \A i \in Ips : Reserve(e, {i}, LOGIN_FAIL_MAX_PER_IP)

-----------------------------------------------------------------------------
\* A set of rows that is not empty has an oldest one.
LEMMA OldestRow ==
    ASSUME NEW S, S \subseteq RowType, S # {}
    PROVE  /\ Oldest(S) \in Nat
           /\ \E r \in S : r.at = Oldest(S)
           /\ \A r \in S : Oldest(S) <= r.at
<1> DEFINE T == {r.at : r \in S}
<1>1. T \subseteq Nat /\ T # {}  BY DEF RowType
<1>2. \E t \in T : \A u \in T : <<u, t>> \notin OpToRel(<, Nat)
  BY <1>1, NatLessThanWellFounded, WFMin
<1>3. PICK t \in T : \A u \in T : ~ (u < t)
  BY <1>1, <1>2 DEF OpToRel
<1>4. \A u \in T : t <= u
  <2> HIDE DEF T
  <2> QED BY <1>1, <1>3
<1> QED BY <1>1, <1>4 DEF Oldest

-----------------------------------------------------------------------------
LEMMA TypeInit == Init => TypeOK
<1> SUFFICES ASSUME Init PROVE TypeOK  OBVIOUS
<1>1. IsFiniteSet(login_logs)  BY FS_EmptySet DEF Init
<1> QED BY <1>1, ThrottleAssumption DEF Init, TypeOK, RowType, Idle

\* Every outcome of an admitted request keeps the types.
LEMMA RecordTypes ==
    ASSUME TypeOK, NEW a \in Attempts, NEW ev \in Event, Record(a, ev)
    PROVE  TypeOK'
<1> DEFINE row == Row(attempt[a].email, attempt[a].ip, ev, attempt[a].began)
<1>1. attempt[a] \in [email : Emails, ip : Ips, began : Nat]  BY DEF TypeOK, Record
<1>2. row \in RowType /\ row.id = nextId  BY <1>1 DEF TypeOK, Row, RowType
<1>3. IsFiniteSet(login_logs')  BY FS_AddElement DEF TypeOK, Record
<1>4. login_logs' \subseteq RowType  BY <1>2 DEF TypeOK, Record
<1>5. nextId' \in Nat /\ \A r \in login_logs' : r.id < nextId'
  <2>1. \A r \in login_logs : r.id \in Nat  BY DEF TypeOK, RowType
  <2> QED BY <1>2, <2>1 DEF TypeOK, Record
<1> QED BY <1>3, <1>4, <1>5 DEF TypeOK, Record

LEMMA TypeStep == TypeOK /\ [Next]_vars => TypeOK'
<1> SUFFICES ASSUME TypeOK, [Next]_vars PROVE TypeOK'  OBVIOUS
<1>1. CASE Tick  BY <1>1 DEF Tick, TypeOK
<1>2. ASSUME NEW e \in Emails, NEW i \in Ips, Logout(e, i) PROVE TypeOK'
  <2>1. Row(e, i, "logout", now) \in RowType  BY DEF TypeOK, Row, RowType, Event
  <2>2. IsFiniteSet(login_logs')  BY <1>2, FS_AddElement DEF TypeOK, Logout
  <2>3. \A r \in login_logs : r.id \in Nat  BY DEF TypeOK, RowType
  <2>4. \A r \in login_logs' : r.id < nextId'  BY <1>2, <2>3 DEF TypeOK, Logout, Row
  <2> QED BY <1>2, <2>1, <2>2, <2>4 DEF Logout, TypeOK
<1>3. ASSUME NEW e \in Emails, NEW i \in Ips, NEW a \in Attempts, Admit(a, e, i) PROVE TypeOK'
  BY <1>3 DEF Admit, TypeOK
<1>4. ASSUME NEW e \in Emails, NEW i \in Ips, NEW a \in Attempts, Refuse(a, e, i) PROVE TypeOK'
  BY <1>4 DEF Refuse, vars, TypeOK
<1>5. ASSUME NEW a \in Attempts, NEW ev \in Event, Record(a, ev) PROVE TypeOK'
  BY <1>5, RecordTypes
<1>6. ASSUME NEW a \in Attempts, RequestLost(a) PROVE TypeOK'
  BY <1>6 DEF RequestLost, TypeOK
<1>7. CASE UNCHANGED vars  BY <1>7 DEF vars, TypeOK
<1> QED
  BY <1>1, <1>2, <1>3, <1>4, <1>5, <1>6, <1>7
  DEF Next, LoginFailed, AccountInactive, LoginSuccess, Event

\* Every row of login_logs is one of a known event, e-mail and address, and ids
\* are unique (LoginThrottle's types).
THEOREM TypeCorrect == Spec => []TypeOK
<1> QED BY TypeInit, TypeStep, PTL DEF Spec

-----------------------------------------------------------------------------
\* A count of failures and requests stays under a bound when both only lose
\* members.
LEMMA CountedLess ==
    ASSUME NEW F, NEW F2, NEW P, NEW P2, NEW n \in Nat, IsFiniteSet(F), IsFiniteSet(P),
           Cardinality(F) + Cardinality(P) <= n, F2 \subseteq F, P2 \subseteq P
    PROVE  Cardinality(F2) + Cardinality(P2) <= n
<1>1. Cardinality(F) \in Nat /\ Cardinality(P) \in Nat  BY FS_CardinalityType
<1>2. IsFiniteSet(F2) /\ Cardinality(F2) <= Cardinality(F)  BY FS_Subset
<1>3. IsFiniteSet(P2) /\ Cardinality(P2) <= Cardinality(P)  BY FS_Subset
<1>4. Cardinality(F2) \in Nat /\ Cardinality(P2) \in Nat  BY <1>2, <1>3, FS_CardinalityType
<1> QED BY <1>1, <1>2, <1>3, <1>4

\* And when one request gives way to one failure.
LEMMA CountedSwap ==
    ASSUME NEW F, NEW F2, NEW P, NEW P2, NEW n \in Nat, IsFiniteSet(F), IsFiniteSet(P),
           Cardinality(F) + Cardinality(P) <= n,
           NEW r, NEW a \in P, F2 \subseteq F \cup {r}, P2 \subseteq P \ {a}
    PROVE  Cardinality(F2) + Cardinality(P2) <= n
<1> DEFINE G == F \cup {r}
           Q == P \ {a}
<1>1. Cardinality(F) \in Nat /\ Cardinality(P) \in Nat  BY FS_CardinalityType
<1>2. IsFiniteSet(G) /\ Cardinality(G) <= Cardinality(F) + 1
  <2>1. Cardinality(G) = IF r \in F THEN Cardinality(F) ELSE Cardinality(F) + 1  BY FS_AddElement
  <2> QED BY <1>1, <2>1, FS_AddElement
<1>3. IsFiniteSet(Q) /\ Cardinality(Q) = Cardinality(P) - 1  BY FS_RemoveElement
<1>4. Cardinality(G) \in Nat /\ Cardinality(Q) \in Nat  BY <1>2, <1>3, FS_CardinalityType
<1>5. Cardinality(G) + Cardinality(Q) <= n  BY <1>1, <1>2, <1>3, <1>4
<1> QED BY <1>2, <1>3, <1>5, CountedLess

LEMMA ReserveInit == Init => ReserveInv
<1> SUFFICES ASSUME Init, NEW e \in Emails, NEW J, NEW max \in Nat \ {0}
             PROVE  Reserve(e, J, max)
  BY ThrottleAssumption DEF ReserveInv
<1>1. Failures(e, J) = {} /\ Pending(e, J) = {}
  BY ThrottleAssumption DEF Init, Failures, Pending, Idle
<1>2. Cardinality(Attempts) \in Nat  BY ThrottleAssumption, FS_CardinalityType
<1> QED BY <1>1, <1>2, FS_EmptySet DEF Reserve

\* One step and one limit: what is left to show of a limit is that a request
\* it admits found room under it.
LEMMA ReserveStep ==
    ASSUME TypeOK, [Next]_vars, NEW e \in Emails, NEW J, NEW max \in Nat \ {0},
           Reserve(e, J, max),
           \A a \in Attempts, i \in J : Admit(a, e, i) => Cardinality(Failures(e, J)) <= max - 1
    PROVE  Reserve(e, J, max)'
<1> DEFINE F == Failures(e, J)
           P == Pending(e, J)
           n == (max - 1) + Cardinality(Attempts)
<1>2. IsFiniteSet(F)  BY FS_Subset DEF TypeOK, Failures
<1>3. IsFiniteSet(P) /\ IsFiniteSet(P') /\ Cardinality(P') <= Cardinality(Attempts)
  BY ThrottleAssumption, FS_Subset DEF Pending
<1>4. Cardinality(Attempts) \in Nat /\ n \in Nat /\ Cardinality(P') \in Nat /\ Cardinality(F) \in Nat
  BY <1>2, <1>3, ThrottleAssumption, FS_CardinalityType
<1>5. SUFFICES Cardinality(F') + Cardinality(P') <= n  BY DEF Reserve
<1>6. Cardinality(F) + Cardinality(P) <= n  BY DEF Reserve
<1> HIDE DEF n
<1>7. CASE F' \subseteq F /\ P' \subseteq P
  <2> HIDE DEF F, P
  <2> QED BY <1>2, <1>3, <1>4, <1>6, <1>7, CountedLess
<1>8. ASSUME NEW r, NEW a \in P, F' \subseteq F \cup {r}, P' \subseteq P \ {a}
      PROVE  Cardinality(F') + Cardinality(P') <= n
  <2> HIDE DEF F, P
  <2> QED BY <1>2, <1>3, <1>4, <1>6, <1>8, CountedSwap
<1>9. CASE Tick
  <2>1. \A r \in login_logs : r.at \in Nat  BY DEF TypeOK, RowType
  <2>2. F' \subseteq F
    BY <1>9, <2>1, ThrottleAssumption DEF Tick, TypeOK, Failures, Recent
  <2> QED BY <1>7, <1>9, <2>2 DEF Tick, Pending
<1>10. ASSUME NEW f \in Emails, NEW i \in Ips, Logout(f, i)
       PROVE  Cardinality(F') + Cardinality(P') <= n
  <2>1. F' \subseteq F  BY <1>10 DEF Logout, Row, Failures, Recent
  <2> QED BY <1>7, <1>10, <2>1 DEF Logout, Pending
<1>11. ASSUME NEW f \in Emails, NEW i \in Ips, NEW a \in Attempts, Admit(a, f, i)
       PROVE  Cardinality(F') + Cardinality(P') <= n
  <2>1. F' = F  BY <1>11 DEF Admit, Failures, Recent
  <2>2. CASE f = e /\ i \in J
    <3>1. Cardinality(F') <= max - 1  BY <1>11, <2>1, <2>2
    <3>2. Cardinality(F') \in Nat  BY <1>4, <2>1
    <3> HIDE DEF F, P
    <3> QED BY <3>1, <3>2, <1>3, <1>4 DEF n
  <2>3. CASE ~ (f = e /\ i \in J)
    <3>1. P' \subseteq P  BY <1>11, <2>3 DEF Admit, Pending, TypeOK
    <3> QED BY <1>7, <2>1, <3>1
  <2> QED BY <2>2, <2>3
<1>12. ASSUME NEW f \in Emails, NEW i \in Ips, NEW a \in Attempts, Refuse(a, f, i)
       PROVE  Cardinality(F') + Cardinality(P') <= n
  BY <1>7, <1>12 DEF Refuse, vars, Failures, Recent, Pending
<1>13. ASSUME NEW a \in Attempts, NEW ev, Record(a, ev)
       PROVE  Cardinality(F') + Cardinality(P') <= n
  <2> DEFINE row == Row(attempt[a].email, attempt[a].ip, ev, attempt[a].began)
  <2>1. F' \subseteq F \cup {row}  BY <1>13 DEF Record, Failures, Recent
  <2>2. P' \subseteq P \ {a}
    BY <1>13, ThrottleAssumption DEF Record, Pending, TypeOK, Idle
  <2>3. CASE a \in P  BY <1>8, <2>1, <2>2, <2>3
  <2>4. CASE a \notin P
    <3>1. F' \subseteq F  BY <1>13, <2>4 DEF Record, Failures, Recent, Row, Pending
    <3> QED BY <1>7, <2>2, <3>1
  <2> QED BY <2>3, <2>4
<1>14. ASSUME NEW a \in Attempts, RequestLost(a)
       PROVE  Cardinality(F') + Cardinality(P') <= n
  <2>1. P' \subseteq P  BY <1>14, ThrottleAssumption DEF RequestLost, Pending, TypeOK, Idle
  <2> QED BY <1>7, <1>14, <2>1 DEF RequestLost, Failures, Recent
<1>15. CASE UNCHANGED vars  BY <1>7, <1>15 DEF vars, Failures, Recent, Pending
<1> QED
  BY <1>9, <1>10, <1>11, <1>12, <1>13, <1>14, <1>15
  DEF Next, LoginFailed, AccountInactive, LoginSuccess

LEMMA ReserveInductive == TypeOK /\ ReserveInv /\ [Next]_vars => ReserveInv'
<1> SUFFICES ASSUME TypeOK, ReserveInv, [Next]_vars, NEW e \in Emails
             PROVE  /\ Reserve(e, Ips, LOGIN_FAIL_MAX_PER_EMAIL)'
                    /\ \A i \in Ips : Reserve(e, {i}, LOGIN_FAIL_MAX_PER_IP)'
  BY DEF ReserveInv
<1>1. \A J : IsFiniteSet(Failures(e, J)) /\ Cardinality(Failures(e, J)) \in Nat
  BY FS_Subset, FS_CardinalityType DEF TypeOK, Failures
<1>2. Failures(e, Ips) = EmailFailures(e)  BY DEF TypeOK, RowType, Failures, EmailFailures
<1>3. \A i \in Ips : Failures(e, {i}) = IpFailures(e, i)  BY DEF Failures, IpFailures
<1>4. \A a \in Attempts, i \in Ips :
          Admit(a, e, i) => Cardinality(Failures(e, Ips)) <= LOGIN_FAIL_MAX_PER_EMAIL - 1
  BY <1>1, <1>2, ThrottleAssumption DEF Admit, Blocked, BlockedByEmail
<1>5. \A a \in Attempts, i \in Ips :
          Admit(a, e, i) => Cardinality(Failures(e, {i})) <= LOGIN_FAIL_MAX_PER_IP - 1
  BY <1>1, <1>3, ThrottleAssumption DEF Admit, Blocked, BlockedByIp
<1>6. Reserve(e, Ips, LOGIN_FAIL_MAX_PER_EMAIL)'
  BY <1>4, ReserveStep, ThrottleAssumption DEF ReserveInv
<1>7. ASSUME NEW i \in Ips PROVE Reserve(e, {i}, LOGIN_FAIL_MAX_PER_IP)'
  BY <1>5, ReserveStep, ThrottleAssumption DEF ReserveInv
<1> QED BY <1>6, <1>7

\* The strengthening is an invariant of login's two steps.
THEOREM ReserveCorrect == Spec => []ReserveInv
<1> QED BY TypeCorrect, ReserveInit, ReserveInductive, PTL DEF Spec

LEMMA ReserveImplies ==
    TypeOK /\ ReserveInv => IpFailuresBounded /\ EmailFailuresBounded /\ OtherSourcesAdmitted
<1> SUFFICES ASSUME TypeOK, ReserveInv
             PROVE  IpFailuresBounded /\ EmailFailuresBounded /\ OtherSourcesAdmitted
  OBVIOUS
<1>1. \A e \in Emails : \A J : Cardinality(Failures(e, J)) \in Nat
  BY FS_Subset, FS_CardinalityType DEF TypeOK, Failures
<1>2. \A e \in Emails : \A J : Cardinality(Pending(e, J)) \in Nat
  BY ThrottleAssumption, FS_Subset, FS_CardinalityType DEF Pending
<1>3. Cardinality(Attempts) \in Nat  BY ThrottleAssumption, FS_CardinalityType
<1>4. \A e \in Emails : Failures(e, Ips) = EmailFailures(e)
  BY DEF TypeOK, RowType, Failures, EmailFailures
<1>5. \A e \in Emails, i \in Ips : Failures(e, {i}) = IpFailures(e, i)
  BY DEF Failures, IpFailures
<1>6. EmailFailuresBounded
  BY <1>1, <1>2, <1>3, <1>4, ThrottleAssumption DEF ReserveInv, Reserve, EmailFailuresBounded
<1>7. IpFailuresBounded
  <2> SUFFICES ASSUME NEW e \in Emails, NEW i \in Ips
               PROVE  Cardinality(Failures(e, {i})) <= (LOGIN_FAIL_MAX_PER_IP - 1) + Cardinality(Attempts)
    BY <1>5 DEF IpFailuresBounded
  <2>1. Reserve(e, {i}, LOGIN_FAIL_MAX_PER_IP)  BY DEF ReserveInv
  <2>2. Cardinality(Failures(e, {i})) \in Nat /\ Cardinality(Pending(e, {i})) \in Nat
    BY <1>1, <1>2
  <2> QED BY <2>1, <2>2, <1>3, ThrottleAssumption DEF Reserve
<1>8. ASSUME Cardinality(Attempts) <= LOGIN_FAIL_MAX_PER_EMAIL - LOGIN_FAIL_MAX_PER_IP,
             NEW e \in Emails, NEW i \in Ips, \A r \in EmailFailures(e) : r.ip = i,
             NEW j \in Ips \ {i}
      PROVE  ~Blocked(e, j)
  <2>1. IpFailures(e, j) = {}  BY <1>8 DEF IpFailures, EmailFailures
  <2>2. ~BlockedByIp(e, j)  BY <2>1, FS_EmptySet, ThrottleAssumption DEF BlockedByIp
  <2>3. EmailFailures(e) = IpFailures(e, i)  BY <1>8 DEF IpFailures, EmailFailures
  <2>4. Cardinality(IpFailures(e, i)) \in Nat  BY <1>1, <1>5
  <2>5. ~BlockedByEmail(e)
    BY <1>3, <1>7, <1>8, <2>3, <2>4, ThrottleAssumption DEF BlockedByEmail, IpFailuresBounded
  <2> QED BY <2>2, <2>5 DEF Blocked
<1>9. OtherSourcesAdmitted  BY <1>8 DEF OtherSourcesAdmitted
<1> QED BY <1>6, <1>7, <1>9

\* However logins overlap, no window of an e-mail from one address holds more
\* failures than its limit and one for each other request under way (login counts
\* before the password is verified).
THEOREM IpWindowBounded == Spec => []IpFailuresBounded
<1> QED BY TypeCorrect, ReserveCorrect, ReserveImplies, PTL

\* Nor does the window of an e-mail, from whatever addresses.
THEOREM EmailWindowBounded == Spec => []EmailFailuresBounded
<1> QED BY TypeCorrect, ReserveCorrect, ReserveImplies, PTL

\* 「不波及同帳號的其他來源」 for every pair of limits that lie further apart
\* than requests overlap.
THEOREM OthersAdmitted == Spec => []OtherSourcesAdmitted
<1> QED BY TypeCorrect, ReserveCorrect, ReserveImplies, PTL

-----------------------------------------------------------------------------
LEMMA FloorSeconds ==
    ASSUME NEW x \in Nat
    PROVE  /\ x \div Second \in Nat
           /\ (x \div Second) * Second <= x
           /\ x < (x \div Second) * Second + Second
<1>1. Second \in Nat \ {0}  BY ThrottleAssumption
<1>2. x = Second * (x \div Second) + (x % Second) /\ x \div Second \in Nat /\ x % Second \in 0 .. Second - 1
  BY <1>1
<1>3. Second * (x \div Second) = (x \div Second) * Second /\ Second * (x \div Second) \in Nat
  BY <1>1, <1>2
<1> QED BY <1>1, <1>2, <1>3

LEMMA TypedRetryTight == TypeOK => RetryAfterTight
<1> SUFFICES ASSUME TypeOK, NEW e \in Emails, NEW i \in Ips, Blocked(e, i)
             PROVE  /\ \E r \in Counted(e, i) : r.at + LOGIN_FAIL_WINDOW < RetryAt(e, i) + Second
                    /\ \A r \in Counted(e, i) :
                          RetryAt(e, i) <= r.at + LOGIN_FAIL_WINDOW \/ RetryAt(e, i) = now + Second
  BY DEF RetryAfterTight
<1> DEFINE S == Counted(e, i)
           t == Oldest(S)
           x == t + LOGIN_FAIL_WINDOW - now
<1>1. S \subseteq RowType /\ \A r \in S : r.at + LOGIN_FAIL_WINDOW >= now
  BY DEF TypeOK, Counted, IpFailures, EmailFailures, Recent
<1>2. S # {}
  BY FS_EmptySet, ThrottleAssumption DEF Blocked, BlockedByIp, BlockedByEmail, Counted
<1>3. t \in Nat /\ (\E r \in S : r.at = t) /\ (\A r \in S : t <= r.at)
  BY <1>1, <1>2, OldestRow
<1>4. now \in Nat /\ LOGIN_FAIL_WINDOW \in Nat /\ Second \in Nat \ {0}
  BY ThrottleAssumption DEF TypeOK
<1>5. x \in Nat  BY <1>1, <1>3, <1>4
<1>6. RetryAt(e, i) = now + (IF x < Second THEN 1 ELSE x \div Second) * Second
  BY DEF RetryAt, RetryAfterSeconds
<1>7. \A r \in S : r.at \in Nat  BY <1>1 DEF RowType
<1> HIDE DEF S, t
<1>8. CASE x < Second
  <2>1. RetryAt(e, i) = now + Second  BY <1>4, <1>6, <1>8
  <2>2. t + LOGIN_FAIL_WINDOW < RetryAt(e, i) + Second  BY <2>1, <1>3, <1>4, <1>8
  <2> QED BY <2>1, <2>2, <1>3 DEF S
<1>9. CASE x >= Second
  <2> DEFINE y == (x \div Second) * Second
  <2>1. RetryAt(e, i) = now + y  BY <1>4, <1>5, <1>6, <1>9
  <2>2. x \div Second \in Nat /\ y <= x /\ x < y + Second  BY <1>5, FloorSeconds
  <2>3. y \in Nat  BY <2>2, <1>4
  <2> HIDE DEF y
  <2>4. t + LOGIN_FAIL_WINDOW < RetryAt(e, i) + Second  BY <2>1, <2>2, <2>3, <1>3, <1>4
  <2>5. \A r \in S : RetryAt(e, i) <= r.at + LOGIN_FAIL_WINDOW
    BY <2>1, <2>2, <2>3, <1>3, <1>4, <1>7
  <2> QED BY <2>4, <2>5, <1>3 DEF S
<1> QED BY <1>4, <1>5, <1>8, <1>9

\* _retry_after_seconds' rounding, for every window and every length of a second:
\* the hint is short by less than a second and never too long.
THEOREM RetryTight == Spec => []RetryAfterTight
<1> QED BY TypeCorrect, TypedRetryTight, PTL
=============================================================================
