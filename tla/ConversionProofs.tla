--------------------------- MODULE ConversionProofs ---------------------------
(***************************************************************************)
(* For any documents, texts, rules, attempts, deliveries and faults: the   *)
(* rows of a conversion are of one delivery and one set of rules, the copy *)
(* in converted/ holds what they hold, they are made from the whole text,  *)
(* which the split cuts without loss, and the token is renewed once.       *)
(***************************************************************************)
EXTENDS Conversion, TLAPS, NaturalsInduction, WellFoundedInduction, SequenceTheorems

-----------------------------------------------------------------------------
(* The token.                                                               *)

\* Whoever refreshes holds the lock, so there is one of them.
TokenInv ==
    /\ now \in Nat
    /\ expiry \in Nat
    /\ queue \in Seq(Docs)
    /\ refreshing \subseteq Docs
    /\ \A c \in refreshing : queue # <<>> /\ c = Head(queue)
    /\ refreshing # {} => NeedsRefresh

LEMMA AskKeepsToken ==
    ASSUME TokenInv, NEW c \in Docs, Ask(c), now' = now
    PROVE  TokenInv'
<1> USE DEF TokenInv, Ask, NeedsRefresh
<1>1. queue' \in Seq(Docs) /\ queue' # <<>>
  OBVIOUS
<1>2. queue # <<>> => Head(queue') = Head(queue)
  OBVIOUS
<1>3. QED
  BY <1>1, <1>2

\* The lock is left, by its holder, with the token or the exception.
LEMMA LeaveKeepsToken ==
    ASSUME TokenInv, NEW c \in Docs, Return(c) \/ Raise(c), now' = now
    PROVE  TokenInv'
<1> USE DEF TokenInv, Return, Raise, Unlock, Holds
<1>1. queue # <<>> /\ c = Head(queue)
  OBVIOUS
<1>2. refreshing' = {}
  BY <1>1
<1>3. queue' \in Seq(Docs)
  BY <1>1
<1>4. expiry' \in Nat
  BY ConversionAssumption
<1>5. QED
  BY <1>2, <1>3, <1>4

LEMMA RefreshKeepsToken ==
    ASSUME TokenInv, NEW c \in Docs, Refresh(c), now' = now
    PROVE  TokenInv'
BY DEF TokenInv, Refresh, Holds, NeedsRefresh

LEMMA TokenInvStep ==
    ASSUME TokenInv, [Next]_vars
    PROVE  TokenInv'
<1>1. ASSUME UNCHANGED <<now, tokenVars>> PROVE TokenInv'
  BY <1>1 DEF TokenInv, NeedsRefresh, tokenVars
<1>2. ASSUME NEW d \in Docs, Begin(d) \/ Reprocess(d) PROVE TokenInv'
  BY <1>1, <1>2 DEF Begin, Reprocess
<1>3. ASSUME NEW d \in Docs, Work(d) PROVE TokenInv'
  <2>1. CASE Download(d) \/ AskAgain(d)
    BY <2>1, AskKeepsToken DEF Download, AskAgain
  <2>2. CASE RefreshToken(d)
    BY <2>2, RefreshKeepsToken DEF RefreshToken
  <2>3. CASE TakeToken(d) \/ RefreshFails(d)
    BY <2>3, LeaveKeepsToken DEF TakeToken, RefreshFails
  <2>4. CASE Answer(d) \/ CallFails(d)
    BY <1>1, <2>4, AskKeepsToken DEF Answer, CallFails
  <2>5. CASE Upload(d) \/ Commit(d) \/ StorageFails(d) \/ CommitFails(d)
    BY <1>1, <2>5 DEF Upload, Commit, StorageFails, CommitFails
  <2>6. QED
    BY <1>3, <2>1, <2>2, <2>3, <2>4, <2>5 DEF Work
<1>4. ASSUME NEW s \in Saves, SaveRules(s) PROVE TokenInv'
  BY <1>1, <1>4 DEF SaveRules
<1>5. CASE Crash
  BY <1>5 DEF Crash, NewProcess, TokenInv
<1>6. CASE Tick
  BY <1>6, ConversionAssumption DEF Tick, TokenInv, NeedsRefresh, tokenVars
<1>7. CASE UNCHANGED vars
  BY <1>1, <1>7 DEF vars
<1>8. QED
  BY <1>2, <1>3, <1>4, <1>5, <1>6, <1>7 DEF Next

\* However many conversions need a token when it runs out, whatever their
\* refreshes end in and wherever the process dies: one refresh is under way at
\* most, and only while the token needs one.
THEOREM TokenRenewedOnce == Spec => []OneRefresh
<1>1. Init => TokenInv
  BY DEF Init, TokenInit, TokenInv
<1>2. TokenInv => OneRefresh
  BY DEF TokenInv, OneRefresh
<1>3. QED
  BY <1>1, <1>2, TokenInvStep, PTL DEF Spec
-----------------------------------------------------------------------------
(* The rows.                                                                *)

\* A sequence of anything.
IsSeq(s) == \E n \in Nat : DOMAIN s = 1..n /\ s = [i \in 1..n |-> s[i]]

LEMMA SeqIsSeq ==
    ASSUME NEW S, NEW s \in Seq(S)
    PROVE  IsSeq(s)
<1>1. Len(s) \in Nat /\ DOMAIN s = 1..Len(s)
  OBVIOUS
<1>2. s \in [1..Len(s) -> S]
  OBVIOUS
<1>3. s = [i \in 1..Len(s) |-> s[i]]
  BY <1>2
<1>4. QED
  BY <1>1, <1>3 DEF IsSeq

LEMMA Appended ==
    ASSUME NEW s, IsSeq(s), NEW e
    PROVE  /\ IsSeq(Append(s, e))
           /\ Len(s) \in Nat /\ DOMAIN s = 1..Len(s)
           /\ Len(Append(s, e)) = Len(s) + 1
           /\ DOMAIN Append(s, e) = 1..(Len(s) + 1)
           /\ \A i \in 1..(Len(s) + 1) : Append(s, e)[i] = IF i = Len(s) + 1 THEN e ELSE s[i]
<1>1. PICK n \in Nat : DOMAIN s = 1..n /\ s = [i \in 1..n |-> s[i]]
  BY DEF IsSeq
<1> DEFINE S == {s[i] : i \in 1..n} \cup {e}
<1>2. s \in Seq(S)
  <2>1. s \in [1..n -> S]
    BY <1>1
  <2>2. QED
    BY <2>1
<1>3. e \in S
  OBVIOUS
<1> HIDE DEF S
<1>4. Len(s) \in Nat /\ DOMAIN s = 1..Len(s)
  BY <1>2
<1>5. /\ Append(s, e) \in Seq(S)
      /\ Len(Append(s, e)) = Len(s) + 1
      /\ DOMAIN Append(s, e) = 1..(Len(s) + 1)
      /\ \A i \in 1..(Len(s) + 1) : Append(s, e)[i] = IF i = Len(s) + 1 THEN e ELSE s[i]
  BY <1>2, <1>3
<1>6. IsSeq(Append(s, e))
  BY <1>5, SeqIsSeq
<1>7. QED
  BY <1>4, <1>5, <1>6

LEMMA Empty == IsSeq(<<>>) /\ DOMAIN <<>> = {}
<1>1. <<>> = [i \in 1..0 |-> <<>>[i]] /\ DOMAIN <<>> = 1..0
  OBVIOUS
<1>2. QED
  BY <1>1 DEF IsSeq

RowsTyped ==
    /\ DOMAIN at = Docs /\ DOMAIN run = Docs /\ DOMAIN context = Docs
    /\ DOMAIN answers = Docs /\ DOMAIN file = Docs /\ DOMAIN rows = Docs
    /\ \A d \in Docs : IsSeq(answers[d])

\* The rules a context speaks of are among the committed ones.
Known(rule, version) ==
    rule # Generic => \E r \in rules : r.rule = rule /\ r.version = version

RowInv(d) ==
    /\ Known(context[d].rule, context[d].version)
    /\ \A i \in DOMAIN answers[d] :
            answers[d][i].rule = context[d].rule /\ answers[d][i].run = run[d]
    /\ at[d] = "commit" => file[d] = answers[d]
    /\ at[d] = "done" => file[d] = [i \in DOMAIN rows[d] |-> rows[d][i].answer]
    /\ \A i, j \in DOMAIN rows[d] :
        /\ rows[d][i].version = rows[d][j].version
        /\ rows[d][i].answer.rule = rows[d][j].answer.rule
        /\ rows[d][i].answer.run = rows[d][j].answer.run
        /\ Known(rows[d][i].answer.rule, rows[d][i].version)

RowsInv == RowsTyped /\ \A d \in Docs : RowInv(d)

LEMMA RowsInvInit == Init => RowsInv
BY Empty DEF Init, RowsInv, RowsTyped, RowInv, Known

\* What the other documents, and documents between two conversions, keep.
Kept(d) ==
    /\ run'[d] = run[d] /\ context'[d] = context[d] /\ answers'[d] = answers[d]
    /\ file'[d] = file[d] /\ rows'[d] = rows[d]
    /\ at'[d] = at[d] \/ at'[d] \notin {"commit", "done"}

LEMMA KeptRow ==
    ASSUME NEW d \in Docs, RowInv(d), Kept(d), rules \subseteq rules'
    PROVE  RowInv(d)'
<1>1. \A rule, version : Known(rule, version) => Known(rule, version)'
  BY DEF Known
<1>2. QED
  BY <1>1 DEF RowInv, Kept

\* What a step of one document has to show.
LEMMA OneRow ==
    ASSUME NEW e \in Docs, RowsInv, RowsTyped', RowInv(e)', rules' = rules,
           \A d \in Docs \ {e} : Kept(d)
    PROVE  RowsInv'
<1>1. ASSUME NEW d \in Docs \ {e} PROVE RowInv(d)'
  BY KeptRow DEF RowsInv
<1>2. QED
  BY <1>1 DEF RowsInv

LEMMA AllKept ==
    ASSUME RowsInv, RowsTyped', rules \subseteq rules', \A d \in Docs : Kept(d)
    PROVE  RowsInv'
BY KeptRow DEF RowsInv

LEMMA BeginRow ==
    ASSUME NEW e \in Docs, RowsInv, Begin(e)
    PROVE  RowsInv'
<1> USE DEF RowsInv, RowsTyped, Begin, Goto, result, ruleVars
<1>1. RowsTyped' /\ (\A d \in Docs \ {e} : Kept(d))
  BY Empty DEF Kept
<1>2. PICK c \in Contexts : context' = [context EXCEPT ![e] = c]
  OBVIOUS
<1>3. Known(c.rule, c.version)
  BY DEF Contexts, Known, Latest
<1>4. RowInv(e)'
  BY <1>2, <1>3, Empty DEF RowInv, Known
<1>5. QED
  BY <1>1, <1>4, OneRow

LEMMA AnswerRow ==
    ASSUME NEW e \in Docs, RowsInv, Answer(e)
    PROVE  RowsInv'
<1> USE DEF RowsInv, RowsTyped, Answer, Goto, result, ruleVars
<1> DEFINE new == [segment |-> Portion(e), rule |-> Prompt(e), run |-> run[e]]
<1>1. answers' = [answers EXCEPT ![e] = Append(answers[e], new)]
  OBVIOUS
<1>2. answers'[e] = Append(answers[e], new)
  BY <1>1
<1>3. new.rule = context[e].rule /\ new.run = run[e]
  BY DEF Prompt
<1> HIDE DEF new
<1>4. /\ IsSeq(answers'[e])
      /\ \A i \in DOMAIN answers'[e] : answers'[e][i] = new
                \/ (i \in DOMAIN answers[e] /\ answers'[e][i] = answers[e][i])
  <2>1. IsSeq(answers[e])
    OBVIOUS
  <2>2. QED
    BY ONLY <1>2, <2>1, Appended
<1>5. at'[e] \notin {"commit", "done"}
  OBVIOUS
<1>6. RowsTyped' /\ (\A d \in Docs \ {e} : Kept(d))
  BY <1>1, <1>4 DEF Kept
<1>7. RowInv(e)'
  BY <1>3, <1>4, <1>5 DEF RowInv, Known
<1>8. QED
  BY <1>6, <1>7, OneRow

LEMMA UploadRow ==
    ASSUME NEW e \in Docs, RowsInv, Upload(e) \/ StorageFails(e)
    PROVE  RowsInv'
<1> USE DEF RowsInv, RowsTyped, Upload, StorageFails, Goto, Uploaded, progress, ruleVars
<1>1. RowsTyped' /\ (\A d \in Docs \ {e} : Kept(d))
  BY DEF Kept
<1>2. RowInv(e)'
  BY DEF RowInv, Known
<1>3. QED
  BY <1>1, <1>2, OneRow

LEMMA CommitRow ==
    ASSUME NEW e \in Docs, RowsInv, Commit(e)
    PROVE  RowsInv'
<1> USE DEF RowsInv, RowsTyped, Commit, Goto, progress, ruleVars
<1>1. RowsTyped' /\ (\A d \in Docs \ {e} : Kept(d))
  BY DEF Kept
<1>2. rows'[e] = [i \in DOMAIN answers[e] |->
                    [answer |-> answers[e][i], version |-> context[e].version]]
  OBVIOUS
<1>3. /\ DOMAIN rows'[e] = DOMAIN answers[e]
      /\ \A i \in DOMAIN rows'[e] : /\ rows'[e][i].answer = answers[e][i]
                                    /\ rows'[e][i].version = context[e].version
  BY <1>2
<1>4. answers[e] = [i \in DOMAIN answers[e] |-> answers[e][i]]
  BY DEF IsSeq
<1>5. file'[e] = [i \in DOMAIN rows'[e] |-> rows'[e][i].answer]
  BY <1>3, <1>4 DEF RowInv
<1>6. RowInv(e)'
  BY <1>3, <1>5 DEF RowInv, Known
<1>7. QED
  BY <1>1, <1>6, OneRow

LEMMA RowsInvStep ==
    ASSUME RowsInv, [Next]_vars
    PROVE  RowsInv'
<1> USE DEF RowsInv, RowsTyped
<1>1. ASSUME NEW e \in Docs,
             Download(e) \/ RefreshToken(e) \/ TakeToken(e) \/ CallFails(e)
               \/ RefreshFails(e) \/ AskAgain(e) \/ CommitFails(e) \/ Reprocess(e)
      PROVE  RowsInv'
  <2> USE DEF Download, RefreshToken, TakeToken, CallFails, RefreshFails, AskAgain,
          CommitFails, Reprocess, Retry, Goto, progress, result, ruleVars
  <2>1. /\ UNCHANGED <<run, context, answers, file, rows, rules>>
        /\ \/ UNCHANGED at
           \/ \E l \in {"token", "call", "failed", "again", "queued"} :
                at' = [at EXCEPT ![e] = l]
    BY <1>1
  <2>2. RowsTyped' /\ \A d \in Docs : Kept(d)
    BY <2>1 DEF Kept
  <2>3. QED
    BY <2>1, <2>2, AllKept
<1>2. ASSUME NEW s \in Saves, SaveRules(s) PROVE RowsInv'
  <2>1. rules \subseteq rules' /\ UNCHANGED <<at, run, context, answers, file, rows>>
    BY <1>2 DEF SaveRules, SaveStep, BeginSave, MakeRule, CommitRule, progress, result
  <2>2. RowsTyped' /\ \A d \in Docs : Kept(d)
    BY <2>1 DEF Kept
  <2>3. QED
    BY <2>1, <2>2, AllKept
<1>3. CASE Crash \/ Tick \/ UNCHANGED vars
  <2>1. /\ UNCHANGED <<run, context, answers, file, rows, rules>>
        /\ DOMAIN at' = Docs
        /\ \A d \in Docs : at'[d] = at[d] \/ at'[d] = "queued"
    BY <1>3 DEF Crash, Tick, vars, progress, result, ruleVars
  <2>2. RowsTyped' /\ \A d \in Docs : Kept(d)
    BY <2>1 DEF Kept
  <2>3. QED
    BY <2>1, <2>2, AllKept
<1>4. QED
  BY <1>1, <1>2, <1>3, BeginRow, AnswerRow, UploadRow, CommitRow DEF Next, Work

\* The rows of a document never mix two deliveries or two sets of rules, and they
\* carry the version of the rules they were made with, whatever is saved, retried
\* or delivered again meanwhile.
THEOREM RowsOfOneContext == Spec => []OneContext
<1>1. RowsInv => OneContext
  BY DEF RowsInv, RowInv, Known, OneContext
<1>2. QED
  BY <1>1, RowsInvInit, RowsInvStep, PTL DEF Spec

\* After every conversion that is done, also when an earlier delivery died between
\* the upload and the commit, the copy in converted/ holds what the rows hold.
THEOREM CopyHoldsRows == Spec => []FileHoldsRows
<1>1. RowsInv => FileHoldsRows
  BY DEF RowsInv, RowInv, FileHoldsRows
<1>2. QED
  BY <1>1, RowsInvInit, RowsInvStep, PTL DEF Spec
-----------------------------------------------------------------------------
(* The split, of any text.                                                   *)

LEMMA SegmentMaxIs == SegmentMax \in Nat \ {0}
BY ConversionAssumption

\* <<p, i>>, see TextSplit.
Char == Nat \X Nat

\* The variables of the loop.
State == [segments : Seq(Seq(Char)), current : Seq(Char)]

\* Induction up to a bound, for a set.
LEMMA Upwards ==
    ASSUME NEW n \in Nat, NEW S, 0 \in S, \A k \in 1..n : k - 1 \in S => k \in S
    PROVE  \A k \in 0..n : k \in S
<1> DEFINE Bad == {k \in 0..n : k \notin S}
<1> SUFFICES ASSUME Bad # {} PROVE FALSE
  OBVIOUS
<1>1. Bad \subseteq Nat
  OBVIOUS
<1>2. \E m \in Bad : \A k \in Bad : <<k, m>> \notin OpToRel(<, Nat)
  BY <1>1, NatLessThanWellFounded, WFMin
<1>3. PICK m \in Bad : \A k \in Bad : ~ (k < m)
  BY <1>1, <1>2 DEF OpToRel
<1>4. m \in 1..n
  OBVIOUS
<1>5. m - 1 \in 0..n /\ m - 1 < m
  BY <1>4
<1>6. m - 1 \in S
  BY <1>3, <1>5
<1> QED
  BY <1>4, <1>6

\* f is the history of a loop of n turns that starts with v.
IsHistory(f, n, V, v, turn) ==
    /\ f \in [0..n -> V]
    /\ f[0] = v
    /\ \A p \in 1..n : f[p] = turn[p][f[p - 1]]

LEMMA History ==
    ASSUME NEW n \in Nat, NEW V, NEW v \in V, NEW turn \in [1..n -> [V -> V]]
    PROVE  \E f : IsHistory(f, n, V, v, turn)
<1> DEFINE Done == {k \in 0..n : \E f \in [0..k -> V] :
                        f[0] = v /\ \A p \in 1..k : f[p] = turn[p][f[p - 1]]}
<1>1. 0 \in Done
  <2>1. [p \in 0..0 |-> v] \in [0..0 -> V]
    OBVIOUS
  <2>2. [p \in 0..0 |-> v][0] = v /\ \A p \in 1..0 : FALSE
    OBVIOUS
  <2>3. \E f \in [0..0 -> V] : f[0] = v /\ \A p \in 1..0 : f[p] = turn[p][f[p - 1]]
    BY <2>1, <2>2
  <2> QED
    BY <2>3
<1>2. ASSUME NEW k \in 1..n, k - 1 \in Done PROVE k \in Done
  <2>1. PICK f \in [0..(k - 1) -> V] :
            f[0] = v /\ \A p \in 1..(k - 1) : f[p] = turn[p][f[p - 1]]
    BY <1>2
  <2> DEFINE g == [p \in 0..k |-> IF p = k THEN turn[k][f[k - 1]] ELSE f[p]]
  <2>2. k - 1 \in 0..(k - 1) /\ f[k - 1] \in V
    OBVIOUS
  <2>3. turn[k][f[k - 1]] \in V
    BY <2>2
  <2>4. g \in [0..k -> V]
    BY <2>3
  <2>5. g[0] = v
    BY <2>1
  <2>6. ASSUME NEW p \in 1..k PROVE g[p] = turn[p][g[p - 1]]
    <3>1. p - 1 \in 0..k /\ p - 1 # k /\ g[p - 1] = f[p - 1]
      OBVIOUS
    <3>2. CASE p = k
      BY <3>1, <3>2
    <3>3. CASE p # k
      BY <2>1, <3>1, <3>3
    <3> QED
      BY <3>2, <3>3
  <2> HIDE DEF g
  <2>7. \E h \in [0..k -> V] : h[0] = v /\ \A p \in 1..k : h[p] = turn[p][h[p - 1]]
    BY <2>4, <2>5, <2>6
  <2>8. k \in 0..n
    OBVIOUS
  <2> QED
    BY <2>7, <2>8
<1>3. n \in Done
  <2> HIDE DEF Done
  <2>1. \A k \in 1..n : k - 1 \in Done => k \in Done
    BY <1>2
  <2>2. \A k \in 0..n : k \in Done
    BY <1>1, <2>1, Upwards
  <2> QED
    BY <2>2
<1>4. PICK f \in [0..n -> V] : f[0] = v /\ \A p \in 1..n : f[p] = turn[p][f[p - 1]]
  BY <1>3
<1> QED
  BY <1>4 DEF IsHistory

\* c is in the portion s, in one of the portions segs; s is in the order of the text.
In(s, c) == \E i \in DOMAIN s : s[i] = c
Has(segs, c) == \E k \in DOMAIN segs : In(segs[k], c)
Ordered(s) == \A i, j \in DOMAIN s : i < j => Precedes(s[i], s[j])

\* The least and the greatest of some numbers.
LEMMA MinIs ==
    ASSUME NEW S \in SUBSET Nat, S # {}
    PROVE  Min(S) \in S /\ \A x \in S : Min(S) <= x
<1>1. \E m \in S : \A k \in S : <<k, m>> \notin OpToRel(<, Nat)
  BY NatLessThanWellFounded, WFMin
<1>2. PICK m \in S : \A k \in S : ~ (k < m)
  BY <1>1 DEF OpToRel
<1>3. \A x \in S : m <= x
  BY <1>2
<1> QED
  BY <1>3 DEF Min

LEMMA MaxIs ==
    ASSUME NEW n \in Nat, NEW S \in SUBSET (0..n), S # {}
    PROVE  Max(S) \in S /\ \A x \in S : x <= Max(S)
<1> DEFINE T == {n - x : x \in S}
<1>1. T \in SUBSET Nat /\ T # {}
  <2>1. \A x \in S : n - x \in Nat
    OBVIOUS
  <2>2. PICK x \in S : TRUE
    OBVIOUS
  <2> QED
    BY <2>1, <2>2
<1>2. Min(T) \in T /\ \A y \in T : Min(T) <= y
  <2> HIDE DEF T
  <2> QED
    BY <1>1, MinIs
<1>3. PICK m \in S : Min(T) = n - m
  BY <1>2
<1>4. \A x \in S : m >= x
  <2> SUFFICES ASSUME NEW x \in S PROVE m >= x
    OBVIOUS
  <2>1. n - m <= n - x
    BY <1>2, <1>3
  <2> QED
    BY <2>1
<1> QED
  BY <1>4 DEF Max

\* strip() takes blanks from the ends.
LEMMA StripKeeps ==
    ASSUME NEW t, NEW s \in Seq(Char), Ordered(s)
    PROVE  /\ Strip(t, s) \in Seq(Char)
           /\ Len(Strip(t, s)) <= Len(s)
           /\ Ordered(Strip(t, s))
           /\ \A c : In(Strip(t, s), c) => In(s, c)
           /\ \A c : In(s, c) /\ IsInk(t, c) => In(Strip(t, s), c)
<1> DEFINE ink == Inked(t, s)
           a == Min(ink)
           b == Max(ink)
           n == Len(s)
<1>1. n \in Nat /\ DOMAIN s = 1..n /\ \A i \in 1..n : s[i] \in Char
  OBVIOUS
<1>2. ink \subseteq 1..n /\ \A i \in 1..n : IsInk(t, s[i]) => i \in ink
  BY <1>1 DEF Inked
<1>3. CASE ink = {}
  <2>1. Strip(t, s) = <<>>
    BY <1>3 DEF Strip
  <2>2. \A c : In(s, c) => ~ IsInk(t, c)
    BY <1>1, <1>2, <1>3 DEF In
  <2>3. <<>> \in Seq(Char) /\ Len(<<>>) = 0 /\ DOMAIN <<>> = {}
    OBVIOUS
  <2>4. 0 <= Len(s)
    OBVIOUS
  <2> QED
    BY <2>1, <2>2, <2>3, <2>4 DEF Ordered, In
<1>4. CASE ink # {}
  <2>1. Strip(t, s) = SubSeq(s, a, b)
    BY <1>4 DEF Strip
  <2>2. a \in ink /\ b \in ink /\ \A i \in ink : a <= i /\ i <= b
    <3> HIDE DEF n
    <3>1. ink \in SUBSET Nat /\ ink \in SUBSET (0..n)
      BY <1>1, <1>2
    <3> HIDE DEF ink
    <3>2. a \in ink /\ \A i \in ink : a <= i
      BY <3>1, <1>4, MinIs
    <3>3. b \in ink /\ \A i \in ink : i <= b
      BY <3>1, <1>1, <1>4, MaxIs
    <3> QED
      BY <3>2, <3>3
  <2> HIDE DEF a, b, ink, n
  <2>3. a \in 1..n /\ b \in 1..n /\ a <= b
    BY <1>2, <2>2
  <2>4. a \in Int /\ b \in Int /\ \A i \in a..b : s[i] \in Char
    BY <1>1, <2>3
  <2> DEFINE u == Strip(t, s)
  <2>5. /\ u \in Seq(Char)
        /\ Len(u) = b - a + 1
        /\ \A i \in 1..(b - a + 1) : u[i] = s[a + i - 1]
    BY <2>1, <2>3, <2>4, SubSeqProperties
  <2> HIDE DEF u
  <2>6. DOMAIN u = 1..(b - a + 1)
    BY <2>5
  <2>7. \A i \in 1..(b - a + 1) : a + i - 1 \in 1..n /\ u[i] = s[a + i - 1]
    BY <1>1, <2>3, <2>5
  <2>8. Len(u) <= n
    BY <1>1, <2>3, <2>5
  <2>9. Ordered(u)
    <3> SUFFICES ASSUME NEW i \in 1..(b - a + 1), NEW j \in 1..(b - a + 1), i < j
                 PROVE  Precedes(u[i], u[j])
      BY <2>6 DEF Ordered
    <3>1. a + i - 1 < a + j - 1
      BY <2>3
    <3> QED
      BY <1>1, <2>7, <3>1 DEF Ordered
  <2>10. \A c : In(u, c) => In(s, c)
    BY <1>1, <2>6, <2>7 DEF In
  <2>11. ASSUME NEW c, In(s, c), IsInk(t, c) PROVE In(u, c)
    <3>1. PICK i \in 1..n : s[i] = c
      BY <1>1, <2>11 DEF In
    <3>2. i \in ink
      BY <1>2, <2>11, <3>1
    <3>3. i - a + 1 \in 1..(b - a + 1) /\ a + (i - a + 1) - 1 = i
      BY <2>2, <2>3, <3>1, <3>2
    <3>4. u[i - a + 1] = c
      BY <2>7, <3>1, <3>3
    <3> QED
      BY <2>6, <3>3, <3>4 DEF In
  <2> QED
    BY <2>5, <2>8, <2>9, <2>10, <2>11 DEF u, n
<1> QED
  BY <1>3, <1>4

\* Segments are in order when each is and each precedes the later ones.
LEMMA InOrderIs ==
    ASSUME NEW segs \in Seq(Seq(Char))
    PROVE  InOrder(segs) <=>
             /\ \A k \in DOMAIN segs : Ordered(segs[k])
             /\ \A k, l \in DOMAIN segs : k < l =>
                    \A c, e : In(segs[k], c) /\ In(segs[l], e) => Precedes(c, e)
<1>1. \A k, l, i, j : Precedes(<<k, i>>, <<l, j>>) <=> k < l \/ (k = l /\ i < j)
  BY DEF Precedes
<1>2. \A k \in DOMAIN segs : k \in Int /\ ~ (k < k)
  OBVIOUS
<1>3. InOrder(segs) <=>
        \A k, l \in DOMAIN segs : \A i \in DOMAIN segs[k], j \in DOMAIN segs[l] :
            k < l \/ (k = l /\ i < j) => Precedes(segs[k][i], segs[l][j])
  BY <1>1 DEF InOrder
<1> QED
  BY <1>2, <1>3 DEF Ordered, In

\* A portion after another.
LEMMA ThenOrdered ==
    ASSUME NEW a \in Seq(Char), NEW b \in Seq(Char), Ordered(a), Ordered(b),
           \A c, e : In(a, c) /\ In(b, e) => Precedes(c, e)
    PROVE  /\ a \o b \in Seq(Char) /\ Len(a \o b) = Len(a) + Len(b)
           /\ Ordered(a \o b)
           /\ \A c : In(a \o b, c) <=> In(a, c) \/ In(b, c)
<1> DEFINE m == Len(a)
           n == Len(b)
           ab == a \o b
<1>1. m \in Nat /\ n \in Nat /\ DOMAIN a = 1..m /\ DOMAIN b = 1..n
  OBVIOUS
<1>2. ab \in Seq(Char) /\ Len(ab) = m + n /\ DOMAIN ab = 1..(m + n)
  OBVIOUS
<1>3. \A i \in 1..(m + n) : ab[i] = IF i <= m THEN a[i] ELSE b[i - m]
  BY ConcatProperties
<1> HIDE DEF m, n, ab
<1>4. Ordered(ab)
  <2> SUFFICES ASSUME NEW i \in 1..(m + n), NEW j \in 1..(m + n), i < j
               PROVE  Precedes(ab[i], ab[j])
    BY <1>2 DEF Ordered
  <2>1. CASE j <= m
    <3>1. i \in 1..m /\ j \in 1..m
      BY <1>1, <2>1
    <3> QED
      BY <1>1, <1>3, <2>1, <3>1 DEF Ordered
  <2>2. CASE i > m
    <3>1. i - m \in 1..n /\ j - m \in 1..n /\ i - m < j - m /\ ~ (i <= m) /\ ~ (j <= m)
      BY <1>1, <2>2
    <3> QED
      BY <1>1, <1>3, <3>1 DEF Ordered
  <2>3. CASE i <= m /\ j > m
    <3>1. i \in 1..m /\ j - m \in 1..n /\ ~ (j <= m)
      BY <1>1, <2>3
    <3>2. In(a, ab[i]) /\ In(b, ab[j])
      BY <1>1, <1>3, <2>3, <3>1 DEF In
    <3> QED
      BY <3>2
  <2> QED
    BY <1>1, <2>1, <2>2, <2>3
<1>5. ASSUME NEW c, In(ab, c) PROVE In(a, c) \/ In(b, c)
  <2>1. PICK i \in 1..(m + n) : ab[i] = c
    BY <1>2, <1>5 DEF In
  <2>2. i \in 1..m \/ (i - m \in 1..n /\ ~ (i <= m))
    BY <1>1
  <2> QED
    BY <1>1, <1>3, <2>1, <2>2 DEF In
<1>6. ASSUME NEW c, In(a, c) \/ In(b, c) PROVE In(ab, c)
  <2>1. CASE In(a, c)
    <3>1. PICK i \in 1..m : a[i] = c
      BY <1>1, <2>1 DEF In
    <3>2. i \in 1..(m + n) /\ i <= m
      BY <1>1
    <3> QED
      BY <1>2, <1>3, <3>1, <3>2 DEF In
  <2>2. CASE In(b, c)
    <3>1. PICK i \in 1..n : b[i] = c
      BY <1>1, <2>2 DEF In
    <3>2. i + m \in 1..(m + n) /\ ~ (i + m <= m) /\ (i + m) - m = i
      BY <1>1
    <3> QED
      BY <1>2, <1>3, <3>1, <3>2 DEF In
  <2> QED
    BY <1>6, <2>1, <2>2
<1> QED
  BY <1>2, <1>4, <1>5, <1>6 DEF m, n, ab

\* Segments after others.
LEMMA ThenInOrder ==
    ASSUME NEW a \in Seq(Seq(Char)), NEW b \in Seq(Seq(Char)), InOrder(a), InOrder(b),
           Fits(a), Fits(b), \A c, e : Has(a, c) /\ Has(b, e) => Precedes(c, e)
    PROVE  /\ a \o b \in Seq(Seq(Char))
           /\ Fits(a \o b)
           /\ InOrder(a \o b)
           /\ \A c : Has(a \o b, c) <=> Has(a, c) \/ Has(b, c)
<1> DEFINE m == Len(a)
           n == Len(b)
           ab == a \o b
<1>1. m \in Nat /\ n \in Nat /\ DOMAIN a = 1..m /\ DOMAIN b = 1..n
  OBVIOUS
<1>2. ab \in Seq(Seq(Char)) /\ DOMAIN ab = 1..(m + n)
  <2>1. ab \in Seq(Seq(Char)) /\ Len(ab) = m + n
    BY ConcatProperties
  <2> HIDE DEF ab
  <2> QED
    BY <2>1
<1>3. \A i \in 1..(m + n) : ab[i] = IF i <= m THEN a[i] ELSE b[i - m]
  BY ConcatProperties
<1> HIDE DEF m, n, ab
<1>4. \A i \in 1..(m + n) :
        \/ i \in 1..m /\ i <= m /\ ab[i] = a[i]
        \/ i - m \in 1..n /\ ~ (i <= m) /\ ab[i] = b[i - m]
  BY <1>1, <1>3
<1>5. /\ \A i \in 1..m : i \in 1..(m + n) /\ ab[i] = a[i]
      /\ \A i \in 1..n : i + m \in 1..(m + n) /\ ab[i + m] = b[i]
  <2>1. \A i \in 1..n : i + m \in 1..(m + n) /\ ~ (i + m <= m) /\ (i + m) - m = i
    BY <1>1
  <2>2. \A i \in 1..m : i \in 1..(m + n) /\ i <= m
    BY <1>1
  <2> QED
    BY <1>3, <2>1, <2>2
<1>6. Fits(ab)
  BY <1>1, <1>2, <1>4 DEF Fits
<1>7. \A c : Has(ab, c) <=> Has(a, c) \/ Has(b, c)
  <2>1. \A c : Has(ab, c) => Has(a, c) \/ Has(b, c)
    BY <1>1, <1>2, <1>4 DEF Has
  <2>2. \A c : Has(a, c) => Has(ab, c)
    BY <1>1, <1>2, <1>5 DEF Has
  <2>3. \A c : Has(b, c) => Has(ab, c)
    BY <1>1, <1>2, <1>5 DEF Has
  <2> QED
    BY <2>1, <2>2, <2>3
<1>8. \A k \in 1..(m + n) : Ordered(ab[k])
  <2>1. \A k \in 1..m : Ordered(a[k])
    BY <1>1, InOrderIs
  <2>2. \A k \in 1..n : Ordered(b[k])
    BY <1>1, InOrderIs
  <2> QED
    BY <1>4, <2>1, <2>2
<1>9. ASSUME NEW k \in 1..(m + n), NEW l \in 1..(m + n), k < l, NEW c, NEW e,
             In(ab[k], c), In(ab[l], e)
      PROVE  Precedes(c, e)
  <2>1. CASE l <= m
    <3>1. k \in 1..m /\ l \in 1..m /\ ab[k] = a[k] /\ ab[l] = a[l]
      BY <1>1, <1>3, <1>9, <2>1
    <3> QED
      BY <1>1, <1>9, <3>1, InOrderIs
  <2>2. CASE k > m
    <3>1. k - m \in 1..n /\ l - m \in 1..n /\ k - m < l - m /\ ~ (k <= m) /\ ~ (l <= m)
      BY <1>1, <1>9, <2>2
    <3>2. ab[k] = b[k - m] /\ ab[l] = b[l - m]
      BY <1>3, <3>1
    <3> QED
      BY <1>1, <1>9, <3>1, <3>2, InOrderIs
  <2>3. CASE k <= m /\ l > m
    <3>1. k \in 1..m /\ l - m \in 1..n /\ ~ (l <= m)
      BY <1>1, <2>3
    <3>2. Has(a, c) /\ Has(b, e)
      BY <1>1, <1>3, <1>9, <2>3, <3>1 DEF Has
    <3> QED
      BY <3>2
  <2> QED
    BY <1>1, <2>1, <2>2, <2>3
<1>10. InOrder(ab)
  BY <1>2, <1>8, <1>9, InOrderIs
<1> QED
  BY <1>2, <1>6, <1>7, <1>10 DEF ab

LEMMA OneInOrder ==
    ASSUME NEW s \in Seq(Char), Ordered(s), Len(s) <= SegmentMax
    PROVE  /\ <<s>> \in Seq(Seq(Char))
           /\ Fits(<<s>>) /\ InOrder(<<s>>)
           /\ \A c : Has(<<s>>, c) <=> In(s, c)
<1>1. <<s>> \in Seq(Seq(Char)) /\ DOMAIN <<s>> = {1} /\ <<s>>[1] = s
  OBVIOUS
<1> DEFINE ss == <<s>>
<1> HIDE DEF ss
<1>2. ss \in Seq(Seq(Char)) /\ DOMAIN ss = {1} /\ ss[1] = s
  BY <1>1 DEF ss
<1>3. InOrder(ss)
  BY <1>2, InOrderIs
<1>4. Fits(ss)
  BY <1>2 DEF Fits
<1>5. \A c : Has(ss, c) <=> In(s, c)
  BY <1>2 DEF Has
<1> QED
  BY <1>2, <1>3, <1>4, <1>5 DEF ss

\* A portion that is flushed loses no ink.
LEMMA FlushedKeeps ==
    ASSUME NEW t, NEW st, st.segments \in Seq(Seq(Char)), st.current \in Seq(Char),
           Fits(st.segments), Len(st.current) <= SegmentMax,
           InOrder(st.segments), Ordered(st.current),
           \A c, e : Has(st.segments, c) /\ In(st.current, e) => Precedes(c, e)
    PROVE  /\ Flushed(t, st) \in Seq(Seq(Char))
           /\ Fits(Flushed(t, st))
           /\ InOrder(Flushed(t, st))
           /\ \A c : Has(Flushed(t, st), c) => Has(st.segments, c) \/ In(st.current, c)
           /\ \A c : Has(st.segments, c) \/ (In(st.current, c) /\ IsInk(t, c)) => Has(Flushed(t, st), c)
<1> DEFINE a == st.segments
           s == Strip(t, st.current)
<1>1. /\ s \in Seq(Char) /\ Len(s) <= Len(st.current) /\ Ordered(s)
      /\ \A c : In(s, c) => In(st.current, c)
      /\ \A c : In(st.current, c) /\ IsInk(t, c) => In(s, c)
  BY StripKeeps
<1>2. Len(s) <= SegmentMax
  BY <1>1, SegmentMaxIs
<1>3. Flushed(t, st) = IF s = <<>> THEN a ELSE a \o <<s>>
  <2>1. Flushed(t, st) = IF s = <<>> THEN a ELSE Append(a, s)
    BY DEF Flushed
  <2>2. Append(a, s) = a \o <<s>>
    <3> HIDE DEF s
    <3> QED
      BY <1>1
  <2> QED
    BY <2>1, <2>2
<1> HIDE DEF s
<1>4. CASE s = <<>>
  <2>1. \A c : ~ In(s, c)
    BY <1>4 DEF In
  <2> QED
    BY <1>1, <1>3, <1>4, <2>1
<1>5. CASE s # <<>>
  <2> DEFINE b == <<s>>
  <2>1. b \in Seq(Seq(Char)) /\ Fits(b) /\ InOrder(b) /\ \A c : Has(b, c) <=> In(s, c)
    BY <1>1, <1>2, OneInOrder
  <2>2. \A c, e : Has(a, c) /\ Has(b, e) => Precedes(c, e)
    BY <1>1, <2>1
  <2> HIDE DEF b
  <2>3. /\ a \o b \in Seq(Seq(Char)) /\ Fits(a \o b) /\ InOrder(a \o b)
        /\ \A c : Has(a \o b, c) <=> Has(a, c) \/ Has(b, c)
    BY <2>1, <2>2, ThenInOrder
  <2>4. Flushed(t, st) = a \o b
    BY <1>3, <1>5 DEF b
  <2> QED
    BY <1>1, <2>1, <2>3, <2>4
<1> QED
  BY <1>4, <1>5

LEMMA Division ==
    ASSUME NEW x \in Nat, NEW m \in Nat \ {0}
    PROVE  /\ x \div m \in Nat
           /\ (x \div m) * m <= x /\ x < (x \div m) * m + m
<1>1. x = m * (x \div m) + (x % m) /\ x % m \in 0..(m - 1) /\ x \div m \in Int
  OBVIOUS
<1> QED
  BY <1>1

\* Cutting loses nothing: piece k holds the characters (k - 1) * SegmentMax + 1 on.
LEMMA PiecesKeep ==
    ASSUME NEW s \in Seq(Char), Ordered(s)
    PROVE  /\ Pieces(s) \in Seq(Seq(Char))
           /\ Fits(Pieces(s)) /\ InOrder(Pieces(s))
           /\ \A c : Has(Pieces(s), c) <=> In(s, c)
<1> DEFINE M == SegmentMax
           n == Len(s)
           N == (n + M - 1) \div M
           P == Pieces(s)
           lo(k) == (k - 1) * M
           hi(k) == Min({k * M, n})
<1>1. /\ n \in Nat /\ M \in Nat /\ M > 0 /\ DOMAIN s = 1..n
      /\ \A i \in 1..n : s[i] \in Char
  BY SegmentMaxIs
<1>2. N \in Nat /\ N * M <= n + M - 1 /\ n + M - 1 < N * M + M
  <2>1. n + M - 1 \in Nat /\ M \in Nat \ {0}
    BY <1>1
  <2> HIDE DEF n, M
  <2> QED
    BY <2>1, Division
<1>3. /\ DOMAIN P = 1..N
      /\ \A k \in 1..N : P[k] = SubSeq(s, lo(k) + 1, hi(k))
  BY DEF Pieces
<1> HIDE DEF N, P, n, M
<1>4. \A x, y \in Nat : Min({x, y}) = IF x <= y THEN x ELSE y
  <2> SUFFICES ASSUME NEW x \in Nat, NEW y \in Nat
               PROVE  Min({x, y}) = IF x <= y THEN x ELSE y
    OBVIOUS
  <2>1. {x, y} \in SUBSET Nat /\ {x, y} # {}
    OBVIOUS
  <2>2. Min({x, y}) \in {x, y} /\ \A z \in {x, y} : Min({x, y}) <= z
    BY <2>1, MinIs
  <2> QED
    BY <2>2
<1>5. ASSUME NEW k \in 1..N
      PROVE  /\ lo(k) \in Nat /\ lo(k) < n /\ lo(k) + M = k * M
             /\ hi(k) = (IF k * M <= n THEN k * M ELSE n)
             /\ hi(k) \in Nat /\ hi(k) > lo(k) /\ hi(k) <= n /\ hi(k) <= lo(k) + M
  <2>1. lo(k) \in Nat /\ lo(k) + M = k * M /\ k * M \in Nat
    BY <1>1
  <2>2. k * M <= N * M
    BY <1>1, <1>2
  <2>3. lo(k) < n
    BY <1>1, <1>2, <2>1, <2>2
  <2>4. hi(k) = IF k * M <= n THEN k * M ELSE n
    BY <1>1, <1>4, <2>1
  <2> HIDE DEF lo, hi
  <2> QED
    BY <1>1, <2>1, <2>3, <2>4
<1>6. \A k, l \in 1..N : k < l => k * M <= lo(l)
  BY <1>1
<1> HIDE DEF lo, hi
<1>7. ASSUME NEW k \in 1..N
      PROVE  /\ P[k] \in Seq(Char) /\ Len(P[k]) = hi(k) - lo(k)
             /\ DOMAIN P[k] = 1..(hi(k) - lo(k))
             /\ \A i \in 1..(hi(k) - lo(k)) : lo(k) + i \in 1..n /\ P[k][i] = s[lo(k) + i]
  <2>1. lo(k) + 1 \in Int /\ hi(k) \in Int /\ \A i \in (lo(k) + 1)..hi(k) : s[i] \in Char
    BY <1>1, <1>5
  <2>2. /\ P[k] \in Seq(Char)
        /\ Len(P[k]) = IF lo(k) + 1 <= hi(k) THEN hi(k) - (lo(k) + 1) + 1 ELSE 0
        /\ \A i \in 1..(hi(k) - (lo(k) + 1) + 1) : P[k][i] = s[(lo(k) + 1) + i - 1]
    <3> DEFINE a == lo(k) + 1
               b == hi(k)
               u == SubSeq(s, a, b)
    <3>1. a \in Int /\ b \in Int /\ \A i \in a..b : s[i] \in Char
      BY <2>1
    <3>2. P[k] = u
      BY <1>3
    <3> HIDE DEF a, b
    <3>3. /\ u \in Seq(Char) /\ Len(u) = IF a <= b THEN b - a + 1 ELSE 0
          /\ \A i \in 1..(b - a + 1) : u[i] = s[a + i - 1]
      BY <3>1, SubSeqProperties
    <3> HIDE DEF u
    <3> QED
      BY <3>2, <3>3 DEF a, b
  <2>3. Len(P[k]) = hi(k) - lo(k)
    BY <1>5, <2>2
  <2>4. \A i \in 1..(hi(k) - lo(k)) : lo(k) + i \in 1..n /\ P[k][i] = s[lo(k) + i]
    <3> SUFFICES ASSUME NEW i \in 1..(hi(k) - lo(k))
                 PROVE  lo(k) + i \in 1..n /\ P[k][i] = s[lo(k) + i]
      OBVIOUS
    <3>1. hi(k) - (lo(k) + 1) + 1 = hi(k) - lo(k) /\ (lo(k) + 1) + i - 1 = lo(k) + i
      BY <1>5
    <3>2. lo(k) + i \in 1..n
      BY <1>1, <1>5
    <3> QED
      BY <2>2, <3>1, <3>2
  <2> QED
    BY <2>2, <2>3, <2>4
<1>8. P \in Seq(Seq(Char))
  <2>1. P = [k \in 1..N |-> P[k]]
    BY DEF P, Pieces, N, n, M
  <2>2. P \in [1..N -> Seq(Char)]
    BY <1>7, <2>1
  <2> QED
    BY <1>2, <2>2
<1>9. Fits(P)
  BY <1>1, <1>3, <1>5, <1>7 DEF Fits, M
<1>10. \A k \in 1..N : Ordered(P[k])
  <2> SUFFICES ASSUME NEW k \in 1..N, NEW i \in 1..(hi(k) - lo(k)), NEW j \in 1..(hi(k) - lo(k)), i < j
               PROVE  Precedes(P[k][i], P[k][j])
    BY <1>7 DEF Ordered
  <2>1. lo(k) + i < lo(k) + j
    BY <1>5
  <2> QED
    BY <1>1, <1>7, <2>1 DEF Ordered
<1>11. ASSUME NEW k \in 1..N, NEW l \in 1..N, k < l, NEW c, NEW e, In(P[k], c), In(P[l], e)
       PROVE  Precedes(c, e)
  <2>1. PICK i \in 1..(hi(k) - lo(k)) : P[k][i] = c
    BY <1>7, <1>11 DEF In
  <2>2. PICK j \in 1..(hi(l) - lo(l)) : P[l][j] = e
    BY <1>7, <1>11 DEF In
  <2>3. hi(k) <= lo(l)
    BY <1>1, <1>5, <1>6, <1>11
  <2>4. lo(k) + i < lo(l) + j
    BY <1>5, <2>3
  <2> QED
    BY <1>1, <1>7, <2>1, <2>2, <2>4 DEF Ordered
<1>12. InOrder(P)
  BY <1>3, <1>8, <1>10, <1>11, InOrderIs
<1>13. \A c : Has(P, c) => In(s, c)
  BY <1>1, <1>3, <1>7 DEF Has, In
<1>14. ASSUME NEW c, In(s, c) PROVE Has(P, c)
  <2>1. PICK i \in 1..n : s[i] = c
    BY <1>1, <1>14 DEF In
  <2> DEFINE q == (i - 1) \div M
  <2>2. q \in Nat /\ q * M <= i - 1 /\ i - 1 < q * M + M
    <3>1. i - 1 \in Nat /\ M \in Nat \ {0}
      BY <1>1
    <3> QED
      BY <3>1, Division
  <2> HIDE DEF q
  <2>3. q + 1 \in 1..N
    <3>1. q * M < N * M
      BY <1>1, <1>2, <2>2
    <3>2. q < N
      BY <1>1, <1>2, <2>2, <3>1
    <3> QED
      BY <1>2, <2>2, <3>2
  <2>4. lo(q + 1) = q * M /\ (q + 1) * M = q * M + M
    BY <1>1, <2>2 DEF lo
  <2>5. i - lo(q + 1) \in 1..(hi(q + 1) - lo(q + 1)) /\ lo(q + 1) + (i - lo(q + 1)) = i
    <3> DEFINE r == q + 1
    <3>1. /\ hi(r) = (IF r * M <= n THEN r * M ELSE n)
          /\ hi(r) \in Nat /\ lo(r) \in Nat
      BY <1>5, <2>3
    <3>2. lo(r) <= i - 1 /\ i - 1 < r * M /\ r * M \in Nat
      BY <1>1, <2>2, <2>4
    <3> HIDE DEF r
    <3>3. i - lo(r) \in 1..(hi(r) - lo(r)) /\ lo(r) + (i - lo(r)) = i
      BY <1>1, <3>1, <3>2
    <3> QED
      BY <3>3 DEF r
  <2>6. P[q + 1][i - lo(q + 1)] = c
    BY <1>7, <2>1, <2>3, <2>5
  <2> QED
    BY <1>3, <1>7, <2>3, <2>5, <2>6 DEF Has, In
<1> QED
  BY <1>8, <1>9, <1>12, <1>13, <1>14 DEF P

LEMMA ParagraphIs ==
    ASSUME NEW t \in Seq(Seq(BOOLEAN)), NEW p \in 1..Len(t)
    PROVE  /\ Paragraph(t, p) \in Seq(Char)
           /\ Ordered(Paragraph(t, p))
           /\ \A c : In(Paragraph(t, p), c) => c[1] = p /\ c[2] > 0
           /\ \A i \in DOMAIN t[p] : In(Paragraph(t, p), <<p, i>>)
<1> DEFINE n == Len(t[p])
           s == Paragraph(t, p)
<1>1. n \in Nat /\ DOMAIN t[p] = 1..n /\ p \in Nat
  OBVIOUS
<1>2. s = [i \in 1..n |-> <<p, i>>]
  BY DEF Paragraph
<1> HIDE DEF n
<1>3. s \in Seq(Char) /\ DOMAIN s = 1..n /\ \A i \in 1..n : s[i] = <<p, i>>
  <2>1. \A i \in 1..n : <<p, i>> \in Char
    BY <1>1 DEF Char
  <2>2. s \in [1..n -> Char]
    BY <1>2, <2>1
  <2> QED
    BY <1>1, <1>2, <2>2
<1> HIDE DEF s
<1>4. Ordered(s)
  BY <1>1, <1>3 DEF Ordered, Precedes
<1>5. \A c : In(s, c) => c[1] = p /\ c[2] > 0
  <2> SUFFICES ASSUME NEW i \in 1..n PROVE s[i][1] = p /\ s[i][2] > 0
    BY <1>3 DEF In
  <2> QED
    BY <1>1, <1>3
<1>6. \A i \in 1..n : In(s, <<p, i>>)
  BY <1>3 DEF In
<1> QED
  BY <1>1, <1>3, <1>4, <1>5, <1>6 DEF s

\* Ink is a character of the text.
LEMMA InkIs ==
    ASSUME NEW t \in Seq(Seq(BOOLEAN)), NEW p \in DOMAIN t, NEW i \in DOMAIN t[p], t[p][i]
    PROVE  IsInk(t, <<p, i>>)
<1>1. i > 0
  OBVIOUS
<1> QED
  BY <1>1 DEF IsInk

\* The loop so far: p paragraphs taken.
LoopOf(t, p, segs, cur) ==
    /\ Fits(segs) /\ Len(cur) <= SegmentMax
    /\ InOrder(segs) /\ Ordered(cur)
    /\ \A c, e : Has(segs, c) /\ In(cur, e) => Precedes(c, e)
    /\ \A c : Has(segs, c) \/ In(cur, c) => c[1] <= p
    /\ \A q \in 1..p : \A i \in DOMAIN t[q] :
            t[q][i] => Has(segs, <<q, i>>) \/ In(cur, <<q, i>>)

Loop(t, p, st) == st \in State /\ LoopOf(t, p, st.segments, st.current)

LEMMA EmptyIs ==
    /\ <<>> \in Seq(Char) /\ <<>> \in Seq(Seq(Char)) /\ Len(<<>>) = 0
    /\ Ordered(<<>>) /\ InOrder(<<>>) /\ Fits(<<>>)
    /\ \A c : ~ In(<<>>, c) /\ ~ Has(<<>>, c)
<1>1. <<>> \in Seq(Char) /\ <<>> \in Seq(Seq(Char)) /\ Len(<<>>) = 0 /\ DOMAIN <<>> = {}
  OBVIOUS
<1> QED
  BY <1>1 DEF Ordered, InOrder, Fits, In, Has

LEMMA LoopStart ==
    ASSUME NEW t
    PROVE  Loop(t, 0, [segments |-> <<>>, current |-> <<>>])
<1> DEFINE st == [segments |-> <<>>, current |-> <<>>]
<1>1. st.segments = <<>> /\ st.current = <<>> /\ st \in State
  BY EmptyIs DEF State
<1>2. 0 <= SegmentMax /\ 1..0 = {}
  BY SegmentMaxIs
<1> HIDE DEF st
<1>3. Loop(t, 0, st)
  BY <1>1, <1>2, EmptyIs DEF Loop, LoopOf
<1> QED
  BY <1>3 DEF st

\* A paragraph comes after all that is there.
LEMMA LoopTurn ==
    ASSUME NEW t \in Seq(Seq(BOOLEAN)), NEW p \in 1..Len(t), NEW st, Loop(t, p - 1, st)
    PROVE  Loop(t, p, AddParagraph(t, st, p))
<1> DEFINE para == Paragraph(t, p)
           F == Flushed(t, st)
           next == AddParagraph(t, st, p)
<1>1. /\ st.segments \in Seq(Seq(Char)) /\ st.current \in Seq(Char)
      /\ Fits(st.segments) /\ Len(st.current) <= SegmentMax
      /\ InOrder(st.segments) /\ Ordered(st.current)
      /\ \A c, e : Has(st.segments, c) /\ In(st.current, e) => Precedes(c, e)
  BY DEF Loop, LoopOf, State
<1>2. /\ F \in Seq(Seq(Char)) /\ Fits(F) /\ InOrder(F)
      /\ \A c : Has(F, c) => Has(st.segments, c) \/ In(st.current, c)
      /\ \A c : Has(st.segments, c) \/ (In(st.current, c) /\ IsInk(t, c)) => Has(F, c)
  BY <1>1, FlushedKeeps
<1>3. /\ para \in Seq(Char) /\ Ordered(para)
      /\ \A c : In(para, c) => c[1] = p /\ c[2] > 0
      /\ \A i \in DOMAIN t[p] : In(para, <<p, i>>)
  BY ParagraphIs
<1>4. p \in Nat /\ p - 1 < p /\ DOMAIN t = 1..Len(t) /\ Len(t) \in Nat
  OBVIOUS
<1>5. \A c : Has(st.segments, c) \/ In(st.current, c) => c[1] <= p - 1
  BY DEF Loop, LoopOf
<1>6. \A s \in Seq(Char) : \A c : In(s, c) => c \in Char
  BY DEF In
<1>7. \A s \in Seq(Seq(Char)) : \A c : Has(s, c) => c \in Char
  BY <1>6 DEF Has
<1>8. \A c : Has(st.segments, c) \/ In(st.current, c) => c[1] < p /\ c[1] <= p
  <2> SUFFICES ASSUME NEW c, Has(st.segments, c) \/ In(st.current, c)
               PROVE  c[1] < p /\ c[1] <= p
    OBVIOUS
  <2>1. c \in Char
    BY <1>1, <1>6, <1>7
  <2>2. c[1] \in Nat /\ c[1] <= p - 1
    BY <1>5, <2>1 DEF Char
  <2> QED
    BY <1>4, <2>2
<1>9. \A c, e : (Has(st.segments, c) \/ In(st.current, c)) /\ e[1] = p => Precedes(c, e)
  BY <1>8 DEF Precedes
\* The ink.
<1>10. \A q \in 1..p : \A i : i \in DOMAIN t[q] /\ t[q][i] =>
           \/ In(para, <<q, i>>)
           \/ /\ Has(st.segments, <<q, i>>) \/ In(st.current, <<q, i>>)
              /\ IsInk(t, <<q, i>>)
  <2> SUFFICES ASSUME NEW q \in 1..p, NEW i \in DOMAIN t[q], t[q][i]
               PROVE  \/ In(para, <<q, i>>)
                      \/ /\ Has(st.segments, <<q, i>>) \/ In(st.current, <<q, i>>)
                         /\ IsInk(t, <<q, i>>)
    OBVIOUS
  <2>1. CASE q = p
    BY <1>3, <2>1
  <2>2. CASE q # p
    <3>1. q \in 1..(p - 1) /\ q \in DOMAIN t
      BY <1>4, <2>2
    <3>2. IsInk(t, <<q, i>>)
      BY <3>1, InkIs
    <3> QED
      BY <3>1, <3>2 DEF Loop, LoopOf
  <2> QED
    BY <2>1, <2>2
<1>11. Len(para) \in Nat /\ Len(st.current) \in Nat /\ SegmentMax \in Nat
  BY <1>1, <1>3, SegmentMaxIs
<1> HIDE DEF para, F
<1>12. CASE Len(para) > SegmentMax
  <2> DEFINE ps == Pieces(para)
  <2>1. next = [segments |-> F \o ps, current |-> <<>>]
    BY <1>11, <1>12 DEF AddParagraph, para, F
  <2>2. ps \in Seq(Seq(Char)) /\ Fits(ps) /\ InOrder(ps) /\ \A c : Has(ps, c) <=> In(para, c)
    BY <1>3, PiecesKeep
  <2>3. \A c, e : Has(F, c) /\ Has(ps, e) => Precedes(c, e)
    BY <1>2, <1>3, <1>9, <2>2
  <2> HIDE DEF ps
  <2>4. /\ F \o ps \in Seq(Seq(Char)) /\ Fits(F \o ps) /\ InOrder(F \o ps)
        /\ \A c : Has(F \o ps, c) <=> Has(F, c) \/ Has(ps, c)
    BY <1>2, <2>2, <2>3, ThenInOrder
  <2> HIDE DEF next
  <2>5. next.segments = F \o ps /\ next.current = <<>> /\ next \in State
    BY <2>1, <2>4, EmptyIs DEF State
  <2>6. \A c : Has(next.segments, c) => c[1] <= p
    <3>1. \A c : Has(next.segments, c) => Has(F, c) \/ In(para, c)
      BY <2>2, <2>4, <2>5
    <3>2. \A c : In(para, c) => c[1] <= p
      BY <1>3, <1>4
    <3> QED
      BY <1>2, <1>8, <3>1, <3>2
  <2>7. \A q \in 1..p : \A i \in DOMAIN t[q] : t[q][i] => Has(next.segments, <<q, i>>)
    BY <1>2, <1>10, <2>2, <2>4, <2>5
  <2>8. 0 <= SegmentMax
    BY <1>11
  <2>9. LoopOf(t, p, F \o ps, <<>>)
    BY <2>4, <2>5, <2>6, <2>7, <2>8, EmptyIs DEF LoopOf
  <2>10. Loop(t, p, next)
    BY <2>5, <2>9 DEF Loop
  <2> QED
    BY <2>10 DEF next
<1>13. CASE Len(para) <= SegmentMax /\ Len(st.current) + Len(para) + 1 > SegmentMax
  <2>1. next = [segments |-> F, current |-> para]
    BY <1>11, <1>13 DEF AddParagraph, para, F
  <2> HIDE DEF next
  <2>2. next.segments = F /\ next.current = para /\ next \in State
    BY <1>2, <1>3, <2>1 DEF State
  <2>3. \A c, e : Has(F, c) /\ In(para, e) => Precedes(c, e)
    BY <1>2, <1>3, <1>9
  <2>4. \A c : Has(F, c) \/ In(para, c) => c[1] <= p
    <3>1. \A c : In(para, c) => c[1] <= p
      BY <1>3, <1>4
    <3> QED
      BY <1>2, <1>8, <3>1
  <2>5. \A q \in 1..p : \A i \in DOMAIN t[q] :
           t[q][i] => Has(F, <<q, i>>) \/ In(para, <<q, i>>)
    BY <1>2, <1>10
  <2>6. LoopOf(t, p, F, para)
    BY <1>2, <1>3, <1>13, <2>3, <2>4, <2>5 DEF LoopOf
  <2>10. Loop(t, p, next)
    BY <2>2, <2>6 DEF Loop
  <2> QED
    BY <2>10 DEF next
<1>14. CASE Len(para) <= SegmentMax /\ Len(st.current) + Len(para) + 1 <= SegmentMax
  <2> DEFINE cur == IF st.current = <<>> THEN para
                    ELSE st.current \o <<Newline(p)>> \o para
  <2>1. next = [st EXCEPT !.current = cur]
    BY <1>11, <1>14 DEF AddParagraph, para
  <2>2. /\ cur \in Seq(Char) /\ Len(cur) <= SegmentMax /\ Ordered(cur)
        /\ \A c : In(cur, c) => In(st.current, c) \/ c[1] = p
        /\ \A c : In(st.current, c) \/ In(para, c) => In(cur, c)
    <3>1. CASE st.current = <<>>
      BY <1>3, <1>14, <3>1, EmptyIs
    <3>2. CASE st.current # <<>>
      <4> DEFINE nl == <<Newline(p)>>
                 a == st.current \o nl
                 ab == a \o para
      <4>1. nl \in Seq(Char) /\ Len(nl) = 1 /\ Ordered(nl) /\ \A c : In(nl, c) <=> c = Newline(p)
        <5>1. Newline(p) \in Char /\ nl[1] = Newline(p) /\ DOMAIN nl = {1}
          BY <1>4 DEF Char, Newline
        <5> QED
          BY <5>1 DEF Ordered, In
      <4>2. Newline(p)[1] = p /\ Newline(p)[2] = 0
        BY DEF Newline
      <4>3. \A c, e : In(st.current, c) /\ In(nl, e) => Precedes(c, e)
        BY <1>9, <4>1, <4>2
      <4> HIDE DEF nl
      <4>4. /\ a \in Seq(Char) /\ Len(a) = Len(st.current) + Len(nl) /\ Ordered(a)
            /\ \A c : In(a, c) <=> In(st.current, c) \/ In(nl, c)
        BY <1>1, <4>1, <4>3, ThenOrdered
      <4>5. \A c, e : In(a, c) /\ In(para, e) => Precedes(c, e)
        <5> SUFFICES ASSUME NEW c, NEW e, In(a, c), In(para, e) PROVE Precedes(c, e)
          OBVIOUS
        <5>1. e[1] = p /\ e[2] > 0
          BY <1>3
        <5>2. In(st.current, c) \/ c = Newline(p)
          BY <4>1, <4>4
        <5> QED
          BY <1>9, <4>2, <5>1, <5>2 DEF Precedes
      <4> HIDE DEF a
      <4>6. /\ ab \in Seq(Char) /\ Len(ab) = Len(a) + Len(para) /\ Ordered(ab)
            /\ \A c : In(ab, c) <=> In(a, c) \/ In(para, c)
        BY <1>3, <4>4, <4>5, ThenOrdered
      <4>7. cur = ab
        BY <3>2 DEF a, nl
      <4> HIDE DEF ab, cur
      <4>8. Len(cur) <= SegmentMax
        BY <1>11, <1>14, <4>1, <4>4, <4>6, <4>7
      <4>9. \A c : In(cur, c) => In(st.current, c) \/ c[1] = p
        BY <1>3, <4>1, <4>2, <4>4, <4>6, <4>7
      <4> QED
        BY <4>4, <4>6, <4>7, <4>8, <4>9
    <3> QED
      BY <3>1, <3>2
  <2> HIDE DEF cur, next
  <2>3. next.segments = st.segments /\ next.current = cur /\ next \in State
    BY <1>1, <2>1, <2>2 DEF Loop, State
  <2>4. \A c, e : Has(st.segments, c) /\ In(cur, e) => Precedes(c, e)
    BY <1>1, <1>9, <2>2
  <2>5. \A c : Has(st.segments, c) \/ In(cur, c) => c[1] <= p
    BY <1>4, <1>8, <2>2
  <2>6. \A q \in 1..p : \A i \in DOMAIN t[q] :
           t[q][i] => Has(st.segments, <<q, i>>) \/ In(cur, <<q, i>>)
    BY <1>10, <2>2
  <2>7. LoopOf(t, p, st.segments, cur)
    BY <1>1, <2>2, <2>4, <2>5, <2>6 DEF LoopOf
  <2>10. Loop(t, p, next)
    BY <2>3, <2>7 DEF Loop
  <2> QED
    BY <2>10 DEF next
<1> QED
  BY <1>11, <1>12, <1>13, <1>14


\* Turns is the history of the loop, whose turns keep the invariant.
LEMMA LoopAlways ==
    ASSUME NEW t \in Seq(Seq(BOOLEAN))
    PROVE  \A p \in 0..Len(t) : Loop(t, p, Turns(t)[p])
<1> DEFINE n == Len(t)
           start == [segments |-> <<>>, current |-> <<>>]
           step(p, st) == AddParagraph(t, st, p)
           turn == [p \in 1..n |-> [st \in State |->
                        IF step(p, st) \in State THEN step(p, st) ELSE start]]
           Eq(f) == f = [p \in 0..n |-> IF p = 0 THEN start ELSE AddParagraph(t, f[p - 1], p)]
<1>1. n \in Nat
  OBVIOUS
<1>2. start \in State /\ Loop(t, 0, start)
  BY LoopStart DEF Loop
<1>3. Turns(t) = CHOOSE g : Eq(g)
  BY DEF Turns
<1>4. \A p \in 1..n : \A st : Loop(t, p - 1, st) => Loop(t, p, step(p, st))
  BY LoopTurn
<1> HIDE DEF n, start
<1>5. PICK f : IsHistory(f, n, State, start, turn)
  <2>1. turn \in [1..n -> [State -> State]]
    <3> HIDE DEF step
    <3>1. \A p \in 1..n : [st \in State |-> IF step(p, st) \in State THEN step(p, st) ELSE start]
                            \in [State -> State]
      BY <1>2
    <3> QED
      BY <3>1
  <2> HIDE DEF turn
  <2> QED
    BY <1>1, <1>2, <2>1, History
<1>6. f \in [0..n -> State] /\ f[0] = start
  BY <1>5 DEF IsHistory
<1>7. \A p \in 1..n : p - 1 \in 0..n /\ p \in 0..n /\ f[p - 1] \in State
  <2>1. \A p \in 1..n : p - 1 \in 0..n /\ p \in 0..n
    BY <1>1
  <2> QED
    BY <1>6, <2>1
<1>8. \A p \in 1..n : f[p] = IF step(p, f[p - 1]) \in State THEN step(p, f[p - 1]) ELSE start
  <2> HIDE DEF step
  <2> SUFFICES ASSUME NEW p \in 1..n
               PROVE  f[p] = IF step(p, f[p - 1]) \in State THEN step(p, f[p - 1]) ELSE start
    OBVIOUS
  <2>1. f[p] = turn[p][f[p - 1]]
    <3> HIDE DEF turn
    <3> QED
      BY <1>5 DEF IsHistory
  <2> QED
    BY <1>7, <2>1
<1> HIDE DEF turn, step
<1> DEFINE S == {p \in 0..n : Loop(t, p, f[p])}
<1>9. \A p \in 0..n : p \in S
  <2>1. 0 \in S
    BY <1>1, <1>2, <1>6
  <2>2. ASSUME NEW p \in 1..n, p - 1 \in S PROVE p \in S
    <3>1. Loop(t, p, step(p, f[p - 1]))
      BY <1>4, <2>2
    <3>2. step(p, f[p - 1]) \in State
      BY <3>1 DEF Loop
    <3>3. f[p] = step(p, f[p - 1])
      BY <1>8, <3>2
    <3> QED
      BY <1>7, <3>1, <3>3
  <2>3. \A p \in 1..n : p - 1 \in S => p \in S
    BY <2>2
  <2> HIDE DEF S
  <2> QED
    BY <1>1, <2>1, <2>3, Upwards
<1>10. \A p \in 1..n : f[p] = step(p, f[p - 1])
  <2> SUFFICES ASSUME NEW p \in 1..n PROVE f[p] = step(p, f[p - 1])
    OBVIOUS
  <2>1. Loop(t, p, step(p, f[p - 1]))
    BY <1>4, <1>7, <1>9
  <2>2. step(p, f[p - 1]) \in State
    BY <2>1 DEF Loop
  <2> QED
    BY <1>8, <2>2
<1>11. Eq(f)
  <2>1. \A p \in 0..n : f[p] = IF p = 0 THEN start ELSE AddParagraph(t, f[p - 1], p)
    <3> SUFFICES ASSUME NEW p \in 0..n, p # 0 PROVE f[p] = AddParagraph(t, f[p - 1], p)
      BY <1>6
    <3>1. p \in 1..n
      BY <1>1
    <3> QED
      BY <1>10, <3>1 DEF step
  <2>2. f = [p \in 0..n |-> f[p]]
    BY <1>6
  <2> QED
    BY <2>1, <2>2
<1>12. \A p \in 0..n : Loop(t, p, Turns(t)[p])
  <2> DEFINE g == Turns(t)
  <2>1. Eq(g)
    <3> HIDE DEF Eq
    <3> QED
      BY <1>3, <1>11
  <2>2. g[0] = start /\ \A p \in 1..n : g[p] = step(p, g[p - 1])
    <3> HIDE DEF g
    <3>1. \A p \in 0..n : g[p] = IF p = 0 THEN start ELSE AddParagraph(t, g[p - 1], p)
      BY <2>1
    <3>2. 0 \in 0..n
      BY <1>1
    <3>3. \A p \in 1..n : p \in 0..n /\ p # 0
      BY <1>1
    <3> QED
      BY <3>1, <3>2, <3>3 DEF step
  <2> HIDE DEF g
  <2> DEFINE R == {p \in 0..n : Loop(t, p, g[p])}
  <2>3. 0 \in R
    BY <1>1, <1>2, <2>2
  <2>4. ASSUME NEW p \in 1..n, p - 1 \in R PROVE p \in R
    BY <1>4, <1>7, <2>2, <2>4
  <2>5. \A p \in 1..n : p - 1 \in R => p \in R
    BY <2>4
  <2>6. \A p \in 0..n : p \in R
    <3> HIDE DEF R
    <3> QED
      BY <1>1, <2>3, <2>5, Upwards
  <2> QED
    BY <2>6 DEF g
<1> QED
  BY <1>12 DEF n

\* The text up to its paragraph p.
Whole(t, p, s) ==
    /\ s \in Seq(Char) /\ Ordered(s)
    /\ \A c : In(s, c) => c[1] <= p
    /\ \A q \in 1..p : \A i \in DOMAIN t[q] : In(s, <<q, i>>)

With(t, p, s) ==
    IF p = 1 THEN Paragraph(t, p) ELSE s \o <<Newline(p)>> \o Paragraph(t, p)

LEMMA WithKeeps ==
    ASSUME NEW t \in Seq(Seq(BOOLEAN)), NEW p \in 1..Len(t), NEW s, Whole(t, p - 1, s)
    PROVE  Whole(t, p, With(t, p, s))
<1> DEFINE para == Paragraph(t, p)
           nl == <<Newline(p)>>
           a == s \o nl
           ab == a \o para
<1>1. /\ para \in Seq(Char) /\ Ordered(para)
      /\ \A c : In(para, c) => c[1] = p /\ c[2] > 0
      /\ \A i \in DOMAIN t[p] : In(para, <<p, i>>)
  BY ParagraphIs
<1>2. p \in Nat /\ Len(t) \in Nat
  OBVIOUS
<1>3. CASE p = 1
  <2>1. With(t, p, s) = para
    BY <1>3 DEF With
  <2>2. \A q \in 1..p : q = p
    BY <1>3
  <2> HIDE DEF para
  <2>3. \A c : In(para, c) => c[1] <= p
    BY <1>1, <1>2
  <2>4. \A q \in 1..p : \A i \in DOMAIN t[q] : In(para, <<q, i>>)
    BY <1>1, <2>2
  <2>5. Whole(t, p, para)
    BY <1>1, <2>3, <2>4 DEF Whole
  <2> QED
    BY <2>1, <2>5
<1>4. CASE p # 1
  <2>1. With(t, p, s) = ab
    BY <1>4 DEF With
  <2>2. s \in Seq(Char) /\ Ordered(s)
    BY DEF Whole
  <2>3. \A c : In(s, c) => c[1] < p /\ c[1] <= p
    <3> SUFFICES ASSUME NEW c, In(s, c) PROVE c[1] < p /\ c[1] <= p
      OBVIOUS
    <3>1. c \in Char
      BY <2>2 DEF In
    <3>2. c[1] \in Nat /\ c[1] <= p - 1
      BY <3>1 DEF Whole, Char
    <3> QED
      BY <1>2, <3>2
  <2>4. Newline(p)[1] = p /\ Newline(p)[2] = 0
    BY DEF Newline
  <2>5. nl \in Seq(Char) /\ Ordered(nl) /\ \A c : In(nl, c) <=> c = Newline(p)
    <3>1. Newline(p) \in Char /\ nl[1] = Newline(p) /\ DOMAIN nl = {1}
      BY <1>2 DEF Char, Newline
    <3> QED
      BY <3>1 DEF Ordered, In
  <2> HIDE DEF nl, para
  <2>6. \A c, e : In(s, c) /\ In(nl, e) => Precedes(c, e)
    BY <2>3, <2>4, <2>5 DEF Precedes
  <2>7. /\ a \in Seq(Char) /\ Ordered(a)
        /\ \A c : In(a, c) <=> In(s, c) \/ In(nl, c)
    BY <2>2, <2>5, <2>6, ThenOrdered
  <2> HIDE DEF a
  <2>8. \A c, e : In(a, c) /\ In(para, e) => Precedes(c, e)
    <3> SUFFICES ASSUME NEW c, NEW e, In(a, c), In(para, e) PROVE Precedes(c, e)
      OBVIOUS
    <3>1. e[1] = p /\ e[2] > 0
      BY <1>1
    <3>2. In(s, c) \/ c = Newline(p)
      BY <2>5, <2>7
    <3> QED
      BY <2>3, <2>4, <3>1, <3>2 DEF Precedes
  <2>9. /\ ab \in Seq(Char) /\ Ordered(ab)
        /\ \A c : In(ab, c) <=> In(a, c) \/ In(para, c)
    BY <1>1, <2>7, <2>8, ThenOrdered
  <2> HIDE DEF ab
  <2>10. \A c : In(ab, c) => c[1] <= p
    <3> SUFFICES ASSUME NEW c, In(ab, c) PROVE c[1] <= p
      OBVIOUS
    <3>1. In(s, c) \/ c = Newline(p) \/ In(para, c)
      BY <2>5, <2>7, <2>9
    <3>2. c[1] = p => c[1] <= p
      BY <1>2
    <3> QED
      BY <1>1, <2>3, <2>4, <3>1, <3>2
  <2>11. \A q \in 1..p : \A i \in DOMAIN t[q] : In(ab, <<q, i>>)
    <3> SUFFICES ASSUME NEW q \in 1..p, NEW i \in DOMAIN t[q] PROVE In(ab, <<q, i>>)
      OBVIOUS
    <3>1. q = p \/ q \in 1..(p - 1)
      BY <1>2
    <3> QED
      BY <1>1, <2>7, <2>9, <3>1 DEF Whole
  <2>12. Whole(t, p, ab)
    BY <2>9, <2>10, <2>11 DEF Whole
  <2> QED
    BY <2>1, <2>12
<1> QED
  BY <1>3, <1>4

\* Joined is a history too.
LEMMA JoinedIs ==
    ASSUME NEW t \in Seq(Seq(BOOLEAN))
    PROVE  /\ \A p \in 0..Len(t) : Whole(t, p, Joined(t)[p])
           /\ Len(t) = 1 => Joined(t)[1] = Paragraph(t, 1)
<1> DEFINE n == Len(t)
           turn == [p \in 1..n |-> [s \in Seq(Char) |->
                        IF With(t, p, s) \in Seq(Char) THEN With(t, p, s) ELSE <<>>]]
           Eq(f) == f = [p \in 0..n |-> IF p = 0 THEN <<>>
                            ELSE IF p = 1 THEN Paragraph(t, p)
                            ELSE f[p - 1] \o <<Newline(p)>> \o Paragraph(t, p)]
<1>1. n \in Nat
  OBVIOUS
<1>2. <<>> \in Seq(Char) /\ Whole(t, 0, <<>>)
  <2>1. 1..0 = {}
    OBVIOUS
  <2> QED
    BY <2>1, EmptyIs DEF Whole
<1>3. Joined(t) = CHOOSE g : Eq(g)
  BY DEF Joined
<1>4. \A p \in 1..n : \A s : Whole(t, p - 1, s) => Whole(t, p, With(t, p, s))
  BY WithKeeps
<1>5. \A p \in 1..n : \A s : Whole(t, p, With(t, p, s)) => With(t, p, s) \in Seq(Char)
  BY DEF Whole
<1> HIDE DEF n
<1>6. PICK f : IsHistory(f, n, Seq(Char), <<>>, turn)
  <2> DEFINE V == Seq(Char)
             v == <<>>
  <2>1. turn \in [1..n -> [V -> V]] /\ v \in V
    <3>1. \A p \in 1..n : [s \in V |-> IF With(t, p, s) \in V THEN With(t, p, s) ELSE v] \in [V -> V]
      <4> HIDE DEF V, v
      <4>1. v \in V
        BY <1>2 DEF v, V
      <4> QED
        BY <4>1
    <3>2. v \in V
      BY <1>2
    <3> HIDE DEF V, v
    <3> QED
      BY <3>1, <3>2 DEF V, v
  <2> HIDE DEF turn, V, v
  <2>2. \E f : IsHistory(f, n, V, v, turn)
    BY <1>1, <2>1, History
  <2> QED
    BY <2>2 DEF V, v
<1>7. f \in [0..n -> Seq(Char)] /\ f[0] = <<>>
  BY <1>6 DEF IsHistory
<1>8. \A p \in 1..n : p - 1 \in 0..n /\ p \in 0..n /\ p # 0 /\ f[p - 1] \in Seq(Char)
  <2>1. \A p \in 1..n : p - 1 \in 0..n /\ p \in 0..n /\ p # 0
    BY <1>1
  <2> QED
    BY <1>7, <2>1
<1>9. \A p \in 1..n : f[p] = IF With(t, p, f[p - 1]) \in Seq(Char) THEN With(t, p, f[p - 1]) ELSE <<>>
  <2> SUFFICES ASSUME NEW p \in 1..n
               PROVE  f[p] = IF With(t, p, f[p - 1]) \in Seq(Char) THEN With(t, p, f[p - 1]) ELSE <<>>
    OBVIOUS
  <2>1. f[p] = turn[p][f[p - 1]]
    <3> HIDE DEF turn
    <3> QED
      BY <1>6 DEF IsHistory
  <2> QED
    BY <1>8, <2>1
<1> HIDE DEF turn
<1> DEFINE S == {p \in 0..n : Whole(t, p, f[p])}
<1>10. \A p \in 0..n : p \in S
  <2>1. 0 \in S
    BY <1>1, <1>2, <1>7
  <2>2. \A p \in 1..n : p - 1 \in S => p \in S
    BY <1>4, <1>5, <1>8, <1>9
  <2> HIDE DEF S
  <2> QED
    BY <1>1, <2>1, <2>2, Upwards
<1>11. \A p \in 1..n : f[p] = With(t, p, f[p - 1])
  BY <1>4, <1>5, <1>8, <1>9, <1>10
<1>12. Eq(f)
  <2>1. \A p \in 0..n : f[p] = IF p = 0 THEN <<>>
                            ELSE IF p = 1 THEN Paragraph(t, p)
                            ELSE f[p - 1] \o <<Newline(p)>> \o Paragraph(t, p)
    <3> SUFFICES ASSUME NEW p \in 0..n, p # 0
                 PROVE  f[p] = IF p = 1 THEN Paragraph(t, p)
                               ELSE f[p - 1] \o <<Newline(p)>> \o Paragraph(t, p)
      BY <1>7
    <3>1. p \in 1..n
      BY <1>1
    <3> QED
      BY <1>11, <3>1 DEF With
  <2>2. f = [p \in 0..n |-> f[p]]
    BY <1>7
  <2> QED
    BY <2>1, <2>2
<1> DEFINE g == Joined(t)
<1>13. Eq(g)
  <2> HIDE DEF Eq
  <2> QED
    BY <1>3, <1>12
<1>14. g[0] = <<>> /\ \A p \in 1..n : g[p] = With(t, p, g[p - 1])
  <2> HIDE DEF g
  <2>1. \A p \in 0..n : g[p] = IF p = 0 THEN <<>>
                            ELSE IF p = 1 THEN Paragraph(t, p)
                            ELSE g[p - 1] \o <<Newline(p)>> \o Paragraph(t, p)
    BY <1>13
  <2>2. 0 \in 0..n
    BY <1>1
  <2> QED
    BY <1>8, <2>1, <2>2 DEF With
<1> HIDE DEF g
<1> DEFINE R == {p \in 0..n : Whole(t, p, g[p])}
<1>15. \A p \in 0..n : p \in R
  <2>1. 0 \in R
    BY <1>1, <1>2, <1>14
  <2>2. \A p \in 1..n : p - 1 \in R => p \in R
    BY <1>4, <1>8, <1>14
  <2> HIDE DEF R
  <2> QED
    BY <1>1, <2>1, <2>2, Upwards
<1>16. n = 1 => g[1] = Paragraph(t, 1)
  <2> SUFFICES ASSUME n = 1 PROVE g[1] = Paragraph(t, 1)
    OBVIOUS
  <2>1. 1 \in 1..n
    BY <1>1
  <2>2. g[1] = With(t, 1, g[1 - 1])
    BY <1>14, <2>1
  <2> QED
    BY <2>2 DEF With
<1> QED
  BY <1>15, <1>16 DEF n, g

\* _split_text, for every text the parser makes and every size of a segment: the
\* segments fit, there is one, and they hold every character but blanks once and
\* in order.
THEOREM SplitIsRight ==
    ASSUME NEW t \in Text
    PROVE  SplitRight(t) /\ Split(t) \in Seq(Seq(Char))
<1> DEFINE n == Len(t)
           whole == Joined(t)[n]
           segs == Split(t)
<1>1. t \in Seq(Seq(BOOLEAN)) /\ n \in Nat /\ DOMAIN t = 1..n
  <2>1. t \in Seq(Seq(BOOLEAN))
    BY DEF Text
  <2> QED
    BY <2>1
<1>2. Whole(t, n, whole) /\ n \in 0..n /\ (n = 1 => whole = Paragraph(t, 1))
  <2>1. /\ \A p \in 0..n : Whole(t, p, Joined(t)[p])
        /\ n = 1 => Joined(t)[1] = Paragraph(t, 1)
    BY <1>1, JoinedIs
  <2>2. n \in 0..n
    BY <1>1
  <2> HIDE DEF n
  <2> QED
    BY <2>1, <2>2
<1>3. segs = IF Len(whole) <= SegmentMax THEN <<whole>> ELSE Flushed(t, Turns(t)[n])
  BY DEF Split
<1> HIDE DEF whole
<1>4. /\ segs \in Seq(Seq(Char)) /\ Fits(segs) /\ InOrder(segs) /\ segs # <<>>
      /\ \A p \in 1..n : \A i \in DOMAIN t[p] : t[p][i] => Has(segs, <<p, i>>)
  <2>1. CASE Len(whole) <= SegmentMax
    <3>1. whole \in Seq(Char) /\ Ordered(whole)
      BY <1>2 DEF Whole
    <3> DEFINE ss == <<whole>>
    <3>2. /\ ss \in Seq(Seq(Char)) /\ Fits(ss) /\ InOrder(ss)
          /\ \A c : Has(ss, c) <=> In(whole, c)
      BY <2>1, <3>1, OneInOrder
    <3>3. ss # <<>>
      OBVIOUS
    <3> HIDE DEF ss
    <3>4. segs = ss
      BY <1>3, <2>1 DEF ss
    <3>5. \A p \in 1..n : \A i \in DOMAIN t[p] : Has(ss, <<p, i>>)
      BY <1>2, <3>2 DEF Whole
    <3> QED
      BY <3>2, <3>3, <3>4, <3>5
  <2>2. CASE ~ (Len(whole) <= SegmentMax)
    <3> DEFINE st == Turns(t)[n]
               F == Flushed(t, st)
    <3>1. Loop(t, n, st)
      BY <1>1, <1>2, LoopAlways
    <3> HIDE DEF st
    <3>2. /\ F \in Seq(Seq(Char)) /\ Fits(F) /\ InOrder(F)
          /\ \A c : Has(st.segments, c) \/ (In(st.current, c) /\ IsInk(t, c)) => Has(F, c)
      <4>1. /\ st.segments \in Seq(Seq(Char)) /\ st.current \in Seq(Char)
            /\ Fits(st.segments) /\ Len(st.current) <= SegmentMax
            /\ InOrder(st.segments) /\ Ordered(st.current)
            /\ \A c, e : Has(st.segments, c) /\ In(st.current, e) => Precedes(c, e)
        BY <3>1 DEF Loop, LoopOf, State
      <4> QED
        BY <4>1, FlushedKeeps
    <3>3. segs = F
      BY <1>3, <2>2 DEF st
    <3> HIDE DEF F, segs
    <3>4. \A p \in 1..n : \A i \in DOMAIN t[p] : t[p][i] => Has(F, <<p, i>>)
      <4> SUFFICES ASSUME NEW p \in 1..n, NEW i \in DOMAIN t[p], t[p][i] PROVE Has(F, <<p, i>>)
        OBVIOUS
      <4>1. IsInk(t, <<p, i>>)
        BY <1>1, InkIs
      <4> QED
        BY <3>1, <3>2, <4>1 DEF Loop, LoopOf
    <3>5. PICK p \in 1..n : \E i \in DOMAIN t[p] : t[p][i]
      <4>1. SUFFICES ASSUME t = <<<<>>>> PROVE FALSE
        BY <1>1 DEF Text
      <4>2. n = 1 /\ Len(t[1]) = 0
        BY <4>1
      <4>3. whole = <<>>
        <5>1. whole = [i \in 1..0 |-> <<1, i>>]
          BY <1>2, <4>2 DEF Paragraph
        <5> QED
          BY <5>1
      <4> QED
        BY <2>2, <4>3, EmptyIs, SegmentMaxIs
    <3>6. \E c : Has(F, c)
      BY <3>4, <3>5
    <3>7. F # <<>>
      BY <3>6, EmptyIs
    <3> QED
      BY <3>2, <3>3, <3>4, <3>7
  <2> QED
    BY <2>1, <2>2
<1> HIDE DEF segs
<1>5. \A p \in DOMAIN t : \A i \in DOMAIN t[p] :
        t[p][i] => \E k \in DOMAIN segs : \E j \in DOMAIN segs[k] : segs[k][j] = <<p, i>>
  BY <1>1, <1>4 DEF Has, In
<1>6. Covers(t, segs)
  BY <1>4, <1>5 DEF Covers
<1> QED
  BY <1>4, <1>6 DEF SplitRight, segs

-----------------------------------------------------------------------------
(* The whole text.                                                          *)

\* The answers are to the first segments, in order, and the upload waits for all
\* of them.
Waiting == {"download", "token", "again", "call"}

TextInv(d) ==
    /\ \A i \in DOMAIN answers[d] :
            i \in DOMAIN segments[d] /\ answers[d][i].segment = segments[d][i]
    /\ at[d] \in Waiting => Len(answers[d]) < Len(segments[d])
    /\ at[d] \in {"upload", "commit"} => Len(answers[d]) = Len(segments[d])
    /\ rows[d] = <<>> \/ Sent(d) = segments[d]

TextsTyped ==
    /\ DOMAIN at = Docs /\ DOMAIN answers = Docs /\ DOMAIN rows = Docs
    /\ DOMAIN segments = Docs
    /\ \A d \in Docs : IsSeq(answers[d])
    /\ text \in [Docs \ Pdfs -> Texts]
    /\ \A d \in Docs \ Pdfs : segments[d] = Split(text[d])
    /\ \A d \in Pdfs : segments[d] = <<<<>>>>

TextsInv == TextsTyped /\ \A d \in Docs : TextInv(d)

LEMMA TextsSplit == \A t \in Texts : SplitRight(t) /\ Split(t) \in Seq(Seq(Char))
BY SplitIsRight, ConversionAssumption

LEMMA SegmentsSeq ==
    ASSUME TextsTyped, NEW d \in Docs
    PROVE  /\ IsSeq(segments[d]) /\ Len(segments[d]) \in Nat \ {0}
           /\ DOMAIN segments[d] = 1..Len(segments[d])
<1>1. CASE d \in Pdfs
  <2>1. segments[d] = <<<<>>>>
    BY <1>1 DEF TextsTyped
  <2>2. <<<<>>>> \in Seq({<<>>}) /\ Len(<<<<>>>>) = 1 /\ DOMAIN <<<<>>>> = 1..1
    OBVIOUS
  <2>3. IsSeq(<<<<>>>>)
    BY <2>2, SeqIsSeq
  <2>4. Len(segments[d]) = 1 /\ DOMAIN segments[d] = 1..1
    BY <2>1, <2>2
  <2>5. QED
    BY <2>1, <2>3, <2>4
<1>2. CASE d \notin Pdfs
  <2> DEFINE S == Seq(Char)
  <2>1. segments[d] = Split(text[d]) /\ text[d] \in Texts
    BY <1>2 DEF TextsTyped
  <2>2. segments[d] \in Seq(S) /\ segments[d] # <<>>
    BY <2>1, TextsSplit DEF SplitRight
  <2> HIDE DEF S
  <2>3. IsSeq(segments[d])
    BY <2>2, SeqIsSeq
  <2>4. Len(segments[d]) \in Nat \ {0} /\ DOMAIN segments[d] = 1..Len(segments[d])
    BY <2>2
  <2>5. QED
    BY <2>3, <2>4
<1>3. QED
  BY <1>1, <1>2

LEMMA TextsInvInit == Init => TextsInv
<1> SUFFICES ASSUME Init PROVE TextsInv
  OBVIOUS
<1> USE DEF Init
<1>1. TextsTyped
  BY Empty, ConversionAssumption DEF TextsTyped
<1>2. \A d \in Docs : TextInv(d)
  BY Empty DEF TextInv, Waiting
<1>3. QED
  BY <1>1, <1>2 DEF TextsInv

\* A step that neither answers nor commits.
LEMMA TextKept ==
    ASSUME TextsInv, UNCHANGED <<text, segments, answers, rows>>, DOMAIN at' = Docs,
           \A d \in Docs : \/ at'[d] \notin Waiting \cup {"upload", "commit"}
                           \/ at'[d] = at[d]
                           \/ at'[d] \in Waiting /\ at[d] \in Waiting
                           \/ at'[d] = "commit" /\ at[d] = "upload"
    PROVE  TextsInv'
BY DEF TextsInv, TextsTyped, TextInv, Waiting, Sent

LEMMA TextBegin ==
    ASSUME TextsInv, NEW e \in Docs, Begin(e)
    PROVE  TextsInv'
<1> USE DEF Begin, Goto, source, result
<1>1. TextsTyped'
  BY Empty DEF TextsInv, TextsTyped
<1>2. ASSUME NEW d \in Docs \ {e} PROVE TextInv(d)'
  BY DEF TextsInv, TextsTyped, TextInv, Sent
<1>3. TextInv(e)'
  <2>1. Len(segments[e]) \in Nat \ {0}
    BY SegmentsSeq DEF TextsInv
  <2>2. answers'[e] = <<>> /\ at'[e] = "download" /\ rows' = rows /\ segments' = segments
    BY DEF TextsInv, TextsTyped
  <2>3. Len(<<>>) = 0
    OBVIOUS
  <2>4. QED
    BY <2>1, <2>2, <2>3, Empty DEF TextsInv, TextInv, Waiting, Sent
<1>4. QED
  BY <1>1, <1>2, <1>3 DEF TextsInv

LEMMA TextAnswer ==
    ASSUME TextsInv, NEW e \in Docs, Answer(e)
    PROVE  TextsInv'
<1> USE DEF Answer, Goto, source, result
<1> DEFINE new == [segment |-> Portion(e), rule |-> Prompt(e), run |-> run[e]]
           n == Len(answers[e])
<1>1. answers' = [answers EXCEPT ![e] = Append(answers[e], new)]
  OBVIOUS
<1>2. answers'[e] = Append(answers[e], new)
  BY <1>1 DEF TextsInv, TextsTyped
<1>3. new.segment = segments[e][n + 1]
  BY DEF Portion
<1>4. IsSeq(answers[e])
  BY DEF TextsInv, TextsTyped
<1> HIDE DEF new
<1>5. /\ IsSeq(answers'[e])
      /\ n \in Nat /\ DOMAIN answers[e] = 1..n
      /\ Len(answers'[e]) = n + 1 /\ DOMAIN answers'[e] = 1..(n + 1)
      /\ \A i \in 1..(n + 1) : answers'[e][i] = IF i = n + 1 THEN new ELSE answers[e][i]
  BY ONLY <1>2, <1>4, Appended
<1>6. \A d \in Docs \ {e} : answers'[d] = answers[d] /\ at'[d] = at[d]
  BY <1>1 DEF TextsInv, TextsTyped
<1>7. n < Len(segments[e])
  BY DEF TextsInv, TextInv, Waiting
<1>8. TextsTyped'
  BY <1>1, <1>5, <1>6 DEF TextsInv, TextsTyped
<1>9. ASSUME NEW d \in Docs \ {e} PROVE TextInv(d)'
  BY <1>6 DEF TextsInv, TextsTyped, TextInv, Sent
<1>10. TextInv(e)'
  <2>1. Len(segments[e]) \in Nat /\ DOMAIN segments[e] = 1..Len(segments[e])
    BY SegmentsSeq DEF TextsInv
  <2>2. \A i \in DOMAIN answers'[e] :
          i \in DOMAIN segments[e] /\ answers'[e][i].segment = segments[e][i]
    BY <1>3, <1>5, <1>7, <2>1 DEF TextsInv, TextInv
  <2>3. \/ Len(answers'[e]) < Len(segments[e]) /\ at'[e] = "token"
        \/ Len(answers'[e]) = Len(segments[e]) /\ at'[e] = "upload"
    BY DEF TextsInv, TextsTyped
  <2>4. segments' = segments /\ rows' = rows
    OBVIOUS
  <2>5. Sent(e)' = Sent(e)
    BY <2>4 DEF Sent
  <2>6. rows[e] = <<>> \/ Sent(e) = segments[e]
    BY DEF TextsInv, TextInv
  <2>7. QED
    BY <2>2, <2>3, <2>4, <2>5, <2>6, <1>5 DEF TextInv, Waiting
<1>11. QED
  BY <1>8, <1>9, <1>10 DEF TextsInv

LEMMA TextCommit ==
    ASSUME TextsInv, NEW e \in Docs, Commit(e)
    PROVE  TextsInv'
<1> USE DEF Commit, Goto, source, progress
<1>1. TextsTyped'
  BY DEF TextsInv, TextsTyped
<1>2. ASSUME NEW d \in Docs \ {e} PROVE TextInv(d)'
  BY DEF TextsInv, TextsTyped, TextInv, Sent
<1>3. rows'[e] = [i \in DOMAIN answers[e] |->
                    [answer |-> answers[e][i], version |-> context[e].version]]
  BY DEF TextsInv, TextsTyped
<1>4. Sent(e)' = [i \in DOMAIN answers[e] |-> answers[e][i].segment]
  BY <1>3 DEF Sent
<1>5. IsSeq(answers[e]) /\ IsSeq(segments[e]) /\ Len(answers[e]) = Len(segments[e])
  BY SegmentsSeq DEF TextsInv, TextsTyped, TextInv
<1>6. DOMAIN answers[e] = DOMAIN segments[e]
  BY <1>5, Appended
<1>7. segments[e] = [i \in DOMAIN segments[e] |-> segments[e][i]]
  BY <1>5 DEF IsSeq
<1>8. \A i \in DOMAIN answers[e] : answers[e][i].segment = segments[e][i]
  BY DEF TextsInv, TextInv
<1>9. Sent(e)' = segments[e]
  BY ONLY <1>4, <1>6, <1>7, <1>8
<1>10. TextInv(e)'
  BY <1>9 DEF TextsInv, TextsTyped, TextInv, Waiting
<1>11. QED
  BY <1>1, <1>2, <1>10 DEF TextsInv

LEMMA TextsInvStep ==
    ASSUME TextsInv, [Next]_vars
    PROVE  TextsInv'
<1>1. ASSUME NEW e \in Docs,
             Download(e) \/ RefreshToken(e) \/ TakeToken(e) \/ CallFails(e)
               \/ RefreshFails(e) \/ AskAgain(e) \/ Upload(e) \/ StorageFails(e)
               \/ CommitFails(e) \/ Reprocess(e)
      PROVE  TextsInv'
  <2> USE DEF Download, RefreshToken, TakeToken, CallFails, RefreshFails, AskAgain,
          Upload, StorageFails, CommitFails, Reprocess, Retry, Goto, source, progress, result
  <2>1. UNCHANGED <<text, segments, answers, rows>>
    BY <1>1
  <2>2. \/ UNCHANGED at
        \/ \E l \in {"failed", "queued"} : at' = [at EXCEPT ![e] = l]
        \/ at[e] \in Waiting /\ \E l \in {"token", "call", "again"} : at' = [at EXCEPT ![e] = l]
        \/ at[e] = "upload" /\ at' = [at EXCEPT ![e] = "commit"]
    BY <1>1 DEF Waiting
  <2>3. DOMAIN at = Docs
    BY DEF TextsInv, TextsTyped
  <2>4. QED
    BY <2>1, <2>2, <2>3, TextKept DEF Waiting
<1>2. ASSUME NEW s \in Saves, SaveRules(s) PROVE TextsInv'
  <2>1. UNCHANGED <<at, text, segments, answers, rows>>
    BY <1>2 DEF SaveRules, source, progress, result
  <2>2. QED
    BY <2>1, TextKept DEF TextsInv, TextsTyped
<1>3. CASE Crash \/ Tick \/ UNCHANGED vars
  <2>1. /\ UNCHANGED <<text, segments, answers, rows>>
        /\ DOMAIN at' = Docs
        /\ \A d \in Docs : at'[d] = at[d] \/ at'[d] = "queued"
    BY <1>3 DEF Crash, Tick, vars, source, progress, result, TextsInv, TextsTyped
  <2>2. QED
    BY <2>1, TextKept DEF Waiting
<1>4. QED
  BY <1>1, <1>2, <1>3, TextBegin, TextAnswer, TextCommit DEF Next, Work

\* Whatever the texts are and wherever they are cut, whatever attempts fail,
\* whatever is delivered again and wherever the process dies, the rows of a docx
\* are made from its whole text, every segment once and in order, and no segment
\* is longer than a call takes.
THEOREM RowsOfWholeText == Spec => []WholeText
<1>1. TextsInv => WholeText
  <2> SUFFICES ASSUME TextsInv, NEW d \in Docs \ Pdfs, rows[d] # <<>>
               PROVE  Fits(Sent(d)) /\ Covers(text[d], Sent(d))
    BY DEF WholeText
  <2>1. Sent(d) = Split(text[d]) /\ text[d] \in Texts
    BY DEF TextsInv, TextsTyped, TextInv
  <2>2. QED
    BY <2>1, TextsSplit DEF SplitRight
<1>2. TextsInv /\ [Next]_vars => TextsInv'
  BY TextsInvStep
<1>3. QED
  BY <1>1, <1>2, TextsInvInit, PTL DEF Spec
-----------------------------------------------------------------------------
(* The lock of the token, and how far a conversion is.                      *)

\* Who waits for the token is in the queue, once, and nobody else is.
LockInv ==
    /\ DOMAIN at = Docs
    /\ \A i \in 1..Len(queue) : at[queue[i]] = "token"
    /\ \A d \in Docs : at[d] = "token" => \E i \in 1..Len(queue) : queue[i] = d
    /\ \A i, j \in 1..Len(queue) : queue[i] = queue[j] => i = j

LEMMA AskKeepsLock ==
    ASSUME TokenInv, LockInv, NEW d \in Docs, Ask(d), at[d] # "token", Goto(d, "token")
    PROVE  LockInv'
<1> USE DEF TokenInv, LockInv, Ask, Goto
<1>1. /\ Len(queue) \in Nat /\ Len(queue') = Len(queue) + 1
      /\ \A i \in 1..Len(queue') : queue'[i] = IF i <= Len(queue) THEN queue[i] ELSE d
  OBVIOUS
<1>2. \A i \in 1..Len(queue) : queue[i] \in Docs /\ queue[i] # d /\ i \in 1..Len(queue') /\ queue'[i] = queue[i]
  BY <1>1
<1>3. Len(queue) + 1 \in 1..Len(queue') /\ queue'[Len(queue) + 1] = d
  BY <1>1
<1>4. \A i \in 1..Len(queue') : i \in 1..Len(queue) \/ i = Len(queue) + 1
  BY <1>1
<1>5. \A i \in 1..Len(queue') : at'[queue'[i]] = "token"
  BY <1>2, <1>3, <1>4
<1>6. \A e \in Docs : at'[e] = "token" => \E i \in 1..Len(queue') : queue'[i] = e
  BY <1>2, <1>3
<1>7. \A i, j \in 1..Len(queue') : queue'[i] = queue'[j] => i = j
  BY <1>2, <1>3, <1>4
<1> QED
  BY <1>5, <1>6, <1>7

LEMMA LeaveKeepsLock ==
    ASSUME TokenInv, LockInv, NEW d \in Docs, Return(d) \/ Raise(d),
           NEW l, l # "token", Goto(d, l)
    PROVE  LockInv'
<1> USE DEF TokenInv, LockInv, Goto
<1>1. queue # <<>> /\ d = Head(queue) /\ queue' = Tail(queue)
  BY DEF Return, Raise, Unlock, Holds
<1>2. /\ Len(queue) \in Nat /\ Len(queue) >= 1 /\ d = queue[1]
      /\ Len(queue') = Len(queue) - 1
      /\ \A i \in 1..Len(queue') : queue'[i] = queue[i + 1]
  BY <1>1
<1>3. \A i \in 1..Len(queue') : /\ i + 1 \in 1..Len(queue) /\ queue'[i] = queue[i + 1]
                                /\ queue[i + 1] # d /\ queue[i + 1] \in Docs
  BY <1>2
<1>4. \A i \in 1..Len(queue) : i # 1 => i - 1 \in 1..Len(queue') /\ queue'[i - 1] = queue[i]
  BY <1>2
<1>5. \A i \in 1..Len(queue') : at'[queue'[i]] = "token"
  BY <1>3
<1>6. \A e \in Docs : at'[e] = "token" => \E i \in 1..Len(queue') : queue'[i] = e
  BY <1>2, <1>4
<1>7. \A i, j \in 1..Len(queue') : queue'[i] = queue'[j] => i = j
  BY <1>3
<1> QED
  BY <1>5, <1>6, <1>7

\* A step that neither takes nor leaves the lock.
LEMMA BesideLock ==
    ASSUME TokenInv, LockInv, queue' = queue, DOMAIN at' = Docs,
           \A d \in Docs : (at[d] = "token") <=> (at'[d] = "token")
    PROVE  LockInv'
<1>1. \A i \in 1..Len(queue) : queue[i] \in Docs
  BY DEF TokenInv
<1> QED
  BY <1>1 DEF LockInv

LEMMA LockInvStep ==
    ASSUME TokenInv, LockInv, [Next]_vars
    PROVE  LockInv'
<1>1. DOMAIN at = Docs
  BY DEF LockInv
<1>2. ASSUME NEW d \in Docs, Begin(d) \/ Reprocess(d) PROVE LockInv'
  BY <1>1, <1>2, BesideLock DEF Begin, Reprocess, Goto, tokenVars
<1>3. ASSUME NEW d \in Docs, Work(d) PROVE LockInv'
  <2>1. CASE Download(d) \/ AskAgain(d)
    BY <2>1, AskKeepsLock DEF Download, AskAgain
  <2>2. CASE RefreshToken(d)
    BY <1>1, <2>2, BesideLock DEF RefreshToken, Refresh
  <2>3. CASE TakeToken(d)
    <3>1. Return(d) /\ Goto(d, "call")
      BY <2>3 DEF TakeToken
    <3> QED
      BY <3>1, LeaveKeepsLock
  <2>4. CASE RefreshFails(d)
    <3>1. Raise(d) /\ \E l \in {"again", "failed"} : Goto(d, l)
      BY <2>4 DEF RefreshFails
    <3> QED
      BY <3>1, LeaveKeepsLock
  <2>5. CASE Answer(d) \/ CallFails(d)
    <3>1. \/ Ask(d) /\ at[d] # "token" /\ Goto(d, "token")
          \/ UNCHANGED queue /\ at[d] # "token" /\ \E l \in {"upload", "failed"} : Goto(d, l)
      BY <2>5 DEF Answer, CallFails, tokenVars
    <3>2. CASE Ask(d) /\ at[d] # "token" /\ Goto(d, "token")
      BY <3>2, AskKeepsLock
    <3>3. CASE UNCHANGED queue /\ at[d] # "token" /\ \E l \in {"upload", "failed"} : Goto(d, l)
      BY <1>1, <3>3, BesideLock DEF Goto
    <3> QED
      BY <3>1, <3>2, <3>3
  <2>6. CASE Upload(d) \/ Commit(d) \/ StorageFails(d) \/ CommitFails(d)
    BY <1>1, <2>6, BesideLock DEF Upload, Commit, StorageFails, CommitFails, Goto, tokenVars
  <2> QED
    BY <1>3, <2>1, <2>2, <2>3, <2>4, <2>5, <2>6 DEF Work
<1>4. CASE Crash
  <2>1. queue' = <<>> /\ DOMAIN at' = Docs /\ \A d \in Docs : at'[d] # "token"
    BY <1>4 DEF Crash, NewProcess, Over
  <2>2. Len(queue') = 0
    BY <2>1
  <2> QED
    BY <2>1, <2>2 DEF LockInv
<1>5. ASSUME UNCHANGED <<at, queue>> PROVE LockInv'
  BY <1>5 DEF LockInv
<1>6. CASE Tick \/ (\E s \in Saves : SaveRules(s)) \/ UNCHANGED vars
  BY <1>5, <1>6 DEF Tick, SaveRules, vars, tokenVars
<1> QED
  BY <1>2, <1>3, <1>4, <1>6 DEF Next

\* The one the others wait for is itself at the token and may go on: the lock is
\* its own, to look at the expiry, or its refresh is under way.
HolderMoves ==
    \A d \in Docs : at[d] = "token" =>
        /\ queue # <<>>
        /\ at[Head(queue)] = "token"
        /\ Holds(Head(queue)) \/ Head(queue) \in refreshing

\* However many conversions want the token, whatever their refreshes end in and
\* wherever the process dies: no conversion waits behind one that has gone away, so
\* the lock never stays locked.
THEOREM LockIsLeft == Spec => []HolderMoves
<1>1. TokenInv /\ LockInv => HolderMoves
  <2> SUFFICES ASSUME TokenInv, LockInv, NEW d \in Docs, at[d] = "token"
               PROVE  /\ queue # <<>>
                      /\ at[Head(queue)] = "token"
                      /\ Holds(Head(queue)) \/ Head(queue) \in refreshing
    BY DEF HolderMoves
  <2>1. PICK i \in 1..Len(queue) : queue[i] = d
    BY DEF LockInv
  <2>2. Len(queue) >= 1 /\ queue # <<>> /\ Head(queue) = queue[1] /\ 1 \in 1..Len(queue)
    BY DEF TokenInv
  <2> QED
    BY <2>2 DEF LockInv, Holds
<1>2. Init => TokenInv /\ LockInv
  BY DEF Init, TokenInit, TokenInv, LockInv
<1>3. TokenInv /\ LockInv /\ [Next]_vars => TokenInv' /\ LockInv'
  BY TokenInvStep, LockInvStep
<1>4. QED
  BY <1>1, <1>2, <1>3, PTL DEF Spec

\* What a conversion still has to do before its next call.
Rank(d) ==
    CASE at[d] = "download" -> 6
      [] at[d] = "again" -> 5
      [] at[d] = "token" /\ d \notin refreshing -> 4
      [] at[d] = "token" /\ d \in refreshing -> 3
      [] at[d] = "call" -> 2
      [] at[d] = "upload" -> 1
      [] OTHER -> 0

\* It is over, or a segment, an attempt or a stage nearer to it.
Nearer(d) ==
    \/ at'[d] \in Over
    \/ Len(answers'[d]) = Len(answers[d]) + 1
    \/ answers'[d] = answers[d] /\ attempt'[d] = attempt[d] + 1
    \/ answers'[d] = answers[d] /\ attempt'[d] = attempt[d] /\ Rank(d)' < Rank(d)

Still(d) == answers'[d] = answers[d] /\ attempt'[d] = attempt[d] /\ Rank(d)' = Rank(d)

\* The segments and attempts there are.
Bounded == \A d \in Docs : Len(answers[d]) <= Len(segments[d]) /\ attempt[d] \in 1..MaxRetries

Advances == [][\A d \in Docs : /\ Work(d) => Nearer(d)
                               /\ Nearer(d) \/ Still(d) \/ Begin(d)]_vars

Counted == attempt \in [Docs -> 1..MaxRetries]

LEMMA CountedStep ==
    ASSUME Counted, [Next]_vars
    PROVE  Counted'
<1> USE DEF Counted
<1>1. MaxRetries \in Nat \ {0}
  BY ConversionAssumption
<1>2. ASSUME UNCHANGED attempt PROVE Counted'
  BY <1>2
<1>3. ASSUME NEW d \in Docs, Begin(d) \/ Work(d) PROVE Counted'
  <2>1. \/ UNCHANGED attempt
        \/ attempt' = [attempt EXCEPT ![d] = 1]
        \/ attempt[d] < MaxRetries /\ attempt' = [attempt EXCEPT ![d] = @ + 1]
    BY <1>3 DEF Work, Begin, Download, RefreshToken, TakeToken, Answer, CallFails, RefreshFails,
       AskAgain, Upload, Commit, StorageFails, CommitFails, Retry, progress
  <2> QED
    BY <1>1, <2>1
<1>4. CASE (\E d \in Docs : Reprocess(d)) \/ (\E s \in Saves : SaveRules(s)) \/ Crash \/ Tick
             \/ UNCHANGED vars
  BY <1>2, <1>4 DEF Reprocess, SaveRules, Crash, Tick, vars, progress
<1> QED
  BY <1>3, <1>4 DEF Next

\* Whoever is not at the token has no refresh under way.
LEMMA RefreshAtToken ==
    ASSUME TokenInv, LockInv, NEW d \in Docs, at[d] # "token"
    PROVE  d \notin refreshing
<1> SUFFICES ASSUME d \in refreshing PROVE FALSE
  OBVIOUS
<1>1. queue # <<>> /\ d = Head(queue) /\ queue \in Seq(Docs)
  BY DEF TokenInv
<1>2. 1 \in 1..Len(queue) /\ queue[1] = d
  BY <1>1
<1> QED
  BY <1>2 DEF LockInv

\* A step of a conversion brings it nearer.
LEMMA WorkNearer ==
    ASSUME TokenInv, LockInv, TextsInv, Counted, NEW d \in Docs, Work(d)
    PROVE  Nearer(d)
<1>1. DOMAIN at = Docs /\ DOMAIN answers = Docs /\ IsSeq(answers[d])
  BY DEF TextsInv, TextsTyped
<1>2. attempt \in [Docs -> 1..MaxRetries] /\ MaxRetries \in Nat
  BY ConversionAssumption DEF Counted
<1>3. at[d] # "token" => d \notin refreshing
  BY RefreshAtToken
<1>4. CASE Download(d) \/ AskAgain(d)
  <2>1. at[d] \in {"download", "again"} /\ at'[d] = "token" /\ refreshing' = refreshing
    BY <1>1, <1>4 DEF Download, AskAgain, Goto, Ask
  <2>2. Rank(d) \in {5, 6} /\ Rank(d)' = 4
    BY <1>3, <2>1 DEF Rank
  <2> QED
    BY <1>4, <2>2 DEF Nearer, Download, AskAgain, progress
<1>5. CASE RefreshToken(d)
  <2>1. at[d] = "token" /\ at' = at /\ d \notin refreshing /\ d \in refreshing'
    BY <1>5 DEF RefreshToken, Refresh, Holds
  <2>2. Rank(d) = 4 /\ Rank(d)' = 3
    BY <2>1 DEF Rank
  <2> QED
    BY <1>5, <2>2 DEF Nearer, RefreshToken, progress
<1>6. CASE TakeToken(d)
  <2>1. at[d] = "token" /\ at'[d] = "call"
    BY <1>1, <1>6 DEF TakeToken, Goto
  <2>2. Rank(d) \in {3, 4} /\ Rank(d)' = 2
    BY <2>1 DEF Rank
  <2> QED
    BY <1>6, <2>2 DEF Nearer, TakeToken, progress
<1>7. CASE Answer(d)
  <2> DEFINE new == [segment |-> Portion(d), rule |-> Prompt(d), run |-> run[d]]
  <2>1. answers'[d] = Append(answers[d], new)
    BY <1>1, <1>7 DEF Answer
  <2> HIDE DEF new
  <2> QED
    BY <1>1, <2>1, Appended DEF Nearer
<1>8. CASE CallFails(d) \/ RefreshFails(d)
  <2>1. answers' = answers
    BY <1>8 DEF CallFails, RefreshFails
  <2>2. \/ attempt' = [attempt EXCEPT ![d] = @ + 1]
        \/ Goto(d, "failed")
    BY <1>8 DEF CallFails, RefreshFails, Retry
  <2> QED
    BY <1>1, <1>2, <2>1, <2>2 DEF Nearer, Goto, Over
<1>9. CASE Upload(d)
  <2>1. at[d] = "upload" /\ at'[d] = "commit"
    BY <1>1, <1>9 DEF Upload, Goto
  <2>2. Rank(d) = 1 /\ Rank(d)' = 0
    BY <2>1 DEF Rank
  <2> QED
    BY <1>9, <2>2 DEF Nearer, Upload, progress
<1>10. CASE Commit(d) \/ StorageFails(d) \/ CommitFails(d)
  BY <1>1, <1>10 DEF Commit, StorageFails, CommitFails, Goto, Nearer, Over
<1> QED
  BY <1>4, <1>5, <1>6, <1>7, <1>8, <1>9, <1>10 DEF Work

\* A step of another conversion leaves it where it is.
LEMMA WorkStill ==
    ASSUME TextsInv, Counted, NEW e \in Docs, Begin(e) \/ Work(e) \/ Reprocess(e), NEW d \in Docs \ {e}
    PROVE  Still(d)
<1>1. DOMAIN at = Docs /\ DOMAIN answers = Docs /\ DOMAIN attempt = Docs
  BY DEF TextsInv, TextsTyped, Counted
<1>2. at' = at \/ \E l : at' = [at EXCEPT ![e] = l]
  BY DEF Work, Begin, Reprocess, Download, RefreshToken, TakeToken, Answer, CallFails, RefreshFails,
     AskAgain, Upload, Commit, StorageFails, CommitFails, Goto
<1>3. answers' = answers \/ \E s : answers' = [answers EXCEPT ![e] = s]
  BY DEF Work, Begin, Reprocess, Download, RefreshToken, TakeToken, Answer, CallFails, RefreshFails,
     AskAgain, Upload, Commit, StorageFails, CommitFails, progress
<1>4. attempt' = attempt \/ \E n : attempt' = [attempt EXCEPT ![e] = n]
  BY DEF Work, Begin, Reprocess, Download, RefreshToken, TakeToken, Answer, CallFails, RefreshFails,
     AskAgain, Upload, Commit, StorageFails, CommitFails, progress, Retry
<1>5. refreshing' \in {refreshing, refreshing \cup {e}, refreshing \ {e}}
  BY DEF Work, Begin, Reprocess, Download, RefreshToken, TakeToken, Answer, CallFails, RefreshFails,
     AskAgain, Upload, Commit, StorageFails, CommitFails, tokenVars, Ask, Refresh, Return, Raise
<1>6. /\ at'[d] = at[d] /\ answers'[d] = answers[d] /\ attempt'[d] = attempt[d]
      /\ d \in refreshing' <=> d \in refreshing
  BY <1>1, <1>2, <1>3, <1>4, <1>5
<1> QED
  BY <1>6 DEF Still, Rank

\* Every step of a conversion brings it nearer to its end, nothing but a new
\* delivery sets it back, and the segments and attempts are so many: a conversion
\* calls the model at most MaxRetries times for each segment, and for it to end
\* nothing more is needed than that steps are taken.
THEOREM ConversionAdvances == Spec => []Bounded /\ Advances
<1>1. TextsInv /\ Counted => Bounded
  <2> SUFFICES ASSUME TextsInv, Counted, NEW d \in Docs PROVE Len(answers[d]) <= Len(segments[d])
    BY DEF Bounded, Counted
  <2>1. Len(segments[d]) \in Nat /\ DOMAIN segments[d] = 1..Len(segments[d])
    BY SegmentsSeq DEF TextsInv
  <2>2. IsSeq(answers[d])
    BY DEF TextsInv, TextsTyped
  <2>3. Len(answers[d]) \in Nat /\ DOMAIN answers[d] = 1..Len(answers[d])
    BY <2>2, Appended
  <2>4. \A i \in 1..Len(answers[d]) : i \in 1..Len(segments[d])
    BY <2>1, <2>3 DEF TextsInv, TextInv
  <2> QED
    BY <2>1, <2>3, <2>4
<1>2. ASSUME TokenInv, LockInv, TextsInv, Counted, [Next]_vars
      PROVE  \A d \in Docs : /\ Work(d) => Nearer(d)
                             /\ Nearer(d) \/ Still(d) \/ Begin(d)
  <2>1. \A d \in Docs : Work(d) => Nearer(d)
    BY <1>2, WorkNearer
  <2>2. ASSUME NEW e \in Docs, Begin(e) \/ Work(e) \/ Reprocess(e), NEW d \in Docs
        PROVE  Nearer(d) \/ Still(d) \/ Begin(d)
    <3>1. CASE d # e
      BY <1>2, <2>2, <3>1, WorkStill
    <3>2. CASE d = e /\ Reprocess(e)
      BY <3>2 DEF Reprocess, Goto, Nearer, Over, LockInv
    <3> QED
      BY <2>1, <2>2, <3>1, <3>2
  <2>3. ASSUME Crash, NEW d \in Docs PROVE Nearer(d)
    BY <2>3 DEF Crash, Nearer, Over
  <2>4. ASSUME Tick \/ (\E s \in Saves : SaveRules(s)) \/ UNCHANGED vars, NEW d \in Docs PROVE Still(d)
    BY <2>4 DEF Tick, SaveRules, vars, progress, tokenVars, Still, Rank
  <2> QED
    BY <1>2, <2>1, <2>2, <2>3, <2>4 DEF Next
<1>3. Init => TokenInv /\ LockInv /\ Counted
  <2>1. MaxRetries \in Nat \ {0}
    BY ConversionAssumption
  <2> QED
    BY <2>1 DEF Init, TokenInit, TokenInv, LockInv, Counted
<1>4. TokenInv /\ LockInv /\ TextsInv /\ Counted /\ [Next]_vars
        => TokenInv' /\ LockInv' /\ TextsInv' /\ Counted'
  BY TokenInvStep, LockInvStep, TextsInvStep, CountedStep
<1>5. QED
  BY <1>1, <1>2, <1>3, <1>4, TextsInvInit, PTL DEF Spec, Advances
-----------------------------------------------------------------------------
(* The types.                                                               *)

DocsTypeOK ==
    /\ at \in [Docs -> Over \cup {"download", "token", "again", "call", "upload", "commit"}]
    /\ run \in [Docs -> Nat]
    /\ context \in [Docs -> [rule : Saves \cup {Generic}, version : Nat]]
    /\ answers \in [Docs -> Seq(AnswerOf)]
    /\ file \in [Docs -> Seq(AnswerOf)]
    /\ rows \in [Docs -> Seq([answer : AnswerOf, version : Nat])]
    /\ faults \in Nat
    /\ segments = [d \in Docs |-> segments[d]]

Typed == DocsTypeOK /\ RulesTypeOK

LEMMA SegmentsTyped ==
    ASSUME TextsInv, NEW d \in Docs
    PROVE  segments[d] \in Seq(Segment)
<1>1. CASE d \in Pdfs
  <2>1. <<>> \in Segment
    BY DEF Segment
  <2>2. segments[d] = <<<<>>>>
    BY <1>1 DEF TextsInv, TextsTyped
  <2> HIDE DEF Segment
  <2> QED
    BY <2>1, <2>2
<1>2. CASE d \notin Pdfs
  <2>1. segments[d] = Split(text[d]) /\ text[d] \in Texts
    BY <1>2 DEF TextsInv, TextsTyped
  <2> QED
    BY <2>1, TextsSplit DEF Segment, Char
<1> QED
  BY <1>1, <1>2

\* The rules of a conversion are committed ones, or none; their version is a number.
LEMMA ContextsTyped ==
    ASSUME RulesTypeOK, now \in Nat
    PROVE  generate_rule_version \in Nat
           /\ Contexts \subseteq [rule : Saves \cup {Generic}, version : Nat]
<1>1. generate_rule_version \in Nat
  <2>1. Minute \in Nat \ {0}
    BY ConversionAssumption
  <2> QED
    BY <2>1, Division DEF generate_rule_version
<1>2. Contexts \subseteq [rule : Saves \cup {Generic}, version : Nat]
  BY <1>1 DEF Contexts, Latest, RulesTypeOK
<1> QED
  BY <1>1, <1>2

LEMMA RulesTyped ==
    ASSUME RulesTypeOK, now \in Nat, NEW s \in Saves, SaveStep(s)
    PROVE  RulesTypeOK'
<1> USE DEF RulesTypeOK
<1>1. generate_rule_version \in Nat
  BY ContextsTyped
<1>2. CASE BeginSave(s)
  BY <1>2 DEF BeginSave
<1>3. CASE MakeRule(s)
  BY <1>1, <1>3 DEF MakeRule
<1>4. CASE CommitRule(s)
  BY <1>4 DEF CommitRule
<1> QED
  BY <1>2, <1>3, <1>4 DEF SaveStep

\* The reply to a portion.
LEMMA AnswerTyped ==
    ASSUME TextsInv, DocsTypeOK, NEW d \in Docs, Answer(d)
    PROVE  answers' \in [Docs -> Seq(AnswerOf)]
<1> DEFINE new == [segment |-> Portion(d), rule |-> Prompt(d), run |-> run[d]]
<1>1. answers[d] \in Seq(AnswerOf) /\ context[d].rule \in Saves \cup {Generic} /\ run[d] \in Nat
  BY DEF DocsTypeOK
<1>2. Portion(d) \in Segment
  <2>1. Len(answers[d]) < Len(segments[d])
    BY DEF Answer, TextsInv, TextInv, Waiting
  <2>2. segments[d] \in Seq(Segment)
    BY SegmentsTyped
  <2>3. Len(answers[d]) \in Nat /\ Len(segments[d]) \in Nat
    BY <1>1, <2>2
  <2>4. Len(answers[d]) + 1 \in 1..Len(segments[d])
    BY <2>1, <2>3
  <2> QED
    BY <2>2, <2>4 DEF Portion
<1>3. new \in AnswerOf
  BY <1>1, <1>2 DEF Prompt, AnswerOf
<1>4. answers' = [answers EXCEPT ![d] = Append(answers[d], new)]
  BY DEF Answer
<1> HIDE DEF new
<1> QED
  BY <1>1, <1>3, <1>4 DEF DocsTypeOK

LEMMA WorkTyped ==
    ASSUME TextsInv, DocsTypeOK, NEW d \in Docs, Work(d)
    PROVE  DocsTypeOK'
<1> USE DEF DocsTypeOK, Goto, result, source
<1>1. CASE Download(d) \/ AskAgain(d) \/ RefreshToken(d) \/ TakeToken(d)
  BY <1>1 DEF Download, AskAgain, RefreshToken, TakeToken, progress
<1>2. CASE CallFails(d) \/ RefreshFails(d)
  BY <1>2 DEF CallFails, RefreshFails, Over
<1>3. CASE Answer(d)
  <2>1. answers' \in [Docs -> Seq(AnswerOf)]
    BY <1>3, AnswerTyped
  <2>2. \E l \in {"token", "upload"} : Goto(d, l)
    BY <1>3 DEF Answer
  <2> QED
    BY <1>3, <2>1, <2>2 DEF Answer
<1>4. CASE Upload(d)
  BY <1>4 DEF Upload, Uploaded, progress
<1>5. CASE Commit(d)
  <2> DEFINE V == [answer : AnswerOf, version : Nat]
             made == [i \in DOMAIN answers[d] |-> [answer |-> answers[d][i], version |-> context[d].version]]
  <2>1. answers[d] \in Seq(AnswerOf) /\ context[d].version \in Nat
    OBVIOUS
  <2>2. made \in Seq(V)
    <3>1. Len(answers[d]) \in Nat /\ DOMAIN answers[d] = 1..Len(answers[d])
      BY <2>1
    <3>2. \A i \in 1..Len(answers[d]) : [answer |-> answers[d][i], version |-> context[d].version] \in V
      BY <2>1
    <3> HIDE DEF V
    <3>3. made \in [1..Len(answers[d]) -> V]
      BY <3>1, <3>2
    <3> QED
      BY <3>1, <3>3
  <2>3. rows' = [rows EXCEPT ![d] = made]
    BY <1>5 DEF Commit
  <2> HIDE DEF made
  <2>4. rows' \in [Docs -> Seq(V)]
    BY <2>2, <2>3
  <2> QED
    BY <1>5, <2>4 DEF Commit, progress, Over
<1>6. CASE StorageFails(d) \/ CommitFails(d)
  <2>1. faults' \in Nat
    BY <1>6 DEF StorageFails, CommitFails, Fault
  <2>2. at' \in [Docs -> Over \cup {"download", "token", "again", "call", "upload", "commit"}]
    BY <1>6 DEF StorageFails, CommitFails, Over
  <2>3. file' \in [Docs -> Seq(AnswerOf)]
    BY <1>6 DEF StorageFails, CommitFails, Uploaded
  <2>4. UNCHANGED <<run, context, answers, rows, segments>>
    BY <1>6 DEF StorageFails, CommitFails, progress, source
  <2> QED
    BY <2>1, <2>2, <2>3, <2>4
<1> QED
  BY <1>1, <1>2, <1>3, <1>4, <1>5, <1>6 DEF Work

LEMMA TypedStep ==
    ASSUME TokenInv, TextsInv, Typed, [Next]_vars
    PROVE  Typed'
<1>1. ASSUME NEW d \in Docs, Work(d) PROVE Typed'
  <2>1. UNCHANGED ruleVars
    BY <1>1 DEF Work, Download, RefreshToken, TakeToken, Answer, CallFails, RefreshFails,
       AskAgain, Upload, Commit, StorageFails, CommitFails
  <2> QED
    BY <1>1, <2>1, WorkTyped DEF Typed, RulesTypeOK, ruleVars
<1>2. ASSUME NEW d \in Docs, Begin(d) PROVE Typed'
  <2>1. Contexts \subseteq [rule : Saves \cup {Generic}, version : Nat]
    BY ContextsTyped DEF Typed, TokenInv
  <2>2. \E c \in [rule : Saves \cup {Generic}, version : Nat] : context' = [context EXCEPT ![d] = c]
    BY <1>2, <2>1 DEF Begin
  <2>3. context' \in [Docs -> [rule : Saves \cup {Generic}, version : Nat]]
    BY <2>2 DEF Typed, DocsTypeOK
  <2>4. answers' \in [Docs -> Seq(AnswerOf)]
    <3>1. <<>> \in Seq(AnswerOf)
      OBVIOUS
    <3> QED
      BY <1>2, <3>1 DEF Begin, Typed, DocsTypeOK
  <2>5. at' \in [Docs -> Over \cup {"download", "token", "again", "call", "upload", "commit"}]
    BY <1>2 DEF Begin, Goto, Typed, DocsTypeOK
  <2>6. run' \in [Docs -> Nat]
    BY <1>2 DEF Begin, Typed, DocsTypeOK
  <2>7. UNCHANGED <<segments, file, rows, faults, rules, save>>
    BY <1>2 DEF Begin, source, result, ruleVars
  <2> QED
    BY <2>3, <2>4, <2>5, <2>6, <2>7 DEF Typed, DocsTypeOK, RulesTypeOK
<1>3. ASSUME NEW d \in Docs, Reprocess(d) PROVE Typed'
  BY <1>3 DEF Reprocess, Goto, Over, Typed, DocsTypeOK, RulesTypeOK, source, result, progress, ruleVars
<1>4. ASSUME NEW s \in Saves, SaveRules(s) PROVE Typed'
  <2>1. RulesTypeOK'
    BY <1>4, RulesTyped DEF SaveRules, Typed, TokenInv
  <2> QED
    BY <1>4, <2>1 DEF SaveRules, Typed, DocsTypeOK, source, result, progress
<1>5. CASE Crash
  <2>1. faults' \in Nat
    BY <1>5 DEF Crash, Fault, Typed, DocsTypeOK
  <2>2. at' \in [Docs -> Over \cup {"download", "token", "again", "call", "upload", "commit"}]
    BY <1>5 DEF Crash, Over, Typed, DocsTypeOK
  <2>3. UNCHANGED <<run, context, answers, segments, file, rows, rules, save>>
    BY <1>5 DEF Crash, source, progress, result, ruleVars
  <2> QED
    BY <2>1, <2>2, <2>3 DEF Typed, DocsTypeOK, RulesTypeOK
<1>6. CASE Tick \/ UNCHANGED vars
  BY <1>6 DEF Tick, vars, Typed, DocsTypeOK, RulesTypeOK, source, result, progress, ruleVars
<1> QED
  BY <1>1, <1>2, <1>3, <1>4, <1>5, <1>6 DEF Next

\* Every variable keeps its type: a conversion never sends a segment past the last
\* one, and the version of its rules is a number.
THEOREM TypeCorrect == Spec => []TypeOK
<1>1. ASSUME TokenInv, LockInv, TextsInv, Counted, Typed PROVE TypeOK
  <2>1. segments \in [Docs -> Seq(Segment)]
    <3>1. segments = [d \in Docs |-> segments[d]]
      BY <1>1 DEF Typed, DocsTypeOK
    <3> QED
      BY <1>1, <3>1, SegmentsTyped
  <2>2. TokenTypeOK
    BY <1>1 DEF TokenInv, TokenTypeOK
  <2> QED
    BY <1>1, <2>1, <2>2 DEF TypeOK, Typed, DocsTypeOK, TextsInv, TextsTyped, Counted, TokenInv
<1>2. Init => TokenInv /\ LockInv /\ Counted /\ Typed
  <2>1. MaxRetries \in Nat \ {0}
    BY ConversionAssumption
  <2>2. \A S : <<>> \in Seq(S)
    OBVIOUS
  <2>3. Init => segments = [d \in Docs |-> segments[d]]
    BY DEF Init
  <2> QED
    BY <2>1, <2>2, <2>3 DEF Init, TokenInit, TokenInv, LockInv, Counted, Typed, DocsTypeOK, Over, RulesInit, RulesTypeOK
<1>3. TokenInv /\ LockInv /\ TextsInv /\ Counted /\ Typed /\ [Next]_vars
        => TokenInv' /\ LockInv' /\ TextsInv' /\ Counted' /\ Typed'
  BY TokenInvStep, LockInvStep, TextsInvStep, CountedStep, TypedStep
<1>4. QED
  BY <1>1, <1>2, <1>3, TextsInvInit, PTL DEF Spec
=============================================================================
