------------------------------ MODULE Conversion ------------------------------
(***************************************************************************)
(* Conversions under way in one process: what Ingestion takes as one step. *)
(* A delivery of process-document reads the company's rules, downloads the *)
(* file, sends it to Gemini segment by segment (docx) or whole (pdf) with  *)
(* several attempts each, uploads the result to converted/ and commits the *)
(* rows (app/routers/internal/tasks.py, app/services/ai/gemini.py).        *)
(*                                                                         *)
(* An answer stands for the chunks of one valid reply of the model, told   *)
(* apart by the delivery that asked for it.                                *)
(***************************************************************************)
EXTENDS Naturals, Sequences, SequencesExt, FiniteSets

CONSTANTS
    Docs, Pdfs,
    Texts,          \* full_text of a docx
    Saves, Generic,
    SegmentMax, MaxRetries, Life, Margin, Minute,
    MaxTime,        \* bound: the clock
    MaxRuns,        \* bound: deliveries of each document
    MaxFaults       \* bound: crashes and failing downloads, uploads, commits

INSTANCE TextSplit

ASSUME ConversionAssumption ==
    /\ Pdfs \subseteq Docs
    /\ Generic \notin Saves
    /\ Texts \subseteq Text
    /\ {SegmentMax, MaxRetries, Minute} \subseteq Nat \ {0}
    /\ {Life, Margin, MaxTime, MaxFaults} \subseteq Nat
    /\ MaxRuns \in [Docs -> Nat]

VARIABLES
    text,           \* of each docx
    at,             \* where its conversion is
    run,            \* its deliveries so far
    context,        \* company_context
    segments,       \* what it sends: the same at every delivery
    answers,        \* all_chunks so far
    attempt,        \* at the current segment
    file,           \* converted/{session}.json
    rows,           \* the committed chunks
    faults,
    now,
    expiry, queue, refreshing,      \* TokenManager
    rules, save                     \* RuleVersions

INSTANCE TokenManager WITH Callers <- Docs
INSTANCE RuleVersions

source    == <<text, segments>>
result    == <<file, rows>>
progress  == <<context, answers, attempt>>
tokenVars == <<expiry, queue, refreshing>>
ruleVars  == <<rules, save>>
vars == <<source, at, run, progress, result, faults, now, tokenVars, ruleVars>>

Init ==
    /\ text \in [Docs \ Pdfs -> Texts]
    /\ at = [d \in Docs |-> "queued"]
    /\ run = [d \in Docs |-> 0]
    /\ context = [d \in Docs |-> [rule |-> Generic, version |-> 0]]
    /\ segments = [d \in Docs |-> IF d \in Pdfs THEN <<<<>>>> ELSE Split(text[d])]
    /\ answers = [d \in Docs |-> <<>>]
    /\ attempt = [d \in Docs |-> 1]
    /\ file = [d \in Docs |-> <<>>]
    /\ rows = [d \in Docs |-> <<>>]
    /\ faults = 0
    /\ now = 0
    /\ TokenInit
    /\ RulesInit

Goto(d, location) == at' = [at EXCEPT ![d] = location]

Fault ==
    /\ faults < MaxFaults
    /\ faults' = faults + 1

-----------------------------------------------------------------------------
Begin(d) ==
    /\ at[d] = "queued"
    /\ run[d] < MaxRuns[d]
    /\ run' = [run EXCEPT ![d] = @ + 1]
    /\ \E c \in Contexts : context' = [context EXCEPT ![d] = c]
    /\ answers' = [answers EXCEPT ![d] = <<>>]
    /\ attempt' = [attempt EXCEPT ![d] = 1]
    /\ Goto(d, "download")
    /\ UNCHANGED <<source, result, faults, now, tokenVars, ruleVars>>

Download(d) ==
    /\ at[d] = "download"
    /\ Ask(d)
    /\ Goto(d, "token")
    /\ UNCHANGED <<source, run, progress, result, faults, now, ruleVars>>

RefreshToken(d) ==
    /\ at[d] = "token"
    /\ Refresh(d)
    /\ UNCHANGED <<source, at, run, progress, result, faults, now, ruleVars>>

TakeToken(d) ==
    /\ at[d] = "token"
    /\ Return(d)
    /\ Goto(d, "call")
    /\ UNCHANGED <<source, run, progress, result, faults, now, ruleVars>>

-----------------------------------------------------------------------------
(* The attempts at a segment.                                              *)

\* (variant) the prompt is made again for every segment.
LatestPrompt(d) == IF rules = {} THEN Generic ELSE (CHOOSE r \in Latest : TRUE).rule

\* The system prompt was made once, before the first segment.
Prompt(d) == context[d].rule

\* (variant) every call sends the segment the loop began with.
FirstPortion(d) == segments[d][1]

Portion(d) == segments[d][Len(answers[d]) + 1]

\* A list of valid chunks, for a pdf not an empty one.
Answer(d) ==
    /\ at[d] = "call"
    /\ answers' = [answers EXCEPT ![d] =
            Append(@, [segment |-> Portion(d),
                       rule |-> Prompt(d), run |-> run[d]])]
    /\ attempt' = [attempt EXCEPT ![d] = 1]
    /\ \/ /\ Len(answers'[d]) < Len(segments[d])
          /\ Ask(d)
          /\ Goto(d, "token")
       \/ /\ Len(answers'[d]) = Len(segments[d])
          /\ Goto(d, "upload")
          /\ UNCHANGED tokenVars
    /\ UNCHANGED <<source, run, context, result, faults, now, ruleVars>>

\* Another attempt, which takes a token again.
Retry(d) ==
    /\ attempt[d] < MaxRetries
    /\ attempt' = [attempt EXCEPT ![d] = @ + 1]

\* An exception of the client, no JSON, a list with an invalid chunk.
CallFails(d) ==
    /\ at[d] = "call"
    /\ \/ Retry(d) /\ Ask(d) /\ Goto(d, "token")
       \/ /\ attempt[d] = MaxRetries
          /\ Goto(d, "failed")
          /\ UNCHANGED <<attempt, tokenVars>>
    /\ UNCHANGED <<source, run, context, answers, result, faults, now, ruleVars>>

\* get_token is inside the same try: a failing refresh is a failed attempt.  Its
\* next attempt starts with another call of get_token.
RefreshFails(d) ==
    /\ at[d] = "token"
    /\ Raise(d)
    /\ \/ Retry(d) /\ Goto(d, "again")
       \/ /\ attempt[d] = MaxRetries
          /\ Goto(d, "failed")
          /\ UNCHANGED attempt
    /\ UNCHANGED <<source, run, context, answers, result, faults, now, ruleVars>>

AskAgain(d) ==
    /\ at[d] = "again"
    /\ Ask(d)
    /\ Goto(d, "token")
    /\ UNCHANGED <<source, run, progress, result, faults, now, ruleVars>>

-----------------------------------------------------------------------------
(* _save_chunks_to_db.                                                     *)

\* (variant) an object that exists is not written again.
UploadedOnce(d) == IF file[d] = <<>> THEN answers[d] ELSE file[d]

Uploaded(d) == answers[d]

Upload(d) ==
    /\ at[d] = "upload"
    /\ file' = [file EXCEPT ![d] = Uploaded(d)]
    /\ Goto(d, "commit")
    /\ UNCHANGED <<source, run, progress, rows, faults, now, tokenVars, ruleVars>>

Commit(d) ==
    /\ at[d] = "commit"
    /\ rows' = [rows EXCEPT ![d] =
            [i \in DOMAIN answers[d] |->
                [answer |-> answers[d][i], version |-> context[d].version]]]
    /\ Goto(d, "done")
    /\ UNCHANGED <<source, run, progress, file, faults, now, tokenVars, ruleVars>>

\* The download or the upload (done or not) raises: the session is failed.
StorageFails(d) ==
    /\ at[d] \in {"download", "upload"}
    /\ Fault
    /\ \/ UNCHANGED file
       \/ at[d] = "upload" /\ file' = [file EXCEPT ![d] = Uploaded(d)]
    /\ Goto(d, "failed")
    /\ UNCHANGED <<source, run, progress, rows, now, tokenVars, ruleVars>>

\* The commit raises and the task is delivered again.
CommitFails(d) ==
    /\ at[d] = "commit"
    /\ Fault
    /\ Goto(d, "queued")
    /\ UNCHANGED <<source, run, progress, result, now, tokenVars, ruleVars>>

\* reprocess
Reprocess(d) ==
    /\ at[d] \in {"done", "failed"}
    /\ run[d] < MaxRuns[d]
    /\ Goto(d, "queued")
    /\ UNCHANGED <<source, run, progress, result, faults, now, tokenVars, ruleVars>>

-----------------------------------------------------------------------------
Over == {"queued", "done", "failed"}

\* The instance dies; what it was converting is delivered again.
Crash ==
    /\ Fault
    /\ \E d \in Docs : at[d] \notin Over
    /\ at' = [d \in Docs |-> IF at[d] \in Over THEN at[d] ELSE "queued"]
    /\ NewProcess
    /\ UNCHANGED <<source, run, progress, result, now, ruleVars>>

Tick ==
    /\ now < MaxTime
    /\ now' = now + 1
    /\ UNCHANGED <<source, at, run, progress, result, faults, tokenVars, ruleVars>>

SaveRules(s) ==
    /\ SaveStep(s)
    /\ UNCHANGED <<source, at, run, progress, result, faults, now, tokenVars>>

Work(d) ==
    \/ Download(d) \/ RefreshToken(d) \/ TakeToken(d)
    \/ Answer(d) \/ CallFails(d) \/ RefreshFails(d) \/ AskAgain(d)
    \/ Upload(d) \/ Commit(d) \/ StorageFails(d) \/ CommitFails(d)

Next ==
    \/ \E d \in Docs : Begin(d) \/ Work(d) \/ Reprocess(d)
    \/ \E s \in Saves : SaveRules(s)
    \/ Crash
    \/ Tick

Spec == Init /\ [][Next]_vars

\* Coroutines of a live process.
FairSpec == Spec /\ \A d \in Docs : WF_vars(Work(d))

-----------------------------------------------------------------------------
(* Properties.                                                             *)

Segment == Seq(Nat \X Nat)
AnswerOf == [segment : Segment, rule : Saves \cup {Generic}, run : Nat]

\* Every variable keeps its type.
TypeOK ==
    /\ text \in [Docs \ Pdfs -> Texts]
    /\ at \in [Docs -> Over \cup {"download", "token", "again", "call", "upload", "commit"}]
    /\ run \in [Docs -> Nat]
    /\ context \in [Docs -> [rule : Saves \cup {Generic}, version : Nat]]
    /\ segments \in [Docs -> Seq(Segment)]
    /\ answers \in [Docs -> Seq(AnswerOf)]
    /\ attempt \in [Docs -> 1..MaxRetries]
    /\ file \in [Docs -> Seq(AnswerOf)]
    /\ rows \in [Docs -> Seq([answer : AnswerOf, version : Nat])]
    /\ faults \in Nat
    /\ now \in Nat
    /\ TokenTypeOK
    /\ RulesTypeOK

Sent(d) == [i \in DOMAIN rows[d] |-> rows[d][i].answer.segment]

\* The rows of a docx were made from its whole text, every character but blanks
\* once and in order, in portions the model was meant to take, whatever attempts
\* failed on the way.
WholeText ==
    \A d \in Docs \ Pdfs : rows[d] # <<>> => Fits(Sent(d)) /\ Covers(text[d], Sent(d))

\* The rows of a document are of one delivery and one set of rules, and their
\* version is the version of those rules, whatever is saved meanwhile.
OneContext ==
    \A d \in Docs : \A i, j \in DOMAIN rows[d] :
        /\ rows[d][i].version = rows[d][j].version
        /\ rows[d][i].answer.rule = rows[d][j].answer.rule
        /\ rows[d][i].answer.run = rows[d][j].answer.run
        /\ rows[d][i].answer.rule # Generic =>
             \E r \in rules : /\ r.rule = rows[d][i].answer.rule
                              /\ r.version = rows[d][i].version

\* Once a conversion is done its copy in converted/ holds what the rows hold, also
\* after deliveries that died or failed between the upload and the commit.
FileHoldsRows ==
    \A d \in Docs : at[d] = "done" =>
        file[d] = [i \in DOMAIN rows[d] |-> rows[d][i].answer]

\* Every conversion that has begun is done, failed or delivered again, behind
\* failing calls and failing refreshes.
ConversionEnds == \A d \in Docs : at[d] \notin Over ~> at[d] \in Over
=============================================================================
