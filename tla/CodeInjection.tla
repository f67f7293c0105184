--------------------------- MODULE CodeInjection ---------------------------
(***************************************************************************)
(* inject-gcs-paths (app/routers/internal/tasks.py): it gives the chunks   *)
(* of a company the machine program (tap / nc) of their product and face,  *)
(* copying the file from raw/, which a lifecycle rule empties, to          *)
(* converted/, which is kept.                                              *)
(*                                                                         *)
(* An injection is one transaction: it reads the files, reads the chunks,  *)
(* asks the storage for one copy per file, and updates the rows at its     *)
(* commit.  Uploads, conversions, edits, expiry and other injections run   *)
(* between any two of these steps.                                         *)
(***************************************************************************)
EXTENDS Naturals, Sequences, FiniteSets

CONSTANTS
    Products, Suffixes, None,
    Filenames,      \* what a tap or nc file may be called: the product tokens
                    \* and the face suffixes its name contains
    Kinds,          \* product_id and face suffix (or None) of a chunk
    Documents,      \* docx and pdf documents, of one chunk each
    Injectors,      \* inject-gcs-paths requests under way
    EditKinds,      \* what an edit in the preview may set them to
    MaxTaps, MaxChunks \* bounds of the exploration

ASSUME InjectionAssumption ==
    /\ None \notin Products \cup Suffixes
    /\ Filenames \subseteq [products : SUBSET Products, suffixes : SUBSET Suffixes]
    /\ Kinds \subseteq [product : Products \cup {None}, suffix : Suffixes \cup {None}]
    /\ EditKinds \subseteq Kinds
    /\ MaxTaps \in Nat
    /\ MaxChunks \in Nat

VARIABLES
    taps,       \* the tap and nc documents, in the order of created_at
    raw,        \* those whose object is still under raw/
    converted,  \* those copied to converted/
    chunks,     \* the chunks rows
    nextId,     \* the next chunk_id (uuid4)
    pc,         \* where each injection is
    seen,       \* how many of taps it has read
    todo,       \* the rows it still has to match
    cache,      \* converted_path_by_doc: the files it has asked to be copied
    found,      \* the rows it will update
    job         \* the row and the file whose copy it waits for

storage   == <<taps, raw, converted>>
rows      == <<chunks, nextId>>
injection == <<pc, seen, todo, cache, found, job>>
vars      == <<storage, rows, injection>>

Null      == [dir |-> "null", doc |-> 0]
Raw(d)    == [dir |-> "raw", doc |-> d]
\* A path injection writes: the file, and what it was chosen for and among.
Converted(d, k, n) == [dir |-> "converted", doc |-> d, for |-> k, among |-> n]
Injected(c) == c.path.dir = "converted"

Row(doc, k, p) == [id |-> nextId, doc |-> doc, kind |-> k, path |-> p]

NoJob  == [row |-> None, doc |-> 0]
NoFunction == [x \in {} |-> 0]

-----------------------------------------------------------------------------
(* Which file.                                                             *)

\* _product_id_in_filename, by tokens.
Fits(d, k) == k.product \in taps[d].products

\* The face's suffix is in the file's name.
Exact(d, k) == Fits(d, k) /\ k.suffix \in taps[d].suffixes

\* tap_map: of each name the newest document, docs[0].
TapFiles(n) == {d \in 1 .. n : \A e \in d + 1 .. n : taps[e] # taps[d]}

\* The matching loop looks for a file of product and face, and falls back to one
\* of the product.
Candidates(n, k) ==
    LET ofFace == {d \in TapFiles(n) : Exact(d, k)}
    IN  IF ofFace # {} THEN ofFace ELSE {d \in TapFiles(n) : Fits(d, k)}

\* (variant) the dict is built oldest first.
OldestOf(S, d) == d \in S /\ \A e \in S : d <= e

\* It takes the first of the dict, which is built newest first.
NewestOf(S, d) == d \in S /\ \A e \in S : e <= d

-----------------------------------------------------------------------------
Init ==
    /\ taps = <<>> /\ raw = {} /\ converted = {}
    /\ chunks = {} /\ nextId = 0
    /\ pc = [i \in Injectors |-> "idle"]
    /\ seen = [i \in Injectors |-> 0]
    /\ todo = [i \in Injectors |-> {}]
    /\ cache = [i \in Injectors |-> NoFunction]
    /\ found = [i \in Injectors |-> NoFunction]
    /\ job = [i \in Injectors |-> NoJob]

\* (variant) the object is written and its row is not.
UploadUnrecorded(name) ==
    /\ Len(taps) < MaxTaps
    /\ raw' = raw \cup {Len(taps) + 1}
    /\ UNCHANGED <<taps, converted, rows, injection>>

\* upload_document of a tap or nc file: the object, then the row.
UploadTap(name) ==
    /\ Len(taps) < MaxTaps
    /\ taps' = Append(taps, name)
    /\ raw' = raw \cup {Len(taps) + 1}
    /\ UNCHANGED <<converted, rows, injection>>

\* The lifecycle rule of raw/.
Expire(d) ==
    /\ raw' = raw \ {d}
    /\ UNCHANGED <<taps, converted, rows, injection>>

\* The end of process-document: the document's rows are replaced, without a path.
Convert(doc, k) ==
    /\ nextId < MaxChunks
    /\ chunks' = {c \in chunks : c.doc # doc} \cup {Row(doc, k, Null)}
    /\ nextId' = nextId + 1
    /\ UNCHANGED <<storage, injection>>

\* A row of an older version, which did not copy: its path is under raw/.
Inherit(doc, k, d) ==
    /\ converted = {} /\ \A i \in Injectors : pc[i] = "idle"
    /\ nextId < MaxChunks
    /\ \A c \in chunks : c.doc # doc
    /\ Fits(d, k)
    /\ chunks' = chunks \cup {Row(doc, k, Raw(d))}
    /\ nextId' = nextId + 1
    /\ UNCHANGED <<storage, injection>>

\* patch_session_chunk: product_id and face may be edited, the path may not.
Patch(c, k) ==
    /\ chunks' = (chunks \ {c}) \cup {[c EXCEPT !.kind = k]}
    /\ UNCHANGED <<storage, nextId, injection>>

-----------------------------------------------------------------------------
Reset(i) ==
    /\ pc' = [pc EXCEPT ![i] = "idle"]
    /\ seen' = [seen EXCEPT ![i] = 0]
    /\ todo' = [todo EXCEPT ![i] = {}]
    /\ cache' = [cache EXCEPT ![i] = NoFunction]
    /\ found' = [found EXCEPT ![i] = NoFunction]
    /\ job' = [job EXCEPT ![i] = NoJob]

\* SELECT of the company's tap and nc documents; without any it returns.
ReadTaps(i) ==
    /\ pc[i] = "idle"
    /\ taps # <<>>
    /\ pc' = [pc EXCEPT ![i] = "chunks"]
    /\ seen' = [seen EXCEPT ![i] = Len(taps)]
    /\ UNCHANGED <<storage, rows, todo, cache, found, job>>

\* The chunks that have a product and no path, or one of before.
Open(c) == c.kind.product # None /\ ~Injected(c)

\* SELECT of the open chunks; without any it returns.
ReadChunks(i) ==
    /\ pc[i] = "chunks"
    /\ LET open == {c \in chunks : Open(c)} IN
       \/ /\ open = {}
          /\ Reset(i)
       \/ /\ open # {}
          /\ pc' = [pc EXCEPT ![i] = "match"]
          /\ todo' = [todo EXCEPT ![i] = open]
          /\ UNCHANGED <<seen, cache, found, job>>
    /\ UNCHANGED <<storage, rows>>

\* The row is done with; it gets file d if d is to be had.
Settle(i, c, d, had) ==
    /\ todo' = [todo EXCEPT ![i] = @ \ {c}]
    /\ found' = [found EXCEPT ![i] =
                    IF had THEN [x \in DOMAIN @ \cup {c.id} |->
                                    IF x = c.id THEN Converted(d, c.kind, seen[i]) ELSE @[x]]
                           ELSE @]

\* No file, or one that has been asked for before.
Match(i, c) ==
    /\ pc[i] = "match"
    /\ c \in todo[i]
    /\ LET files == Candidates(seen[i], c.kind) IN
       \/ /\ files = {}
          /\ Settle(i, c, 0, FALSE)
          /\ UNCHANGED <<pc, job>>
       \/ \E d \in files :
          /\ NewestOf(files, d)
          /\ \/ /\ d \in DOMAIN cache[i]
                /\ Settle(i, c, d, cache[i][d])
                /\ UNCHANGED <<pc, job>>
             \/ /\ d \notin DOMAIN cache[i]
                /\ job' = [job EXCEPT ![i] = [row |-> c, doc |-> d]]
                /\ pc' = [pc EXCEPT ![i] = "copy"]
                /\ UNCHANGED <<todo, found>>
    /\ UNCHANGED <<storage, rows, seen, cache>>

Cached(i, d, had) ==
    cache' = [cache EXCEPT ![i] = [x \in DOMAIN @ \cup {d} |-> IF x = d THEN had ELSE @[x]]]

Answered(i, had) ==
    /\ pc[i] = "copy"
    /\ Cached(i, job[i].doc, had)
    /\ Settle(i, job[i].row, job[i].doc, had)
    /\ pc' = [pc EXCEPT ![i] = "match"]
    /\ job' = [job EXCEPT ![i] = NoJob]
    /\ UNCHANGED <<taps, raw, rows, seen>>

\* (variant) a copy that was not made counts as made.
CopyTrusted(i) ==
    /\ Answered(i, TRUE)
    /\ UNCHANGED converted

\* copy_object: the copy is there already, or is made.
Copied(i) ==
    /\ job[i].doc \in raw \cup converted
    /\ Answered(i, TRUE)
    /\ converted' = converted \cup {job[i].doc}

\* The source is gone, or a call to the storage raises.
CopyFails(i) ==
    /\ Answered(i, FALSE)
    /\ UNCHANGED converted

Missing(i) == DOMAIN found[i] \ {c.id : c \in chunks}

\* flush and commit: one UPDATE by primary key for each row.  A row that is gone
\* goes unnoticed if the driver does not count the rows of an executemany.
Commit(i) ==
    /\ pc[i] = "match"
    /\ todo[i] = {}
    /\ Missing(i) # {} => Cardinality(DOMAIN found[i]) > 1
    /\ chunks' = {IF c.id \in DOMAIN found[i] THEN [c EXCEPT !.path = found[i][c.id]] ELSE c :
                     c \in chunks}
    /\ Reset(i)
    /\ UNCHANGED <<storage, nextId>>

\* The flush misses a row, or the request dies: the transaction is rolled back.
Rollback(i) ==
    /\ pc[i] # "idle"
    /\ Reset(i)
    /\ UNCHANGED <<storage, rows>>

InjectionStep(i) ==
    \/ ReadTaps(i) \/ ReadChunks(i) \/ (\E c \in todo[i] : Match(i, c))
    \/ Copied(i) \/ CopyFails(i) \/ Commit(i) \/ Rollback(i)

Next ==
    \/ \E name \in Filenames : UploadTap(name)
    \/ \E d \in raw : Expire(d)
    \/ \E doc \in Documents, k \in Kinds : Convert(doc, k) \/ \E d \in 1 .. Len(taps) : Inherit(doc, k, d)
    \/ \E c \in chunks, k \in EditKinds : Patch(c, k)
    \/ \E i \in Injectors : InjectionStep(i)

Spec == Init /\ [][Next]_vars

-----------------------------------------------------------------------------
DocId == 1 .. Len(taps)

PathType == {Null} \cup {Raw(d) : d \in DocId}
                   \cup {Converted(d, k, n) : d \in DocId, k \in Kinds, n \in DocId}

RowType == [id : Nat, doc : Documents, kind : Kinds, path : PathType]

\* Type invariant; chunk ids are unique and a file is copied after it is uploaded.
TypeOK ==
    /\ taps \in Seq(Filenames)
    /\ raw \subseteq DocId /\ converted \subseteq DocId
    /\ chunks \subseteq RowType
    /\ nextId \in Nat
    /\ \A c, e \in chunks : c.id < nextId /\ (c.id = e.id => c = e)
    /\ pc \in [Injectors -> {"idle", "chunks", "match", "copy"}]
    /\ \A i \in Injectors :
         /\ seen[i] \in 0 .. Len(taps)
         /\ \A c \in todo[i] : c.id < nextId /\ c.kind \in Kinds
         /\ DOMAIN cache[i] \subseteq DocId /\ \A d \in DOMAIN cache[i] : cache[i][d] \in BOOLEAN
         /\ \A x \in DOMAIN found[i] : x < nextId /\ found[i][x] \in PathType
         /\ pc[i] = "copy" => job[i].doc \in DocId /\ job[i].row \in todo[i]

\* The file of an injected chunk is under converted/, so that the download link
\* of a query resolves, whatever expires, fails, overlaps or is replaced
\* (_ensure_code_in_converted: raw/ is emptied after 15 days).
InjectedResolvable == \A c \in chunks : Injected(c) => c.path.doc \in converted

\* f is the newest file of k's product and face among the first n, or the newest of
\* its product if there is none of its face.
Best(f, k, n) ==
    /\ Fits(f, k)
    /\ \A d \in {x \in 1 .. n : Fits(x, k)} :
         /\ Exact(d, k) => Exact(f, k)
         /\ (Exact(d, k) <=> Exact(f, k)) => d <= f

\* An injected chunk has the best of the files its injection knew, whatever other
\* injections, uploads and edits there were since (inject_gcs_paths).
BestFile == \A c \in chunks : Injected(c) => Best(c.path.doc, c.path.for, c.path.among)

=============================================================================
