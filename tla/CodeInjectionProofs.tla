------------------------ MODULE CodeInjectionProofs ------------------------
(***************************************************************************)
(* For any number of injections, files, chunks and edits: the path of an   *)
(* injected chunk resolves for ever, and it is the best file its injection *)
(* knew.                                                                   *)
(*                                                                         *)
(* A path reaches a row in three hops: the storage's answer is cached, the *)
(* cache settles the row, the commit writes it.  The invariants say of     *)
(* every hop that the file is under converted/ already (nothing is ever    *)
(* taken from there), and that it is the best of the files that were read  *)
(* (documents are only added).                                             *)
(***************************************************************************)
EXTENDS CodeInjection, NaturalsInduction, WellFoundedInduction, TLAPS

-----------------------------------------------------------------------------
(* The path resolves.                                                       *)

CacheTrue == \A i \in Injectors : \A d \in DOMAIN cache[i] : cache[i][d] => d \in converted

FoundCopied ==
    \A i \in Injectors : \A x \in DOMAIN found[i] :
        found[i][x].dir = "converted" /\ found[i][x].doc \in converted

Tables ==
    /\ cache = [i \in Injectors |-> cache[i]]
    /\ found = [i \in Injectors |-> found[i]]

\* Rows are records with a path.
RowShape(c) == c = [id |-> c.id, doc |-> c.doc, kind |-> c.kind, path |-> c.path]

RowsShaped == \A c \in chunks : RowShape(c)

ResolveInv == Tables /\ RowsShaped /\ CacheTrue /\ FoundCopied /\ InjectedResolvable

-----------------------------------------------------------------------------
\* Settling a row with a file that is under converted/ keeps what was found there.
LEMMA SettleFound ==
    ASSUME Tables, FoundCopied, NEW i \in Injectors, NEW c, NEW d, NEW had,
           had => d \in converted',
           converted \subseteq converted',
           Settle(i, c, d, had)
    PROVE  FoundCopied' /\ found' = [j \in Injectors |-> found'[j]]
<1>1. found' = [found EXCEPT ![i] =
                   IF had THEN [x \in DOMAIN found[i] \cup {c.id} |->
                                   IF x = c.id THEN Converted(d, c.kind, seen[i])
                                               ELSE found[i][x]]
                          ELSE found[i]]
  BY DEF Settle, Tables
<1>2. found' = [j \in Injectors |-> found'[j]]
  BY <1>1 DEF Tables
<1>3. \A j \in Injectors : j # i => found'[j] = found[j]
  BY <1>1 DEF Tables
<1>4. FoundCopied'
  <2> SUFFICES ASSUME NEW j \in Injectors, NEW x \in DOMAIN found'[j]
               PROVE  found'[j][x].dir = "converted" /\ found'[j][x].doc \in converted'
    BY DEF FoundCopied
  <2>1. CASE j # i
    BY <2>1, <1>3 DEF FoundCopied
  <2>2. CASE j = i /\ ~had
    <3>1. found'[i] = found[i]
      BY <1>1, <2>2 DEF Tables
    <3> QED
      BY <3>1, <2>2 DEF FoundCopied
  <2>3. CASE j = i /\ had
    <3>1. found'[i] = [y \in DOMAIN found[i] \cup {c.id} |->
                          IF y = c.id THEN Converted(d, c.kind, seen[i]) ELSE found[i][y]]
      BY <1>1, <2>3 DEF Tables
    <3>2. CASE x = c.id
      BY <3>1, <3>2, <2>3 DEF Converted
    <3>3. CASE x # c.id
      BY <3>1, <3>3, <2>3 DEF FoundCopied
    <3> QED
      BY <3>2, <3>3
  <2> QED
    BY <2>1, <2>2, <2>3
<1> QED
  BY <1>2, <1>4

\* A step that leaves the caches alone keeps what they say.
LEMMA CacheKept ==
    ASSUME Tables, CacheTrue, converted \subseteq converted', UNCHANGED cache
    PROVE  CacheTrue' /\ cache' = [j \in Injectors |-> cache'[j]]
BY DEF Tables, CacheTrue

LEMMA FoundKept ==
    ASSUME Tables, FoundCopied, converted \subseteq converted', UNCHANGED found
    PROVE  FoundCopied' /\ found' = [j \in Injectors |-> found'[j]]
BY DEF Tables, FoundCopied

LEMMA RowsKept ==
    ASSUME InjectedResolvable, RowsShaped, converted \subseteq converted', UNCHANGED chunks
    PROVE  InjectedResolvable' /\ RowsShaped'
BY DEF InjectedResolvable, Injected, RowsShaped

\* The end of an injection forgets its cache and its findings.
LEMMA ResetKeeps ==
    ASSUME Tables, CacheTrue, FoundCopied, converted' = converted,
           NEW i \in Injectors, Reset(i)
    PROVE  Tables' /\ CacheTrue' /\ FoundCopied'
<1>1. /\ cache' = [cache EXCEPT ![i] = NoFunction]
      /\ found' = [found EXCEPT ![i] = NoFunction]
  BY DEF Reset
<1>2. Tables'
  BY <1>1 DEF Tables
<1>3. DOMAIN NoFunction = {}
  BY DEF NoFunction
<1>4. CacheTrue'
  BY <1>1, <1>3 DEF Tables, CacheTrue
<1>5. FoundCopied'
  BY <1>1, <1>3 DEF Tables, FoundCopied
<1> QED
  BY <1>2, <1>4, <1>5

\* An answer of the storage that is true of converted/ may be cached and used.
LEMMA AnswerKeeps ==
    ASSUME ResolveInv, NEW i \in Injectors, NEW had,
           Answered(i, had), had => job[i].doc \in converted',
           converted \subseteq converted'
    PROVE  ResolveInv'
<1> USE DEF ResolveInv
<1>1. FoundCopied' /\ found' = [j \in Injectors |-> found'[j]]
  BY SettleFound DEF Answered
<1>2. cache' = [cache EXCEPT ![i] = [x \in DOMAIN cache[i] \cup {job[i].doc} |->
                                        IF x = job[i].doc THEN had ELSE cache[i][x]]]
  BY DEF Answered, Cached, Tables
<1>3. cache' = [j \in Injectors |-> cache'[j]]
  BY <1>2 DEF Tables
<1>4. CacheTrue'
  <2> SUFFICES ASSUME NEW j \in Injectors, NEW x \in DOMAIN cache'[j], cache'[j][x]
               PROVE  x \in converted'
    BY DEF CacheTrue
  <2>1. CASE j # i
    BY <2>1, <1>2 DEF Tables, CacheTrue
  <2>2. CASE j = i
    <3>1. cache'[i] = [y \in DOMAIN cache[i] \cup {job[i].doc} |->
                          IF y = job[i].doc THEN had ELSE cache[i][y]]
      BY <1>2 DEF Tables
    <3>2. CASE x = job[i].doc
      BY <3>1, <3>2, <2>2
    <3>3. CASE x # job[i].doc
      BY <3>1, <3>3, <2>2 DEF CacheTrue
    <3> QED
      BY <3>2, <3>3
  <2> QED
    BY <2>1, <2>2
<1>5. InjectedResolvable' /\ RowsShaped'
  BY RowsKept DEF Answered, rows
<1> QED
  BY <1>1, <1>3, <1>4, <1>5 DEF Tables

-----------------------------------------------------------------------------
LEMMA ResolveInit == Init => ResolveInv
<1> SUFFICES ASSUME Init PROVE ResolveInv
  OBVIOUS
<1>1. DOMAIN NoFunction = {}
  BY DEF NoFunction
<1> QED
  BY <1>1 DEF Init, ResolveInv, Tables, CacheTrue, FoundCopied, InjectedResolvable,
             RowsShaped

LEMMA ResolveStep == ResolveInv /\ [Next]_vars => ResolveInv'
<1> SUFFICES ASSUME ResolveInv, [Next]_vars PROVE ResolveInv'
  OBVIOUS
<1>a. ASSUME UNCHANGED chunks, converted \subseteq converted', UNCHANGED <<cache, found>>
      PROVE  ResolveInv'
  BY <1>a, CacheKept, FoundKept, RowsKept DEF ResolveInv, Tables
<1>1. CASE \E name \in Filenames : UploadTap(name)
  BY <1>1, <1>a DEF UploadTap, rows, injection
<1>2. CASE \E d \in raw : Expire(d)
  BY <1>2, <1>a DEF Expire, rows, injection
<1>b. ASSUME UNCHANGED <<converted, cache, found>>, InjectedResolvable', RowsShaped'
      PROVE  ResolveInv'
  BY <1>b, CacheKept, FoundKept DEF ResolveInv, Tables
<1>3. ASSUME NEW doc \in Documents, NEW k \in Kinds, Convert(doc, k) PROVE ResolveInv'
  <2>1. ~Injected(Row(doc, k, Null)) /\ RowShape(Row(doc, k, Null))
    BY DEF Injected, Row, Null, RowShape
  <2>2. InjectedResolvable' /\ RowsShaped'
    BY <1>3, <2>1 DEF Convert, ResolveInv, InjectedResolvable, RowsShaped, storage, Injected
  <2> QED
    BY <1>3, <2>2, <1>b DEF Convert, storage, injection
<1>4. ASSUME NEW doc \in Documents, NEW k \in Kinds, NEW d, Inherit(doc, k, d)
      PROVE  ResolveInv'
  <2>1. ~Injected(Row(doc, k, Raw(d))) /\ RowShape(Row(doc, k, Raw(d)))
    BY DEF Injected, Row, Raw, RowShape
  <2>2. InjectedResolvable' /\ RowsShaped'
    BY <1>4, <2>1 DEF Inherit, ResolveInv, InjectedResolvable, RowsShaped, storage, Injected
  <2> QED
    BY <1>4, <2>2, <1>b DEF Inherit, storage, injection
<1>5. ASSUME NEW c \in chunks, NEW k \in EditKinds, Patch(c, k) PROVE ResolveInv'
  <2>1. [c EXCEPT !.kind = k] = [id |-> c.id, doc |-> c.doc, kind |-> k, path |-> c.path]
    BY DEF ResolveInv, RowsShaped, RowShape
  <2>2. InjectedResolvable' /\ RowsShaped'
    BY <1>5, <2>1 DEF Patch, ResolveInv, InjectedResolvable, RowsShaped, RowShape, storage,
                      Injected
  <2> QED
    BY <1>5, <2>2, <1>b DEF Patch, storage, injection
<1>6. ASSUME NEW i \in Injectors, InjectionStep(i) PROVE ResolveInv'
  <2>r. ASSUME Reset(i), UNCHANGED converted, InjectedResolvable', RowsShaped'
        PROVE  ResolveInv'
    BY <2>r, ResetKeeps DEF ResolveInv
  <2>1. CASE ReadTaps(i)
    BY <2>1, <1>a DEF ReadTaps, storage, rows
  <2>2. CASE ReadChunks(i)
    <3>1. UNCHANGED <<converted, chunks>>
      BY <2>2 DEF ReadChunks, storage, rows
    <3>2. CASE Reset(i)
      BY <3>1, <3>2, <2>r, RowsKept DEF ResolveInv
    <3>3. CASE UNCHANGED <<cache, found>>
      BY <3>1, <3>3, <1>a
    <3> QED
      BY <2>2, <3>2, <3>3 DEF ReadChunks
  <2>3. ASSUME NEW c \in todo[i], Match(i, c) PROVE ResolveInv'
    <3>1. UNCHANGED <<converted, chunks, cache>>
      BY <2>3 DEF Match, storage, rows
    <3>s. ASSUME FoundCopied' /\ found' = [j \in Injectors |-> found'[j]] PROVE ResolveInv'
      BY <3>s, <3>1, CacheKept, RowsKept DEF ResolveInv, Tables
    <3>2. CASE Settle(i, c, 0, FALSE)
      BY <3>1, <3>2, <3>s, SettleFound DEF ResolveInv
    <3>3. ASSUME NEW d \in DOMAIN cache[i], Settle(i, c, d, cache[i][d]) PROVE ResolveInv'
      <4>1. cache[i][d] => d \in converted'
        BY <3>1, <3>3 DEF ResolveInv, CacheTrue
      <4> QED
        BY <3>1, <3>3, <3>s, <4>1, SettleFound DEF ResolveInv
    <3>4. CASE UNCHANGED found
      BY <3>1, <3>4, <1>a
    <3> QED
      BY <2>3, <3>2, <3>3, <3>4 DEF Match
  <2>4. CASE Copied(i)
    <3>1. job[i].doc \in converted' /\ converted \subseteq converted'
      BY <2>4 DEF Copied
    <3> QED
      BY <2>4, <3>1, AnswerKeeps DEF Copied
  <2>5. CASE CopyFails(i)
    BY <2>5, AnswerKeeps DEF CopyFails
  <2>6. CASE Commit(i)
    <3>1. UNCHANGED converted /\ Reset(i)
      BY <2>6 DEF Commit, storage
    <3>2. \A c \in chunks : c.id \in DOMAIN found[i] =>
              [c EXCEPT !.path = found[i][c.id]]
                  = [id |-> c.id, doc |-> c.doc, kind |-> c.kind, path |-> found[i][c.id]]
      BY DEF ResolveInv, RowsShaped, RowShape
    <3>3. ASSUME NEW e \in chunks'
          PROVE  RowShape(e) /\ (Injected(e) => e.path.doc \in converted)
      <4>1. PICK c \in chunks :
               e = IF c.id \in DOMAIN found[i] THEN [c EXCEPT !.path = found[i][c.id]] ELSE c
        BY <2>6 DEF Commit
      <4>2. CASE c.id \notin DOMAIN found[i]
        BY <4>1, <4>2 DEF ResolveInv, InjectedResolvable, RowsShaped
      <4>3. CASE c.id \in DOMAIN found[i]
        <5>1. e = [id |-> c.id, doc |-> c.doc, kind |-> c.kind, path |-> found[i][c.id]]
          BY <4>1, <4>3, <3>2
        <5> QED
          BY <5>1, <4>3 DEF ResolveInv, FoundCopied, RowShape
      <4> QED
        BY <4>2, <4>3
    <3>4. InjectedResolvable' /\ RowsShaped'
      BY <3>1, <3>3 DEF InjectedResolvable, RowsShaped, Injected
    <3> QED
      BY <3>1, <3>4, <2>r
  <2>7. CASE Rollback(i)
    BY <2>7, <2>r, RowsKept DEF Rollback, storage, rows, ResolveInv
  <2> QED
    BY <1>6, <2>1, <2>2, <2>3, <2>4, <2>5, <2>6, <2>7 DEF InjectionStep
<1>7. CASE UNCHANGED vars
  BY <1>7, <1>a DEF vars, storage, rows, injection
<1> QED
  BY <1>1, <1>2, <1>3, <1>4, <1>5, <1>6, <1>7 DEF Next

\* A file a chunk was injected with is under converted/ whatever expires, fails,
\* overlaps or is replaced: the path is written only after the copy was
\* answered for, and converted/ is kept.
THEOREM Resolvable == Spec => []InjectedResolvable
<1>1. Spec => []ResolveInv
  BY ResolveInit, ResolveStep, PTL DEF Spec
<1>2. ResolveInv => InjectedResolvable
  BY DEF ResolveInv
<1> QED
  BY <1>1, <1>2, PTL
-----------------------------------------------------------------------------
(* The types.                                                               *)

\* What TypeOK says of the variables of injections, which are functions.
Shapes ==
    /\ seen \in [Injectors -> Nat]
    /\ todo = [i \in Injectors |-> todo[i]]
    /\ job = [i \in Injectors |-> job[i]]
    /\ Tables

\* The file an injection waits for is one it has read; ids are numbers.
JobKnown ==
    \A i \in Injectors :
        /\ pc[i] = "copy" => job[i].doc \in 1 .. seen[i]
        /\ \A c \in todo[i] : c.id \in Nat
        /\ DOMAIN found[i] \subseteq Nat

TypeInv == TypeOK /\ Shapes /\ JobKnown

\* What TypeOK and JobKnown say of one injection.
InjectionTyped(i) ==
    /\ seen[i] \in 0 .. Len(taps)
    /\ \A c \in todo[i] : c.id \in Nat /\ c.id < nextId /\ c.kind \in Kinds
    /\ DOMAIN cache[i] \subseteq DocId /\ \A d \in DOMAIN cache[i] : cache[i][d] \in BOOLEAN
    /\ \A x \in DOMAIN found[i] : x \in Nat /\ x < nextId /\ found[i][x] \in PathType
    /\ pc[i] = "copy" => job[i].doc \in 1 .. seen[i] /\ job[i].row \in todo[i]

LEMMA TypedInjections == TypeInv => \A i \in Injectors : InjectionTyped(i)
BY DEF TypeInv, TypeOK, JobKnown, InjectionTyped

LEMMA TypeInit == Init => TypeInv
<1> SUFFICES ASSUME Init PROVE TypeInv
  OBVIOUS
<1>1. DOMAIN NoFunction = {}
  BY DEF NoFunction
<1>2. DocId = {}
  BY DEF DocId, Init
<1> QED
  BY <1>1, <1>2 DEF Init, TypeInv, TypeOK, Shapes, JobKnown, Tables

\* Documents only come, so what is typed stays typed.
LEMMA MoreDocuments ==
    ASSUME TypeInv, NEW name \in Filenames, taps' = Append(taps, name)
    PROVE  /\ taps' \in Seq(Filenames)
           /\ DocId \subseteq DocId' /\ Len(taps) + 1 \in DocId'
           /\ PathType \subseteq PathType'
           /\ \A d \in DocId : taps'[d] = taps[d]
<1>1. taps \in Seq(Filenames) /\ Len(taps) \in Nat
  BY DEF TypeInv, TypeOK
<1>2. taps' \in Seq(Filenames) /\ Len(taps') = Len(taps) + 1
  BY <1>1
<1>3. DocId \subseteq DocId' /\ Len(taps) + 1 \in DocId'
  BY <1>1, <1>2 DEF DocId
<1>4. PathType \subseteq PathType'
  BY <1>3 DEF PathType, Raw, Converted, Null
<1>5. \A d \in DocId : taps'[d] = taps[d]
  BY <1>1 DEF DocId
<1> QED
  BY <1>2, <1>3, <1>4, <1>5

LEMMA TypeUpload ==
    ASSUME TypeInv, NEW name \in Filenames, UploadTap(name)
    PROVE  TypeInv'
<1>1. taps' = Append(taps, name) /\ raw' = raw \cup {Len(taps) + 1}
      /\ UNCHANGED <<converted, chunks, nextId, pc, seen, todo, cache, found, job>>
  BY DEF UploadTap, rows, injection
<1>2. /\ taps' \in Seq(Filenames)
      /\ DocId \subseteq DocId' /\ Len(taps) + 1 \in DocId'
      /\ PathType \subseteq PathType'
  BY <1>1, MoreDocuments
<1>3. Len(taps') = Len(taps) + 1 /\ Len(taps) \in Nat
  BY <1>1 DEF TypeInv, TypeOK
<1>4. chunks' \subseteq RowType'
  BY <1>1, <1>2 DEF TypeInv, TypeOK, RowType
<1>5. \A i \in Injectors : seen[i] \in 0 .. Len(taps')
  BY <1>3 DEF TypeInv, TypeOK
<1> QED
  BY <1>1, <1>2, <1>4, <1>5 DEF TypeInv, TypeOK, Shapes, Tables, JobKnown

\* Rows that are added or edited keep their types and the uniqueness of ids.
LEMMA TypeRows ==
    ASSUME TypeInv, UNCHANGED <<taps, raw, converted, injection>>,
           nextId' \in Nat, nextId <= nextId',
           chunks' \subseteq RowType,
           \A c, e \in chunks' : c.id < nextId' /\ (c.id = e.id => c = e)
    PROVE  TypeInv'
<1>1. \A i \in Injectors : /\ \A c \in todo[i] : c.id < nextId'
                           /\ \A x \in DOMAIN found[i] : x < nextId'
  BY DEF TypeInv, TypeOK, JobKnown
<1>2. DocId' = DocId /\ PathType' = PathType /\ RowType' = RowType
  BY DEF DocId, PathType, RowType
<1>3. TypeOK'
  BY <1>1, <1>2 DEF TypeInv, TypeOK, injection
<1>4. Shapes' /\ JobKnown'
  BY DEF TypeInv, Shapes, Tables, JobKnown, injection
<1> QED
  BY <1>3, <1>4 DEF TypeInv

\* A step of one injection that leaves the rows and the files alone is typed if
\* the injection is.
LEMMA TypeStep ==
    ASSUME TypeInv, NEW i \in Injectors, UNCHANGED <<taps, raw, rows>>,
           converted' \subseteq DocId,
           pc' \in [Injectors -> {"idle", "chunks", "match", "copy"}],
           Shapes', InjectionTyped(i)',
           \A j \in Injectors \ {i} :
               /\ pc'[j] = pc[j] /\ seen'[j] = seen[j] /\ todo'[j] = todo[j]
               /\ cache'[j] = cache[j] /\ found'[j] = found[j] /\ job'[j] = job[j]
    PROVE  TypeInv'
<1>1. DocId' = DocId /\ PathType' = PathType /\ RowType' = RowType
  BY DEF DocId, PathType, RowType
<1>2. \A j \in Injectors : InjectionTyped(j)'
  BY <1>1, TypedInjections DEF InjectionTyped, rows
<1>3. \A j \in Injectors :
         pc'[j] = "copy" => job'[j].doc \in DocId'
  <2> SUFFICES ASSUME NEW j \in Injectors, pc'[j] = "copy" PROVE job'[j].doc \in DocId'
    OBVIOUS
  <2>1. job'[j].doc \in 1 .. seen'[j] /\ seen'[j] \in 0 .. Len(taps')
    BY <1>2 DEF InjectionTyped
  <2>2. Len(taps') \in Nat
    BY DEF TypeInv, TypeOK
  <2> QED
    BY <2>1, <2>2 DEF DocId
<1>4. TypeOK'
  BY <1>1, <1>2, <1>3 DEF TypeInv, TypeOK, InjectionTyped, rows
<1>5. JobKnown'
  BY <1>2 DEF JobKnown, InjectionTyped
<1> QED
  BY <1>4, <1>5 DEF TypeInv

\* The end of an injection.
LEMMA TypeReset ==
    ASSUME TypeInv, NEW i \in Injectors, Reset(i), UNCHANGED <<storage, rows>>
    PROVE  TypeInv'
<1>1. DOMAIN NoFunction = {}
  BY DEF NoFunction
<1>2. Shapes'
  BY DEF TypeInv, Shapes, Tables, Reset
<1>3. InjectionTyped(i)'
  BY <1>1 DEF TypeInv, TypeOK, Shapes, Tables, Reset, InjectionTyped, storage
<1> QED
  BY <1>2, <1>3, TypeStep DEF TypeInv, TypeOK, Shapes, Tables, Reset, storage, rows

\* Settling a row with a file the injection has read.
LEMMA TypeSettle ==
    ASSUME TypeInv, NEW i \in Injectors, NEW c \in todo[i], NEW d, NEW had,
           Settle(i, c, d, had), had => d \in 1 .. seen[i]
    PROVE  /\ todo' = [todo EXCEPT ![i] = todo[i] \ {c}]
           /\ found' = [j \in Injectors |-> found'[j]]
           /\ \A j \in Injectors \ {i} : found'[j] = found[j]
           /\ \A x \in DOMAIN found'[i] : x \in Nat /\ x < nextId /\ found'[i][x] \in PathType
<1>1. /\ todo = [j \in Injectors |-> todo[j]]
      /\ found = [j \in Injectors |-> found[j]]
  BY DEF TypeInv, Shapes, Tables
<1>2. /\ todo' = [todo EXCEPT ![i] = todo[i] \ {c}]
      /\ found' = [found EXCEPT ![i] =
                      IF had THEN [x \in DOMAIN found[i] \cup {c.id} |->
                                      IF x = c.id THEN Converted(d, c.kind, seen[i])
                                                  ELSE found[i][x]]
                             ELSE found[i]]
  BY <1>1 DEF Settle
<1>3. InjectionTyped(i)
  BY TypedInjections
<1>4. ASSUME had PROVE Converted(d, c.kind, seen[i]) \in PathType
  <2>1. Len(taps) \in Nat /\ seen[i] \in 0 .. Len(taps) /\ c.kind \in Kinds
    BY <1>3 DEF InjectionTyped, TypeInv, TypeOK
  <2>2. d \in DocId /\ seen[i] \in DocId
    BY <1>4, <2>1 DEF DocId
  <2> QED
    BY <2>1, <2>2 DEF PathType
<1>5. \A x \in DOMAIN found'[i] : x \in Nat /\ x < nextId /\ found'[i][x] \in PathType
  <2>1. CASE ~had
    BY <1>1, <1>2, <1>3, <2>1 DEF InjectionTyped
  <2>2. CASE had
    <3>1. found'[i] = [x \in DOMAIN found[i] \cup {c.id} |->
                          IF x = c.id THEN Converted(d, c.kind, seen[i]) ELSE found[i][x]]
      BY <1>1, <1>2, <2>2
    <3>2. c.id \in Nat /\ c.id < nextId
      BY <1>3 DEF InjectionTyped
    <3> QED
      BY <1>3, <1>4, <2>2, <3>1, <3>2 DEF InjectionTyped
  <2> QED
    BY <2>1, <2>2
<1> QED
  BY <1>1, <1>2, <1>5

\* Candidates are files the injection has read.
LEMMA CandidatesKnown ==
    ASSUME NEW n, NEW k
    PROVE  Candidates(n, k) \subseteq 1 .. n
BY DEF Candidates, TapFiles

LEMMA TypeMatch ==
    ASSUME TypeInv, NEW i \in Injectors, NEW c \in todo[i], Match(i, c)
    PROVE  TypeInv'
<1>1. UNCHANGED <<storage, rows, seen, cache>> /\ pc[i] = "match"
  BY DEF Match
<1>2. InjectionTyped(i)
  BY TypedInjections
<1>3. ASSUME NEW d, NEW had \in BOOLEAN, Settle(i, c, d, had), had => d \in 1 .. seen[i],
             UNCHANGED <<pc, job>>
      PROVE  TypeInv'
  <2>1. /\ todo' = [todo EXCEPT ![i] = todo[i] \ {c}]
        /\ found' = [j \in Injectors |-> found'[j]]
        /\ \A j \in Injectors \ {i} : found'[j] = found[j]
        /\ \A x \in DOMAIN found'[i] : x \in Nat /\ x < nextId /\ found'[i][x] \in PathType
    BY <1>3, TypeSettle
  <2>2. Shapes'
    BY <1>1, <1>3, <2>1 DEF TypeInv, Shapes, Tables
  <2>3. DocId' = DocId /\ PathType' = PathType
    BY <1>1 DEF DocId, PathType, storage
  <2>4. InjectionTyped(i)'
    BY <1>1, <1>2, <1>3, <2>1, <2>3 DEF InjectionTyped, TypeInv, Shapes, storage, rows
  <2> QED
    BY <1>1, <1>3, <2>1, <2>2, <2>4, TypeStep DEF TypeInv, TypeOK, Shapes, storage, rows
<1>4. CASE Settle(i, c, 0, FALSE) /\ UNCHANGED <<pc, job>>
  BY <1>3, <1>4
<1>5. ASSUME NEW d \in Candidates(seen[i], c.kind), d \in DOMAIN cache[i],
             Settle(i, c, d, cache[i][d]), UNCHANGED <<pc, job>>
      PROVE  TypeInv'
  <2>1. d \in 1 .. seen[i] /\ cache[i][d] \in BOOLEAN
    BY <1>2, <1>5, CandidatesKnown DEF InjectionTyped
  <2> QED
    BY <1>3, <1>5, <2>1
<1>6. ASSUME NEW d \in Candidates(seen[i], c.kind), UNCHANGED <<todo, found>>,
             job' = [job EXCEPT ![i] = [row |-> c, doc |-> d]], pc' = [pc EXCEPT ![i] = "copy"]
      PROVE  TypeInv'
  <2>1. d \in 1 .. seen[i]
    BY CandidatesKnown
  <2>2. Shapes'
    BY <1>1, <1>6 DEF TypeInv, Shapes, Tables
  <2>3. DocId' = DocId /\ PathType' = PathType
    BY <1>1 DEF DocId, PathType, storage
  <2>4. InjectionTyped(i)'
    BY <1>1, <1>2, <1>6, <2>1, <2>3 DEF InjectionTyped, TypeInv, Shapes, storage, rows
  <2>5. pc' \in [Injectors -> {"idle", "chunks", "match", "copy"}]
    BY <1>6 DEF TypeInv, TypeOK
  <2> QED
    BY <1>1, <1>6, <2>2, <2>4, <2>5, TypeStep DEF TypeInv, TypeOK, Shapes, storage, rows
<1> QED
  BY <1>4, <1>5, <1>6 DEF Match

LEMMA TypeAnswered ==
    ASSUME TypeInv, NEW i \in Injectors, NEW had \in BOOLEAN, Answered(i, had),
           converted' \subseteq DocId
    PROVE  TypeInv'
<1>1. /\ UNCHANGED <<taps, raw, rows, seen>>
      /\ pc[i] = "copy"
      /\ pc' = [pc EXCEPT ![i] = "match"]
      /\ job' = [job EXCEPT ![i] = NoJob]
      /\ Settle(i, job[i].row, job[i].doc, had)
  BY DEF Answered
<1>2. cache' = [cache EXCEPT ![i] = [x \in DOMAIN cache[i] \cup {job[i].doc} |->
                                        IF x = job[i].doc THEN had ELSE cache[i][x]]]
  BY DEF Answered, Cached, TypeInv, Shapes, Tables
<1>3. InjectionTyped(i) /\ job[i].row \in todo[i] /\ job[i].doc \in 1 .. seen[i]
  BY <1>1, TypedInjections DEF InjectionTyped
<1>4. /\ todo' = [todo EXCEPT ![i] = todo[i] \ {job[i].row}]
      /\ found' = [j \in Injectors |-> found'[j]]
      /\ \A j \in Injectors \ {i} : found'[j] = found[j]
      /\ \A x \in DOMAIN found'[i] : x \in Nat /\ x < nextId /\ found'[i][x] \in PathType
  BY <1>1, <1>3, TypeSettle
<1>5. Shapes'
  BY <1>1, <1>2, <1>4 DEF TypeInv, Shapes, Tables
<1>6. DocId' = DocId /\ PathType' = PathType
  BY <1>1 DEF DocId, PathType
<1>7. DOMAIN cache'[i] \subseteq DocId' /\ \A d \in DOMAIN cache'[i] : cache'[i][d] \in BOOLEAN
  <2>1. cache'[i] = [x \in DOMAIN cache[i] \cup {job[i].doc} |->
                        IF x = job[i].doc THEN had ELSE cache[i][x]]
    BY <1>2 DEF TypeInv, Shapes, Tables
  <2>2. job[i].doc \in DocId
    BY <1>1 DEF TypeInv, TypeOK
  <2> QED
    BY <1>3, <1>6, <2>1, <2>2 DEF InjectionTyped
<1>8. InjectionTyped(i)'
  BY <1>1, <1>3, <1>4, <1>6, <1>7 DEF InjectionTyped, TypeInv, TypeOK, Shapes, rows
<1> QED
  BY <1>1, <1>2, <1>4, <1>5, <1>8, TypeStep DEF TypeInv, TypeOK, Shapes, Tables, rows

LEMMA TypeNewRow ==
    ASSUME TypeInv, NEW doc \in Documents, NEW k \in Kinds, NEW path \in PathType,
           NEW kept \in SUBSET chunks,
           chunks' = kept \cup {Row(doc, k, path)}, nextId' = nextId + 1,
           UNCHANGED <<storage, injection>>
    PROVE  TypeInv'
<1>1. Row(doc, k, path) \in RowType /\ Row(doc, k, path).id = nextId
  BY DEF Row, RowType, TypeInv, TypeOK
<1>2. nextId \in Nat /\ \A c, e \in chunks : c.id \in Nat /\ c.id < nextId /\ (c.id = e.id => c = e)
  BY DEF TypeInv, TypeOK, RowType
<1>3. \A c, e \in chunks' : c.id < nextId' /\ (c.id = e.id => c = e)
  BY <1>1, <1>2
<1>4. chunks' \subseteq RowType
  BY <1>1 DEF TypeInv, TypeOK
<1> QED
  BY <1>2, <1>3, <1>4, TypeRows DEF storage

LEMMA TypePatch ==
    ASSUME TypeInv, NEW c \in chunks, NEW k \in EditKinds, Patch(c, k)
    PROVE  TypeInv'
<1>1. c \in RowType /\ k \in Kinds
  BY InjectionAssumption DEF TypeInv, TypeOK
<1>2. [c EXCEPT !.kind = k] \in RowType /\ [c EXCEPT !.kind = k].id = c.id
  BY <1>1 DEF RowType
<1>3. \A e, f \in chunks : e.id < nextId /\ (e.id = f.id => e = f)
  BY DEF TypeInv, TypeOK
<1>4. \A e, f \in chunks' : e.id < nextId /\ (e.id = f.id => e = f)
  BY <1>2, <1>3 DEF Patch
<1>5. chunks' \subseteq RowType
  BY <1>2 DEF Patch, TypeInv, TypeOK
<1>6. nextId \in Nat
  BY DEF TypeInv, TypeOK
<1> QED
  BY <1>4, <1>5, <1>6, TypeRows DEF Patch, storage

LEMMA TypeCommit ==
    ASSUME TypeInv, NEW i \in Injectors, Commit(i)
    PROVE  TypeInv'
<1> DEFINE Updated(c) == IF c.id \in DOMAIN found[i] THEN [c EXCEPT !.path = found[i][c.id]] ELSE c
<1>1. chunks \subseteq RowType /\ \A c, e \in chunks : c.id < nextId /\ (c.id = e.id => c = e)
  BY DEF TypeInv, TypeOK
<1>2. \A c \in chunks : Updated(c) \in RowType /\ Updated(c).id = c.id
  <2> SUFFICES ASSUME NEW c \in chunks PROVE Updated(c) \in RowType /\ Updated(c).id = c.id
    OBVIOUS
  <2>1. c \in RowType
    BY <1>1
  <2>2. CASE c.id \in DOMAIN found[i]
    <3>1. found[i][c.id] \in PathType
      BY <2>2, TypedInjections DEF InjectionTyped
    <3> HIDE DEF TypeInv
    <3> QED
      BY <2>1, <2>2, <3>1 DEF RowType
  <2> QED
    BY <2>1, <2>2
<1>3. chunks' = {Updated(c) : c \in chunks}
  BY DEF Commit
<1> HIDE DEF Updated
<1>4. chunks' \subseteq RowType
  BY <1>2, <1>3
<1>5. \A c, e \in chunks' : c.id < nextId /\ (c.id = e.id => c = e)
  BY <1>1, <1>2, <1>3
<1>6. DocId' = DocId /\ PathType' = PathType /\ RowType' = RowType
  BY DEF DocId, PathType, RowType, Commit, storage
<1>7. DOMAIN NoFunction = {}
  BY DEF NoFunction
<1>8. UNCHANGED <<storage, nextId>> /\ Reset(i)
  BY DEF Commit
<1>9. Shapes'
  BY <1>8 DEF TypeInv, Shapes, Tables, Reset
<1>r. /\ pc'[i] = "idle" /\ seen'[i] = 0 /\ todo'[i] = {}
      /\ cache'[i] = NoFunction /\ found'[i] = NoFunction
      /\ \A j \in Injectors \ {i} :
            /\ pc'[j] = pc[j] /\ seen'[j] = seen[j] /\ todo'[j] = todo[j]
            /\ cache'[j] = cache[j] /\ found'[j] = found[j] /\ job'[j] = job[j]
  BY <1>8 DEF TypeInv, TypeOK, Shapes, Tables, Reset
<1>10. JobKnown'
  BY <1>7, <1>r DEF TypeInv, JobKnown
<1>11. \A j \in Injectors :
         /\ seen'[j] \in 0 .. Len(taps)
         /\ \A c \in todo'[j] : c.id < nextId /\ c.kind \in Kinds
         /\ DOMAIN cache'[j] \subseteq DocId /\ \A d \in DOMAIN cache'[j] : cache'[j][d] \in BOOLEAN
         /\ \A x \in DOMAIN found'[j] : x < nextId /\ found'[j][x] \in PathType
         /\ pc'[j] = "copy" => job'[j].doc \in DocId /\ job'[j].row \in todo'[j]
  <2>1. Len(taps) \in Nat
    BY DEF TypeInv, TypeOK
  <2> QED
    BY <2>1, <1>7, <1>r DEF TypeInv, TypeOK
<1>12. pc' \in [Injectors -> {"idle", "chunks", "match", "copy"}]
  BY <1>8 DEF TypeInv, TypeOK, Reset
<1>13. TypeOK'
  BY <1>4, <1>5, <1>6, <1>8, <1>11, <1>12 DEF TypeOK, TypeInv, storage
<1> QED
  BY <1>9, <1>10, <1>13 DEF TypeInv

LEMMA TypeInjection ==
    ASSUME TypeInv, NEW i \in Injectors, InjectionStep(i)
    PROVE  TypeInv'
<1>1. CASE ReadTaps(i)
  <2>1. Len(taps) \in Nat
    BY DEF TypeInv, TypeOK
  <2>2. Shapes'
    BY <1>1, <2>1 DEF ReadTaps, TypeInv, Shapes, Tables
  <2>3. DocId' = DocId /\ PathType' = PathType
    BY <1>1 DEF DocId, PathType, ReadTaps, storage
  <2>4. InjectionTyped(i)'
    BY <1>1, <2>1, <2>3, TypedInjections
       DEF ReadTaps, InjectionTyped, TypeInv, TypeOK, Shapes, storage, rows
  <2> QED
    BY <1>1, <2>2, <2>4, TypeStep DEF ReadTaps, TypeInv, TypeOK, Shapes, storage, rows
<1>2. CASE ReadChunks(i)
  <2>1. CASE Reset(i)
    BY <1>2, <2>1, TypeReset DEF ReadChunks
  <2>2. CASE /\ pc' = [pc EXCEPT ![i] = "match"]
             /\ todo' = [todo EXCEPT ![i] = {c \in chunks : Open(c)}]
             /\ UNCHANGED <<storage, rows, seen, cache, found, job>>
    <3>1. Shapes'
      BY <2>2 DEF TypeInv, Shapes, Tables
    <3>2. DocId' = DocId /\ PathType' = PathType
      BY <2>2 DEF DocId, PathType, storage
    <3>3. todo'[i] \subseteq chunks /\ \A c \in chunks : c.id \in Nat /\ c.id < nextId /\ c.kind \in Kinds
      BY <2>2 DEF TypeInv, TypeOK, Shapes, RowType
    <3>4. InjectionTyped(i)'
      BY <2>2, <3>2, <3>3, TypedInjections
         DEF InjectionTyped, TypeInv, TypeOK, Shapes, storage, rows
    <3> QED
      BY <2>2, <3>1, <3>4, TypeStep DEF TypeInv, TypeOK, Shapes, storage, rows
  <2> QED
    BY <1>2, <2>1, <2>2 DEF ReadChunks
<1>3. CASE \E c \in todo[i] : Match(i, c)
  BY <1>3, TypeMatch
<1>4. CASE Copied(i)
  <2>1. job[i].doc \in DocId /\ converted \subseteq DocId
    BY <1>4 DEF Copied, Answered, TypeInv, TypeOK
  <2> QED
    BY <1>4, <2>1, TypeAnswered DEF Copied
<1>5. CASE CopyFails(i)
  <2>1. converted' \subseteq DocId
    BY <1>5 DEF CopyFails, TypeInv, TypeOK
  <2> QED
    BY <1>5, <2>1, TypeAnswered DEF CopyFails
<1>6. CASE Commit(i)
  BY <1>6, TypeCommit
<1>7. CASE Rollback(i)
  BY <1>7, TypeReset DEF Rollback
<1> QED
  BY <1>1, <1>2, <1>3, <1>4, <1>5, <1>6, <1>7 DEF InjectionStep

LEMMA TypeNext == TypeInv /\ [Next]_vars => TypeInv'
<1> SUFFICES ASSUME TypeInv, [Next]_vars PROVE TypeInv'
  OBVIOUS
<1>1. ASSUME NEW name \in Filenames, UploadTap(name) PROVE TypeInv'
  BY <1>1, TypeUpload
<1>2. ASSUME NEW d \in raw, Expire(d) PROVE TypeInv'
  <2>1. DocId' = DocId /\ PathType' = PathType /\ RowType' = RowType
    BY <1>2 DEF Expire, DocId, PathType, RowType
  <2>2. TypeOK'
    BY <1>2, <2>1 DEF Expire, TypeInv, TypeOK, rows, injection
  <2> QED
    BY <1>2, <2>2 DEF Expire, TypeInv, Shapes, Tables, JobKnown, injection
<1>3. ASSUME NEW doc \in Documents, NEW k \in Kinds, Convert(doc, k) PROVE TypeInv'
  <2>1. Null \in PathType
    BY DEF PathType
  <2> QED
    BY <1>3, <2>1, TypeNewRow DEF Convert
<1>4. ASSUME NEW doc \in Documents, NEW k \in Kinds, NEW d \in 1 .. Len(taps), Inherit(doc, k, d)
      PROVE  TypeInv'
  <2>1. Raw(d) \in PathType
    BY DEF PathType, DocId
  <2> QED
    BY <1>4, <2>1, TypeNewRow DEF Inherit
<1>5. ASSUME NEW c \in chunks, NEW k \in EditKinds, Patch(c, k) PROVE TypeInv'
  BY <1>5, TypePatch
<1>6. ASSUME NEW i \in Injectors, InjectionStep(i) PROVE TypeInv'
  BY <1>6, TypeInjection
<1>7. CASE UNCHANGED vars
  <2>1. DocId' = DocId /\ PathType' = PathType /\ RowType' = RowType
    BY <1>7 DEF vars, storage, DocId, PathType, RowType
  <2>2. TypeOK'
    BY <1>7, <2>1 DEF vars, TypeInv, TypeOK, storage, rows, injection
  <2> QED
    BY <1>7, <2>2 DEF vars, TypeInv, Shapes, Tables, JobKnown, injection
<1> QED
  BY <1>1, <1>2, <1>3, <1>4, <1>5, <1>6, <1>7 DEF Next

LEMMA TypesKept == Spec => []TypeInv
BY TypeInit, TypeNext, PTL DEF Spec

\* Every variable keeps its type, chunk ids are unique, and nothing is copied or
\* awaited that was not uploaded: for any files, chunks, edits and injections.
THEOREM TypeCorrect == Spec => []TypeOK
<1>1. TypeInv => TypeOK
  BY DEF TypeInv
<1> QED
  BY <1>1, TypesKept, PTL

-----------------------------------------------------------------------------
(* The best file.                                                           *)

\* Among the first n documents, each name has a newest one.
LEMMA LatestOfName ==
    ASSUME NEW n \in Nat, NEW d \in 1 .. n
    PROVE  \E e \in TapFiles(n) : d <= e /\ taps[e] = taps[d]
<1> DEFINE Same == {e \in d .. n : taps[e] = taps[d]}
           Gaps == {n - e : e \in Same}
<1>1. Gaps \subseteq Nat /\ Gaps # {}
  <2>1. d \in Same
    OBVIOUS
  <2> QED
    BY <2>1
<1>2. \E t \in Gaps : \A u \in Gaps : <<u, t>> \notin OpToRel(<, Nat)
  BY <1>1, NatLessThanWellFounded, WFMin
<1>3. PICK t \in Gaps : \A u \in Gaps : ~ (u < t)
  BY <1>1, <1>2 DEF OpToRel
<1>4. PICK e \in Same : t = n - e
  OBVIOUS
<1>5. ASSUME NEW x \in e + 1 .. n, taps[x] = taps[e] PROVE FALSE
  <2>1. x \in Same /\ n - x \in Gaps
    BY <1>4, <1>5
  <2>2. n - x < t
    BY <1>4
  <2> QED
    BY <1>3, <2>1, <2>2
<1>6. e \in TapFiles(n)
  BY <1>4, <1>5 DEF TapFiles
<1> QED
  BY <1>4, <1>6

\* The loop's choice is the best of the files read.
LEMMA NewestIsBest ==
    ASSUME NEW n \in Nat, NEW k, NEW f, NewestOf(Candidates(n, k), f)
    PROVE  Best(f, k, n)
<1>1. f \in Candidates(n, k) /\ \A e \in Candidates(n, k) : e <= f
  BY DEF NewestOf
<1>2. f \in 1 .. n /\ Fits(f, k)
  BY <1>1, CandidatesKnown DEF Candidates, Exact
<1>3. ASSUME NEW d \in 1 .. n, Fits(d, k)
      PROVE  /\ Exact(d, k) => Exact(f, k)
             /\ (Exact(d, k) <=> Exact(f, k)) => d <= f
  <2>1. PICK e \in TapFiles(n) : d <= e /\ taps[e] = taps[d]
    BY LatestOfName
  <2>2. Fits(e, k) /\ (Exact(e, k) <=> Exact(d, k))
    BY <1>3, <2>1 DEF Fits, Exact
  <2>3. e \in 1 .. n
    BY DEF TapFiles
  <2>4. CASE \E x \in TapFiles(n) : Exact(x, k)
    <3>1. Exact(f, k)
      BY <1>1, <2>4 DEF Candidates
    <3>2. Exact(d, k) => e <= f
      BY <1>1, <2>2 DEF Candidates
    <3> QED
      BY <1>2, <2>1, <2>3, <3>1, <3>2
  <2>5. CASE \A x \in TapFiles(n) : ~Exact(x, k)
    <3>1. ~Exact(d, k)
      BY <2>2, <2>5
    <3>2. e <= f
      BY <1>1, <2>2, <2>5 DEF Candidates
    <3> QED
      BY <1>2, <2>1, <2>3, <3>1, <3>2
  <2> QED
    BY <2>4, <2>5
<1> QED
  BY <1>2, <1>3 DEF Best

\* A new document does not make a choice among older ones worse.
LEMMA BestStays ==
    ASSUME NEW f \in DocId, NEW k, NEW n \in 0 .. Len(taps), Len(taps) \in Nat,
           \A d \in DocId : taps'[d] = taps[d], Best(f, k, n)
    PROVE  Best(f, k, n)'
<1>1. \A d \in DocId : (Fits(d, k)' <=> Fits(d, k)) /\ (Exact(d, k)' <=> Exact(d, k))
  BY DEF Fits, Exact
<1>2. 1 .. n \subseteq DocId
  BY DEF DocId
<1> QED
  BY <1>1, <1>2 DEF Best

PathBest(p) == p.dir = "converted" => Best(p.doc, p.for, p.among)

\* What an injection has found, and the file it waits for, are the best it knew.
PathsBest == \A i \in Injectors : \A x \in DOMAIN found[i] : PathBest(found[i][x])

JobBest == \A i \in Injectors : pc[i] = "copy" => Best(job[i].doc, job[i].row.kind, seen[i])

FoundBest == PathsBest /\ JobBest

BestInv == BestFile /\ FoundBest

LEMMA BestUpload ==
    ASSUME TypeInv, BestInv, NEW name \in Filenames, UploadTap(name)
    PROVE  BestInv'
<1>1. taps' = Append(taps, name) /\ UNCHANGED <<chunks, pc, seen, found, job>>
  BY DEF UploadTap, rows, injection
<1>2. Len(taps) \in Nat /\ \A d \in DocId : taps'[d] = taps[d]
  <2>1. Len(taps) \in Nat
    BY DEF TypeInv, TypeOK
  <2> QED
    BY <1>1, <2>1, MoreDocuments
<1>3. ASSUME NEW p \in PathType, PathBest(p)
      PROVE  PathBest(p)'
  <2>1. CASE p = Null
    BY <2>1 DEF PathBest, Null
  <2>2. ASSUME NEW d \in DocId, p = Raw(d) PROVE PathBest(p)'
    BY <2>2 DEF PathBest, Raw
  <2>3. ASSUME NEW d \in DocId, NEW k \in Kinds, NEW n \in DocId, p = Converted(d, k, n)
        PROVE  PathBest(p)'
    <3>1. p.dir = "converted" /\ p.doc = d /\ p.for = k /\ p.among = n
      BY <2>3 DEF Converted
    <3>2. n \in 0 .. Len(taps)
      BY <1>2 DEF DocId
    <3> QED
      BY <1>2, <1>3, <3>1, <3>2, BestStays DEF PathBest
  <2> QED
    BY <2>1, <2>2, <2>3 DEF PathType
<1>4. \A c \in chunks : c.path \in PathType /\ PathBest(c.path)
  BY DEF TypeInv, TypeOK, RowType, BestInv, BestFile, Injected, PathBest
<1>5. BestFile'
  BY <1>1, <1>3, <1>4 DEF BestFile, Injected, PathBest
<1>6. FoundBest'
  <2> SUFFICES ASSUME NEW i \in Injectors
               PROVE  /\ \A x \in DOMAIN found[i] : PathBest(found[i][x])'
                      /\ pc[i] = "copy" => Best(job[i].doc, job[i].row.kind, seen[i])'
    BY <1>1 DEF FoundBest, PathsBest, JobBest
  <2>1. \A x \in DOMAIN found[i] : PathBest(found[i][x])'
    <3> SUFFICES ASSUME NEW x \in DOMAIN found[i] PROVE PathBest(found[i][x])'
      OBVIOUS
    <3>1. found[i][x] \in PathType /\ PathBest(found[i][x])
      BY DEF TypeInv, TypeOK, BestInv, FoundBest, PathsBest, JobBest
    <3>2. ASSUME NEW p, p = found[i][x] PROVE PathBest(p)'
      BY <1>3, <3>1, <3>2
    <3> QED
      BY <1>1, <3>2
  <2>2. ASSUME pc[i] = "copy" PROVE Best(job[i].doc, job[i].row.kind, seen[i])'
    <3>1. job[i].doc \in DocId /\ seen[i] \in 0 .. Len(taps)
      BY <2>2 DEF TypeInv, TypeOK
    <3>2. Best(job[i].doc, job[i].row.kind, seen[i])
      BY <2>2 DEF BestInv, FoundBest, PathsBest, JobBest
    <3>3. ASSUME NEW f, NEW k, NEW n, f = job[i].doc, k = job[i].row.kind, n = seen[i]
          PROVE  Best(f, k, n)'
      BY <1>2, <3>1, <3>2, <3>3, BestStays
    <3> QED
      BY <1>1, <3>3
  <2> QED
    BY <2>1, <2>2
<1> QED
  BY <1>5, <1>6 DEF BestInv

\* Choices do not change while the documents stay.
LEMMA BestSame ==
    ASSUME UNCHANGED taps
    PROVE  /\ \A p : PathBest(p)' <=> PathBest(p)
           /\ \A f, k, n : Best(f, k, n)' <=> Best(f, k, n)
BY DEF PathBest, Best, Fits, Exact

LEMMA BestReset ==
    ASSUME TypeInv, BestInv, NEW i \in Injectors, Reset(i), UNCHANGED taps
    PROVE  FoundBest'
<1>1. DOMAIN NoFunction = {}
  BY DEF NoFunction
<1>2. /\ pc'[i] = "idle" /\ found'[i] = NoFunction
      /\ \A j \in Injectors \ {i} :
            pc'[j] = pc[j] /\ seen'[j] = seen[j] /\ found'[j] = found[j] /\ job'[j] = job[j]
  BY DEF TypeInv, TypeOK, Shapes, Tables, Reset
<1> QED
  BY <1>1, <1>2, BestSame DEF BestInv, FoundBest, PathsBest, JobBest

\* A row settled with the best file the injection knew.
LEMMA BestSettle ==
    ASSUME TypeInv, BestInv, NEW i \in Injectors, NEW c, NEW d, NEW had,
           Settle(i, c, d, had), had => Best(d, c.kind, seen[i]), UNCHANGED taps
    PROVE  PathsBest'
<1>1. found' = [found EXCEPT ![i] =
                   IF had THEN [x \in DOMAIN found[i] \cup {c.id} |->
                                   IF x = c.id THEN Converted(d, c.kind, seen[i])
                                               ELSE found[i][x]]
                          ELSE found[i]]
  BY DEF Settle, TypeInv, Shapes, Tables
<1> SUFFICES ASSUME NEW j \in Injectors, NEW x \in DOMAIN found'[j]
             PROVE  PathBest(found'[j][x])
  BY DEF PathsBest, PathBest, Best, Fits, Exact
<1>2. ASSUME x \in DOMAIN found[j], found'[j][x] = found[j][x] PROVE PathBest(found'[j][x])
  BY <1>2 DEF BestInv, FoundBest, PathsBest, JobBest
<1>3. CASE j # i \/ ~had
  BY <1>1, <1>2, <1>3 DEF TypeInv, Shapes, Tables
<1>4. CASE j = i /\ had
  <2>1. found'[i] = [y \in DOMAIN found[i] \cup {c.id} |->
                        IF y = c.id THEN Converted(d, c.kind, seen[i]) ELSE found[i][y]]
    BY <1>1, <1>4 DEF TypeInv, Shapes, Tables
  <2>2. CASE x = c.id
    BY <1>4, <2>1, <2>2 DEF PathBest, Converted
  <2>3. CASE x # c.id
    BY <1>2, <1>4, <2>1, <2>3
  <2> QED
    BY <2>2, <2>3
<1> QED
  BY <1>3, <1>4

LEMMA BestMatch ==
    ASSUME TypeInv, BestInv, NEW i \in Injectors, NEW c \in todo[i], Match(i, c)
    PROVE  FoundBest'
<1>1. UNCHANGED <<taps, seen>>
  BY DEF Match, storage
<1>2. seen[i] \in Nat
  BY DEF TypeInv, Shapes
<1>3. ASSUME NEW d, NEW had, Settle(i, c, d, had), had => Best(d, c.kind, seen[i]),
             UNCHANGED <<pc, job>>
      PROVE  FoundBest'
  BY <1>1, <1>3, BestSettle, BestSame DEF BestInv, FoundBest, JobBest
<1>4. CASE Settle(i, c, 0, FALSE) /\ UNCHANGED <<pc, job>>
  BY <1>3, <1>4
<1>5. ASSUME NEW d, NewestOf(Candidates(seen[i], c.kind), d),
             \/ Settle(i, c, d, cache[i][d]) /\ UNCHANGED <<pc, job>>
             \/ /\ job' = [job EXCEPT ![i] = [row |-> c, doc |-> d]]
                /\ pc' = [pc EXCEPT ![i] = "copy"]
                /\ UNCHANGED found
      PROVE  FoundBest'
  <2>1. Best(d, c.kind, seen[i])
    BY <1>2, <1>5, NewestIsBest
  <2>2. CASE Settle(i, c, d, cache[i][d]) /\ UNCHANGED <<pc, job>>
    BY <1>3, <2>1, <2>2
  <2>3. CASE /\ job' = [job EXCEPT ![i] = [row |-> c, doc |-> d]]
             /\ pc' = [pc EXCEPT ![i] = "copy"]
             /\ UNCHANGED found
    <3>1. job'[i] = [row |-> c, doc |-> d]
          /\ \A j \in Injectors \ {i} : pc'[j] = pc[j] /\ job'[j] = job[j]
      BY <2>3 DEF TypeInv, TypeOK, Shapes
    <3> QED
      BY <1>1, <2>1, <2>3, <3>1, BestSame DEF BestInv, FoundBest, PathsBest, JobBest
  <2> QED
    BY <1>5, <2>2, <2>3
<1> QED
  BY <1>4, <1>5 DEF Match

LEMMA BestAnswered ==
    ASSUME TypeInv, BestInv, NEW i \in Injectors, NEW had, Answered(i, had)
    PROVE  BestInv'
<1>1. /\ UNCHANGED <<taps, chunks, seen>>
      /\ pc[i] = "copy" /\ Settle(i, job[i].row, job[i].doc, had)
      /\ pc'[i] = "match"
      /\ \A j \in Injectors \ {i} : pc'[j] = pc[j] /\ job'[j] = job[j]
  BY DEF Answered, rows, TypeInv, TypeOK, Shapes
<1>2. Best(job[i].doc, job[i].row.kind, seen[i])
  BY <1>1 DEF BestInv, FoundBest, PathsBest, JobBest
<1>3. FoundBest'
  BY <1>1, <1>2, BestSettle, BestSame DEF BestInv, FoundBest, JobBest
<1> QED
  BY <1>1, <1>3, BestSame DEF BestInv, BestFile, Injected

LEMMA BestStep == TypeInv /\ BestInv /\ [Next]_vars => BestInv'
<1> SUFFICES ASSUME TypeInv, BestInv, [Next]_vars PROVE BestInv'
  OBVIOUS
<1>t. \A c \in chunks : RowShape(c)
  BY DEF TypeInv, TypeOK, RowType, RowShape
<1>a. ASSUME UNCHANGED <<taps, pc, seen, found, job>>,
             \A c \in chunks' : Injected(c) => \E e \in chunks : c.path = e.path
      PROVE  BestInv'
  BY <1>a, BestSame DEF BestInv, BestFile, FoundBest, PathsBest, JobBest, Injected
<1>b. ASSUME UNCHANGED <<taps, chunks>>, FoundBest' PROVE BestInv'
  BY <1>b, BestSame DEF BestInv, BestFile, Injected
<1>1. ASSUME NEW name \in Filenames, UploadTap(name) PROVE BestInv'
  BY <1>1, BestUpload
<1>2. ASSUME NEW d \in raw, Expire(d) PROVE BestInv'
  BY <1>2, <1>a DEF Expire, rows, injection
<1>3. ASSUME NEW doc \in Documents, NEW k \in Kinds, Convert(doc, k) PROVE BestInv'
  <2>1. ~Injected(Row(doc, k, Null))
    BY DEF Injected, Row, Null
  <2> QED
    BY <1>3, <1>a, <2>1 DEF Convert, storage, injection
<1>4. ASSUME NEW doc \in Documents, NEW k \in Kinds, NEW d \in 1 .. Len(taps), Inherit(doc, k, d)
      PROVE  BestInv'
  <2>1. ~Injected(Row(doc, k, Raw(d)))
    BY DEF Injected, Row, Raw
  <2> QED
    BY <1>4, <1>a, <2>1 DEF Inherit, storage, injection
<1>5. ASSUME NEW c \in chunks, NEW k \in EditKinds, Patch(c, k) PROVE BestInv'
  <2>1. [c EXCEPT !.kind = k].path = c.path
    BY <1>t DEF RowShape
  <2> QED
    BY <1>5, <1>a, <2>1 DEF Patch, storage, injection
<1>6. ASSUME NEW i \in Injectors, InjectionStep(i) PROVE BestInv'
  <2>1. CASE ReadTaps(i)
    <3>1. /\ UNCHANGED <<taps, chunks, found, job>> /\ pc'[i] = "chunks"
          /\ \A j \in Injectors \ {i} : pc'[j] = pc[j] /\ seen'[j] = seen[j]
      BY <2>1 DEF ReadTaps, storage, rows, TypeInv, TypeOK, Shapes
    <3> QED
      BY <3>1, <1>b, BestSame DEF BestInv, FoundBest, PathsBest, JobBest
  <2>2. CASE ReadChunks(i)
    <3>1. UNCHANGED <<taps, chunks>>
      BY <2>2 DEF ReadChunks, storage, rows
    <3>2. CASE Reset(i)
      BY <3>1, <3>2, <1>b, BestReset
    <3>3. CASE pc' = [pc EXCEPT ![i] = "match"] /\ UNCHANGED <<seen, found, job>>
      <4>1. pc'[i] = "match" /\ \A j \in Injectors \ {i} : pc'[j] = pc[j]
        BY <3>3 DEF TypeInv, TypeOK
      <4> QED
        BY <3>1, <3>3, <4>1, <1>b, BestSame DEF BestInv, FoundBest, PathsBest, JobBest
    <3> QED
      BY <2>2, <3>2, <3>3 DEF ReadChunks
  <2>3. ASSUME NEW c \in todo[i], Match(i, c) PROVE BestInv'
    BY <2>3, <1>b, BestMatch DEF Match, storage, rows
  <2>4. CASE Copied(i)
    BY <2>4, BestAnswered DEF Copied
  <2>5. CASE CopyFails(i)
    BY <2>5, BestAnswered DEF CopyFails
  <2>6. CASE Commit(i)
    <3>1. UNCHANGED taps /\ Reset(i)
      BY <2>6 DEF Commit, storage
    <3>2. FoundBest'
      BY <3>1, BestReset
    <3>3. ASSUME NEW e \in chunks', Injected(e) PROVE PathBest(e.path)
      <4>1. PICK c \in chunks :
               e = IF c.id \in DOMAIN found[i] THEN [c EXCEPT !.path = found[i][c.id]] ELSE c
        BY <2>6 DEF Commit
      <4>2. CASE c.id \notin DOMAIN found[i]
        BY <3>3, <4>1, <4>2 DEF BestInv, BestFile, PathBest
      <4>3. CASE c.id \in DOMAIN found[i]
        <5>1. e.path = found[i][c.id]
          BY <1>t, <4>1, <4>3 DEF RowShape
        <5> QED
          BY <5>1, <4>3 DEF BestInv, FoundBest, PathsBest, JobBest
      <4> QED
        BY <4>2, <4>3
    <3>4. BestFile'
      BY <3>1, <3>3, BestSame DEF BestFile, Injected, PathBest
    <3> QED
      BY <3>2, <3>4 DEF BestInv
  <2>7. CASE Rollback(i)
    BY <2>7, <1>b, BestReset DEF Rollback, storage, rows
  <2> QED
    BY <1>6, <2>1, <2>2, <2>3, <2>4, <2>5, <2>6, <2>7 DEF InjectionStep
<1>7. CASE UNCHANGED vars
  BY <1>7, <1>a DEF vars, storage, rows, injection
<1> QED
  BY <1>1, <1>2, <1>3, <1>4, <1>5, <1>6, <1>7 DEF Next

\* However injections, uploads, conversions and edits interleave, an injected
\* chunk has the newest file of its product and face among those its injection
\* had read, or the newest of its product if none was of its face.
THEOREM BestChosen == Spec => []BestFile
<1>1. Init => BestInv
  <2>1. DOMAIN NoFunction = {}
    BY DEF NoFunction
  <2> QED
    BY <2>1 DEF Init, BestInv, BestFile, FoundBest, PathsBest, JobBest
<1>2. BestInv => BestFile
  BY DEF BestInv
<1> QED
  BY <1>1, <1>2, TypesKept, BestStep, PTL DEF Spec
=============================================================================
