-------------------------- MODULE VectorWriterProofs --------------------------
(***************************************************************************)
(* However many documents are vectorised at once and whatever fails, the   *)
(* points of each keep the promise of VectorSync, a done document has one  *)
(* product name, and the semaphore leaks no slot and loses no call.        *)
(***************************************************************************)
EXTENDS VectorWriter, FiniteSetTheorems, NaturalsInduction, WellFoundedInduction, TLAPS

-----------------------------------------------------------------------------
(* What each call of the Qdrant service does to the points of one document. *)

Of(S, d) == {p \in S : p.doc = d}

IsPoint(p) == p = [doc |-> p.doc, id |-> p.id, name |-> p.name]

\* A batch replaces its own points and touches no other document.
LEMMA OfUpserted ==
    ASSUME NEW e, NEW batch, \A r \in batch : r.doc = e
    PROVE  /\ \A d : d # e => Of(Upserted(batch), d) = Of(points, d)
           /\ Of(Upserted(batch), e)
                = {p \in Of(points, e) : \A r \in batch : p.id # r.id} \cup batch
BY DEF Of, Upserted, SameId

\* The clear leaves nothing of its document and everything else.
LEMMA OfCleared ==
    ASSUME NEW e
    PROVE  /\ \A d : d # e => Of(Cleared(e), d) = Of(points, d)
           /\ Of(Cleared(e), e) = {}
BY DEF Of, Cleared, PointsOf

\* A rollback by ids touches no other document.
LEMMA OfRolledBack ==
    ASSUME NEW e, \A r \in chunks[e] : r.doc = e
    PROVE  /\ \A d : d # e => Of(RolledBack(e), d) = Of(points, d)
           /\ Of(RolledBack(e), e) \subseteq Of(points, e)
BY DEF Of, RolledBack, SameId

\* The normalisation changes names only, and of its own document only.
LEMMA OfRenamed ==
    ASSUME NEW e, NEW S, \A r \in S : r.doc = e, \A p \in points : IsPoint(p)
    PROVE  /\ \A d : d # e => Of(Renamed(S), d) = Of(points, d)
           /\ Ids(Of(Renamed(S), e)) = Ids(Of(points, e))
           /\ \A p \in Renamed(S) : IsPoint(p)
<1> DEFINE M == MajorityName(S)
           New(p) == IF \E r \in Minority(S) : SameId(p, r)
                     THEN [p EXCEPT !.name = M] ELSE p
<1>1. Renamed(S) = {New(p) : p \in points}
  BY DEF Renamed
<1>2. \A r \in Minority(S) : r.doc = e
  BY DEF Minority
<1>3. \A p \in points : New(p).doc = p.doc /\ New(p).id = p.id /\ IsPoint(New(p))
  <2> SUFFICES ASSUME NEW p \in points
               PROVE  New(p).doc = p.doc /\ New(p).id = p.id /\ IsPoint(New(p))
    OBVIOUS
  <2>1. p = [doc |-> p.doc, id |-> p.id, name |-> p.name]
    BY DEF IsPoint
  <2>2. [p EXCEPT !.name = M] = [doc |-> p.doc, id |-> p.id, name |-> M]
    BY <2>1
  <2> QED
    BY <2>1, <2>2 DEF IsPoint
<1>4. \A p \in points : p.doc # e => New(p) = p
  BY <1>2 DEF SameId
<1> HIDE DEF New
<1>5. \A d : d # e => Of(Renamed(S), d) = Of(points, d)
  BY <1>1, <1>3, <1>4 DEF Of
<1>6. Ids(Of(Renamed(S), e)) = Ids(Of(points, e))
  BY <1>1, <1>3 DEF Of, Ids
<1>7. QED
  BY <1>1, <1>3, <1>5, <1>6

-----------------------------------------------------------------------------
(* The invariant: what a run knows of its points at each step.              *)

Chunky(d, S) ==
    /\ S # {}
    /\ \A p \in S : p.doc = d /\ IsPoint(p)
    /\ \A p, r \in S : p.id = r.id => p = r

Locations == {"idle", "embed", "clear", "upsert", "undo", "abort",
              "scroll", "rename", "commit", "giveup"}

Shape ==
    /\ DOMAIN status = Docs
    /\ conversion \in [Docs -> Nat]
    /\ DOMAIN chunks = Docs
    /\ at \in [Docs -> Locations]
    /\ DOMAIN todo = Docs
    /\ DOMAIN read = Docs
    /\ \A p \in points : IsPoint(p)

RunInv(d) ==
    /\ Chunky(d, chunks[d])
    /\ todo[d] \subseteq chunks[d]
    /\ at[d] \in {"idle", "giveup"} => todo[d] = {}
    /\ \A p \in read[d] : p.doc = d
    /\ at[d] # "idle" => status[d] = "confirmed"
    /\ at[d] = "upsert" => Of(points, d) = chunks[d] \ todo[d]
    /\ at[d] = "undo" => Ids(Of(points, d)) \subseteq Ids(chunks[d])
    /\ at[d] \in {"scroll", "rename", "commit"} => Ids(Of(points, d)) = Ids(chunks[d])

Inv == Shape /\ \A d \in Docs : RunInv(d)

\* The chunks of a conversion are the document's, some, with an id each.
LEMMA ConversionChunky ==
    ASSUME NEW d \in Docs, NEW n \in Nat, NEW S \in Conversions(d, n)
    PROVE  Chunky(d, S)
<1>1. PICK naming \in Namings[d] :
        S = {[doc |-> d, id |-> n * Size[d] + i, name |-> naming[i]] : i \in 1..Size[d]}
  BY DEF Conversions
<1>2. Size[d] \in Nat \ {0}
  BY WriterAssumption
<1>3. n * Size[d] \in Nat
  BY <1>2
<1>4. [doc |-> d, id |-> n * Size[d] + 1, name |-> naming[1]] \in S
  BY <1>1, <1>2
<1>5. \A p \in S : p.doc = d /\ IsPoint(p)
  BY <1>1 DEF IsPoint
<1> DEFINE Row(i) == [doc |-> d, id |-> n * Size[d] + i, name |-> naming[i]]
<1>6. ASSUME NEW p \in S, NEW r \in S, p.id = r.id
      PROVE  p = r
  <2>1. PICK i \in 1..Size[d] : p = Row(i)
    BY <1>1
  <2>2. PICK j \in 1..Size[d] : r = Row(j)
    BY <1>1
  <2>3. n * Size[d] + i = n * Size[d] + j
    BY <1>6, <2>1, <2>2
  <2>4. \A K \in Nat : K + i = K + j => i = j
    BY <1>2
  <2> HIDE DEF Row
  <2>5. i = j
    BY <1>3, <2>3, <2>4
  <2> QED
    BY <2>1, <2>2, <2>5
<1>7. QED
  BY <1>4, <1>5, <1>6 DEF Chunky

LEMMA InvInit == Init => Inv
<1> SUFFICES ASSUME Init PROVE Inv
  OBVIOUS
<1> USE DEF Init
<1>1. Shape
  BY DEF Shape, Locations
<1>2. ASSUME NEW d \in Docs PROVE RunInv(d)
  <2>1. Chunky(d, chunks[d])
    BY ConversionChunky
  <2>2. QED
    BY <2>1 DEF RunInv
<1>3. QED
  BY <1>1, <1>2 DEF Inv

-----------------------------------------------------------------------------
(* How a step looks to one document.                                        *)

Job(d) == IF at[d] \in {"idle", "giveup"} THEN {} ELSE Ids(chunks[d])

SyncNext(d) == [Sync(d)!Next]_(Sync(d)!syncVars)

\* A step of VectorSync, or a stutter, in the terms of this module.
LEMMA SyncSteps ==
    ASSUME NEW d \in Docs,
           \/ /\ status'[d] = status[d]
              /\ Ids(Of(points, d))' = Ids(Of(points, d))
              /\ Job(d)' = Job(d)
           \/ /\ Job(d) = {} /\ Job(d)' = {} /\ status'[d] # status[d]
              /\ Ids(Of(points, d))' = Ids(Of(points, d))
           \/ /\ Job(d) = {} /\ Job(d)' # {} /\ status'[d] = status[d]
              /\ Ids(Of(points, d))' = Ids(Of(points, d))
           \/ /\ Job(d) # {} /\ Job(d)' = Job(d) /\ status'[d] = status[d]
              /\ Ids(Of(points, d))' \subseteq Job(d)
           \/ /\ Job(d) # {} /\ Job(d)' = {} /\ status'[d] = "done"
              /\ Ids(Of(points, d))' = Ids(Of(points, d))
              /\ Ids(Of(points, d)) = Job(d)
           \/ /\ Job(d) # {} /\ Job(d)' = {} /\ status'[d] = "failed"
              /\ Ids(Of(points, d))' = Ids(Of(points, d))
           \/ /\ Job(d) # {} /\ Job(d)' = {} /\ status'[d] = status[d]
              /\ \/ Ids(Of(points, d))' = Ids(Of(points, d))
                 \/ Ids(Of(points, d))' = {}
    PROVE  SyncNext(d)
BY DEF SyncNext, Sync!Next, Sync!syncVars, Sync!Lifecycle, Sync!Begin, Sync!Rewrite,
   Sync!Done, Sync!Fail, Sync!Drop, Sync!Free, Job, PointsOf, Of

\* A step that leaves the document, its run and its points alone.
Aside(d) ==
    /\ status'[d] = status[d] /\ chunks'[d] = chunks[d]
    /\ at'[d] = at[d] /\ todo'[d] = todo[d] /\ read'[d] = read[d]
    /\ Of(points, d)' = Of(points, d)

LEMMA AsideSteps ==
    ASSUME NEW d \in Docs, RunInv(d), Aside(d)
    PROVE  RunInv(d)' /\ SyncNext(d)
<1>1. RunInv(d)'
  BY DEF RunInv, Aside, Chunky
<1>2. SyncNext(d)
  BY SyncSteps DEF Aside, Job, Ids
<1>3. QED
  BY <1>1, <1>2

\* What an action of one document has to show.
Good(e) ==
    /\ Shape'
    /\ \A d \in Docs \ {e} : Aside(d)
    /\ RunInv(e)'
    /\ SyncNext(e)

LEMMA GoodSteps ==
    ASSUME NEW e \in Docs, Inv, Good(e)
    PROVE  Inv' /\ \A d \in Docs : SyncNext(d)
<1>1. ASSUME NEW d \in Docs \ {e} PROVE RunInv(d)' /\ SyncNext(d)
  BY AsideSteps DEF Good, Inv
<1>2. QED
  BY <1>1 DEF Good, Inv

LEMMA Goes ==
    ASSUME NEW e \in Docs, NEW l \in Locations, Shape, Goto(e, l)
    PROVE  /\ at' \in [Docs -> Locations]
           /\ at'[e] = l
           /\ \A d \in Docs \ {e} : at'[d] = at[d]
BY DEF Goto, Shape

LEMMA Resets ==
    ASSUME NEW e \in Docs, Shape, Reset(e)
    PROVE  /\ DOMAIN todo' = Docs /\ DOMAIN read' = Docs
           /\ todo'[e] = {} /\ read'[e] = {}
           /\ \A d \in Docs \ {e} : todo'[d] = todo[d] /\ read'[d] = read[d]
BY DEF Reset, Shape

\* The rows of a document are never empty, so its job is a job.
LEMMA JobThere ==
    ASSUME NEW d \in Docs, Chunky(d, chunks[d])
    PROVE  Ids(chunks[d]) # {}
BY DEF Chunky, Ids

-----------------------------------------------------------------------------
(* The actions of a run, one after the other.                               *)

LEMMA ReconfirmGood ==
    ASSUME NEW e \in Docs, Inv, Reconfirm(e)
    PROVE  Good(e)
<1> USE DEF Reconfirm, Inv, Shape, docVars, runVars
<1>1. Shape'
  OBVIOUS
<1>2. \A d \in Docs \ {e} : Aside(d)
  BY DEF Aside, Of
<1>3. Chunky(e, chunks[e])'
  <2>1. PICK new \in Conversions(e, conversion[e] + 1) : chunks' = [chunks EXCEPT ![e] = new]
    OBVIOUS
  <2>2. Chunky(e, new)
    BY <2>1, ConversionChunky
  <2>3. chunks'[e] = new
    BY <2>1
  <2>4. QED
    BY <2>2, <2>3 DEF Chunky
<1>4. RunInv(e)'
  BY <1>3 DEF RunInv
<1>5. SyncNext(e)
  BY SyncSteps DEF Job, Of
<1>6. QED
  BY <1>1, <1>2, <1>4, <1>5 DEF Good
\* Steps that write nothing to the collection.
LEMMA QuietGood ==
    ASSUME NEW e \in Docs, Inv,
           Begin(e) \/ Embedded(e) \/ EmbedRaises(e) \/ Abort(e) \/ Done(e) \/ GiveUp(e)
    PROVE  Good(e)
<1> USE DEF Inv, Shape, docVars
<1>0. Ids(chunks[e]) # {}
  BY JobThere DEF RunInv
<1>1. CASE Begin(e)
  <2> USE <1>1 DEF Begin
  <2>1. Goto(e, "embed")
    OBVIOUS
  <2>2. at'[e] = "embed" /\ at' \in [Docs -> Locations] /\ \A d \in Docs \ {e} : at'[d] = at[d]
    BY <2>1, Goes DEF Locations
  <2>3. Shape' /\ \A d \in Docs \ {e} : Aside(d)
    BY <2>2 DEF Aside, Of
  <2>4. RunInv(e)'
    BY <2>2 DEF RunInv, Chunky
  <2>5. SyncNext(e)
    BY <1>0, <2>2, SyncSteps DEF Job, Of
  <2>6. QED
    BY <2>3, <2>4, <2>5 DEF Good
<1>2. CASE Embedded(e) \/ EmbedRaises(e)
  <2> USE <1>2 DEF Embedded, EmbedRaises
  <2>1. \E l \in {"clear", "abort"} : Goto(e, l)
    OBVIOUS
  <2>2. at'[e] \in {"clear", "abort"} /\ at' \in [Docs -> Locations]
          /\ \A d \in Docs \ {e} : at'[d] = at[d]
    BY <2>1, Goes DEF Locations
  <2>3. Shape' /\ \A d \in Docs \ {e} : Aside(d)
    BY <2>2 DEF Aside, Of
  <2>4. RunInv(e)'
    BY <2>2 DEF RunInv, Chunky
  <2>5. SyncNext(e)
    BY <2>2, SyncSteps DEF Job, Of
  <2>6. QED
    BY <2>3, <2>4, <2>5 DEF Good
<1>3. CASE Abort(e) \/ Done(e)
  <2> USE <1>3 DEF Abort, Done
  <2>1. Goto(e, "idle") /\ Reset(e)
    BY DEF Finish
  <2>2. at'[e] = "idle" /\ at' \in [Docs -> Locations] /\ \A d \in Docs \ {e} : at'[d] = at[d]
    BY <2>1, Goes DEF Locations
  <2>3. /\ DOMAIN todo' = Docs /\ DOMAIN read' = Docs
        /\ todo'[e] = {} /\ read'[e] = {}
        /\ \A d \in Docs \ {e} : todo'[d] = todo[d] /\ read'[d] = read[d]
    BY <2>1, Resets
  <2>4. Shape' /\ \A d \in Docs \ {e} : Aside(d)
    BY <2>2, <2>3 DEF Aside, Of
  <2>5. RunInv(e)'
    BY <2>2, <2>3 DEF RunInv, Chunky
  <2>6. ASSUME Abort(e) PROVE SyncNext(e)
    BY <1>0, <2>2, <2>6, SyncSteps DEF Job, Of
  <2>7. ASSUME Done(e) PROVE SyncNext(e)
    <3>1. Ids(Of(points, e)) = Ids(chunks[e])
      BY <2>7 DEF RunInv
    <3>2. QED
      BY <1>0, <2>2, <2>7, <3>1, SyncSteps DEF Job, Of
  <2>8. QED
    BY <1>3, <2>4, <2>5, <2>6, <2>7 DEF Good
<1>4. CASE GiveUp(e)
  <2> USE <1>4 DEF GiveUp
  <2>1. Goto(e, "idle")
    OBVIOUS
  <2>2. at'[e] = "idle" /\ at' \in [Docs -> Locations] /\ \A d \in Docs \ {e} : at'[d] = at[d]
    BY <2>1, Goes DEF Locations
  <2>3. Shape' /\ \A d \in Docs \ {e} : Aside(d)
    BY <2>2 DEF Aside, Of
  <2>4. RunInv(e)'
    BY <2>2 DEF RunInv, Chunky
  <2>5. status[e] = "confirmed"
    BY DEF RunInv
  <2>6. SyncNext(e)
    BY <2>2, <2>5, SyncSteps DEF Job, Of
  <2>7. QED
    BY <2>3, <2>4, <2>6 DEF Good
<1>5. QED
  BY <1>1, <1>2, <1>3, <1>4

\* The clear leaves nothing, and everything is still to be upserted.
LEMMA ClearGood ==
    ASSUME NEW e \in Docs, Inv, Clear(e)
    PROVE  Good(e)
<1> USE DEF Inv, Shape, docVars, Clear
<1>1. at'[e] = "upsert" /\ at' \in [Docs -> Locations] /\ \A d \in Docs \ {e} : at'[d] = at[d]
  <2>1. Goto(e, "upsert")
    OBVIOUS
  <2>2. QED
    BY <2>1, Goes DEF Locations
<1>2. (\A d : d # e => Of(points', d) = Of(points, d)) /\ Of(points', e) = {}
  BY OfCleared
<1>3. Shape'
  BY <1>1 DEF Cleared
<1>4. \A d \in Docs \ {e} : Aside(d)
  BY <1>1, <1>2 DEF Aside, Of
<1>5. RunInv(e)'
  BY <1>1, <1>2 DEF RunInv, Chunky, Of
<1>6. Ids(Of(points, e))' \subseteq Job(e)
  BY <1>2 DEF Ids, Of
<1>7. SyncNext(e)
  <2>1. Job(e) # {} /\ Job(e)' = Job(e)
    BY <1>1, JobThere DEF Job, RunInv
  <2>2. QED
    BY <1>6, <2>1, SyncSteps
<1>8. QED
  BY <1>3, <1>4, <1>5, <1>7 DEF Good

\* A batch of the rows still to be upserted moves them to the collection.
LEMMA BatchMoves ==
    ASSUME NEW e \in Docs, Inv, at[e] = "upsert",
           NEW batch \in Batches(todo[e]), points' = Upserted(batch)
    PROVE  /\ batch \subseteq todo[e]
           /\ \A d \in Docs \ {e} : Of(points, d)' = Of(points, d)
           /\ Of(points, e)' = chunks[e] \ (todo[e] \ batch)
           /\ \A p \in points' : IsPoint(p)
<1> USE DEF Inv, RunInv
<1>1. batch \subseteq todo[e]
  BY DEF Batches
<1>2. \A r \in batch : r.doc = e
  BY <1>1 DEF Chunky
<1>3. /\ \A d : d # e => Of(Upserted(batch), d) = Of(points, d)
      /\ Of(Upserted(batch), e)
           = {p \in Of(points, e) : \A r \in batch : p.id # r.id} \cup batch
  BY <1>2, OfUpserted
<1>4. Of(points, e) = chunks[e] \ todo[e]
  OBVIOUS
<1>5. \A p \in chunks[e] \ todo[e] : \A r \in batch : p.id # r.id
  BY <1>1 DEF Chunky
<1>6. {p \in Of(points, e) : \A r \in batch : p.id # r.id} = chunks[e] \ todo[e]
  BY <1>4, <1>5
<1>7. Of(points', e) = chunks[e] \ (todo[e] \ batch)
  BY <1>1, <1>3, <1>6
<1>8. \A p \in points' : IsPoint(p)
  BY <1>1 DEF Upserted, Chunky, Shape
<1>9. QED
  BY <1>1, <1>3, <1>7, <1>8 DEF Of
LEMMA UpsertGood ==
    ASSUME NEW e \in Docs, Inv, Upsert(e)
    PROVE  Good(e)
<1> USE DEF Inv, Shape, docVars, Upsert
<1>1. PICK batch \in Batches(todo[e]) :
        /\ points' = Upserted(batch)
        /\ todo' = [todo EXCEPT ![e] = @ \ batch]
        /\ Goto(e, IF batch = todo[e] THEN "scroll" ELSE "upsert")
  OBVIOUS
<1>2. /\ at'[e] = IF batch = todo[e] THEN "scroll" ELSE "upsert"
      /\ at' \in [Docs -> Locations] /\ \A d \in Docs \ {e} : at'[d] = at[d]
  BY <1>1, Goes DEF Locations
<1>3. /\ \A d \in Docs \ {e} : Of(points, d)' = Of(points, d)
      /\ Of(points, e)' = chunks[e] \ (todo[e] \ batch)
      /\ \A p \in points' : IsPoint(p)
  BY <1>1, BatchMoves
<1>4. Shape'
  BY <1>1, <1>2, <1>3
<1>5. \A d \in Docs \ {e} : Aside(d)
  BY <1>1, <1>2, <1>3 DEF Aside
<1>6. RunInv(e)'
  <2>1. todo'[e] = todo[e] \ batch
    BY <1>1
  <2>2. at'[e] = "scroll" => Of(points, e)' = chunks'[e]
    BY <1>2, <1>3
  <2>3. Ids(Of(points, e))' = Ids(Of(points, e)')
    BY DEF Ids
  <2>4. QED
    BY <1>2, <1>3, <2>1, <2>2, <2>3 DEF RunInv, Chunky, Ids
<1>7. SyncNext(e)
  <2>1. Job(e) # {} /\ Job(e)' = Job(e)
    BY <1>2, JobThere DEF Job, RunInv, Ids
  <2>2. Ids(Of(points, e))' \subseteq Job(e)
    BY <1>3 DEF Ids, Job
  <2>3. QED
    BY <2>1, <2>2, SyncSteps
<1>8. QED
  BY <1>4, <1>5, <1>6, <1>7 DEF Good

\* Applied or not, a batch that raises has left rows of the run only.
LEMMA UpsertRaisesGood ==
    ASSUME NEW e \in Docs, Inv, UpsertRaises(e)
    PROVE  Good(e)
<1> USE DEF Inv, Shape, docVars, UpsertRaises
<1>1. at'[e] = "undo" /\ at' \in [Docs -> Locations] /\ \A d \in Docs \ {e} : at'[d] = at[d]
  <2>1. Goto(e, "undo")
    OBVIOUS
  <2>2. QED
    BY <2>1, Goes DEF Locations
<1>2. /\ \A d \in Docs \ {e} : Of(points, d)' = Of(points, d)
      /\ Of(points, e)' \subseteq chunks[e]
      /\ \A p \in points' : IsPoint(p)
  <2>1. CASE UNCHANGED points
    BY <2>1 DEF RunInv, Of
  <2>2. CASE \E batch \in Batches(todo[e]) : points' = Upserted(batch)
    BY <2>2, BatchMoves
  <2>3. QED
    BY <2>1, <2>2
<1>3. Shape'
  BY <1>1, <1>2
<1>4. \A d \in Docs \ {e} : Aside(d)
  BY <1>1, <1>2 DEF Aside
<1>5. Ids(Of(points, e))' \subseteq Ids(chunks[e])
  BY <1>2 DEF Ids
<1>6. RunInv(e)'
  BY <1>1, <1>5 DEF RunInv, Chunky, Ids
<1>7. SyncNext(e)
  <2>1. Job(e) # {} /\ Job(e)' = Job(e)
    BY <1>1, JobThere DEF Job, RunInv, Ids
  <2>2. QED
    BY <1>1, <1>5, <2>1, SyncSteps DEF Job
<1>8. QED
  BY <1>3, <1>4, <1>6, <1>7 DEF Good

LEMMA UndoGood ==
    ASSUME NEW e \in Docs, Inv, Undo(e)
    PROVE  Good(e)
<1> USE DEF Inv, Shape, docVars, Undo
<1>1. at'[e] = "abort" /\ at' \in [Docs -> Locations] /\ \A d \in Docs \ {e} : at'[d] = at[d]
  <2>1. Goto(e, "abort")
    OBVIOUS
  <2>2. QED
    BY <2>1, Goes DEF Locations
<1>2. /\ \A d \in Docs \ {e} : Of(points, d)' = Of(points, d)
      /\ Of(points, e)' \subseteq Of(points, e)
      /\ \A p \in points' : IsPoint(p)
  <2>1. CASE UNCHANGED points
    BY <2>1 DEF Of
  <2>2. CASE points' = RolledBack(e)
    <3>1. \A r \in chunks[e] : r.doc = e
      BY DEF RunInv, Chunky
    <3>2. /\ \A d : d # e => Of(RolledBack(e), d) = Of(points, d)
          /\ Of(RolledBack(e), e) \subseteq Of(points, e)
      BY <3>1, OfRolledBack
    <3>3. QED
      BY <2>2, <3>2 DEF Of, RolledBack
  <2>3. QED
    BY <2>1, <2>2
<1>3. Shape'
  BY <1>1, <1>2
<1>4. \A d \in Docs \ {e} : Aside(d)
  BY <1>1, <1>2 DEF Aside
<1>5. RunInv(e)'
  BY <1>1 DEF RunInv, Chunky
<1>6. SyncNext(e)
  <2>1. Job(e) # {} /\ Job(e)' = Job(e)
    BY <1>1, JobThere DEF Job, RunInv
  <2>2. Ids(Of(points, e))' \subseteq Job(e)
    BY <1>2 DEF Job, RunInv, Ids
  <2>3. QED
    BY <2>1, <2>2, SyncSteps
<1>7. QED
  BY <1>3, <1>4, <1>5, <1>6 DEF Good

\* Normalising renames points in place.
LEMMA RenamedInPlace ==
    ASSUME NEW e \in Docs, Inv, points' = Renamed(read[e])
    PROVE  /\ \A d \in Docs \ {e} : Of(points, d)' = Of(points, d)
           /\ Ids(Of(points, e))' = Ids(Of(points, e))
           /\ \A p \in points' : IsPoint(p)
<1>1. \A r \in read[e] : r.doc = e
  BY DEF Inv, RunInv
<1>2. \A p \in points : IsPoint(p)
  BY DEF Inv, Shape
<1>3. /\ \A d : d # e => Of(Renamed(read[e]), d) = Of(points, d)
      /\ Ids(Of(Renamed(read[e]), e)) = Ids(Of(points, e))
      /\ \A p \in Renamed(read[e]) : IsPoint(p)
  BY <1>1, <1>2, OfRenamed
<1>4. QED
  BY <1>3 DEF Of, Ids

LEMMA NormaliseGood ==
    ASSUME NEW e \in Docs, Inv, Scroll(e) \/ Rename(e)
    PROVE  Good(e)
<1> USE DEF Inv, Shape, docVars
<1>1. CASE Scroll(e)
  <2> USE <1>1 DEF Scroll
  <2>1. \E l \in {"scroll", "rename"} : Goto(e, l)
    OBVIOUS
  <2>2. at'[e] \in {"scroll", "rename"} /\ at' \in [Docs -> Locations]
          /\ \A d \in Docs \ {e} : at'[d] = at[d]
    BY <2>1, Goes DEF Locations
  <2>3. Shape' /\ \A d \in Docs \ {e} : Aside(d)
    BY <2>2 DEF Aside, Of
  <2>4. \A p \in Page(e) : p.doc = e
    BY DEF Page, Unread, PointsOf
  <2>5. RunInv(e)'
    BY <2>2, <2>4 DEF RunInv, Chunky, Of, Ids
  <2>6. SyncNext(e)
    BY <2>2, SyncSteps DEF Job, Of
  <2>7. QED
    BY <2>3, <2>5, <2>6 DEF Good
<1>2. CASE Rename(e)
  <2> USE <1>2 DEF Rename
  <2>1. Goto(e, "commit")
    OBVIOUS
  <2>2. at'[e] = "commit" /\ at' \in [Docs -> Locations]
          /\ \A d \in Docs \ {e} : at'[d] = at[d]
    BY <2>1, Goes DEF Locations
  <2>3. /\ \A d \in Docs \ {e} : Of(points, d)' = Of(points, d)
        /\ Ids(Of(points, e))' = Ids(Of(points, e))
        /\ \A p \in points' : IsPoint(p)
    BY RenamedInPlace
  <2>4. Shape' /\ \A d \in Docs \ {e} : Aside(d)
    BY <2>2, <2>3 DEF Aside
  <2>5. RunInv(e)'
    BY <2>2, <2>3 DEF RunInv, Chunky, Ids
  <2>6. SyncNext(e)
    BY <2>2, <2>3, SyncSteps DEF Job
  <2>7. QED
    BY <2>4, <2>5, <2>6 DEF Good
<1>3. QED
  BY <1>1, <1>2

\* A run that raises leaves the old points, none, or its own.
LEMMA RunRaisesGood ==
    ASSUME NEW e \in Docs, Inv, RunRaises(e)
    PROVE  Good(e)
<1> USE DEF Inv, Shape, docVars, RunRaises
<1>1. at'[e] \in {"idle", "giveup"} /\ at' \in [Docs -> Locations]
        /\ \A d \in Docs \ {e} : at'[d] = at[d]
  <2>1. \E l \in {"idle", "giveup"} : Goto(e, l)
    OBVIOUS
  <2>2. QED
    BY <2>1, Goes DEF Locations
<1>2. /\ DOMAIN todo' = Docs /\ DOMAIN read' = Docs
      /\ todo'[e] = {} /\ read'[e] = {}
      /\ \A d \in Docs \ {e} : todo'[d] = todo[d] /\ read'[d] = read[d]
  BY Resets
<1>3. /\ \A d \in Docs \ {e} : Of(points, d)' = Of(points, d)
      /\ Ids(Of(points, e))' = Ids(Of(points, e)) \/ Ids(Of(points, e))' = {}
      /\ \A p \in points' : IsPoint(p)
  <2>1. CASE UNCHANGED points
    BY <2>1 DEF Of, Ids
  <2>2. CASE points' = Cleared(e)
    <3>1. (\A d : d # e => Of(points', d) = Of(points, d)) /\ Of(points', e) = {}
      BY <2>2, OfCleared
    <3>2. QED
      BY <2>2, <3>1 DEF Of, Ids, Cleared
  <2>3. CASE points' = Renamed(read[e])
    BY <2>3, RenamedInPlace
  <2>4. QED
    BY <2>1, <2>2, <2>3
<1>4. Shape' /\ \A d \in Docs \ {e} : Aside(d)
  BY <1>1, <1>2, <1>3 DEF Aside
<1>5. RunInv(e)'
  BY <1>1, <1>2 DEF RunInv, Chunky
<1>6. SyncNext(e)
  <2>1. Job(e) # {}
    BY JobThere DEF Job, RunInv
  <2>2. Job(e)' = {}
    BY <1>1 DEF Job
  <2>3. QED
    BY <1>3, <2>1, <2>2, SyncSteps
<1>7. QED
  BY <1>4, <1>5, <1>6 DEF Good

\* A crash drops every job and leaves the collection as it is.
LEMMA CrashGood ==
    ASSUME Inv, Crash
    PROVE  Inv' /\ \A d \in Docs : SyncNext(d)
<1> USE DEF Inv, Crash, docVars
<1>1. Shape'
  BY DEF Shape, Locations
<1>2. ASSUME NEW d \in Docs PROVE RunInv(d)' /\ SyncNext(d)
  <2>1. RunInv(d)'
    BY DEF RunInv, Chunky
  <2>2. Ids(Of(points, d))' = Ids(Of(points, d)) /\ Job(d)' = {}
    BY DEF Ids, Of, Job
  <2>3. SyncNext(d)
    BY <2>2, SyncSteps
  <2>4. QED
    BY <2>1, <2>3
<1>3. QED
  BY <1>1, <1>2

-----------------------------------------------------------------------------
(* The theorems.                                                            *)

\* What every action of a run, and a reprocessing, show.
LEMMA RunGood ==
    ASSUME NEW e \in Docs, Inv, RunStep(e) \/ Reconfirm(e)
    PROVE  Good(e)
BY ReconfirmGood, QuietGood, ClearGood, UpsertGood, UpsertRaisesGood,
   UndoGood, NormaliseGood, RunRaisesGood DEF RunStep

LEMMA Step ==
    ASSUME Inv, [Next]_vars
    PROVE  Inv' /\ \A d \in Docs : SyncNext(d)
<1>1. ASSUME UNCHANGED <<docVars, points, runVars>>
      PROVE  Inv' /\ \A d \in Docs : SyncNext(d)
  <2>1. Shape'
    BY <1>1 DEF Inv, Shape, docVars, runVars
  <2>2. \A d \in Docs : Aside(d)
    BY <1>1 DEF Aside, docVars, runVars, Of
  <2>3. QED
    BY <2>1, <2>2, AsideSteps DEF Inv
<1>2. ASSUME NEW e \in Docs, RunStep(e) \/ Reconfirm(e)
      PROVE  Inv' /\ \A d \in Docs : SyncNext(d)
  <2>1. Good(e)
    BY <1>2, RunGood
  <2>2. QED
    BY <2>1, GoodSteps
<1>3. CASE UNCHANGED vars
  BY <1>1, <1>3 DEF vars
<1>4. CASE Next
  BY <1>1, <1>2, <1>4, CrashGood DEF Next, EmbeddingStep, Ask, Answer
<1>5. QED
  BY <1>3, <1>4

\* Whatever other documents share the collection and the embedding client,
\* however often Qdrant calls fail, are applied before they fail or lose their
\* rollback, and however often the instance dies: the points of a document are
\* always those of before its run or some of the run's own, only its own run
\* touches them, and it ends in done with exactly the document's rows.  For any
\* documents, sizes, names, batches, slots and conversions.
THEOREM PointsKeepPromise == Spec => ImplementsVectorSync
<1>1. Init => \A d \in Docs : Sync(d)!Init
  BY DEF Init, Sync!Init, Sync!Free, PointsOf, Ids
<1>2. ASSUME \A d \in Docs : SyncNext(d)
      PROVE  \A d \in Docs : [Sync(d)!Next]_(Sync(d)!syncVars)
  BY <1>2 DEF SyncNext
<1>3. QED
  BY <1>1, <1>2, InvInit, Step, PTL DEF Spec, ImplementsVectorSync
-----------------------------------------------------------------------------
(* The names.  The majority is one of the chunks' only if the scroll has     *)
(* read all of them, so what it has read is the lower part of the ids.       *)

\* What a run knows of the names at each step.
Rows(C) ==
    /\ IsFiniteSet(C)
    /\ \A p \in C : p.id \in Nat /\ p.name \in Names \cup {NoName}

OneName(P, C) ==
    \A p \in P :
        /\ p.name = NoName <=> \E r \in C : SameId(p, r) /\ r.name = NoName
        /\ p.name # NoName =>
            /\ \A r \in P : r.name \in {NoName, p.name}
            /\ \A n \in Names : Frequency(C, n) <= Frequency(C, p.name)

NameInv(d) ==
    /\ Rows(chunks[d])
    /\ at[d] \notin {"scroll", "rename", "commit"} => read[d] = {}
    /\ at[d] = "scroll" =>
        /\ Of(points, d) = chunks[d]
        /\ read[d] \subseteq chunks[d]
        /\ \A p \in chunks[d] \ read[d] : \A r \in read[d] : r.id < p.id
    /\ at[d] = "rename" => Of(points, d) = chunks[d] /\ read[d] = chunks[d]
    /\ at[d] = "commit" \/ status[d] = "done" => OneName(Of(points, d), chunks[d])

NamesInv == \A d \in Docs : NameInv(d)

\* The least of some numbers.
LEMMA LeastIs ==
    ASSUME NEW S \in SUBSET Nat, S # {}
    PROVE  Min(S) \in S /\ \A x \in S : Min(S) <= x
<1>1. \E m \in S : \A k \in S : <<k, m>> \notin OpToRel(<, Nat)
  BY NatLessThanWellFounded, WFMin
<1>2. PICK m \in S : \A k \in S : ~ (k < m)
  BY <1>1 DEF OpToRel
<1>3. \A x \in S : m <= x
  BY <1>2
<1> QED
  BY <1>3 DEF Min

\* A name is at most as frequent as there are chunks.
LEMMA FrequencyIs ==
    ASSUME NEW C, IsFiniteSet(C)
    PROVE  \A n : Frequency(C, n) \in Nat /\ Frequency(C, n) <= Cardinality(C)
<1> SUFFICES ASSUME NEW n PROVE Frequency(C, n) \in Nat /\ Frequency(C, n) <= Cardinality(C)
  OBVIOUS
<1> DEFINE S == {p \in C : p.name = n}
<1>1. S \subseteq C
  OBVIOUS
<1> HIDE DEF S
<1>2. IsFiniteSet(S) /\ Cardinality(S) <= Cardinality(C)
  BY <1>1, FS_Subset
<1>3. Cardinality(S) \in Nat
  BY <1>2, FS_CardinalityType
<1> QED
  BY <1>2, <1>3 DEF Frequency, S

\* Some name is read first among the most frequent ones.
LEMMA MajorityIs ==
    ASSUME NEW C, Rows(C), \A p, r \in C : p.id = r.id => p = r, NamesIn(C) # {}
    PROVE  /\ MajorityName(C) \in NamesIn(C)
           /\ \A m \in NamesIn(C) : Frequency(C, m) <= Frequency(C, MajorityName(C))
<1> DEFINE N == NamesIn(C)
           K == Cardinality(C)
           F(n) == Frequency(C, n)
           First(n) == FirstId(C, n)
           rare == {K - F(n) : n \in N}
<1>1. K \in Nat /\ \A n \in N : F(n) \in Nat /\ F(n) <= K /\ K - F(n) \in Nat
  <2>1. K \in Nat
    BY FS_CardinalityType DEF Rows
  <2>2. \A n : F(n) \in Nat /\ F(n) <= K
    BY FrequencyIs DEF Rows
  <2> HIDE DEF F, K
  <2> QED
    BY <2>1, <2>2
<1>2. ASSUME NEW n \in N PROVE \E p \in C : p.name = n /\ p.id = First(n)
  <2> DEFINE S == {p \in C : p.name = n}
  <2>1. Ids(S) \in SUBSET Nat /\ Ids(S) # {}
    BY DEF Ids, NamesIn, Rows
  <2>2. Min(Ids(S)) \in Ids(S)
    BY <2>1, LeastIs
  <2>3. First(n) = Min(Ids(S))
    BY DEF FirstId
  <2> QED
    BY <2>2, <2>3 DEF Ids
<1>3. \A n \in N : First(n) \in Nat
  BY <1>2 DEF Rows
<1>4. \A n, m \in N : First(n) = First(m) => n = m
  BY <1>2
<1>5. rare \in SUBSET Nat /\ rare # {}
  BY <1>1
<1> HIDE DEF F, First, K, N
<1>6. PICK a \in N : \A m \in N : F(m) <= F(a)
  <2>1. Min(rare) \in rare /\ \A x \in rare : Min(rare) <= x
    <3> HIDE DEF rare
    <3> QED
      BY <1>5, LeastIs
  <2>2. PICK a \in N : Min(rare) = K - F(a)
    BY <2>1
  <2>3. \A m \in N : K - F(a) <= K - F(m)
    BY <2>1, <2>2
  <2> QED
    BY <1>1, <2>3
<1> DEFINE firsts == {First(n) : n \in {x \in N : F(x) = F(a)}}
<1>7. PICK b \in N : F(b) = F(a) /\ \A m \in N : F(m) = F(a) => First(b) <= First(m)
  <2>1. firsts \in SUBSET Nat /\ firsts # {}
    <3>1. First(a) \in firsts
      OBVIOUS
    <3>2. firsts \subseteq Nat
      BY <1>3
    <3> QED
      BY <3>1, <3>2
  <2>2. Min(firsts) \in firsts /\ \A x \in firsts : Min(firsts) <= x
    <3> HIDE DEF firsts
    <3> QED
      BY <2>1, LeastIs
  <2>3. PICK b \in N : F(b) = F(a) /\ Min(firsts) = First(b)
    BY <2>2
  <2>4. \A m \in N : F(m) = F(a) => First(m) \in firsts
    OBVIOUS
  <2>5. \A m \in N : F(m) = F(a) => First(b) <= First(m)
    <3> HIDE DEF firsts
    <3> QED
      BY <2>2, <2>3, <2>4
  <2> QED
    BY <2>3, <2>5
<1> DEFINE Wins(n) == \A m \in N \ {n} : F(n) > F(m) \/ (F(n) = F(m) /\ First(n) < First(m))
<1>8. Wins(b)
  BY <1>1, <1>3, <1>4, <1>6, <1>7
<1>9. MajorityName(C) = CHOOSE n \in N : Wins(n)
  BY DEF MajorityName, F, First, N
<1>10. MajorityName(C) \in N /\ Wins(MajorityName(C))
  <2> HIDE DEF Wins
  <2> QED
    BY <1>8, <1>9
<1>11. \A m \in N : F(m) <= F(MajorityName(C))
  BY <1>1, <1>10
<1> QED
  BY <1>10, <1>11 DEF N, F

\* The names a document has after the normalisation of all its points.
LEMMA RenamedHasOneName ==
    ASSUME NEW e, NEW C, Rows(C), Chunky(e, C), Of(points, e) = C,
           \A p \in points : IsPoint(p)
    PROVE  OneName(Of(Renamed(C), e), C)
<1> DEFINE M == MajorityName(C)
           New(p) == IF \E r \in Minority(C) : SameId(p, r)
                     THEN [p EXCEPT !.name = M] ELSE p
           P == Of(Renamed(C), e)
<1>1. \A p \in C : p \in points /\ p.doc = e /\ IsPoint(p)
  BY DEF Of
<1>2. \A p, r \in C : p.id = r.id => p = r
  BY DEF Chunky
<1>3. \A p \in C : (\E r \in Minority(C) : SameId(p, r)) <=> p \in Minority(C)
  BY <1>2 DEF Minority, SameId
<1>4. \A p \in points : New(p).doc = p.doc /\ New(p).id = p.id
                          /\ New(p).name = (IF \E r \in Minority(C) : SameId(p, r) THEN M ELSE p.name)
  <2> SUFFICES ASSUME NEW p \in points
               PROVE  New(p).doc = p.doc /\ New(p).id = p.id
                        /\ New(p).name = (IF \E r \in Minority(C) : SameId(p, r) THEN M ELSE p.name)
    OBVIOUS
  <2>1. p = [doc |-> p.doc, id |-> p.id, name |-> p.name]
    BY DEF IsPoint
  <2>2. [p EXCEPT !.name = M] = [doc |-> p.doc, id |-> p.id, name |-> M]
    BY <2>1
  <2> QED
    BY <2>1, <2>2
<1>5. Renamed(C) = {New(p) : p \in points}
  BY DEF Renamed
<1> HIDE DEF New
<1>6. \A p \in P : \E r \in C : p.doc = r.doc /\ p.id = r.id
                                 /\ p.name = IF r \in Minority(C) THEN M ELSE r.name
  <2> SUFFICES ASSUME NEW p \in P
               PROVE  \E r \in C : p.doc = r.doc /\ p.id = r.id
                                     /\ p.name = IF r \in Minority(C) THEN M ELSE r.name
    OBVIOUS
  <2>1. PICK r \in points : p = New(r)
    BY <1>5 DEF Of
  <2>2. r.doc = e
    BY <1>4, <2>1 DEF Of
  <2>3. r \in C
    BY <2>2 DEF Of
  <2> QED
    BY <1>3, <1>4, <2>1, <2>3
<1> HIDE DEF P, M
<1>7. CASE NamesIn(C) = {}
  <2>1. \A r \in C : r.name = NoName
    BY <1>7 DEF NamesIn
  <2>2. Minority(C) = {}
    BY <2>1 DEF Minority
  <2>3. \A p \in P : p.name = NoName /\ \E r \in C : SameId(p, r) /\ r.name = NoName
    BY <1>6, <2>1, <2>2 DEF SameId
  <2>4. OneName(P, C)
    BY <2>3 DEF OneName
  <2> QED
    BY <2>4 DEF P
<1>8. CASE NamesIn(C) # {}
  <2>1. M \in NamesIn(C) /\ \A m \in NamesIn(C) : Frequency(C, m) <= Frequency(C, M)
    BY <1>2, <1>8, MajorityIs DEF M
  <2>2. M # NoName
    BY <2>1 DEF NamesIn
  <2>3. \A r \in C : (IF r \in Minority(C) THEN M ELSE r.name) = (IF r.name = NoName THEN NoName ELSE M)
    BY DEF Minority, M
  <2>4. \A n \in Names : Frequency(C, n) <= Frequency(C, M)
    <3> SUFFICES ASSUME NEW n \in Names PROVE Frequency(C, n) <= Frequency(C, M)
      OBVIOUS
    <3>1. CASE n \in NamesIn(C)
      BY <2>1, <3>1
    <3>2. CASE n \notin NamesIn(C)
      <4>1. n # NoName
        BY WriterAssumption
      <4>2. {p \in C : p.name = n} = {}
        BY <3>2, <4>1 DEF NamesIn
      <4>3. Frequency(C, n) = 0
        BY <4>2, FS_EmptySet DEF Frequency
      <4>4. Frequency(C, M) \in Nat
        BY FrequencyIs DEF Rows
      <4> QED
        BY <4>3, <4>4
    <3> QED
      BY <3>1, <3>2
  <2>5. ASSUME NEW p \in P
        PROVE  /\ p.name \in {NoName, M}
               /\ p.name = NoName <=> \E r \in C : SameId(p, r) /\ r.name = NoName
    <3>1. PICK r \in C : p.doc = r.doc /\ p.id = r.id
                           /\ p.name = IF r.name = NoName THEN NoName ELSE M
      BY <1>6, <2>3
    <3>2. \A x \in C : SameId(p, x) => x = r
      BY <1>2, <3>1 DEF SameId
    <3> QED
      BY <2>2, <3>1, <3>2 DEF SameId
  <2>6. OneName(P, C)
    BY <2>2, <2>4, <2>5 DEF OneName
  <2> QED
    BY <2>6 DEF P
<1> QED
  BY <1>7, <1>8

\* The chunks of a conversion have numbers and names.
LEMMA ConversionRows ==
    ASSUME NEW d \in Docs, NEW n \in Nat, NEW C \in Conversions(d, n)
    PROVE  Rows(C)
<1>1. PICK naming \in Namings[d] :
        C = {[doc |-> d, id |-> n * Size[d] + i, name |-> naming[i]] : i \in 1..Size[d]}
  BY DEF Conversions
<1> DEFINE s == Size[d]
           row == [i \in 1..s |-> [doc |-> d, id |-> n * s + i, name |-> naming[i]]]
<1>2. s \in Nat \ {0} /\ naming \in [1..s -> Names \cup {NoName}]
  BY WriterAssumption
<1>3. n * s \in Nat
  BY <1>2
<1>4. \A p \in C : p.id \in Nat /\ p.name \in Names \cup {NoName}
  <2> SUFFICES ASSUME NEW i \in 1..s
               PROVE  n * s + i \in Nat /\ naming[i] \in Names \cup {NoName}
    BY <1>1
  <2> DEFINE K == n * s
  <2>1. K \in Nat
    BY <1>3
  <2> HIDE DEF K
  <2>2. K + i \in Nat
    BY <1>2, <2>1
  <2> QED
    BY <1>2, <2>2 DEF K
<1>5. row \in Surjection(1..s, C)
  BY <1>1 DEF Surjection
<1>6. IsFiniteSet(1..s)
  <2>1. s \in Int
    BY <1>2
  <2> HIDE DEF s
  <2> QED
    BY <2>1, FS_Interval
<1> HIDE DEF row, s
<1>7. IsFiniteSet(C)
  BY <1>5, <1>6, FS_Surjection
<1> QED
  BY <1>4, <1>7 DEF Rows

\* A page is the lowest of what is left.
LEMMA PagesAscend ==
    ASSUME NEW d, IsFiniteSet(Unread(d)), \A p \in Unread(d) : p.id \in Nat
    PROVE  \A p \in Unread(d) \ Page(d) : \A r \in Page(d) : r.id < p.id
<1> SUFFICES ASSUME NEW p \in Unread(d) \ Page(d), NEW r \in Page(d), ~ (r.id < p.id)
             PROVE  FALSE
  OBVIOUS
<1> DEFINE Below(x) == {q \in Unread(d) : q.id < x.id}
<1>1. r \in Unread(d) /\ Cardinality(Below(r)) < PageSize /\ ~ (Cardinality(Below(p)) < PageSize)
  BY DEF Page
<1>2. Below(p) \subseteq Below(r) /\ Below(r) \subseteq Unread(d)
  BY <1>1
<1> HIDE DEF Below
<1>3. IsFiniteSet(Below(r))
  BY <1>2, FS_Subset
<1>4. IsFiniteSet(Below(p)) /\ Cardinality(Below(p)) <= Cardinality(Below(r))
  BY <1>2, <1>3, FS_Subset
<1>5. Cardinality(Below(p)) \in Nat /\ Cardinality(Below(r)) \in Nat /\ PageSize \in Nat
  BY <1>3, <1>4, FS_CardinalityType, WriterAssumption
<1> QED
  BY <1>1, <1>4, <1>5

LEMMA AsideName ==
    ASSUME NEW d \in Docs, NameInv(d), Aside(d)
    PROVE  NameInv(d)'
BY DEF NameInv, Aside, Rows, OneName, Frequency, SameId

\* A step that neither scrolls nor renames, nor says done.
LEMMA OtherName ==
    ASSUME NEW d \in Docs, Rows(chunks[d])', read'[d] = {}, status'[d] # "done",
           at'[d] \notin {"rename", "commit"},
           at'[d] = "scroll" => Of(points, d)' = chunks'[d]
    PROVE  NameInv(d)'
BY DEF NameInv

\* The actions of a run, each for its own document.
LEMMA NameStep ==
    ASSUME NEW e \in Docs, Inv, NameInv(e), RunStep(e) \/ Reconfirm(e)
    PROVE  NameInv(e)'
<1> USE DEF Inv, docVars, runVars
<1>1. Shape' /\ RunInv(e)'
  BY RunGood DEF Good
<1>2. at'[e] # "idle" => status'[e] = "confirmed"
  BY <1>1 DEF RunInv
<1>3. CASE Reconfirm(e)
  <2> USE <1>3 DEF Reconfirm, Shape
  <2>1. PICK new \in Conversions(e, conversion[e] + 1) : chunks' = [chunks EXCEPT ![e] = new]
    OBVIOUS
  <2>2. Rows(new) /\ chunks'[e] = new
    BY <2>1, ConversionRows
  <2>3. Rows(chunks[e])'
    BY <2>2 DEF Rows
  <2>4. read'[e] = {} /\ status'[e] = "confirmed" /\ at'[e] = "idle"
    BY DEF NameInv
  <2> QED
    BY <2>3, <2>4, OtherName
<1>4. CASE RunStep(e)
  <2>1. chunks' = chunks /\ Rows(chunks[e])'
    BY <1>4 DEF RunStep, Begin, Embedded, EmbedRaises, Clear, Upsert, UpsertRaises, Undo, Abort,
       Scroll, Rename, Done, RunRaises, GiveUp, NameInv, Rows
  <2>2. CASE Begin(e) \/ Embedded(e) \/ EmbedRaises(e) \/ Clear(e) \/ UpsertRaises(e) \/ Undo(e) \/ GiveUp(e)
    <3> USE DEF Begin, Embedded, EmbedRaises, Clear, UpsertRaises, Undo, GiveUp
    <3>1. \E l \in {"embed", "clear", "abort", "upsert", "undo", "idle"} : at'[e] = l
      BY <2>2 DEF Goto, Shape
    <3>2. read'[e] = {}
      BY <2>2 DEF NameInv
    <3>3. status'[e] # "done"
      BY <2>2 DEF RunInv, Shape
    <3> QED
      BY <2>1, <3>1, <3>2, <3>3, OtherName
  <2>3. CASE Abort(e) \/ RunRaises(e)
    <3>1. at'[e] \in {"idle", "giveup"} /\ status'[e] # "done"
      BY <2>3 DEF Abort, RunRaises, Finish, Goto, Shape, RunInv
    <3>2. read'[e] = {}
      BY <2>3, Resets DEF Abort, RunRaises, Finish
    <3> QED
      BY <2>1, <3>1, <3>2, OtherName
  <2>4. CASE Upsert(e)
    <3> USE <2>4 DEF Upsert
    <3>1. PICK batch \in Batches(todo[e]) :
            /\ points' = Upserted(batch)
            /\ Goto(e, IF batch = todo[e] THEN "scroll" ELSE "upsert")
      OBVIOUS
    <3>2. at'[e] = IF batch = todo[e] THEN "scroll" ELSE "upsert"
      BY <3>1, Goes DEF Locations
    <3>3. Of(points, e)' = chunks[e] \ (todo[e] \ batch)
      BY <3>1, BatchMoves
    <3>4. read'[e] = {} /\ status'[e] # "done"
      BY DEF NameInv, RunInv
    <3> QED
      BY <2>1, <3>2, <3>3, <3>4, OtherName
  <2>5. CASE Scroll(e)
    <3> USE <2>5 DEF Scroll
    <3> DEFINE C == chunks[e]
               R == read[e]
    <3>1. /\ Of(points, e) = C /\ R \subseteq C /\ Rows(C)
          /\ \A p \in C \ R : \A r \in R : r.id < p.id
      BY DEF NameInv
    <3>2. Unread(e) = C \ R
      <4>1. \A r \in R : ~ (r.id < r.id)
        BY <3>1 DEF Rows
      <4>2. PointsOf(e) = C
        BY <3>1 DEF PointsOf, Of
      <4> QED
        BY <3>1, <4>1, <4>2 DEF Unread
    <3>3. IsFiniteSet(Unread(e)) /\ \A p \in Unread(e) : p.id \in Nat
      <4>1. IsFiniteSet(C) /\ C \ R \subseteq C
        BY <3>1 DEF Rows
      <4>2. IsFiniteSet(C \ R)
        BY <4>1, FS_Subset
      <4> QED
        BY <3>1, <3>2, <4>2 DEF Rows
    <3>4. \A p \in Unread(e) \ Page(e) : \A r \in Page(e) : r.id < p.id
      BY <3>3, PagesAscend
    <3>5. Page(e) \subseteq Unread(e)
      BY DEF Page
    <3>6. read'[e] = R \cup Page(e) /\ points' = points /\ status'[e] # "done"
      BY DEF Shape, RunInv
    <3>7. at'[e] = IF LastPage(e) THEN "rename" ELSE "scroll"
      BY Goes DEF Locations
    <3>8. /\ read'[e] \subseteq C
          /\ \A p \in C \ read'[e] : \A r \in read'[e] : r.id < p.id
      BY <3>1, <3>2, <3>4, <3>5, <3>6
    <3>9. LastPage(e) => read'[e] = C
      BY <3>1, <3>2, <3>6 DEF LastPage
    <3>10. Of(points, e)' = C /\ chunks'[e] = C
      BY <2>1, <3>1, <3>6 DEF Of
    <3> HIDE DEF C, R
    <3> QED
      BY <2>1, <3>6, <3>7, <3>8, <3>9, <3>10 DEF NameInv
  <2>6. CASE Rename(e)
    <3> USE <2>6 DEF Rename
    <3> DEFINE C == chunks[e]
    <3>1. Of(points, e) = C /\ read[e] = C /\ Rows(C)
      BY DEF NameInv
    <3>2. points' = Renamed(C) /\ at'[e] = "commit" /\ chunks'[e] = C
      BY <2>1, <3>1, Goes DEF Locations
    <3>3. Chunky(e, C) /\ \A p \in points : IsPoint(p)
      BY DEF RunInv, Shape
    <3>4. OneName(Of(Renamed(C), e), C)
      BY <3>1, <3>3, RenamedHasOneName
    <3>5. OneName(Of(points', e), chunks'[e])
      BY <3>2, <3>4
    <3> HIDE DEF C
    <3>6. OneName(Of(points, e), chunks[e])'
      BY <3>5 DEF OneName, Of, Frequency, SameId
    <3> QED
      BY <2>1, <3>2, <3>6 DEF NameInv
  <2>7. CASE Done(e)
    <3> USE <2>7 DEF Done
    <3>1. at'[e] = "idle" /\ read'[e] = {} /\ points' = points
      BY Goes, Resets DEF Finish, Locations
    <3>2. OneName(Of(points, e), chunks[e])
      BY DEF NameInv
    <3>3. OneName(Of(points, e), chunks[e])'
      BY <2>1, <3>1, <3>2 DEF OneName, Of, Frequency, SameId
    <3> QED
      BY <2>1, <3>1, <3>3 DEF NameInv
  <2> QED
    BY <1>4, <2>2, <2>3, <2>4, <2>5, <2>6, <2>7 DEF RunStep
<1> QED
  BY <1>3, <1>4

LEMMA NamesInvInit == Init => NamesInv
<1> SUFFICES ASSUME Init, NEW d \in Docs PROVE NameInv(d)
  BY DEF NamesInv
<1>1. Rows(chunks[d])
  BY ConversionRows DEF Init
<1> QED
  BY <1>1 DEF Init, NameInv

LEMMA NamesInvStep ==
    ASSUME Inv, NamesInv, [Next]_vars
    PROVE  NamesInv'
<1> USE DEF NamesInv
<1>1. ASSUME UNCHANGED <<docVars, points, runVars>> PROVE NamesInv'
  BY <1>1, AsideName DEF Aside, docVars, runVars, Of
<1>2. ASSUME NEW e \in Docs, RunStep(e) \/ Reconfirm(e) PROVE NamesInv'
  <2>1. \A d \in Docs \ {e} : Aside(d)
    BY <1>2, RunGood DEF Good
  <2> QED
    BY <1>2, <2>1, AsideName, NameStep
<1>3. ASSUME Crash, NEW d \in Docs PROVE NameInv(d)'
  <2>1. /\ chunks' = chunks /\ points' = points /\ status' = status
        /\ at'[d] = "idle" /\ read'[d] = {}
    BY <1>3 DEF Crash, docVars
  <2>2. Rows(chunks[d])'
    BY <2>1 DEF NameInv, Rows
  <2>3. ASSUME status[d] = "done" PROVE OneName(Of(points, d), chunks[d])'
    BY <2>1, <2>3 DEF NameInv, OneName, Of, Frequency, SameId
  <2> QED
    BY <2>1, <2>2, <2>3 DEF NameInv
<1>4. CASE UNCHANGED vars
  BY <1>1, <1>4 DEF vars
<1>5. CASE Next
  BY <1>1, <1>2, <1>3, <1>5 DEF Next, EmbeddingStep, Ask, Answer
<1> QED
  BY <1>4, <1>5

\* Whatever the names of the chunks, the pages of the scroll, the other documents
\* and the steps that fail: a document that is done answers under one product
\* name, one of the most frequent that its chunks were given, and its chunks
\* without a name have none.
THEOREM NamesAgree == Spec => []OneMajorityName
<1>1. NamesInv => OneMajorityName
  BY DEF NamesInv, NameInv, OneName, OneMajorityName, PointsOf, Of
<1>2. Inv /\ NamesInv /\ [Next]_vars => Inv' /\ NamesInv'
  BY Step, NamesInvStep
<1>3. QED
  BY <1>1, <1>2, InvInit, NamesInvInit, PTL DEF Spec

-----------------------------------------------------------------------------
(* The semaphore.  The count of slots is inductive once it is known that    *)
(* the waiters are distinct calls, none of them under way.                  *)

SlotInv ==
    /\ call \in [Calls -> {"none"} \cup Live \cup Outcomes]
    /\ queue \in Seq(Calls)
    /\ \A i \in 1..Len(queue) : call[queue[i]] = "wait"
    /\ \A i, j \in 1..Len(queue) : queue[i] = queue[j] => i = j
    /\ permits \in Nat
    /\ SlotsConserved

LEMMA CallsFinite == IsFiniteSet(Calls)
<1> DEFINE Own == [x \in Docs \X Runs |-> CallsOf(x[1], x[2])]
           Batch == {CallsOf(d, k) : d \in Docs, k \in Runs}
           Asked == [q \in Questions |-> QuestionCall(q)]
<1>1. ASSUME NEW d \in Docs, NEW k \in Runs PROVE IsFiniteSet(CallsOf(d, k))
  <2> DEFINE One == [i \in 1..Size[d] |-> <<d, k, i>>]
  <2>1. IsFiniteSet(1..Size[d])
    <3>1. Size[d] \in Int
      BY WriterAssumption
    <3>2. QED
      BY <3>1, FS_Interval
  <2>2. One \in Surjection(1..Size[d], CallsOf(d, k))
    BY DEF Surjection, CallsOf
  <2>3. QED
    BY <2>1, <2>2, FS_Surjection
<1>2. IsFiniteSet(Batch)
  <2>1. IsFiniteSet(Docs \X Runs)
    BY WriterAssumption, FS_Product
  <2>2. \A x \in Docs \X Runs : Own[x] \in Batch
    OBVIOUS
  <2>3. ASSUME NEW t \in Batch PROVE \E x \in Docs \X Runs : Own[x] = t
    <3>1. PICK d \in Docs, k \in Runs : t = CallsOf(d, k)
      OBVIOUS
    <3>2. <<d, k>> \in Docs \X Runs /\ Own[<<d, k>>] = t
      BY <3>1
    <3>3. QED
      BY <3>2
  <2>4. Own \in Surjection(Docs \X Runs, Batch)
    BY <2>2, <2>3 DEF Surjection
  <2>5. QED
    BY <2>1, <2>4, FS_Surjection
<1>3. IsFiniteSet(UNION Batch)
  BY <1>1, <1>2, FS_UNION
<1>4. IsFiniteSet({QuestionCall(q) : q \in Questions})
  <2>1. Asked \in Surjection(Questions, {QuestionCall(q) : q \in Questions})
    BY DEF Surjection
  <2>2. QED
    BY <2>1, WriterAssumption, FS_Surjection
<1>5. Calls = {QuestionCall(q) : q \in Questions} \cup (UNION Batch)
  BY DEF Calls
<1> HIDE DEF Batch
<1>6. IsFiniteSet({QuestionCall(q) : q \in Questions} \cup (UNION Batch))
  BY <1>3, <1>4, FS_Union
<1>7. QED
  BY <1>5, <1>6

LEMMA InFlightFinite == IsFiniteSet(InFlight) /\ Cardinality(InFlight) \in Nat
<1>1. InFlight \subseteq Calls
  BY DEF InFlight
<1>2. QED
  BY <1>1, CallsFinite, FS_Subset, FS_CardinalityType

\* No call is under way: every slot is free.
LEMMA AllFree ==
    ASSUME \A c \in Calls : call[c] = "none", call \in [Calls -> {"none"}],
           queue = <<>>, permits = Slots
    PROVE  SlotInv
<1>1. InFlight = {}
  BY DEF InFlight
<1>2. Cardinality(InFlight) = 0
  BY <1>1, FS_EmptySet
<1>3. Slots \in Nat
  BY WriterAssumption
<1>4. QED
  BY <1>2, <1>3 DEF SlotInv, SlotsConserved

\* Calls that begin, and outcomes taken, leave the semaphore alone.
LEMMA StartKeepsSlots ==
    ASSUME SlotInv, NEW new, \A c \in new : call[c] = "none", Start(new)
    PROVE  SlotInv'
<1> USE DEF SlotInv, Start, Live, Outcomes
<1>1. InFlight' = InFlight
  BY DEF InFlight
<1>2. \A i \in 1..Len(queue) : queue[i] \in Calls /\ queue[i] \notin new
  OBVIOUS
<1>3. \A i \in 1..Len(queue') : call'[queue'[i]] = "wait"
  BY <1>2
<1>4. QED
  BY <1>1, <1>3 DEF SlotsConserved

LEMMA GatherKeepsSlots ==
    ASSUME SlotInv, NEW mine, Gather(mine)
    PROVE  SlotInv'
<1> USE DEF SlotInv, Gather, Live, Outcomes
<1>1. InFlight' = InFlight
  BY DEF InFlight
<1>2. \A i \in 1..Len(queue) : queue[i] \in Calls
  OBVIOUS
<1>3. \A i \in 1..Len(queue') : call'[queue'[i]] = "wait"
  BY <1>2
<1>4. QED
  BY <1>1, <1>3 DEF SlotsConserved

LEMMA LoseCallsKeepsSlots ==
    ASSUME LoseCalls
    PROVE  SlotInv'
<1>1. call' = [c \in Calls |-> "none"] /\ queue' = <<>> /\ permits' = Slots
  BY DEF LoseCalls
<1>2. InFlight' = {}
  BY <1>1 DEF InFlight
<1>3. Cardinality(InFlight') = 0
  BY <1>2, FS_EmptySet
<1>4. Slots \in Nat
  BY WriterAssumption
<1>5. QED
  BY <1>1, <1>3, <1>4 DEF SlotInv, SlotsConserved

\* A call enters or leaves the flight, and its slot with it.
LEMMA CallKeepsSlots ==
    ASSUME SlotInv, NEW c \in Calls, CallStep(c)
    PROVE  SlotInv'
<1> USE DEF SlotInv, Live, Outcomes
<1>1. \A i \in 1..Len(queue) : queue[i] \in Calls
  OBVIOUS
<1>2. CASE GetToken(c)
  <2> USE <1>2 DEF GetToken
  <2>1. InFlight' = InFlight
    BY DEF InFlight
  <2>2. Len(queue') = Len(queue) + 1 /\ queue' \in Seq(Calls)
        /\ \A i \in 1..Len(queue') : queue'[i] = IF i <= Len(queue) THEN queue[i] ELSE c
    OBVIOUS
  <2>3. \A i \in 1..Len(queue) : queue[i] # c
    OBVIOUS
  <2>4. \A i \in 1..Len(queue') : call'[queue'[i]] = "wait"
    BY <1>1, <2>2, <2>3
  <2>5. \A i, j \in 1..Len(queue') : queue'[i] = queue'[j] => i = j
    BY <2>2, <2>3
  <2>6. QED
    BY <2>1, <2>2, <2>4, <2>5 DEF SlotsConserved
<1>3. CASE TokenFails(c) \/ Retry(c)
  <2> USE <1>3 DEF TokenFails, Retry, End
  <2>1. InFlight' = InFlight
    BY DEF InFlight
  <2>2. \A i \in 1..Len(queue') : call'[queue'[i]] = "wait"
    BY <1>1
  <2>3. QED
    BY <2>1, <2>2 DEF SlotsConserved
<1>4. CASE Post(c)
  <2> USE <1>4 DEF Post, Permit
  <2>1. Len(queue) >= 1 /\ c = queue[1] /\ call[c] = "wait"
    OBVIOUS
  <2>2. Len(queue') = Len(queue) - 1 /\ queue' \in Seq(Calls)
        /\ \A i \in 1..Len(queue') : queue'[i] = queue[i + 1]
    BY <2>1
  <2>3. \A i \in 1..Len(queue') : queue'[i] # c /\ queue'[i] \in Calls
    BY <1>1, <2>1, <2>2
  <2>4. \A i \in 1..Len(queue') : call'[queue'[i]] = "wait"
    BY <2>2, <2>3
  <2>5. \A i, j \in 1..Len(queue') : queue'[i] = queue'[j] => i = j
    BY <2>2
  <2>6. InFlight' = InFlight \cup {c} /\ c \notin InFlight
    BY <2>1 DEF InFlight
  <2>7. Cardinality(InFlight') = Cardinality(InFlight) + 1
    BY <2>6, InFlightFinite, FS_AddElement
  <2>8. permits' \in Nat /\ permits' + Cardinality(InFlight') = Slots
    BY <2>7, InFlightFinite DEF SlotsConserved
  <2>9. call' \in [Calls -> {"none"} \cup Live \cup Outcomes]
    OBVIOUS
  <2>10. QED
    BY <2>2, <2>4, <2>5, <2>8, <2>9 DEF SlotsConserved
<1>5. CASE Answered(c) \/ Refused(c) \/ Transient(c)
  <2> USE <1>5 DEF Answered, Refused, Transient, End, FreeSlot
  <2>1. call[c] = "flight" /\ permits' = permits + 1 /\ queue' = queue
    OBVIOUS
  <2>2. \E k \in {"none", "backoff"} \cup Outcomes : call' = [call EXCEPT ![c] = k]
    OBVIOUS
  <2>3. InFlight' = InFlight \ {c} /\ c \in InFlight
    BY <2>1, <2>2 DEF InFlight
  <2>4. Cardinality(InFlight') = Cardinality(InFlight) - 1
    BY <2>3, InFlightFinite, FS_RemoveElement
  <2>5. \A i \in 1..Len(queue') : call'[queue'[i]] = "wait"
    BY <1>1, <2>1, <2>2
  <2>6. call' \in [Calls -> {"none"} \cup Live \cup Outcomes]
    BY <2>2
  <2>7. QED
    BY <2>1, <2>4, <2>5, <2>6, InFlightFinite DEF SlotsConserved
<1>6. QED
  BY <1>2, <1>3, <1>4, <1>5 DEF CallStep

LEMMA StepKeepsSlots ==
    ASSUME SlotInv, [Next]_vars
    PROVE  SlotInv'
<1>1. CASE UNCHANGED clientVars
  BY <1>1 DEF SlotInv, SlotsConserved, InFlight, clientVars
<1>2. ASSUME NEW e \in Docs, Begin(e) PROVE SlotInv'
  BY <1>2, StartKeepsSlots DEF Begin
<1>3. ASSUME NEW e \in Docs, Embedded(e) \/ EmbedRaises(e) PROVE SlotInv'
  BY <1>3, GatherKeepsSlots DEF Embedded, EmbedRaises
<1>4. ASSUME NEW q \in Questions, Ask(q) \/ Answer(q) PROVE SlotInv'
  BY <1>4, StartKeepsSlots, GatherKeepsSlots DEF Ask, Answer
<1>5. ASSUME NEW c \in Calls, EmbeddingStep(c) PROVE SlotInv'
  BY <1>5, CallKeepsSlots DEF EmbeddingStep
<1>6. CASE Crash
  BY <1>6, LoseCallsKeepsSlots DEF Crash
<1>7. ASSUME NEW e \in Docs,
             RunStep(e) \/ Reconfirm(e), ~Begin(e), ~Embedded(e), ~EmbedRaises(e)
      PROVE  SlotInv'
  <2>1. UNCHANGED clientVars
    BY <1>7 DEF RunStep, Reconfirm, Clear, Upsert, UpsertRaises, Undo, Abort, Scroll,
       Rename, Done, RunRaises, GiveUp
  <2>2. QED
    BY <1>1, <2>1
<1>8. CASE UNCHANGED vars
  BY <1>1, <1>8 DEF vars
<1>9. QED
  BY <1>2, <1>3, <1>4, <1>5, <1>6, <1>7, <1>8 DEF Next, RunStep

\* Whatever the outcomes, the retries, the calls a failed gather leaves behind
\* and the crashes, no slot of the semaphore leaks or is used twice.  For any
\* number of slots, calls and attempts.
THEOREM NoSlotLeaks == Spec => []SlotsConserved
<1>1. Init => SlotInv
  BY AllFree DEF Init, EmbedInit
<1>2. SlotInv => SlotsConserved
  BY DEF SlotInv
<1>3. QED
  BY <1>1, <1>2, StepKeepsSlots, PTL DEF Spec
-----------------------------------------------------------------------------
(* The types.                                                               *)

DocTypeOK ==
    /\ status \in [Docs -> {"confirmed", "done", "failed"}]
    /\ conversion \in [Docs -> Nat]
    /\ chunks \in [Docs -> SUBSET Chunk]
    /\ run \in [Docs -> Runs]
    /\ todo \in [Docs -> SUBSET Chunk]
    /\ read \in [Docs -> SUBSET Chunk]
    /\ faults \in Nat

Typed == DocTypeOK /\ points \subseteq Chunk /\ tries \in [Calls -> Nat]

\* Rows of a document that have numbers and names are chunks.
LEMMA RowsAreChunks ==
    ASSUME NEW d \in Docs, NEW C, Rows(C), Chunky(d, C)
    PROVE  C \subseteq Chunk
BY DEF Rows, Chunky, IsPoint, Chunk

\* The name given to a minority is one that was read.
LEMMA RenamedTyped ==
    ASSUME NEW C, Rows(C), \A p, r \in C : p.id = r.id => p = r, points \subseteq Chunk
    PROVE  Renamed(C) \subseteq Chunk
<1> DEFINE M == MajorityName(C)
<1>1. SUFFICES ASSUME NEW p \in points, NEW r \in Minority(C)
               PROVE  [p EXCEPT !.name = M] \in Chunk
  BY DEF Renamed
<1>2. NamesIn(C) # {}
  BY DEF Minority, NamesIn
<1>3. M \in NamesIn(C)
  BY <1>2, MajorityIs
<1>4. M \in Names \cup {NoName}
  BY <1>3 DEF NamesIn, Rows
<1> HIDE DEF M
<1> QED
  BY <1>4 DEF Chunk

LEMMA PointsTyped ==
    ASSUME Inv, NamesInv, Typed, NEW e \in Docs, RunStep(e)
    PROVE  points' \subseteq Chunk
<1> USE DEF Typed, DocTypeOK
<1>1. \A batch \in Batches(todo[e]) : Upserted(batch) \subseteq Chunk
  BY DEF Batches, Upserted
<1>2. Cleared(e) \subseteq Chunk /\ RolledBack(e) \subseteq Chunk
  BY DEF Cleared, RolledBack
<1>3. at[e] = "rename" => Renamed(read[e]) \subseteq Chunk
  <2> SUFFICES ASSUME at[e] = "rename" PROVE Renamed(read[e]) \subseteq Chunk
    OBVIOUS
  <2>1. read[e] = chunks[e] /\ Rows(chunks[e]) /\ Chunky(e, chunks[e])
    BY DEF NamesInv, NameInv, Inv, RunInv
  <2> QED
    BY <2>1, RenamedTyped DEF Chunky
<1>4. \/ UNCHANGED points
      \/ \E batch \in Batches(todo[e]) : points' = Upserted(batch)
      \/ points' \in {Cleared(e), RolledBack(e)}
      \/ at[e] = "rename" /\ points' = Renamed(read[e])
  BY DEF RunStep, Begin, Embedded, EmbedRaises, Clear, Upsert, UpsertRaises, Undo, Abort,
     Scroll, Rename, Done, RunRaises, GiveUp
<1> QED
  BY <1>1, <1>2, <1>3, <1>4

LEMMA DocTyped ==
    ASSUME Inv, NamesInv, Typed, NEW e \in Docs, RunStep(e) \/ Reconfirm(e)
    PROVE  DocTypeOK'
<1> USE DEF Typed, DocTypeOK, docVars, runVars
<1>1. CASE Reconfirm(e)
  <2> USE <1>1 DEF Reconfirm
  <2>1. PICK new \in Conversions(e, conversion[e] + 1) : chunks' = [chunks EXCEPT ![e] = new]
    OBVIOUS
  <2>2. new \subseteq Chunk
    BY <2>1, ConversionRows, ConversionChunky, RowsAreChunks
  <2>3. chunks' \in [Docs -> SUBSET Chunk]
    BY <2>1, <2>2
  <2> QED
    BY <2>3
<1>2. CASE Begin(e) \/ Embedded(e) \/ EmbedRaises(e) \/ Rename(e) \/ GiveUp(e)
  BY <1>2 DEF Begin, Embedded, EmbedRaises, Rename, GiveUp
<1>3. CASE UpsertRaises(e) \/ Undo(e)
  BY <1>3 DEF UpsertRaises, Undo, Fault
<1>4. CASE Abort(e) \/ Done(e)
  BY <1>4 DEF Abort, Done, Finish, Reset
<1>5. CASE RunRaises(e)
  BY <1>5 DEF RunRaises, Fault, Reset
<1>6. CASE Clear(e) \/ Upsert(e)
  BY <1>6 DEF Clear, Upsert
<1>7. CASE Scroll(e)
  <2>1. Page(e) \subseteq Chunk
    BY DEF Page, Unread, PointsOf
  <2> QED
    BY <1>7, <2>1 DEF Scroll
<1> QED
  BY <1>1, <1>2, <1>3, <1>4, <1>5, <1>6, <1>7 DEF RunStep

LEMMA TriesTyped ==
    ASSUME tries \in [Calls -> Nat], [Next]_vars
    PROVE  tries' \in [Calls -> Nat]
<1>1. CASE UNCHANGED tries
  BY <1>1
<1>2. ASSUME NEW c \in Calls, EmbeddingStep(c) PROVE tries' \in [Calls -> Nat]
  BY <1>2 DEF EmbeddingStep, CallStep, GetToken, TokenFails, Post, Answered, Refused, Transient,
     Retry, End, FailedAttempt
<1>3. CASE Crash
  BY <1>3 DEF Crash, LoseCalls
<1>4. CASE ~ Crash /\ ~ \E c \in Calls : EmbeddingStep(c)
  <2>1. UNCHANGED tries
    BY <1>4 DEF Next, RunStep, Begin, Embedded, EmbedRaises, Clear, Upsert, UpsertRaises, Undo,
       Abort, Scroll, Rename, Done, RunRaises, GiveUp, Reconfirm, Ask, Answer, Start, Gather,
       clientVars, vars
  <2> QED
    BY <1>1, <2>1
<1> QED
  BY <1>2, <1>3, <1>4

LEMMA TypedInit == Init => Typed
<1> SUFFICES ASSUME Init PROVE Typed
  OBVIOUS
<1>1. \A d \in Docs : chunks[d] \subseteq Chunk
  BY ConversionRows, ConversionChunky, RowsAreChunks DEF Init
<1>2. DOMAIN chunks = Docs /\ chunks = [d \in Docs |-> chunks[d]]
  BY DEF Init
<1>3. (CHOOSE k \in Runs : TRUE) \in Runs
  BY WriterAssumption
<1> QED
  BY <1>1, <1>2, <1>3 DEF Init, EmbedInit, Typed, DocTypeOK

LEMMA TypedStep ==
    ASSUME Inv, NamesInv, Typed, [Next]_vars
    PROVE  Typed'
<1>1. tries' \in [Calls -> Nat]
  BY TriesTyped DEF Typed
<1>2. ASSUME UNCHANGED <<docVars, points, runVars, faults>> PROVE Typed'
  BY <1>1, <1>2 DEF Typed, DocTypeOK, docVars, runVars
<1>3. ASSUME NEW e \in Docs, RunStep(e) PROVE Typed'
  BY <1>1, <1>3, PointsTyped, DocTyped DEF Typed
<1>4. ASSUME NEW e \in Docs, Reconfirm(e) PROVE Typed'
  <2>1. points' = points
    BY <1>4 DEF Reconfirm
  <2> QED
    BY <1>1, <1>4, <2>1, DocTyped DEF Typed
<1>5. CASE Crash
  BY <1>1, <1>5 DEF Crash, Fault, Typed, DocTypeOK, docVars
<1>6. CASE UNCHANGED vars
  BY <1>2, <1>6 DEF vars
<1> QED
  BY <1>2, <1>3, <1>4, <1>5, <1>6 DEF Next, EmbeddingStep, Ask, Answer

\* Every variable keeps its type, whatever the documents, names and calls are: the
\* only value that is computed, the majority name, is a name.
THEOREM TypeCorrect == Spec => []TypeOK
<1>1. Inv /\ SlotInv /\ Typed => TypeOK
  BY DEF Inv, Shape, Locations, SlotInv, Typed, DocTypeOK, TypeOK, EmbedTypeOK
<1>2. Init => SlotInv
  BY AllFree DEF Init, EmbedInit
<1>3. Inv /\ NamesInv /\ SlotInv /\ Typed /\ [Next]_vars
        => Inv' /\ NamesInv' /\ SlotInv' /\ Typed'
  BY Step, NamesInvStep, StepKeepsSlots, TypedStep
<1>4. QED
  BY <1>1, <1>2, <1>3, InvInit, NamesInvInit, TypedInit, PTL DEF Spec
-----------------------------------------------------------------------------
(* No call is lost: what RunEnds and QuestionEnds rest on.  The head of the  *)
(* queue is given a permit or there is a call under way that will free one, *)
(* a call is started over a bounded number of times, and a run that awaits  *)
(* its calls finds each of them under way or ended.                         *)

Waited == \A c \in Calls : call[c] = "wait" => \E i \in 1..Len(queue) : queue[i] = c

Tried == \A c \in Calls : tries[c] < Attempts

Owed == \A d \in Docs : at[d] = "embed" => \A c \in CallsOf(d, run[d]) : call[c] # "none"

MovesOn == queue # <<>> => permits > 0 \/ InFlight # {}

CallsKept == Waited /\ Tried /\ Owed /\ MovesOn

LEMMA SlotsMoveOn ==
    ASSUME SlotInv
    PROVE  MovesOn
<1> SUFFICES ASSUME permits = 0, InFlight = {} PROVE FALSE
  BY DEF SlotInv, MovesOn
<1>1. Cardinality(InFlight) = 0
  BY FS_EmptySet
<1> QED
  BY <1>1, WriterAssumption DEF SlotInv, SlotsConserved

LEMMA CallsApart ==
    ASSUME NEW d \in Docs, NEW k, NEW c \in CallsOf(d, k)
    PROVE  /\ \A e \in Docs, j \in Runs : e # d => c \notin CallsOf(e, j)
           /\ \A q \in Questions : c # QuestionCall(q)
BY WriterAssumption DEF CallsOf, QuestionCall

LEMMA TriedStep ==
    ASSUME tries \in [Calls -> Nat], Tried, [Next]_vars
    PROVE  Tried'
<1>1. CASE UNCHANGED tries
  BY <1>1 DEF Tried
<1>2. ASSUME NEW c \in Calls, EmbeddingStep(c) PROVE Tried'
  <2>1. \/ UNCHANGED tries
        \/ tries' = [tries EXCEPT ![c] = 0]
        \/ tries[c] + 1 < Attempts /\ tries' = [tries EXCEPT ![c] = tries[c] + 1]
    BY <1>2 DEF EmbeddingStep, CallStep, GetToken, TokenFails, Post, Answered, Refused, Transient,
       Retry, End, FailedAttempt
  <2>2. 0 < Attempts
    BY WriterAssumption
  <2> QED
    BY <1>1, <2>1, <2>2 DEF Tried
<1>3. CASE Crash
  BY <1>3, WriterAssumption DEF Crash, LoseCalls, Tried
<1>4. CASE ~ Crash /\ ~ \E c \in Calls : EmbeddingStep(c)
  <2>1. UNCHANGED tries
    BY <1>4 DEF Next, RunStep, Begin, Embedded, EmbedRaises, Clear, Upsert, UpsertRaises, Undo,
       Abort, Scroll, Rename, Done, RunRaises, GiveUp, Reconfirm, Ask, Answer, Start, Gather,
       clientVars, vars
  <2> QED
    BY <1>1, <2>1
<1> QED
  BY <1>2, <1>3, <1>4

\* A caller's part in the queue: what starts or is taken does not wait.
LEMMA WaitedAside ==
    ASSUME SlotInv, Waited, NEW S, Start(S) \/ Gather(S)
    PROVE  Waited'
BY DEF SlotInv, Waited, Start, Gather

LEMMA WaitedStep ==
    ASSUME SlotInv, Waited, [Next]_vars
    PROVE  Waited'
<1>1. CASE UNCHANGED clientVars
  BY <1>1 DEF Waited, clientVars
<1>2. ASSUME NEW c \in Calls, EmbeddingStep(c) PROVE Waited'
  <2> USE DEF SlotInv, Waited
  <2>1. CASE GetToken(c)
    <3> USE <2>1 DEF GetToken
    <3>1. Len(queue') = Len(queue) + 1
          /\ \A i \in 1..Len(queue') : queue'[i] = IF i <= Len(queue) THEN queue[i] ELSE c
      OBVIOUS
    <3>2. Len(queue) \in Nat /\ Len(queue') \in 1..Len(queue')
      BY <3>1
    <3>3. queue'[Len(queue')] = c
      BY <3>1, <3>2
    <3>4. ASSUME NEW b \in Calls, b # c, call[b] = "wait" PROVE \E i \in 1..Len(queue') : queue'[i] = b
      <4>1. PICK i \in 1..Len(queue) : queue[i] = b
        BY <3>4
      <4> QED
        BY <3>1, <3>2, <4>1
    <3> QED
      BY <3>2, <3>3, <3>4
  <2>2. CASE Post(c)
    <3> USE <2>2 DEF Post
    <3>1. Len(queue) >= 1 /\ c = queue[1]
      OBVIOUS
    <3>2. Len(queue') = Len(queue) - 1 /\ \A i \in 1..Len(queue') : queue'[i] = queue[i + 1]
      BY <3>1
    <3>3. ASSUME NEW b \in Calls, call'[b] = "wait" PROVE \E i \in 1..Len(queue') : queue'[i] = b
      <4>1. b # c /\ call[b] = "wait"
        BY <3>3
      <4>2. PICK i \in 1..Len(queue) : queue[i] = b
        BY <4>1
      <4>3. i - 1 \in 1..Len(queue') /\ (i - 1) + 1 = i
        BY <3>1, <3>2, <4>1, <4>2
      <4> QED
        BY <3>2, <4>2, <4>3
    <3> QED
      BY <3>3
  <2>3. CASE TokenFails(c) \/ Retry(c) \/ Answered(c) \/ Refused(c) \/ Transient(c)
    <3>1. UNCHANGED queue
          /\ \E k \in {"none", "token", "backoff"} \cup Outcomes : call' = [call EXCEPT ![c] = k]
      BY <2>3 DEF TokenFails, Retry, Answered, Refused, Transient, End, Outcomes
    <3> QED
      BY <3>1 DEF Outcomes
  <2> QED
    BY <1>2, <2>1, <2>2, <2>3 DEF EmbeddingStep, CallStep
<1>3. ASSUME NEW e \in Docs, Begin(e) \/ Embedded(e) \/ EmbedRaises(e) PROVE Waited'
  BY <1>3, WaitedAside DEF Begin, Embedded, EmbedRaises
<1>4. ASSUME NEW q \in Questions, Ask(q) \/ Answer(q) PROVE Waited'
  BY <1>4, WaitedAside DEF Ask, Answer
<1>5. CASE Crash
  BY <1>5 DEF Crash, LoseCalls, Waited
<1>6. ASSUME NEW e \in Docs,
             RunStep(e) \/ Reconfirm(e), ~Begin(e), ~Embedded(e), ~EmbedRaises(e)
      PROVE  Waited'
  <2>1. UNCHANGED clientVars
    BY <1>6 DEF RunStep, Reconfirm, Clear, Upsert, UpsertRaises, Undo, Abort, Scroll,
       Rename, Done, RunRaises, GiveUp
  <2> QED
    BY <1>1, <2>1
<1>7. CASE UNCHANGED vars
  BY <1>1, <1>7 DEF vars
<1> QED
  BY <1>2, <1>3, <1>4, <1>5, <1>6, <1>7 DEF Next, RunStep

\* A call that ends while its run awaits it keeps its outcome; nobody else's
\* gather takes it.
LEMMA OwedStep ==
    ASSUME SlotInv, at \in [Docs -> Locations], run \in [Docs -> Runs], Owed, [Next]_vars
    PROVE  Owed'
<1>1. \A d \in Docs : CallsOf(d, run[d]) \subseteq Calls
  BY DEF Calls
<1>2. ASSUME NEW e \in Docs, RunStep(e) \/ Reconfirm(e), ~Begin(e), ~Embedded(e), ~EmbedRaises(e)
      PROVE  Owed'
  <2>1. UNCHANGED <<call, run>> /\ \E l \in Locations \ {"embed"} : at' = at \/ at' = [at EXCEPT ![e] = l]
    BY <1>2 DEF RunStep, Reconfirm, Clear, Upsert, UpsertRaises, Undo, Abort, Scroll,
       Rename, Done, RunRaises, GiveUp, clientVars, runVars, Finish, Reset, Goto, Locations
  <2> QED
    BY <2>1 DEF Owed
<1>3. ASSUME NEW e \in Docs, Begin(e) PROVE Owed'
  <2>1. PICK k \in Runs : run' = [run EXCEPT ![e] = k] /\ Start(CallsOf(e, k))
    BY <1>3 DEF Begin
  <2>2. at' = [at EXCEPT ![e] = "embed"]
    BY <1>3 DEF Begin, Goto
  <2>3. CallsOf(e, k) \subseteq Calls
    BY DEF Calls
  <2>4. \A c \in CallsOf(e, run'[e]) : call'[c] # "none"
    BY <2>1, <2>3 DEF Start
  <2>5. ASSUME NEW d \in Docs, d # e, at'[d] = "embed" PROVE \A c \in CallsOf(d, run'[d]) : call'[c] # "none"
    <3>1. at[d] = "embed" /\ run'[d] = run[d]
      BY <2>1, <2>2, <2>5
    <3> QED
      BY <1>1, <2>1, <3>1 DEF Start, Owed
  <2> QED
    BY <2>4, <2>5 DEF Owed
<1>4. ASSUME NEW e \in Docs, Embedded(e) \/ EmbedRaises(e) PROVE Owed'
  <2>1. run' = run /\ Gather(CallsOf(e, run[e])) /\ at'[e] # "embed"
        /\ \A d \in Docs : d # e => at'[d] = at[d]
    BY <1>4 DEF Embedded, EmbedRaises, Goto
  <2>2. ASSUME NEW d \in Docs, at'[d] = "embed", NEW c \in CallsOf(d, run[d]) PROVE call'[c] # "none"
    <3>1. d # e /\ at[d] = "embed"
      BY <2>1, <2>2
    <3>2. c \notin CallsOf(e, run[e])
      BY <3>1, CallsApart
    <3> QED
      BY <1>1, <2>1, <3>1, <3>2 DEF Gather, Owed
  <2> QED
    BY <2>1, <2>2 DEF Owed
<1>5. ASSUME NEW q \in Questions, Ask(q) \/ Answer(q) PROVE Owed'
  <2>1. UNCHANGED <<at, run>> /\ (Start({QuestionCall(q)}) \/ Gather({QuestionCall(q)}))
    BY <1>5 DEF Ask, Answer, runVars
  <2>2. ASSUME NEW d \in Docs, at[d] = "embed", NEW c \in CallsOf(d, run[d]) PROVE call'[c] # "none"
    <3>1. c # QuestionCall(q)
      BY CallsApart
    <3> QED
      BY <1>1, <2>1, <2>2, <3>1 DEF Start, Gather, Owed
  <2> QED
    BY <2>1, <2>2 DEF Owed
<1>6. ASSUME NEW c \in Calls, EmbeddingStep(c) PROVE Owed'
  <2>1. UNCHANGED <<at, run>>
    BY <1>6 DEF EmbeddingStep, runVars
  <2>2. ASSUME NEW d \in Docs, at[d] = "embed", NEW b \in CallsOf(d, run[d]) PROVE call'[b] # "none"
    <3>1. call[b] # "none" /\ b \in Calls
      BY <1>1, <2>2 DEF Owed
    <3>2. b \in {QuestionCall(q) : q \in Questions}
                 \cup UNION {CallsOf(x, run[x]) : x \in {x \in Docs : at[x] = "embed"}}
      BY <2>2
    <3>3. \E k \in Live \cup Outcomes \cup {"none"} :
              call' = [call EXCEPT ![c] = k] /\ (c = b => k # "none")
      BY <1>6, <3>2 DEF EmbeddingStep, CallStep, GetToken, TokenFails, Post, Answered, Refused,
         Transient, Retry, End, Live, Outcomes
    <3> QED
      BY <3>1, <3>3 DEF SlotInv
  <2> QED
    BY <2>1, <2>2 DEF Owed
<1>7. CASE Crash
  BY <1>7 DEF Crash, Owed
<1>8. CASE UNCHANGED vars
  BY <1>8 DEF vars, runVars, clientVars, Owed
<1> QED
  BY <1>2, <1>3, <1>4, <1>5, <1>6, <1>7, <1>8 DEF Next, RunStep

\* No call of the embedding client is lost: a waiting call is in the queue, a queue
\* has a free slot or a call under way that holds one, a call is retried less often
\* than stop_after_attempt, and a run whose gather is awaited finds each of its calls
\* under way or ended.
THEOREM CallsAreKept == Spec => []CallsKept
<1>1. Init => SlotInv /\ Waited /\ Tried /\ Owed
  <2>1. Init => SlotInv
    BY AllFree DEF Init, EmbedInit
  <2> QED
    BY <2>1, WriterAssumption DEF Init, EmbedInit, Waited, Tried, Owed
<1>2. Inv /\ NamesInv /\ SlotInv /\ Typed /\ Waited /\ Tried /\ Owed /\ [Next]_vars
        => Inv' /\ NamesInv' /\ SlotInv' /\ Typed' /\ Waited' /\ Tried' /\ Owed'
  <2>1. Inv /\ Typed => at \in [Docs -> Locations] /\ run \in [Docs -> Runs] /\ tries \in [Calls -> Nat]
    BY DEF Inv, Shape, Typed, DocTypeOK
  <2> QED
    BY <2>1, Step, NamesInvStep, StepKeepsSlots, TypedStep, WaitedStep, TriedStep, OwedStep
<1>3. SlotInv /\ Waited /\ Tried /\ Owed => CallsKept
  BY SlotsMoveOn DEF CallsKept
<1>4. QED
  BY <1>1, <1>2, <1>3, InvInit, NamesInvInit, TypedInit, PTL DEF Spec
-----------------------------------------------------------------------------
(* A run is never in a circle: the other half of what RunEnds rests on.     *)

\* Where a run is on its way.
Stage(location) ==
    CASE location = "embed"  -> 8
      [] location = "clear"  -> 7
      [] location = "upsert" -> 6
      [] location = "scroll" -> 5
      [] location = "rename" -> 4
      [] location = "commit" -> 3
      [] location = "undo"   -> 2
      [] location \in {"abort", "giveup"} -> 1
      [] OTHER -> 0

\* It is over, a stage on, or at the same stage with less to write or more read.
Nearer(d) ==
    \/ at'[d] = "idle"
    \/ Stage(at'[d]) < Stage(at[d])
    \/ at[d] = "upsert" /\ at'[d] = "upsert" /\ todo'[d] \subseteq todo[d] /\ todo'[d] # todo[d]
    \/ at[d] = "scroll" /\ at'[d] = "scroll" /\ read[d] \subseteq read'[d] /\ read'[d] # read[d]

Still(d) == at'[d] = at[d] /\ todo'[d] = todo[d] /\ read'[d] = read[d]

\* What can be written or read at those two stages.
Bounded ==
    \A d \in Docs :
        /\ IsFiniteSet(chunks[d])
        /\ at[d] = "upsert" => todo[d] \subseteq chunks[d]
        /\ at[d] = "scroll" => read[d] \subseteq chunks[d]

RunAdvances ==
    [][\A d \in Docs : /\ RunStep(d) => at[d] = "idle" \/ Nearer(d)
                       /\ at[d] # "idle" => Nearer(d) \/ Still(d)]_vars

\* A page that is not the last has something on it.
LEMMA PageThere ==
    ASSUME NEW d, IsFiniteSet(Unread(d)), \A p \in Unread(d) : p.id \in Nat, ~LastPage(d)
    PROVE  Page(d) # {}
<1>1. Unread(d) # {}
  BY DEF LastPage, Page
<1> DEFINE ids == {p.id : p \in Unread(d)}
<1>2. Min(ids) \in ids /\ \A x \in ids : Min(ids) <= x
  <2>1. ids \in SUBSET Nat /\ ids # {}
    BY <1>1
  <2> HIDE DEF ids
  <2> QED
    BY <2>1, LeastIs
<1>3. PICK p \in Unread(d) : \A q \in Unread(d) : p.id <= q.id
  <2>1. PICK p \in Unread(d) : p.id = Min(ids)
    BY <1>2
  <2> QED
    BY <1>2, <2>1
<1>4. {q \in Unread(d) : q.id < p.id} = {}
  BY <1>3
<1>5. Cardinality({q \in Unread(d) : q.id < p.id}) = 0
  BY <1>4, FS_EmptySet
<1>6. 0 < PageSize
  BY WriterAssumption
<1>7. p \in Page(d)
  BY <1>5, <1>6 DEF Page
<1> QED
  BY <1>7

LEMMA RunNears ==
    ASSUME NEW e \in Docs, Inv, NameInv(e), RunStep(e)
    PROVE  at[e] = "idle" \/ Nearer(e)
<1>0. Shape
  BY DEF Inv
<1>1. CASE Begin(e)
  BY <1>1 DEF Begin
<1>2. ASSUME NEW l \in Locations, Goto(e, l), Stage(l) < Stage(at[e]) PROVE Nearer(e)
  BY <1>0, <1>2, Goes DEF Nearer
<1>3. CASE Embedded(e) \/ EmbedRaises(e)
  <2>1. at[e] = "embed" /\ (Goto(e, "clear") \/ Goto(e, "abort"))
    BY <1>3 DEF Embedded, EmbedRaises
  <2> QED
    BY <1>2, <2>1 DEF Stage, Locations
<1>4. CASE Clear(e) \/ UpsertRaises(e) \/ Undo(e) \/ Rename(e)
  <2>1. \/ at[e] = "clear" /\ Goto(e, "upsert")
        \/ at[e] = "upsert" /\ Goto(e, "undo")
        \/ at[e] = "undo" /\ Goto(e, "abort")
        \/ at[e] = "rename" /\ Goto(e, "commit")
    BY <1>4 DEF Clear, UpsertRaises, Undo, Rename
  <2> QED
    BY <1>2, <2>1 DEF Stage, Locations
<1>5. CASE Abort(e) \/ Done(e) \/ GiveUp(e)
  <2>1. Goto(e, "idle")
    BY <1>5 DEF Abort, Done, GiveUp, Finish
  <2> QED
    BY <1>0, <2>1, Goes DEF Nearer, Locations
<1>6. CASE RunRaises(e)
  <2>1. at[e] \in {"clear", "scroll", "rename"} /\ (Goto(e, "idle") \/ Goto(e, "giveup"))
    BY <1>6 DEF RunRaises
  <2>2. CASE Goto(e, "idle")
    BY <1>0, <2>2, Goes DEF Nearer, Locations
  <2>3. CASE Goto(e, "giveup")
    BY <1>2, <2>1, <2>3 DEF Stage, Locations
  <2> QED
    BY <2>1, <2>2, <2>3
<1>7. CASE Upsert(e)
  <2>1. PICK batch \in Batches(todo[e]) :
            /\ todo' = [todo EXCEPT ![e] = todo[e] \ batch]
            /\ Goto(e, IF batch = todo[e] THEN "scroll" ELSE "upsert")
    BY <1>7 DEF Upsert
  <2>2. at[e] = "upsert"
    BY <1>7 DEF Upsert
  <2>3. CASE batch = todo[e]
    BY <1>2, <2>1, <2>2, <2>3 DEF Stage, Locations
  <2>4. CASE batch # todo[e]
    <3>1. batch \subseteq todo[e] /\ Cardinality(batch) = BatchSize
      BY <2>1, <2>4 DEF Batches
    <3>2. batch # {}
      BY <3>1, FS_EmptySet, WriterAssumption
    <3>3. todo'[e] = todo[e] \ batch /\ at'[e] = "upsert"
      BY <1>0, <2>1, <2>4, Goes DEF Shape, Locations
    <3> QED
      BY <2>2, <3>1, <3>2, <3>3 DEF Nearer
  <2> QED
    BY <2>3, <2>4
<1>8. CASE Scroll(e)
  <2> DEFINE C == chunks[e]
             R == read[e]
  <2>1. at[e] = "scroll" /\ Goto(e, IF LastPage(e) THEN "rename" ELSE "scroll")
        /\ read'[e] = R \cup Page(e)
    BY <1>0, <1>8 DEF Scroll, Shape
  <2>2. CASE LastPage(e)
    BY <1>2, <2>1, <2>2 DEF Stage, Locations
  <2>3. CASE ~LastPage(e)
    <3>1. Of(points, e) = C /\ Rows(C)
      BY <2>1 DEF NameInv
    <3>2. Unread(e) \subseteq C
      BY <3>1 DEF Unread, PointsOf, Of
    <3>3. IsFiniteSet(Unread(e)) /\ \A p \in Unread(e) : p.id \in Nat
      BY <3>1, <3>2, FS_Subset DEF Rows
    <3>4. PICK p \in Page(e) : p \in Unread(e)
      BY <2>3, <3>3, PageThere DEF Page
    <3>5. p \notin R
      <4>1. ~ (p.id < p.id)
        BY <3>3, <3>4
      <4> QED
        BY <3>4, <4>1 DEF Unread
    <3>6. at'[e] = "scroll"
      BY <1>0, <2>1, <2>3, Goes DEF Locations
    <3> QED
      BY <2>1, <3>4, <3>5, <3>6 DEF Nearer
  <2> QED
    BY <2>2, <2>3
<1> QED
  BY <1>1, <1>3, <1>4, <1>5, <1>6, <1>7, <1>8 DEF RunStep

LEMMA AllNear ==
    ASSUME Inv, NamesInv, [Next]_vars, NEW d \in Docs
    PROVE  /\ RunStep(d) => at[d] = "idle" \/ Nearer(d)
           /\ at[d] # "idle" => Nearer(d) \/ Still(d)
<1>1. ASSUME NEW e \in Docs, RunStep(e) PROVE at[e] = "idle" \/ Nearer(e)
  BY <1>1, RunNears DEF NamesInv
<1>2. CASE UNCHANGED runVars
  BY <1>1, <1>2 DEF Still, runVars
<1>3. ASSUME NEW e \in Docs, RunStep(e) \/ Reconfirm(e) PROVE at[d] # "idle" => Nearer(d) \/ Still(d)
  <2>1. CASE d = e
    BY <1>1, <1>3, <2>1 DEF Reconfirm
  <2>2. CASE d # e
    <3>1. Aside(d)
      BY <1>3, <2>2, RunGood DEF Good
    <3> QED
      BY <3>1 DEF Aside, Still
  <2> QED
    BY <2>1, <2>2
<1>4. CASE Crash
  BY <1>4 DEF Crash, Nearer
<1>5. CASE UNCHANGED vars
  BY <1>2, <1>5 DEF vars
<1>6. ASSUME NEW c \in Calls, EmbeddingStep(c) PROVE UNCHANGED runVars
  BY <1>6 DEF EmbeddingStep
<1>7. ASSUME NEW q \in Questions, Ask(q) \/ Answer(q) PROVE UNCHANGED runVars
  BY <1>7 DEF Ask, Answer
<1> QED
  BY <1>1, <1>2, <1>3, <1>4, <1>5, <1>6, <1>7 DEF Next

\* Every step of a run ends it, brings it to a later stage, or leaves it less to
\* write or to read of its finitely many chunks, whatever the sizes of batch and page,
\* and no other document, call or question takes it back.
THEOREM RunsAdvance == Spec => []Bounded /\ RunAdvances
<1>1. Inv /\ NamesInv => Bounded
  BY DEF Inv, RunInv, NamesInv, NameInv, Rows, Bounded
<1>2. Inv /\ NamesInv /\ [Next]_vars
        => [\A d \in Docs : /\ RunStep(d) => at[d] = "idle" \/ Nearer(d)
                            /\ at[d] # "idle" => Nearer(d) \/ Still(d)]_vars
  BY AllNear
<1>3. Inv /\ NamesInv /\ [Next]_vars => Inv' /\ NamesInv'
  BY Step, NamesInvStep
<1>4. QED
  BY <1>1, <1>2, <1>3, InvInit, NamesInvInit, PTL DEF Spec, RunAdvances
=============================================================================
