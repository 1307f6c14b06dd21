--------------------------- MODULE QueriesProofs ---------------------------
(***************************************************************************)
(* Theorems about what queries return.  A query reads the store several    *)
(* times, and the store moves on in between; but what it has read of a     *)
(* batch remains an ancestor of what is stored: an earlier version, with   *)
(* the same scope and evidence and no state that is not in the history of  *)
(* the stored one.  So whatever the ages of its parts, an answer is        *)
(* consistent.                                                             *)
(***************************************************************************)
EXTENDS Queries, ReviewRecordsProofs, WellFoundedInduction

\* A query reads, a request writes: the service does not see the difference.
LEMMA ReaderIsInvisible == [Read \/ Write]_readVars => [Next]_vars
<1> SUFFICES ASSUME [Read \/ Write]_readVars PROVE [Next]_vars
  OBVIOUS
<1>1. CASE Read
  BY <1>1 DEF Read, BatchDetail, ResolveEvidence, ListReceipts, ListAudit, Timeline,
     ReadScope, ReadBatches, Dashboard, Answered, Advance
<1>2. CASE Write
  BY <1>2 DEF Write
<1>3. CASE UNCHANGED readVars
  BY <1>3 DEF readVars
<1>4. QED  BY <1>1, <1>2, <1>3

\* With a reader the service is still the service: what is proved of Spec can be
\* cited of what a reader sees.
LEMMA ReadersChangeNothing == QuerySpec => Spec
<1>1. Begin => Init
  BY DEF Begin
<1>2. QED  BY <1>1, ReaderIsInvisible, PTL DEF QuerySpec, Spec

\* What the store makes sure of while it is read.
LEMMA StoreInvariants ==
  QuerySpec => [](Base /\ ReceiptsOK /\ AuditsOK /\ EvidenceOK)
<1>1. TypeInv /\ Versions /\ WorkersOK => Base
  BY DEF Base
<1>2. QED
  BY <1>1, ReadersChangeNothing, TypeInvariant, VersionsInvariant, WorkersInvariant,
     ReceiptsInvariant, AuditsInvariant, EvidenceInvariant, PTL

-----------------------------------------------------------------------------
\* What was read of a batch.

\* The store has moved on from b, or is still at it.
IsAncestor(b) ==
  /\ b \in Batch /\ b.id \in BatchId /\ batches[b.id] \in Batch
  /\ batches[b.id].scope = b.scope /\ batches[b.id].evidence = b.evidence
  /\ b.updatedAt <= batches[b.id].updatedAt
  /\ b.state \in History(b) /\ History(b) \subseteq Reached(b.id)
  /\ IsTerminal(b) => batches[b.id] = b

\* What is stored is a batch that has gone through its present state.
LEMMA StoredBatch ==
  ASSUME Base, NEW id \in BatchId, batches[id] # NoBatch
  PROVE  /\ batches[id] \in Batch /\ batches[id].id = id
         /\ Shaped(batches[id]) /\ batches[id].state \in History(batches[id])
<1>1. PICK b : b = batches[id]
  OBVIOUS
<1>2. b \in Batch /\ b.id = id /\ Shaped(b)
  BY <1>1 DEF Base, TypeInv, StoreOK, StoreTypeOK, WorkersOK, ShapesOK
<1>3. b.state \in History(b)
  BY <1>1, <1>2 DEF Shaped, History
<1>4. QED  BY <1>1, <1>2, <1>3

\* What is read now is one.
LEMMA ReadIsAncestor ==
  ASSUME Base, NEW id \in BatchId, batches[id] # NoBatch
  PROVE  IsAncestor(batches[id])
<1>1. PICK b : b = batches[id]
  OBVIOUS
<1>2. b \in Batch /\ b.id = id /\ b.state \in History(b)
  BY <1>1, StoredBatch
<1>3. b.updatedAt \in Nat
  BY <1>2 DEF Batch, Instant
<1>4. IsAncestor(b)
  BY <1>1, <1>2, <1>3 DEF IsAncestor, Reached
<1>5. QED  BY <1>1, <1>4

\* What was read once stays one.
LEMMA AncestorStays ==
  ASSUME Base, [Next]_vars, NEW b, IsAncestor(b)
  PROVE  IsAncestor(b)'
<1> PICK id : id = b.id
  OBVIOUS
<1> PICK old : old = batches[id]
  OBVIOUS
<1> PICK new : new = batches'[id]
  OBVIOUS
<1>1. /\ b \in Batch /\ id \in BatchId /\ old \in Batch
      /\ old.scope = b.scope /\ old.evidence = b.evidence
      /\ b.updatedAt <= old.updatedAt
      /\ b.state \in History(b) /\ History(b) \subseteq History(old)
      /\ IsTerminal(b) => old = b
  BY DEF IsAncestor, Reached
<1>2. Reached(id) \subseteq Reached(id)'
  BY <1>1, ReachedGrows
<1>3. Reached(id) = History(old) /\ Reached(id)' = History(new)
  BY DEF Reached
<1>4. CASE new = old
  BY <1>1, <1>3, <1>4 DEF IsAncestor
<1>5. CASE new # old
  <2>1. OneLegalStep(old, new)
    BY <1>1, <1>5, VersionsStep DEF Base, LegalStep
  <2>2. /\ CanTransition(old, new.state)
        /\ new = Transition(old, new.state, new.updatedAt)
        /\ old.updatedAt <= new.updatedAt
    BY <1>1, <2>1, BatchIsNotNone DEF OneLegalStep
  <2>3. new.scope = old.scope /\ new.evidence = old.evidence
    BY <1>1, <2>2 DEF Transition, Batch
  <2>4. ~IsTerminal(b)
    BY <1>1, <2>2 DEF IsTerminal, CanTransition
  <2>5. new \in Batch
    <3>1. TypeInv'
      BY TypeInvStep DEF Base
    <3>2. new # NoBatch
      BY <1>1, BatchesStay, BatchIsNotNone
    <3>3. QED  BY <1>1, <3>1, <3>2 DEF TypeInv, StoreOK, StoreTypeOK
  <2>6. b.updatedAt <= new.updatedAt
    BY <1>1, <2>2, <2>5 DEF Batch, Instant
  <2>7. QED  BY <1>1, <1>2, <1>3, <2>3, <2>4, <2>5, <2>6 DEF IsAncestor
<1>6. QED  BY <1>4, <1>5

-----------------------------------------------------------------------------
(***************************************************************************)
(* A detail.                                                               *)
(***************************************************************************)

\* A list of receipts tells of states of the batch.
ReceiptsAreOf(id, log) ==
  \A k \in DOMAIN log : \E s \in Reached(id) : log[k].kind = ReceiptFor[s]

\* So does a trail, where it tells of the batch.
TrailIsOf(id, trail) ==
  \A k \in DOMAIN trail : trail[k].batch = id =>
    \E s \in Reached(id) : trail[k].action = AuditActionFor[s]

\* The fields of a view when the reader is at a store call.
Fields ==
  /\ reading = "resolve" => DOMAIN view = {"query", "batch"}
  /\ reading = "receipts" => DOMAIN view = {"query", "batch", "evidence"}
  /\ reading = "trail" => DOMAIN view = {"query", "batch", "evidence", "receipts"}
  /\ reading = "batches" => DOMAIN view = {"query", "scope", "items", "known"}

DetailOK ==
  /\ Fields
  /\ reading \in {"resolve", "receipts", "trail", "detail"} => IsAncestor(view.batch)
  /\ reading \in {"trail", "detail"} =>
       /\ \E k \in DOMAIN view.receipts : view.receipts[k].kind = "submitted"
       /\ ReceiptsAreOf(view.batch.id, view.receipts)
  /\ reading = "detail" => TrailIsOf(view.batch.id, view.audit)

\* What has been read of a batch goes on to be of it.
LEMMA ReadStays ==
  ASSUME Base, [Next]_vars, NEW id \in BatchId, NEW list
  PROVE  /\ ReceiptsAreOf(id, list) => ReceiptsAreOf(id, list)'
         /\ TrailIsOf(id, list) => TrailIsOf(id, list)'
<1>1. Reached(id) \subseteq Reached(id)'
  BY ReachedGrows
<1>2. QED  BY <1>1 DEF ReceiptsAreOf, TrailIsOf

\* While requests write, a detail that is being read stays as good as it was.
LEMMA DetailWaits ==
  ASSUME Base, DetailOK, [Next]_vars, UNCHANGED <<reading, view>>
  PROVE  DetailOK'
<1>1. Fields'
  BY DEF DetailOK, Fields
<1>2. ASSUME reading' \in {"resolve", "receipts", "trail", "detail"}
      PROVE  IsAncestor(view.batch)'
  <2> PICK b : b = view.batch
    OBVIOUS
  <2>1. IsAncestor(b)
    BY <1>2 DEF DetailOK
  <2>2. IsAncestor(b)'
    BY <2>1, AncestorStays
  <2>3. view'.batch = b
    OBVIOUS
  <2>4. QED  BY <2>2, <2>3 DEF IsAncestor, Reached
<1>3. ASSUME reading' \in {"trail", "detail"}
      PROVE  /\ \E k \in DOMAIN view'.receipts : view'.receipts[k].kind = "submitted"
             /\ ReceiptsAreOf(view.batch.id, view.receipts)'
  <2> PICK id, log : id = view.batch.id /\ log = view.receipts
    OBVIOUS
  <2>1. /\ id \in BatchId /\ ReceiptsAreOf(id, log)
        /\ \E k \in DOMAIN log : log[k].kind = "submitted"
    BY <1>3 DEF DetailOK, IsAncestor
  <2>2. ReceiptsAreOf(id, log)'
    BY <2>1, ReadStays
  <2>3. view'.batch.id = id /\ view'.receipts = log
    OBVIOUS
  <2>4. QED  BY <2>1, <2>2, <2>3 DEF ReceiptsAreOf, Reached
<1>4. ASSUME reading' = "detail"
      PROVE  TrailIsOf(view.batch.id, view.audit)'
  <2> PICK id, trail : id = view.batch.id /\ trail = view.audit
    OBVIOUS
  <2>1. id \in BatchId /\ TrailIsOf(id, trail)
    BY <1>4 DEF DetailOK, IsAncestor
  <2>2. TrailIsOf(id, trail)'
    BY <2>1, ReadStays
  <2>3. view'.batch.id = id /\ view'.audit = trail
    OBVIOUS
  <2>4. QED  BY <2>2, <2>3 DEF TrailIsOf, Reached
<1>5. QED  BY <1>1, <1>2, <1>3, <1>4 DEF DetailOK

\* BatchDetail finds an ancestor, and the batch stays one.
LEMMA DetailBegins ==
  ASSUME Base, NEW id \in BatchId, BatchDetail(id)
  PROVE  DetailOK'
<1>1. PICK b : b = batches[id]
  OBVIOUS
<1>2. /\ reading' = "resolve" /\ view' = [query |-> "detail", batch |-> b]
      /\ UNCHANGED vars /\ batches[id] # NoBatch
  BY <1>1 DEF BatchDetail, Advance
<1>3. IsAncestor(b)
  BY <1>1, <1>2, ReadIsAncestor
<1>4. DOMAIN view' = {"query", "batch"} /\ view'.batch = b
  BY <1>2
<1>5. IsAncestor(view.batch)'
  BY <1>2, <1>3, <1>4 DEF IsAncestor, Reached, vars, store
<1>6. QED  BY <1>2, <1>4, <1>5 DEF DetailOK, Fields

\* The evidence says nothing here.
LEMMA DetailResolves ==
  ASSUME DetailOK, ResolveEvidence
  PROVE  DetailOK'
<1>1. /\ reading = "resolve" /\ reading' \in {"receipts", "missing"}
      /\ view' = With(view, [evidence |-> EvidenceOf(view.batch)])
      /\ UNCHANGED vars
  BY DEF ResolveEvidence, Advance
<1>2. DOMAIN view = {"query", "batch"} /\ IsAncestor(view.batch)
  BY <1>1 DEF DetailOK, Fields
<1>3. DOMAIN view' = {"query", "batch", "evidence"} /\ view'.batch = view.batch
  <2> PICK more : more = [evidence |-> EvidenceOf(view.batch)]
    OBVIOUS
  <2>1. DOMAIN more = {"evidence"} /\ view' = With(view, more)
    BY <1>1
  <2>2. QED  BY <1>2, <2>1 DEF With
<1>4. IsAncestor(view.batch)'
  BY <1>1, <1>2, <1>3 DEF IsAncestor, Reached, vars, store
<1>5. QED  BY <1>1, <1>3, <1>4 DEF DetailOK, Fields

\* The receipts are of states the batch has reached by now.
LEMMA DetailGetsReceipts ==
  ASSUME Base, ReceiptsMatchHistory, DetailOK, ListReceipts
  PROVE  DetailOK'
<1> PICK b : b = view.batch
  OBVIOUS
<1> PICK log : log = receipts[b.id]
  OBVIOUS
<1>1. /\ reading = "receipts" /\ reading' = "trail"
      /\ view' = With(view, [receipts |-> log])
      /\ UNCHANGED vars
  BY DEF ListReceipts, Advance
<1>2. DOMAIN view = {"query", "batch", "evidence"} /\ IsAncestor(b)
  BY <1>1 DEF DetailOK, Fields
<1>3. /\ DOMAIN view' = {"query", "batch", "evidence", "receipts"}
      /\ view'.batch = b /\ view'.receipts = log
  <2> PICK more : more = [receipts |-> log]
    OBVIOUS
  <2>1. DOMAIN more = {"receipts"} /\ more.receipts = log /\ view' = With(view, more)
    BY <1>1
  <2>2. QED  BY <1>2, <2>1 DEF With
<1>4. IsAncestor(view.batch)'
  BY <1>1, <1>2, <1>3 DEF IsAncestor, Reached, vars, store
<1>5. ReceiptsAreOf(b.id, log)
  BY <1>2 DEF ReceiptsAreOf, ReceiptsMatchHistory, ReceiptsTellHistory, IsAncestor
<1>6. \E k \in DOMAIN log : log[k].kind = "submitted"
  <2>1. log # <<>> /\ log[1].kind = "submitted"
    BY <1>2, BatchIsNotNone DEF IsAncestor, ReceiptsMatchHistory
  <2>2. log \in Seq(Receipt)
    BY <1>2 DEF IsAncestor, Base, TypeInv, StoreOK, StoreTypeOK
  <2>3. 1 \in DOMAIN log
    BY <2>1, <2>2
  <2>4. QED  BY <2>1, <2>3
<1>7. ReceiptsAreOf(view.batch.id, view.receipts)'
  BY <1>1, <1>3, <1>5 DEF ReceiptsAreOf, Reached, vars, store
<1>8. QED  BY <1>1, <1>3, <1>4, <1>6, <1>7 DEF DetailOK, Fields

\* The events of the trail are of states the batch has reached by now.
LEMMA DetailGetsTrail ==
  ASSUME Base, AuditsOK, DetailOK, ListAudit
  PROVE  DetailOK'
<1> PICK b : b = view.batch
  OBVIOUS
<1> PICK trail : trail = audits[Key(b.scope)]
  OBVIOUS
<1>1. /\ reading = "trail" /\ reading' = "detail"
      /\ view' = With(view, [audit |-> trail])
      /\ UNCHANGED vars
  BY DEF ListAudit, Advance
<1>2. /\ DOMAIN view = {"query", "batch", "evidence", "receipts"} /\ IsAncestor(b)
      /\ \E k \in DOMAIN view.receipts : view.receipts[k].kind = "submitted"
      /\ ReceiptsAreOf(b.id, view.receipts)
  BY <1>1 DEF DetailOK, Fields
<1>3. view'.batch = b /\ view'.receipts = view.receipts /\ view'.audit = trail
  <2> PICK more : more = [audit |-> trail]
    OBVIOUS
  <2>1. DOMAIN more = {"audit"} /\ more.audit = trail /\ view' = With(view, more)
    BY <1>1
  <2>2. QED  BY <1>2, <2>1 DEF With
<1>4. IsAncestor(view.batch)'
  BY <1>1, <1>2, <1>3 DEF IsAncestor, Reached, vars, store
<1>5. TrailIsOf(b.id, trail)
  <2> PICK scope : scope = b.scope
    OBVIOUS
  <2>1. scope \in Scope /\ b.id \in BatchId
    BY <1>2 DEF IsAncestor, Batch
  <2>2. DOMAIN audits = {Key(s) : s \in Scope}
    BY DEF Base, TypeInv, StoreOK, StoreTypeOK
  <2>3. Key(scope) \in DOMAIN audits
    BY <2>1, <2>2
  <2>4. b.id # ""
    BY <2>1, ServiceAssumption
  <2> PICK key : key = Key(scope)
    OBVIOUS
  <2>5. ASSUME NEW k \in DOMAIN trail, trail[k].batch = b.id
        PROVE  \E s \in Reached(b.id) : trail[k].action = AuditActionFor[s]
    <3>1. key \in DOMAIN audits /\ trail = audits[key]
      BY <2>3
    <3>2. Told(key, audits[key][k])
      BY <3>1 DEF AuditsOK, TrailOK
    <3>3. QED  BY <2>4, <2>5, <3>1, <3>2 DEF Told
  <2>6. QED  BY <2>5 DEF TrailIsOf
<1>6. ReceiptsAreOf(view.batch.id, view.receipts)'
  BY <1>1, <1>2, <1>3 DEF ReceiptsAreOf, Reached, vars, store
<1>7. TrailIsOf(view.batch.id, view.audit)'
  BY <1>1, <1>3, <1>5 DEF TrailIsOf, Reached, vars, store
<1>8. QED  BY <1>1, <1>2, <1>3, <1>4, <1>6, <1>7 DEF DetailOK, Fields

\* The other steps of the reader are of other queries.
LEMMA OtherReads ==
  ASSUME DetailOK,
         \/ \E scope \in Scope : ReadScope(scope)
         \/ ReadBatches \/ Dashboard \/ Answered \/ Timeline
  PROVE  DetailOK'
<1>1. ASSUME NEW scope \in Scope, ReadScope(scope) PROVE DetailOK'
  <2>1. /\ reading' = "batches"
        /\ DOMAIN view' = {"query", "scope", "items", "known"}
    BY <1>1 DEF ReadScope, Advance
  <2>2. QED  BY <2>1 DEF DetailOK, Fields
<1>2. CASE ReadBatches \/ Dashboard \/ Answered \/ Timeline
  <2>1. reading' \in {"timeline", "scope", "dashboard", "idle"}
    BY <1>2 DEF ReadBatches, Dashboard, Answered, Timeline, Advance
  <2>2. QED  BY <2>1 DEF DetailOK, Fields
<1>3. QED  BY <1>1, <1>2

\* What a detail has read stays true of the store while it reads on.
LEMMA DetailStep ==
  ASSUME Base, ReceiptsMatchHistory, AuditsOK, DetailOK, [Read \/ Write]_readVars
  PROVE  DetailOK'
<1>1. CASE Read
  BY <1>1, DetailBegins, DetailResolves, DetailGetsReceipts, DetailGetsTrail,
     OtherReads DEF Read
<1>2. CASE Write
  BY <1>2, ReaderIsInvisible, DetailWaits DEF Write
<1>3. CASE UNCHANGED readVars
  BY <1>3, ReaderIsInvisible, DetailWaits DEF readVars
<1>4. QED  BY <1>1, <1>2, <1>3

\* A reader begins with nothing.
LEMMA DetailInit == Begin => DetailOK
BY DEF Begin, DetailOK, Fields

\* The parts of such a detail tell of states its batch has reached, one of which
\* is an outcome at most.
LEMMA DetailTells ==
  ASSUME Base, DetailOK
  PROVE  DetailTellsOneStory
<1> SUFFICES ASSUME reading = "detail"
             PROVE  LET told == ToldByBatch \cup ToldByReceipts \cup ToldByTrail
                    IN /\ "submitted" \in ToldByReceipts
                       /\ Cardinality(told \cap Outcome) <= 1
                       /\ IsTerminal(view.batch) => told \subseteq History(view.batch)
  BY DEF DetailTellsOneStory
<1> PICK b : b = view.batch
  OBVIOUS
<1> PICK id : id = b.id
  OBVIOUS
<1>1. /\ IsAncestor(b) /\ ReceiptsAreOf(id, view.receipts)
      /\ \E k \in DOMAIN view.receipts : view.receipts[k].kind = "submitted"
      /\ TrailIsOf(id, view.audit)
  BY DEF DetailOK
<1>2. /\ id \in BatchId /\ batches[id] \in Batch
      /\ b.state \in History(b) /\ History(b) \subseteq Reached(id)
      /\ IsTerminal(b) => Reached(id) = History(b)
  BY <1>1 DEF IsAncestor, Reached
<1>3. Reached(id) \subseteq States
  BY <1>2, ReachedStates DEF Base, WorkersOK
<1>4. ToldByBatch \subseteq Reached(id)
  BY <1>2 DEF ToldByBatch
<1>5. ToldByReceipts \subseteq Reached(id)
  BY <1>1, <1>3, StateOfReceipt DEF ReceiptsAreOf, ToldByReceipts
<1>6. ToldByTrail \subseteq Reached(id)
  BY <1>1, <1>3, StatesHaveRecords DEF TrailIsOf, ToldByTrail
<1>7. "submitted" \in ToldByReceipts
  <2>1. "submitted" \in States /\ ReceiptFor["submitted"] = "submitted"
    BY DEF States, ReceiptFor
  <2>2. StateOf("submitted") = "submitted"
    BY <2>1, StateOfReceipt
  <2>3. QED  BY <1>1, <2>2 DEF ToldByReceipts
<1> PICK told : told = ToldByBatch \cup ToldByReceipts \cup ToldByTrail
  OBVIOUS
<1>8. told \subseteq Reached(id)
  BY <1>4, <1>5, <1>6
<1>9. Cardinality(told \cap Outcome) <= 1
  <2>1. Reached(id) \cap Outcome \subseteq {batches[id].state}
    <3>1. batches[id] # NoBatch /\ Shaped(batches[id])
      BY <1>2, StoredBatch, BatchIsNotNone
    <3>2. QED  BY <3>1 DEF Reached, History, Outcome, Shaped
  <2>2. told \cap Outcome \in SUBSET {batches[id].state}
    BY <1>8, <2>1
  <2> PICK s : s = batches[id].state
    OBVIOUS
  <2> PICK outcomes : outcomes = told \cap Outcome
    OBVIOUS
  <2>3. outcomes \in SUBSET {s} /\ IsFiniteSet({s}) /\ Cardinality({s}) = 1
    BY <2>2, FS_Singleton
  <2>4. Cardinality(outcomes) <= 1
    BY <2>3, FS_Subset
  <2>5. QED  BY <2>4
<1>10. QED  BY <1>2, <1>7, <1>8, <1>9

\* The parts of a detail may be of different ages and never contradict one
\* another, for every number of requests and batches (query.go:16-33).
THEOREM DetailsTellOneStory ==
  ASSUME HasCommitter
  PROVE  QuerySpec => []DetailTellsOneStory
<1>1. Base /\ ReceiptsMatchHistory /\ AuditsOK /\ DetailOK /\ [Read \/ Write]_readVars
        => DetailOK'
  BY DetailStep
<1>2. Base /\ DetailOK => DetailTellsOneStory
  BY DetailTells
<1>3. Spec => []ReceiptsMatchHistory
  BY CommittedReceiptsMatch
<1>4. QED
  BY <1>1, <1>2, <1>3, DetailInit, ReadersChangeNothing, StoreInvariants, PTL
     DEF QuerySpec

-----------------------------------------------------------------------------
(***************************************************************************)
(* A scope: its evidence, then its batches, then, for the dashboard, its   *)
(* batches once more.                                                      *)
(***************************************************************************)

\* There are finitely many batches and items to count.
StoredIds == {id \in BatchId : batches[id] # NoBatch}
FiniteStore == IsFiniteSet(StoredIds) /\ IsFiniteSet(evidence)

\* A step stores one batch or one item at most.
LEMMA FiniteStoreStep == Base /\ FiniteStore /\ [Next]_vars => FiniteStore'
<1> SUFFICES ASSUME Base, FiniteStore, [Next]_vars PROVE FiniteStore'
  OBVIOUS
<1>1. IsFiniteSet(StoredIds)'
  <2>1. PICK x : StoredIds' \subseteq StoredIds \cup {x}
    <3>1. (\E w \in Worker : Quiet(w) \/ Stores(w) \/ Files(w)) \/ Idles
      BY StepEffect DEF Base
    <3>2. CASE UNCHANGED batches
      BY <3>2 DEF StoredIds
    <3>3. ASSUME NEW w \in Worker, Stores(w)
          PROVE  \E x : StoredIds' \subseteq StoredIds \cup {x}
      <4>1. PICK i, b : batches' = [batches EXCEPT ![i] = b]
        BY <3>3 DEF Stores
      <4>2. \A id \in BatchId : id # i => batches'[id] = batches[id]
        BY <4>1 DEF Base, TypeInv, StoreOK, StoreTypeOK
      <4>3. StoredIds' \subseteq StoredIds \cup {i}
        BY <4>2 DEF StoredIds
      <4>4. QED  BY <4>3
    <3>4. QED  BY <3>1, <3>2, <3>3, FilesKeeps DEF Quiet, Idles, Base
  <2> PICK s, t : s = StoredIds /\ t = StoredIds'
    OBVIOUS
  <2>2. IsFiniteSet(s \cup {x}) /\ t \in SUBSET (s \cup {x})
    BY <2>1, FS_AddElement DEF FiniteStore
  <2>3. IsFiniteSet(t)
    BY <2>2, FS_Subset
  <2>4. QED  BY <2>3
<1>2. IsFiniteSet(evidence)'
  <2>1. CASE evidence' = evidence
    BY <2>1 DEF FiniteStore
  <2>2. CASE evidence' # evidence
    <3>1. PICK item : evidence' = evidence \cup {item}
      BY <2>2, RegistrationAdds DEF Base
    <3> PICK s, t : s = evidence /\ t = evidence'
      OBVIOUS
    <3>2. IsFiniteSet(s) /\ t = s \cup {item}
      BY <3>1 DEF FiniteStore
    <3>3. IsFiniteSet(t)
      BY <3>2, FS_AddElement
    <3>4. QED  BY <3>3
  <2>3. QED  BY <2>1, <2>2
<1>3. QED  BY <1>1, <1>2 DEF FiniteStore

\* There are finitely many batches and items at any time.
LEMMA FiniteStoreInvariant == Spec => []FiniteStore
<1>1. Init => FiniteStore
  <2> SUFFICES ASSUME Init PROVE FiniteStore
    OBVIOUS
  <2>1. StoredIds = {} /\ evidence = {}
    BY DEF Init, StoredIds
  <2>2. QED  BY <2>1, FS_EmptySet DEF FiniteStore
<1>2. TypeInv /\ Versions /\ WorkersOK /\ FiniteStore /\ [Next]_vars => FiniteStore'
  BY FiniteStoreStep DEF Base
<1>3. QED
  BY <1>1, <1>2, TypeInvariant, VersionsInvariant, WorkersInvariant, PTL DEF Spec

\* A list of batches: each once, each an ancestor of what is stored.
ListOK(list, scope) ==
  /\ IsFiniteSet(list)
  /\ \A b \in list : IsAncestor(b) /\ b.scope = scope
  /\ \A b, c \in list : b.id = c.id => b = c

\* ListBatches makes one, with every batch of the scope.
LEMMA ListedBatches ==
  ASSUME Base, FiniteStore, NEW scope \in Scope
  PROVE  /\ ListOK(ListBatches(scope), scope)
         /\ \A id \in BatchId : batches[id] # NoBatch /\ batches[id].scope = scope
              => batches[id] \in ListBatches(scope)
<1> PICK list : list = ListBatches(scope)
  OBVIOUS
<1> PICK ids : ids = {i \in BatchId : batches[i] # NoBatch /\ batches[i].scope = scope}
  OBVIOUS
<1>1. list = {batches[i] : i \in ids}
  BY DEF ListBatches
<1>2. IsFiniteSet(ids)
  <2> PICK stored : stored = StoredIds
    OBVIOUS
  <2>1. ids \in SUBSET stored /\ IsFiniteSet(stored)
    BY DEF StoredIds, FiniteStore
  <2>2. QED  BY <2>1, FS_Subset
<1>3. IsFiniteSet(list)
  <2>1. PICK f : f = [i \in ids |-> batches[i]]
    OBVIOUS
  <2>2. f \in Surjection(ids, list)
    BY <1>1, <2>1 DEF Surjection
  <2>3. QED  BY <1>2, <2>2, FS_Surjection
<1>4. ASSUME NEW b \in list
      PROVE  /\ IsAncestor(b) /\ b.scope = scope /\ b = batches[b.id]
             /\ b.id \in BatchId
  <2>1. PICK i \in ids : b = batches[i]
    BY <1>1
  <2>2. IsAncestor(b) /\ b.id = i
    BY <2>1, ReadIsAncestor, StoredBatch
  <2>3. QED  BY <2>1, <2>2
<1>5. \A b, c \in list : b.id = c.id => b = c
  BY <1>4
<1>6. \A id \in ids : batches[id] \in list
  BY <1>1
<1>7. QED  BY <1>3, <1>4, <1>5, <1>6 DEF ListOK

\* A list of batches goes on to be one.
LEMMA ListStays ==
  ASSUME Base, [Next]_vars, NEW list, NEW scope, ListOK(list, scope)
  PROVE  ListOK(list, scope)'
<1>1. ASSUME NEW b \in list PROVE IsAncestor(b)'
  BY AncestorStays DEF ListOK
<1>2. QED  BY <1>1 DEF ListOK

ScopesOK ==
  /\ Fields
  /\ reading \in {"batches", "scope"} =>
       /\ view.scope \in Scope
       /\ ListOK(view.known, view.scope)
  /\ reading = "scope" => ListOK(view.batches, view.scope)

\* While requests write, what has been read of a scope stays as good as it was.
LEMMA ScopeWaits ==
  ASSUME Base, ScopesOK, [Next]_vars, UNCHANGED <<reading, view>>
  PROVE  ScopesOK'
<1>1. Fields'
  BY DEF ScopesOK, Fields
<1> PICK scope, known, list :
      scope = view.scope /\ known = view.known /\ list = view.batches
  OBVIOUS
<1>2. ASSUME reading' \in {"batches", "scope"}
      PROVE  view'.scope \in Scope /\ ListOK(view.known, view.scope)'
  <2>1. scope \in Scope /\ ListOK(known, scope)
    BY <1>2 DEF ScopesOK
  <2>2. ListOK(known, scope)'
    BY <2>1, ListStays
  <2>3. view'.scope = scope /\ view'.known = known
    OBVIOUS
  <2>4. QED  BY <2>1, <2>2, <2>3 DEF ListOK, IsAncestor, Reached
<1>3. ASSUME reading' = "scope"
      PROVE  ListOK(view.batches, view.scope)'
  <2>1. ListOK(list, scope)
    BY <1>3 DEF ScopesOK
  <2>2. ListOK(list, scope)'
    BY <2>1, ListStays
  <2>3. view'.scope = scope /\ view'.batches = list
    OBVIOUS
  <2>4. QED  BY <2>2, <2>3 DEF ListOK, IsAncestor, Reached
<1>4. QED  BY <1>1, <1>2, <1>3 DEF ScopesOK

\* ListEvidence: the batches known at the time are remembered.
LEMMA ScopeBegins ==
  ASSUME Base, FiniteStore, NEW scope \in Scope, ReadScope(scope)
  PROVE  ScopesOK'
<1> PICK known : known = ListBatches(scope)
  OBVIOUS
<1>1. /\ reading' = "batches" /\ UNCHANGED vars
      /\ view' = [query |-> "scope", scope |-> scope,
                  items |-> ListEvidence(scope), known |-> known]
  BY DEF ReadScope, Advance
<1>2. /\ DOMAIN view' = {"query", "scope", "items", "known"}
      /\ view'.scope = scope /\ view'.known = known
  BY <1>1
<1>3. ListOK(known, scope)
  BY ListedBatches
<1>4. ListOK(view.known, view.scope)'
  BY <1>1, <1>2, <1>3 DEF ListOK, IsAncestor, Reached, vars, store
<1>5. QED  BY <1>1, <1>2, <1>4 DEF ScopesOK, Fields

\* ListBatches.
LEMMA ScopeGetsBatches ==
  ASSUME Base, FiniteStore, ScopesOK, ReadBatches
  PROVE  ScopesOK'
<1> PICK scope, known, list :
      scope = view.scope /\ known = view.known /\ list = ListBatches(scope)
  OBVIOUS
<1>1. /\ reading = "batches" /\ reading' = "scope" /\ UNCHANGED vars
      /\ view' = With(view, [batches |-> list])
  BY DEF ReadBatches, Advance
<1>2. /\ DOMAIN view = {"query", "scope", "items", "known"}
      /\ scope \in Scope /\ ListOK(known, scope)
  BY <1>1 DEF ScopesOK, Fields
<1>3. view'.scope = scope /\ view'.known = known /\ view'.batches = list
  <2> PICK more : more = [batches |-> list]
    OBVIOUS
  <2>1. DOMAIN more = {"batches"} /\ more.batches = list /\ view' = With(view, more)
    BY <1>1
  <2>2. QED  BY <1>2, <2>1 DEF With
<1>4. ListOK(list, scope)
  BY <1>2, ListedBatches
<1>5. ListOK(view.known, view.scope)' /\ ListOK(view.batches, view.scope)'
  BY <1>1, <1>2, <1>3, <1>4 DEF ListOK, IsAncestor, Reached, vars, store
<1>6. QED  BY <1>1, <1>2, <1>3, <1>5 DEF ScopesOK, Fields

\* A store call of the reader adds its field.
LEMMA FieldsStep == Fields /\ Read => Fields'
<1> SUFFICES ASSUME Fields, Read PROVE Fields'
  OBVIOUS
<1>1. ASSUME NEW id \in BatchId, BatchDetail(id) PROVE Fields'
  <2>1. reading' = "resolve" /\ DOMAIN view' = {"query", "batch"}
    BY <1>1 DEF BatchDetail, Advance
  <2>2. QED  BY <2>1 DEF Fields
<1>2. CASE ResolveEvidence
  <2> PICK more : more = [evidence |-> EvidenceOf(view.batch)]
    OBVIOUS
  <2>1. /\ DOMAIN more = {"evidence"} /\ view' = With(view, more)
        /\ DOMAIN view = {"query", "batch"} /\ reading' \in {"receipts", "missing"}
    BY <1>2 DEF ResolveEvidence, Advance, Fields
  <2>2. QED  BY <2>1 DEF With, Fields
<1>3. CASE ListReceipts
  <2> PICK more : more = [receipts |-> receipts[view.batch.id]]
    OBVIOUS
  <2>1. /\ DOMAIN more = {"receipts"} /\ view' = With(view, more)
        /\ DOMAIN view = {"query", "batch", "evidence"} /\ reading' = "trail"
    BY <1>3 DEF ListReceipts, Advance, Fields
  <2>2. QED  BY <2>1 DEF With, Fields
<1>4. ASSUME NEW scope \in Scope, ReadScope(scope) PROVE Fields'
  <2>1. /\ reading' = "batches"
        /\ DOMAIN view' = {"query", "scope", "items", "known"}
    BY <1>4 DEF ReadScope, Advance
  <2>2. QED  BY <2>1 DEF Fields
<1>5. CASE ListAudit \/ ReadBatches \/ Dashboard \/ Answered \/ Timeline
  <2>1. reading' \in {"detail", "timeline", "scope", "dashboard", "idle"}
    BY <1>5 DEF ListAudit, ReadBatches, Dashboard, Answered, Timeline, Advance
  <2>2. QED  BY <2>1 DEF Fields
<1>6. QED  BY <1>1, <1>2, <1>3, <1>4, <1>5 DEF Read

\* What a query has read of a scope is behind the store and never ahead of it.
LEMMA ScopesStep ==
  ASSUME Base, FiniteStore, ScopesOK, [Read \/ Write]_readVars
  PROVE  ScopesOK'
<1>1. ASSUME \/ \E id \in BatchId : BatchDetail(id)
             \/ ResolveEvidence \/ ListReceipts \/ ListAudit
             \/ Dashboard \/ Answered \/ Timeline
      PROVE  ScopesOK'
  <2>1. reading' \notin {"batches", "scope"}
    BY <1>1 DEF BatchDetail, ResolveEvidence, ListReceipts, ListAudit, Dashboard,
       Answered, Timeline, Advance
  <2>2. Fields'
    BY <1>1, FieldsStep DEF ScopesOK, Read
  <2>3. QED  BY <2>1, <2>2 DEF ScopesOK
<1>2. CASE Read
  BY <1>1, <1>2, ScopeBegins, ScopeGetsBatches DEF Read
<1>3. CASE Write
  BY <1>3, ReaderIsInvisible, ScopeWaits DEF Write
<1>4. CASE UNCHANGED readVars
  BY <1>4, ReaderIsInvisible, ScopeWaits DEF readVars
<1>5. QED  BY <1>2, <1>3, <1>4

\* The same at every moment of a query.
LEMMA ScopesInvariant == QuerySpec => []ScopesOK
<1>1. Begin => ScopesOK
  BY DEF Begin, ScopesOK, Fields
<1>2. Base /\ FiniteStore /\ ScopesOK /\ [Read \/ Write]_readVars => ScopesOK'
  BY ScopesStep
<1>3. QED
  BY <1>1, <1>2, ReadersChangeNothing, StoreInvariants, FiniteStoreInvariant, PTL
     DEF QuerySpec

-----------------------------------------------------------------------------
(***************************************************************************)
(* A timeline.  The records of a detail may be of different ages, but they *)
(* are dated in order: the batch, the receipt of a state, the event of the *)
(* state.  Where the dates are equal the list that is sorted has them in   *)
(* order, and the sort is stable.                                          *)
(***************************************************************************)

\* Of any two elements of S one is before the other.
IsStrictOrder(S, R) ==
  /\ \A x \in S : <<x, x>> \notin R
  /\ \A x, y \in S : x # y => <<x, y>> \in R \/ <<y, x>> \in R
  /\ \A x, y, z \in S : <<x, y>> \in R /\ <<y, z>> \in R => <<x, z>> \in R

Before(S, R, x) == {y \in S : <<y, x>> \in R}

\* Who comes later has more before it.
LEMMA BeforeGrows ==
  ASSUME NEW S, NEW R, IsFiniteSet(S), IsStrictOrder(S, R),
         NEW x \in S, NEW y \in S, <<x, y>> \in R
  PROVE  /\ Cardinality(Before(S, R, x)) \in Nat
         /\ Cardinality(Before(S, R, y)) \in Nat
         /\ Cardinality(Before(S, R, x)) < Cardinality(Before(S, R, y))
<1>1. /\ Before(S, R, x) \subseteq Before(S, R, y) /\ Before(S, R, y) \subseteq S
      /\ x \in Before(S, R, y) /\ x \notin Before(S, R, x)
  BY DEF IsStrictOrder, Before
<1>2. IsFiniteSet(Before(S, R, y))
  BY <1>1, FS_Subset
<1>3. /\ IsFiniteSet(Before(S, R, x))
      /\ Cardinality(Before(S, R, x)) <= Cardinality(Before(S, R, y))
      /\ Cardinality(Before(S, R, x)) # Cardinality(Before(S, R, y))
  BY <1>1, <1>2, FS_Subset
<1>4. /\ Cardinality(Before(S, R, x)) \in Nat
      /\ Cardinality(Before(S, R, y)) \in Nat
  BY <1>2, <1>3, FS_CardinalityType
<1>5. QED  BY <1>3, <1>4

\* The numbers of elements before them tell the elements apart, without a gap.
LEMMA BeforeCounts ==
  ASSUME NEW S, NEW R, IsFiniteSet(S), IsStrictOrder(S, R),
         NEW n \in Nat, n = Cardinality(S)
  PROVE  /\ \A x \in S : Cardinality(Before(S, R, x)) \in 0 .. n - 1
         /\ \A x, y \in S :
              Cardinality(Before(S, R, x)) = Cardinality(Before(S, R, y)) => x = y
         /\ \A k \in 0 .. n - 1 : \E x \in S : Cardinality(Before(S, R, x)) = k
<1> PICK places : places = 0 .. n - 1
  OBVIOUS
<1>1. ASSUME NEW x \in S PROVE Cardinality(Before(S, R, x)) \in places
  <2>1. Before(S, R, x) \subseteq S /\ x \notin Before(S, R, x)
    BY DEF IsStrictOrder, Before
  <2>2. /\ IsFiniteSet(Before(S, R, x))
        /\ Cardinality(Before(S, R, x)) <= n /\ Cardinality(Before(S, R, x)) # n
    BY <2>1, FS_Subset
  <2>3. Cardinality(Before(S, R, x)) \in Nat
    BY <2>2, FS_CardinalityType
  <2>4. QED  BY <2>2, <2>3
<1>2. ASSUME NEW x \in S, NEW y \in S, x # y
      PROVE  Cardinality(Before(S, R, x)) # Cardinality(Before(S, R, y))
  <2>1. <<x, y>> \in R \/ <<y, x>> \in R
    BY <1>2 DEF IsStrictOrder
  <2>2. QED  BY <2>1, BeforeGrows
<1>3. PICK f : f = [x \in S |-> Cardinality(Before(S, R, x))]
  OBVIOUS
<1>4. f \in Injection(S, places)
  BY <1>1, <1>2, <1>3 DEF Injection, IsInjective
<1>5. IsFiniteSet(places) /\ Cardinality(places) = n
  BY FS_Interval
<1>6. f \in Surjection(S, places)
  BY <1>4, <1>5, FS_Injection
<1>7. \A k \in places : \E x \in S : Cardinality(Before(S, R, x)) = k
  BY <1>3, <1>6 DEF Surjection
<1>8. QED  BY <1>1, <1>2, <1>7

\* InOrder lists a set in its order, every element once.
LEMMA InOrderSorts ==
  ASSUME NEW S, NEW R, IsFiniteSet(S), IsStrictOrder(S, R),
         NEW n \in Nat, n = Cardinality(S), NEW list, list = InOrder(S, R)
  PROVE  /\ list \in [1 .. n -> S]
         /\ \A k \in 1 .. n : Cardinality(Before(S, R, list[k])) = k - 1
         /\ \A x \in S : \E k \in 1 .. n : list[k] = x
         /\ \A i, k \in 1 .. n : i < k => <<list[i], list[k]>> \in R
<1>1. list = [k \in 1 .. n |-> CHOOSE x \in S : Cardinality(Before(S, R, x)) = k - 1]
  BY DEF InOrder, Before
<1>2. ASSUME NEW k \in 1 .. n
      PROVE  list[k] \in S /\ Cardinality(Before(S, R, list[k])) = k - 1
  <2>1. k - 1 \in 0 .. n - 1
    OBVIOUS
  <2>2. \E x \in S : Cardinality(Before(S, R, x)) = k - 1
    BY <2>1, BeforeCounts
  <2>3. list[k] = CHOOSE x \in S : Cardinality(Before(S, R, x)) = k - 1
    BY <1>1
  <2>4. QED  BY <2>2, <2>3
<1>3. list \in [1 .. n -> S]
  BY <1>1, <1>2
<1>4. ASSUME NEW x \in S PROVE \E k \in 1 .. n : list[k] = x
  <2>1. Cardinality(Before(S, R, x)) \in 0 .. n - 1
    BY BeforeCounts
  <2>2. PICK k \in 1 .. n : k - 1 = Cardinality(Before(S, R, x))
    BY <2>1
  <2>3. list[k] \in S /\ Cardinality(Before(S, R, list[k])) = k - 1
    BY <1>2
  <2>4. list[k] = x
    BY <2>2, <2>3, BeforeCounts
  <2>5. QED  BY <2>4
<1>5. ASSUME NEW i \in 1 .. n, NEW k \in 1 .. n, i < k
      PROVE  <<list[i], list[k]>> \in R
  <2>1. /\ list[i] \in S /\ Cardinality(Before(S, R, list[i])) = i - 1
        /\ list[k] \in S /\ Cardinality(Before(S, R, list[k])) = k - 1
    BY <1>2
  <2>2. list[i] # list[k] /\ ~(k - 1 < i - 1)
    BY <1>5, <2>1
  <2>3. <<list[k], list[i]>> \notin R
    BY <2>1, <2>2, BeforeGrows
  <2>4. QED  BY <2>1, <2>2, <2>3 DEF IsStrictOrder
<1>6. QED  BY <1>2, <1>3, <1>4, <1>5

\* The numbers of a set that is closed upwards in 1 .. n, by how many are below.
LEMMA UpperNumbers ==
  ASSUME NEW n \in Nat, NEW kept \in SUBSET (1 .. n),
         \A x \in kept : x .. n \subseteq kept
  PROVE  /\ IsFiniteSet(kept) /\ Cardinality(kept) \in Nat
         /\ Cardinality(kept) <= n
         /\ \A x \in kept :
              Cardinality({y \in kept : y < x}) = Cardinality(kept) - (n - x + 1)
<1>1. IsFiniteSet(1 .. n) /\ Cardinality(1 .. n) = n
  BY FS_Interval
<1>2. IsFiniteSet(kept) /\ Cardinality(kept) <= n
  BY <1>1, FS_Subset
<1>3. Cardinality(kept) \in Nat
  BY <1>2, FS_CardinalityType
<1>4. ASSUME NEW x \in kept
      PROVE  Cardinality({y \in kept : y < x}) = Cardinality(kept) - (n - x + 1)
  <2>1. x \in 1 .. n
    OBVIOUS
  <2>2. {y \in kept : y < x} = kept \ (x .. n) /\ kept \cap (x .. n) = x .. n
    <3>1. \A y \in kept : y < x <=> y \notin x .. n
      BY <2>1
    <3>2. QED  BY <3>1
  <2>3. Cardinality(x .. n) = n - x + 1
    BY <2>1, FS_Interval
  <2>4. Cardinality(kept \ (x .. n))
          = Cardinality(kept) - Cardinality(kept \cap (x .. n))
    BY <1>2, FS_Difference
  <2>5. QED  BY <2>2, <2>3, <2>4
<1>5. QED  BY <1>2, <1>3, <1>4

\* Where the numbers of such a set are in their order.
LEMMA UpperInOrder ==
  ASSUME NEW n \in Nat, NEW kept \in SUBSET (1 .. n),
         \A x \in kept : x .. n \subseteq kept,
         NEW R, \A x, y \in kept : <<x, y>> \in R <=> x < y
  PROVE  /\ Cardinality(kept) \in 0 .. n
         /\ DOMAIN InOrder(kept, R) = 1 .. Cardinality(kept)
         /\ \A k \in 1 .. Cardinality(kept) :
              InOrder(kept, R)[k] = n - Cardinality(kept) + k
<1> PICK places : places = InOrder(kept, R)
  OBVIOUS
<1> PICK c : c = Cardinality(kept)
  OBVIOUS
<1>1. /\ IsFiniteSet(kept) /\ c \in Nat /\ c <= n
      /\ \A x \in kept : Cardinality({y \in kept : y < x}) = c - (n - x + 1)
  BY UpperNumbers
<1>2. IsStrictOrder(kept, R)
  <2>1. \A x, y, z \in kept : /\ ~(x < x) /\ (x # y => x < y \/ y < x)
                              /\ (x < y /\ y < z => x < z)
    <3>1. kept \subseteq Int
      OBVIOUS
    <3>2. \A x, y, z \in Int : /\ ~(x < x) /\ (x # y => x < y \/ y < x)
                               /\ (x < y /\ y < z => x < z)
      OBVIOUS
    <3>3. QED  BY <3>1, <3>2
  <2>2. \A x \in kept : <<x, x>> \notin R
    BY <2>1
  <2>3. \A x, y \in kept : x # y => <<x, y>> \in R \/ <<y, x>> \in R
    BY <2>1
  <2>4. \A x, y, z \in kept : <<x, y>> \in R /\ <<y, z>> \in R => <<x, z>> \in R
    BY <2>1
  <2>5. QED  BY <2>2, <2>3, <2>4 DEF IsStrictOrder
<1>3. /\ places \in [1 .. c -> kept]
      /\ \A k \in 1 .. c : Cardinality(Before(kept, R, places[k])) = k - 1
  <2>1. IsFiniteSet(kept) /\ c \in Nat
    BY <1>1
  <2>2. QED  BY <1>2, <2>1, InOrderSorts, SMTT(30)
<1>4. ASSUME NEW k \in 1 .. c PROVE places[k] = n - c + k
  <2> PICK x : x = places[k]
    OBVIOUS
  <2>1. x \in kept /\ Cardinality(Before(kept, R, x)) = k - 1
    BY <1>3
  <2>2. Before(kept, R, x) = {y \in kept : y < x}
    BY <2>1 DEF Before
  <2>3. c - (n - x + 1) = k - 1 /\ x \in Int /\ k \in Int /\ c \in Int
    BY <1>1, <2>1, <2>2
  <2>4. x = n - c + k
    BY <2>3
  <2>5. QED  BY <2>4
<1>5. DOMAIN places = 1 .. c /\ c \in 0 .. n
  BY <1>1, <1>3
<1>6. QED  BY <1>3, <1>4, <1>5

\* What a sorted list tells since an instant is its end.
LEMMA SinceIsSuffix ==
  ASSUME NEW n \in Nat, NEW E, \A e \in E : e.at \in Nat,
         NEW list \in [1 .. n -> E],
         \A i, k \in 1 .. n : i < k => list[i].at <= list[k].at,
         NEW t \in Nat
  PROVE  IsSuffix(TimelineSince(list, t), list)
<1> DEFINE kept == {k \in DOMAIN list : list[k].at >= t}
           R == {p \in kept \X kept : p[1] < p[2]}
           places == InOrder(kept, R)
<1>1. kept \in SUBSET (1 .. n) /\ \A x \in kept : x .. n \subseteq kept
  <2>1. \A k \in 1 .. n : list[k].at \in Nat
    OBVIOUS
  <2>2. ASSUME NEW x \in kept, NEW y \in x .. n PROVE y \in kept
    <3>1. x \in 1 .. n /\ list[x].at >= t /\ y \in 1 .. n /\ DOMAIN list = 1 .. n
      OBVIOUS
    <3>2. list[y].at >= t
      BY <2>1, <3>1
    <3>3. QED  BY <3>1, <3>2
  <2>3. QED  BY <2>2
<1>2. \A x, y \in kept : <<x, y>> \in R <=> x < y
  OBVIOUS
<1> HIDE DEF kept, R, places
<1>3. PICK c \in 0 .. n :
        DOMAIN places = 1 .. c /\ \A k \in 1 .. c : places[k] = n - c + k
  BY <1>1, <1>2, UpperInOrder DEF places
<1> PICK end : end = TimelineSince(list, t)
  OBVIOUS
<1>4. end = [k \in 1 .. c |-> list[n - c + k]]
  <2>1. end = [k \in DOMAIN places |-> list[places[k]]]
    BY DEF TimelineSince, kept, R, places
  <2>2. QED  BY <1>3, <2>1
<1>5. Len(end) = c /\ Len(list) = n
  BY <1>4
<1>6. Reverse(end) = [i \in 1 .. c |-> list[n - i + 1]]
  <2>1. ASSUME NEW i \in 1 .. c PROVE end[c - i + 1] = list[n - i + 1]
    <3>1. c - i + 1 \in 1 .. c /\ n - c + (c - i + 1) = n - i + 1
      OBVIOUS
    <3>2. QED  BY <1>4, <3>1
  <2>2. Reverse(end) = [i \in 1 .. c |-> end[c - i + 1]]
    BY <1>5 DEF Reverse
  <2>3. QED  BY <2>1, <2>2
<1>7. Reverse(list) = [i \in 1 .. n |-> list[n - i + 1]]
  BY <1>5 DEF Reverse
<1>8. IsPrefix(Reverse(end), Reverse(list))
  <2> PICK s : s = [i \in 1 .. c |-> list[n - i + 1]]
    OBVIOUS
  <2> PICK u : u = [i \in 1 .. n |-> list[n - i + 1]]
    OBVIOUS
  <2>1. Len(s) = c /\ Len(u) = n
    OBVIOUS
  <2>2. SubSeq(s, 1, c) = SubSeq(u, 1, c)
    <3>1. s \in Seq(E) /\ u \in Seq(E) /\ \A i \in 1 .. c : s[i] = u[i]
      OBVIOUS
    <3>2. SubSeq(s, 1, c) \in Seq(E) /\ SubSeq(u, 1, c) \in Seq(E)
      BY <2>1, <3>1
    <3>3. Len(SubSeq(s, 1, c)) = c /\ Len(SubSeq(u, 1, c)) = c
      BY <2>1, <3>1
    <3>4. \A i \in 1 .. c : SubSeq(s, 1, c)[i] = SubSeq(u, 1, c)[i]
      BY <2>1, <3>1
    <3>5. QED  BY <3>2, <3>3, <3>4
  <2>3. QED  BY <1>6, <1>7, <2>1, <2>2 DEF IsPrefix
<1>9. QED  BY <1>8 DEF IsSuffix

\* The records of a batch are dated in order.
InTime(b, log, trail) ==
  /\ \A k \in DOMAIN log : b.createdAt <= log[k].at
  /\ \A i \in DOMAIN trail : trail[i].batch = b.id =>
       /\ b.createdAt <= trail[i].at
       /\ \A k \in DOMAIN log, s \in States :
            /\ trail[i].action = AuditActionFor[s]
            /\ log[k].kind = ReceiptFor[s]
            => log[k].at <= trail[i].at

\* A function makes no more of a finite set.
LEMMA FiniteImage ==
  ASSUME NEW S, IsFiniteSet(S), NEW T,
         \E f \in [S -> T] : \A x \in T : \E k \in S : f[k] = x
  PROVE  IsFiniteSet(T)
<1>1. PICK f : f \in Surjection(S, T)
  BY DEF Surjection
<1>2. QED  BY <1>1, FS_Surjection

\* The entries of a log, in its order.
LEMMA EntriesOfLog ==
  ASSUME NEW log \in Seq(Receipt), NEW first \in Nat
  PROVE  LET E == ReceiptEntries(log, first)
         IN /\ IsFiniteSet(E)
            /\ \A e \in E : \E k \in DOMAIN log :
                 /\ e.at = log[k].at /\ e.kind = log[k].kind
                 /\ e.from = "receipt" /\ e.place = first + k
            /\ \A e, f \in E : e.place = f.place => e = f
<1> DEFINE entry(k) == [at |-> log[k].at, kind |-> log[k].kind, from |-> "receipt",
                        place |-> first + k]
<1> PICK E : E = ReceiptEntries(log, first)
  OBVIOUS
<1>1. \A e : e \in E <=> \E k \in DOMAIN log : e = entry(k)
  BY DEF ReceiptEntries
<1>2. IsFiniteSet(DOMAIN log)
  <2>1. DOMAIN log = 1 .. Len(log) /\ Len(log) \in Nat
    OBVIOUS
  <2>2. QED  BY <2>1, FS_Interval
<1>3. IsFiniteSet(E)
  <2>1. \E g \in [DOMAIN log -> E] : \A x \in E : \E k \in DOMAIN log : g[k] = x
    <3> PICK g : g = [k \in DOMAIN log |-> entry(k)]
      OBVIOUS
    <3>1. g \in [DOMAIN log -> E] /\ \A x \in E : \E k \in DOMAIN log : g[k] = x
      BY <1>1
    <3>2. QED  BY <3>1
  <2> HIDE DEF entry
  <2>2. QED  BY <1>2, <2>1, FiniteImage
<1>4. ASSUME NEW e \in E
      PROVE  \E k \in DOMAIN log :
               /\ e.at = log[k].at /\ e.kind = log[k].kind
               /\ e.from = "receipt" /\ e.place = first + k
  BY <1>1
<1>5. ASSUME NEW e \in E, NEW f \in E, e.place = f.place
      PROVE  e = f
  <2>1. PICK k \in DOMAIN log : e = entry(k)
    BY <1>1
  <2>2. PICK i \in DOMAIN log : f = entry(i)
    BY <1>1
  <2>3. first + k = first + i /\ k \in Nat /\ i \in Nat
    BY <1>5, <2>1, <2>2
  <2>4. k = i
    BY <2>3
  <2>5. QED  BY <2>1, <2>2, <2>4
<1>6. QED  BY <1>3, <1>4, <1>5

\* The entries of a trail that are of the batch, in its order.
LEMMA EntriesOfTrail ==
  ASSUME NEW b, NEW trail \in Seq(AuditEvent), NEW first \in Nat
  PROVE  LET E == AuditEntries(b, trail, first)
         IN /\ IsFiniteSet(E)
            /\ \A e \in E : \E k \in DOMAIN trail :
                 /\ trail[k].batch = b.id
                 /\ e.at = trail[k].at /\ e.kind = trail[k].action
                 /\ e.from = "audit" /\ e.place = first + k
            /\ \A e, f \in E : e.place = f.place => e = f
<1> DEFINE entry(k) == [at |-> trail[k].at, kind |-> trail[k].action, from |-> "audit",
                        place |-> first + k]
           own == {i \in DOMAIN trail : trail[i].batch = b.id}
<1> PICK E : E = AuditEntries(b, trail, first)
  OBVIOUS
<1>1. \A e : e \in E <=> \E k \in own : e = entry(k)
  BY DEF AuditEntries
<1>2. IsFiniteSet(own)
  <2>1. DOMAIN trail = 1 .. Len(trail) /\ Len(trail) \in Nat
    OBVIOUS
  <2>2. IsFiniteSet(DOMAIN trail) /\ own \subseteq DOMAIN trail
    BY <2>1, FS_Interval
  <2> HIDE DEF own
  <2>3. QED  BY <2>2, FS_Subset
<1>3. IsFiniteSet(E)
  <2>1. \E g \in [own -> E] : \A x \in E : \E k \in own : g[k] = x
    <3> PICK g : g = [k \in own |-> entry(k)]
      OBVIOUS
    <3>1. g \in [own -> E] /\ \A x \in E : \E k \in own : g[k] = x
      BY <1>1
    <3>2. QED  BY <3>1
  <2> HIDE DEF entry, own
  <2>2. QED  BY <1>2, <2>1, FiniteImage
<1>4. ASSUME NEW e \in E
      PROVE  \E k \in DOMAIN trail :
               /\ trail[k].batch = b.id
               /\ e.at = trail[k].at /\ e.kind = trail[k].action
               /\ e.from = "audit" /\ e.place = first + k
  BY <1>1
<1>5. ASSUME NEW e \in E, NEW f \in E, e.place = f.place
      PROVE  e = f
  <2>1. PICK k \in own : e = entry(k)
    BY <1>1
  <2>2. PICK i \in own : f = entry(i)
    BY <1>1
  <2>3. first + k = first + i /\ k \in Nat /\ i \in Nat
    BY <1>5, <2>1, <2>2
  <2>4. k = i
    BY <2>3
  <2>5. QED  BY <2>1, <2>2, <2>4
<1>6. QED  BY <1>3, <1>4, <1>5

\* What a timeline sorts.
EntriesOf(b, log, trail) ==
  {Created(b)} \cup ReceiptEntries(log, 0) \cup AuditEntries(b, trail, Len(log))

\* They have places of their own, the first is of the batch, and what comes
\* later in time or place is later.
LEMMA EntriesAre ==
  ASSUME NEW b \in Batch, NEW log \in Seq(Receipt), NEW trail \in Seq(AuditEvent),
         InTime(b, log, trail), NEW E, E = EntriesOf(b, log, trail)
  PROVE  /\ IsFiniteSet(E) /\ Created(b) \in E
         /\ \A e \in E : /\ e.at \in Nat /\ e.place \in Nat
                         /\ b.createdAt <= e.at
                         /\ e # Created(b) => e.place > 0
         /\ \A e, f \in E : e.place = f.place => e = f
         /\ \A e, f \in E, s \in States :
              /\ e.from = "receipt" /\ e.kind = ReceiptFor[s]
              /\ f.from = "audit" /\ f.kind = AuditActionFor[s]
              => e.at <= f.at /\ e.place < f.place
<1> PICK c : c = Created(b)
  OBVIOUS
<1> PICK L : L = ReceiptEntries(log, 0)
  OBVIOUS
<1> PICK n \in Nat : n = Len(log) /\ DOMAIN log = 1 .. n
  OBVIOUS
<1> PICK A : A = AuditEntries(b, trail, n)
  OBVIOUS
<1>1. E = {c} \cup L \cup A
  BY DEF EntriesOf
<1>2. c.at = b.createdAt /\ c.place = 0 /\ c.from = "batch" /\ b.createdAt \in Nat
  BY DEF Created, Batch, Instant
<1>3. /\ IsFiniteSet(L) /\ \A e, f \in L : e.place = f.place => e = f
      /\ \A e \in L : \E k \in DOMAIN log :
           /\ e.at = log[k].at /\ e.kind = log[k].kind
           /\ e.from = "receipt" /\ e.place = 0 + k
  BY EntriesOfLog
<1>4. /\ IsFiniteSet(A) /\ \A e, f \in A : e.place = f.place => e = f
      /\ \A e \in A : \E k \in DOMAIN trail :
           /\ trail[k].batch = b.id
           /\ e.at = trail[k].at /\ e.kind = trail[k].action
           /\ e.from = "audit" /\ e.place = n + k
  BY EntriesOfTrail
<1>5. IsFiniteSet(E)
  <2>1. IsFiniteSet({c})
    BY FS_Singleton
  <2>2. IsFiniteSet({c} \cup L)
    BY <1>3, <2>1, FS_Union
  <2>3. IsFiniteSet(({c} \cup L) \cup A)
    BY <1>4, <2>2, FS_Union
  <2>4. QED  BY <1>1, <2>3
<1>6. ASSUME NEW e \in L
      PROVE  /\ e.at \in Nat /\ e.place \in 1 .. n /\ e.from = "receipt"
             /\ b.createdAt <= e.at
  <2>1. PICK k \in DOMAIN log : e.at = log[k].at /\ e.from = "receipt" /\ e.place = 0 + k
    BY <1>3
  <2> PICK r : r = log[k]
    OBVIOUS
  <2>2. r \in Receipt /\ b.createdAt <= r.at
    BY SequenceElement DEF InTime
  <2>3. r.at \in Nat
    BY <2>2 DEF Receipt, Instant
  <2>4. k \in 1 .. n
    OBVIOUS
  <2>5. QED  BY <2>1, <2>2, <2>3, <2>4
<1>7. ASSUME NEW e \in A
      PROVE  /\ e.at \in Nat /\ e.place \in Nat /\ e.place > n /\ e.from = "audit"
             /\ b.createdAt <= e.at
  <2>1. PICK k \in DOMAIN trail :
          /\ trail[k].batch = b.id
          /\ e.at = trail[k].at /\ e.from = "audit" /\ e.place = n + k
    BY <1>4
  <2> PICK r : r = trail[k]
    OBVIOUS
  <2>2. r \in AuditEvent /\ b.createdAt <= r.at
    BY <2>1, SequenceElement DEF InTime
  <2>3. r.at \in Nat
    BY <2>2 DEF AuditEvent, Instant
  <2>4. k \in Nat /\ k > 0
    OBVIOUS
  <2>5. QED  BY <2>1, <2>2, <2>3, <2>4
<1>8. ASSUME NEW e \in E
      PROVE  /\ e.at \in Nat /\ e.place \in Nat /\ b.createdAt <= e.at
             /\ e # c => e.place > 0
  BY <1>1, <1>2, <1>6, <1>7
<1>9. ASSUME NEW e \in E, NEW f \in E, e.place = f.place
      PROVE  e = f
  BY <1>1, <1>2, <1>3, <1>4, <1>6, <1>7, <1>9
<1>10. ASSUME NEW e \in E, NEW f \in E, NEW s \in States,
              e.from = "receipt", e.kind = ReceiptFor[s],
              f.from = "audit", f.kind = AuditActionFor[s]
       PROVE  e.at <= f.at /\ e.place < f.place
  <2>1. e \in L /\ f \in A
    BY <1>1, <1>2, <1>6, <1>7, <1>10
  <2>2. PICK k \in DOMAIN log : e.at = log[k].at /\ e.kind = log[k].kind
    BY <1>3, <2>1
  <2>3. PICK i \in DOMAIN trail :
          trail[i].batch = b.id /\ f.at = trail[i].at /\ f.kind = trail[i].action
    BY <1>4, <2>1
  <2>4. e.at <= f.at
    BY <1>10, <2>2, <2>3 DEF InTime
  <2>5. e.place \in 1 .. n /\ f.place \in Nat /\ f.place > n
    BY <1>6, <1>7, <2>1
  <2>6. QED  BY <2>4, <2>5
<1>11. QED  BY <1>1, <1>5, <1>8, <1>9, <1>10

\* What a timeline has to be.
IsArranged(entries) ==
  /\ entries[1].kind = "batch_created"
  /\ \A i, k \in DOMAIN entries, s \in States :
       /\ entries[i].from = "audit" /\ entries[i].kind = AuditActionFor[s]
       /\ entries[k].from = "receipt" /\ entries[k].kind = ReceiptFor[s]
       => k < i
  /\ \A t \in Nat : IsSuffix(TimelineSince(entries, t), entries)

\* A timeline of records that are dated in order is.
LEMMA TimelineArranges ==
  ASSUME NEW b \in Batch, NEW log \in Seq(Receipt), NEW trail \in Seq(AuditEvent),
         InTime(b, log, trail)
  PROVE  IsArranged(BuildTimeline(b, log, trail))
<1> PICK E : E = EntriesOf(b, log, trail)
  OBVIOUS
<1> PICK c : c = Created(b)
  OBVIOUS
<1>1. /\ IsFiniteSet(E) /\ c \in E
      /\ \A e \in E : /\ e.at \in Nat /\ e.place \in Nat /\ b.createdAt <= e.at
                      /\ e # c => e.place > 0
      /\ \A e, f \in E : e.place = f.place => e = f
  BY EntriesAre
<1>2. \A e, f \in E, s \in States :
        /\ e.from = "receipt" /\ e.kind = ReceiptFor[s]
        /\ f.from = "audit" /\ f.kind = AuditActionFor[s]
        => e.at <= f.at /\ e.place < f.place
  BY EntriesAre
<1> DEFINE R == {p \in E \X E : IsEarlier(p[1], p[2])}
<1>3. \A e, f \in E : <<e, f>> \in R <=> IsEarlier(e, f)
  OBVIOUS
<1> HIDE DEF R
<1>4. IsStrictOrder(E, R)
  <2>1. \A e \in E : ~IsEarlier(e, e)
    BY <1>1 DEF IsEarlier
  <2>2. \A e, f \in E : e # f => IsEarlier(e, f) \/ IsEarlier(f, e)
    BY <1>1 DEF IsEarlier
  <2>3. \A e, f, g \in E : IsEarlier(e, f) /\ IsEarlier(f, g) => IsEarlier(e, g)
    BY <1>1 DEF IsEarlier
  <2>4. QED  BY <1>3, <2>1, <2>2, <2>3 DEF IsStrictOrder
<1> PICK list : list = BuildTimeline(b, log, trail)
  OBVIOUS
<1> PICK n \in Nat : n = Cardinality(E)
  BY <1>1, FS_CardinalityType
<1>5. list = InOrder(E, R)
  BY DEF BuildTimeline, StableByTime, EntriesOf, R
<1>6. /\ list \in [1 .. n -> E]
      /\ \A e \in E : \E k \in 1 .. n : list[k] = e
      /\ \A i, k \in 1 .. n : i < k => <<list[i], list[k]>> \in R
  <2>1. IsFiniteSet(E)
    BY <1>1
  <2>2. QED  BY <1>4, <1>5, <2>1, InOrderSorts
<1>7. \A i, k \in 1 .. n : i < k => IsEarlier(list[i], list[k])
  BY <1>3, <1>6
<1>8. list[1].kind = "batch_created"
  <2>1. PICK k \in 1 .. n : list[k] = c
    BY <1>1, <1>6
  <2>2. c.at = b.createdAt /\ c.place = 0 /\ c.kind = "batch_created"
    BY DEF Created
  <2>3. ASSUME NEW e \in E, IsEarlier(e, c) PROVE FALSE
    BY <1>1, <2>2, <2>3 DEF IsEarlier
  <2>4. k = 1
    <3>1. 1 \in 1 .. n /\ list[1] \in E
      BY <1>6
    <3>2. ~(1 < k)
      BY <1>7, <2>1, <2>3, <3>1
    <3>3. QED  BY <3>2
  <2>5. QED  BY <2>1, <2>2, <2>4
<1>9. ASSUME NEW i \in 1 .. n, NEW k \in 1 .. n, NEW s \in States,
             list[i].from = "audit", list[i].kind = AuditActionFor[s],
             list[k].from = "receipt", list[k].kind = ReceiptFor[s]
      PROVE  k < i
  <2> PICK e : e = list[k]
    OBVIOUS
  <2> PICK f : f = list[i]
    OBVIOUS
  <2>1. e \in E /\ f \in E
    BY <1>6
  <2>2. e.at <= f.at /\ e.place < f.place
    BY <1>2, <1>9, <2>1
  <2>3. ~IsEarlier(f, e)
    BY <1>1, <2>1, <2>2 DEF IsEarlier
  <2>4. i # k
    <3> PICK p : p = e.place
      OBVIOUS
    <3>1. p \in Nat /\ ~(p < p)
      BY <1>1, <2>1
    <3>2. e # f
      BY <2>2, <3>1
    <3>3. QED  BY <3>2
  <2>5. ~(i < k)
    BY <1>7, <2>3
  <2>6. QED  BY <2>4, <2>5
<1>10. ASSUME NEW t \in Nat PROVE IsSuffix(TimelineSince(list, t), list)
  <2>1. \A e \in E : e.at \in Nat
    BY <1>1
  <2>2. ASSUME NEW i \in 1 .. n, NEW k \in 1 .. n, i < k
        PROVE  list[i].at <= list[k].at
    <3> PICK e : e = list[i]
      OBVIOUS
    <3> PICK f : f = list[k]
      OBVIOUS
    <3>1. e \in E /\ f \in E
      BY <1>6
    <3>2. IsEarlier(e, f)
      BY <1>7, <2>2
    <3>3. e.at <= f.at
      BY <2>1, <3>1, <3>2 DEF IsEarlier
    <3>4. QED  BY <3>3
  <2>3. QED  BY <1>6, <2>1, <2>2, SinceIsSuffix
<1>11. DOMAIN list = 1 .. n
  BY <1>6
<1>12. QED  BY <1>8, <1>9, <1>10, <1>11 DEF IsArranged

\* What is read of a batch keeps its date, what is read of its receipts stays
\* in the store.
IsDatedAs(b) ==
  /\ b \in Batch /\ b.id \in BatchId /\ batches[b.id] # NoBatch
  /\ batches[b.id].scope = b.scope /\ batches[b.id].createdAt = b.createdAt

IsRead(id, log) ==
  /\ log \in Seq(Receipt)
  /\ \A k \in DOMAIN log : k \in DOMAIN receipts[id] /\ receipts[id][k] = log[k]

RecordsInTime ==
  /\ reading \in {"resolve", "receipts", "trail"} => IsDatedAs(view.batch)
  /\ reading = "trail" => IsRead(view.batch.id, view.receipts)
  /\ reading = "detail" =>
       /\ view.batch \in Batch /\ view.receipts \in Seq(Receipt)
       /\ view.audit \in Seq(AuditEvent) /\ "timeline" \notin DOMAIN view
       /\ InTime(view.batch, view.receipts, view.audit)
  /\ reading = "timeline" => IsArranged(view.timeline)

\* The dates of the store.
StoreInTime == Records /\ DatesOK /\ EventsFollowReceipts

\* While requests write, the store keeps what was read.
LEMMA RecordsWait ==
  ASSUME Base, RecordsInTime, [Next]_vars, UNCHANGED <<reading, view>>
  PROVE  RecordsInTime'
<1>1. ASSUME NEW b, IsDatedAs(b) PROVE IsDatedAs(b)'
  <2>1. /\ batches'[b.id] # NoBatch /\ batches'[b.id].scope = batches[b.id].scope
        /\ batches'[b.id].createdAt = batches[b.id].createdAt
    BY <1>1, BatchesStay DEF IsDatedAs
  <2>2. QED  BY <1>1, <2>1 DEF IsDatedAs
<1>2. ASSUME NEW id \in BatchId, NEW log, IsRead(id, log) PROVE IsRead(id, log)'
  <2>1. \A k \in DOMAIN receipts[id] :
          k \in DOMAIN receipts'[id] /\ receipts'[id][k] = receipts[id][k]
    BY ReceiptsKeep
  <2>2. QED  BY <1>2, <2>1 DEF IsRead
<1> PICK v : v = view
  OBVIOUS
<1>3. reading \in {"resolve", "receipts", "trail"} => IsDatedAs(v.batch)'
  BY <1>1 DEF RecordsInTime
<1>4. reading = "trail" => IsRead(v.batch.id, v.receipts)'
  BY <1>2 DEF RecordsInTime, IsDatedAs
<1>5. v = view'
  OBVIOUS
<1>6. QED  BY <1>3, <1>4, <1>5 DEF RecordsInTime, IsDatedAs, IsRead

\* BatchDetail finds the batch, and its evidence says nothing here.
LEMMA RecordsBegin ==
  ASSUME Base, Fields, RecordsInTime,
         (\E id \in BatchId : BatchDetail(id)) \/ ResolveEvidence
  PROVE  RecordsInTime'
<1>1. ASSUME NEW id \in BatchId, BatchDetail(id) PROVE RecordsInTime'
  <2> PICK b : b = batches[id]
    OBVIOUS
  <2>1. /\ reading' = "resolve" /\ view' = [query |-> "detail", batch |-> b]
        /\ UNCHANGED vars /\ batches[id] # NoBatch
    BY <1>1 DEF BatchDetail, Advance
  <2>2. IsDatedAs(b) /\ view'.batch = b
    BY <2>1, StoredBatch DEF IsDatedAs
  <2>3. IsDatedAs(view.batch)'
    BY <2>1, <2>2 DEF IsDatedAs, vars, store
  <2>4. QED  BY <2>1, <2>3 DEF RecordsInTime
<1>2. CASE ResolveEvidence
  <2> PICK more : more = [evidence |-> EvidenceOf(view.batch)]
    OBVIOUS
  <2> PICK b : b = view.batch
    OBVIOUS
  <2>1. /\ reading = "resolve" /\ reading' \in {"receipts", "missing"}
        /\ DOMAIN more = {"evidence"} /\ view' = With(view, more) /\ UNCHANGED vars
        /\ DOMAIN view = {"query", "batch"} /\ IsDatedAs(b)
    BY <1>2 DEF ResolveEvidence, Advance, Fields, RecordsInTime
  <2>2. view'.batch = b
    BY <2>1 DEF With
  <2>3. IsDatedAs(view.batch)'
    BY <2>1, <2>2 DEF IsDatedAs, vars, store
  <2>4. QED  BY <2>1, <2>3 DEF RecordsInTime
<1>3. QED  BY <1>1, <1>2

\* The receipts are read from the store.
LEMMA RecordsGetReceipts ==
  ASSUME Base, Fields, RecordsInTime, ListReceipts
  PROVE  RecordsInTime'
<1> PICK b : b = view.batch
  OBVIOUS
<1> PICK log : log = receipts[b.id]
  OBVIOUS
<1> PICK more : more = [receipts |-> log]
  OBVIOUS
<1>1. /\ reading = "receipts" /\ reading' = "trail"
      /\ DOMAIN more = {"receipts"} /\ more.receipts = log
      /\ view' = With(view, more) /\ UNCHANGED vars
      /\ DOMAIN view = {"query", "batch", "evidence"} /\ IsDatedAs(b)
  BY DEF ListReceipts, Advance, Fields, RecordsInTime
<1>2. view'.batch = b /\ view'.receipts = log
  BY <1>1 DEF With
<1>3. IsDatedAs(view.batch)'
  BY <1>1, <1>2 DEF IsDatedAs, vars, store
<1>4. log \in Seq(Receipt)
  BY <1>1 DEF IsDatedAs, Base, TypeInv, StoreOK, StoreTypeOK
<1>5. IsRead(view.batch.id, view.receipts)'
  BY <1>1, <1>2, <1>4 DEF IsRead, vars, store
<1>6. QED  BY <1>1, <1>3, <1>5 DEF RecordsInTime

\* An instant before an earlier one.
LEMMA EarlierStill ==
  \A x \in Nat, y \in Nat, z \in Nat : x <= y /\ y <= z => x <= z
OBVIOUS

\* The events are dated after the receipts that have been read.
LEMMA RecordsGetTrail ==
  ASSUME StoreInTime, Fields, RecordsInTime, ListAudit
  PROVE  RecordsInTime'
<1> PICK b : b = view.batch
  OBVIOUS
<1> PICK log : log = view.receipts
  OBVIOUS
<1> PICK key : key = Key(b.scope)
  OBVIOUS
<1> PICK trail : trail = audits[key]
  OBVIOUS
<1> PICK more : more = [audit |-> trail]
  OBVIOUS
<1>1. /\ reading = "trail" /\ reading' = "detail"
      /\ DOMAIN more = {"audit"} /\ more.audit = trail
      /\ view' = With(view, more) /\ UNCHANGED vars
      /\ DOMAIN view = {"query", "batch", "evidence", "receipts"}
      /\ IsDatedAs(b) /\ IsRead(b.id, log)
  BY DEF ListAudit, Advance, Fields, RecordsInTime
<1>2. view'.batch = b /\ view'.receipts = log /\ view'.audit = trail
  BY <1>1 DEF With
<1>3. /\ b \in Batch /\ b.id \in BatchId /\ batches[b.id] # NoBatch
      /\ batches[b.id].createdAt = b.createdAt /\ log \in Seq(Receipt)
      /\ b.createdAt \in Nat /\ b.id # ""
  BY <1>1, ServiceAssumption DEF IsDatedAs, IsRead, Batch, Instant
<1>4. key \in DOMAIN audits /\ trail \in Seq(AuditEvent)
  BY <1>3 DEF StoreInTime, Records, Base, TypeInv, StoreOK, StoreTypeOK, Batch
<1>5. \A k \in DOMAIN receipts[b.id] :
        receipts[b.id][k].at \in Nat /\ b.createdAt <= receipts[b.id][k].at
  BY <1>3, LogDates DEF StoreInTime, Records, Base, DatesOK, IsDatedAfter
<1>6. \A k \in DOMAIN log : b.createdAt <= log[k].at
  BY <1>1, <1>5 DEF IsRead
<1>7. ASSUME NEW i \in DOMAIN trail, trail[i].batch = b.id
      PROVE  /\ b.createdAt <= trail[i].at
             /\ \A k \in DOMAIN log, s \in States :
                  /\ trail[i].action = AuditActionFor[s]
                  /\ log[k].kind = ReceiptFor[s]
                  => log[k].at <= trail[i].at
  <2> PICK event : event = audits[key][i]
    OBVIOUS
  <2>1. event.batch = b.id /\ event \in AuditEvent /\ event.at \in Nat
    <3>1. event \in AuditEvent
      BY <1>4, TrailHasEvents DEF StoreInTime, Records, Base
    <3>2. QED  BY <1>7, <3>1, InstantsAreNumbers
  <2>2. Told(key, event) /\ FollowsReceipt(event)
    BY <1>4 DEF StoreInTime, Records, AuditsOK, TrailOK, EventsFollowReceipts
  <2>3. \A s \in States : event.action = AuditActionFor[s] =>
          ReceiptedBy(b.id, s, event.at)
    BY <1>3, <2>1, <2>2 DEF FollowsReceipt
  <2>4. PICK s \in Reached(b.id) :
          event.action = AuditActionFor[s] /\ HasReceipt(b.id, s)
    BY <1>3, <2>1, <2>2 DEF Told
  <2>5. s \in States
    BY <1>3, ReachedStates DEF StoreInTime, Records, Base, WorkersOK
  <2>6. PICK n \in DOMAIN receipts[b.id] : receipts[b.id][n].kind = ReceiptFor[s]
    BY <2>4 DEF HasReceipt
  <2>7. receipts[b.id][n].at <= event.at
    BY <2>3, <2>4, <2>5, <2>6 DEF ReceiptedBy
  <2>8. b.createdAt <= event.at
    <3> PICK made : made = b.createdAt
      OBVIOUS
    <3> PICK told : told = receipts[b.id][n].at
      OBVIOUS
    <3> PICK heard : heard = event.at
      OBVIOUS
    <3>1. made \in Nat /\ told \in Nat /\ heard \in Nat
      BY <1>3, <1>5, <2>1, <2>6
    <3>2. made <= told /\ told <= heard
      BY <1>5, <2>6, <2>7
    <3>3. made <= heard
      BY <3>1, <3>2, EarlierStill
    <3>4. QED  BY <3>3
  <2>9. ASSUME NEW k \in DOMAIN log, NEW u \in States,
               event.action = AuditActionFor[u], log[k].kind = ReceiptFor[u]
        PROVE  log[k].at <= event.at
    <3>1. ReceiptedBy(b.id, u, event.at)
      BY <2>3, <2>9
    <3>2. k \in DOMAIN receipts[b.id] /\ receipts[b.id][k] = log[k]
      BY <1>1 DEF IsRead
    <3>3. QED  BY <2>9, <3>1, <3>2 DEF ReceiptedBy
  <2>10. event = trail[i]
    OBVIOUS
  <2>11. QED  BY <2>8, <2>9, <2>10
<1>8. InTime(b, log, trail)
  BY <1>6, <1>7 DEF InTime
<1>9. InTime(view.batch, view.receipts, view.audit)'
  BY <1>2, <1>8 DEF InTime
<1>10. "timeline" \notin DOMAIN view'
  <2>1. DOMAIN view' = DOMAIN view \cup DOMAIN more
    BY <1>1 DEF With
  <2>2. QED  BY <1>1, <2>1
<1>11. QED  BY <1>1, <1>2, <1>3, <1>4, <1>9, <1>10 DEF RecordsInTime

\* Timeline arranges what has been read; the other steps are of other queries.
LEMMA RecordsAreArranged ==
  ASSUME RecordsInTime,
         \/ Timeline \/ ReadBatches \/ Dashboard \/ Answered
         \/ \E scope \in Scope : ReadScope(scope)
  PROVE  RecordsInTime'
<1>1. CASE Timeline
  <2> PICK list : list = BuildTimeline(view.batch, view.receipts, view.audit)
    OBVIOUS
  <2> PICK more : more = [timeline |-> list]
    OBVIOUS
  <2>1. /\ reading = "detail" /\ reading' = "timeline"
        /\ DOMAIN more = {"timeline"} /\ more.timeline = list
        /\ view' = With(view, more) /\ "timeline" \notin DOMAIN view
    BY <1>1 DEF Timeline, Advance, RecordsInTime
  <2>2. IsArranged(list)
    BY <2>1, TimelineArranges DEF RecordsInTime
  <2>3. view'.timeline = list
    BY <2>1 DEF With
  <2>4. QED  BY <2>1, <2>2, <2>3 DEF RecordsInTime
<1>2. CASE \/ ReadBatches \/ Dashboard \/ Answered
           \/ \E scope \in Scope : ReadScope(scope)
  <2>1. reading' \in {"batches", "scope", "dashboard", "idle"}
    BY <1>2 DEF ReadBatches, Dashboard, Answered, ReadScope, Advance
  <2>2. QED  BY <2>1 DEF RecordsInTime
<1>3. QED  BY <1>1, <1>2

\* What a reader has of the records of a batch is dated in order.
LEMMA RecordsInTimeStep ==
  ASSUME StoreInTime, Fields, RecordsInTime, [Read \/ Write]_readVars
  PROVE  RecordsInTime'
<1>1. Base
  BY DEF StoreInTime, Records
<1>2. CASE Read
  BY <1>1, <1>2, RecordsBegin, RecordsGetReceipts, RecordsGetTrail,
     RecordsAreArranged DEF Read
<1>3. CASE Write
  BY <1>1, <1>3, ReaderIsInvisible, RecordsWait DEF Write
<1>4. CASE UNCHANGED readVars
  BY <1>1, <1>4, ReaderIsInvisible, RecordsWait DEF readVars
<1>5. QED  BY <1>2, <1>3, <1>4

\* A timeline begins with its batch, tells of a receipt before it tells of the
\* event of the same state, and what it tells since an instant is its end: for
\* readings of any age, with or without a committer (timeline.go:15-28).
THEOREM TimelinesStayInOrder == QuerySpec => []TimelineIsInOrder
<1>1. Begin => RecordsInTime
  BY DEF Begin, RecordsInTime
<1>2. Base /\ ReceiptsOK /\ AuditsOK /\ EvidenceOK /\ DatesOK
        /\ EventsFollowReceipts /\ ScopesOK /\ RecordsInTime
        /\ [Read \/ Write]_readVars => RecordsInTime'
  BY RecordsInTimeStep DEF StoreInTime, Records, ScopesOK
<1>3. ASSUME Base, RecordsInTime
      PROVE  TimelineIsInOrder
  <2> SUFFICES ASSUME reading = "timeline"
               PROVE  TimelineIsInOrder
    BY DEF TimelineIsInOrder
  <2> PICK list : list = view.timeline
    OBVIOUS
  <2>1. IsArranged(list) /\ 0 .. now \subseteq Nat
    BY <1>3 DEF RecordsInTime, Base, TypeInv, RequestTypeOK
  <2>2. DOMAIN ReceiptFor = States
    BY StatesHaveRecords
  <2>3. QED  BY <2>1, <2>2 DEF TimelineIsInOrder, IsArranged
<1>4. Base /\ RecordsInTime => TimelineIsInOrder
  BY <1>3
<1>5. QED
  BY <1>1, <1>2, <1>4, StoreInvariants, ReadersChangeNothing, DatesInvariant,
     EventsAreDated, ScopesInvariant, PTL DEF QuerySpec

-----------------------------------------------------------------------------
\* The dashboard.

\* Batches that were closed when they were listed are among those of later lists.
LEMMA ClosedAreCounted ==
  ASSUME Base, FiniteStore, NEW scope \in Scope, NEW list, ListOK(list, scope),
         NEW state \in Outcome
  PROVE  InState(list, state) <= InState(ListBatches(scope), state)
<1> PICK later : later = ListBatches(scope)
  OBVIOUS
<1> PICK s : s = {b \in list : b.state = state}
  OBVIOUS
<1> PICK t : t = {b \in later : b.state = state}
  OBVIOUS
<1>1. IsFiniteSet(later)
  BY ListedBatches DEF ListOK
<1>2. IsFiniteSet(t)
  <2>1. t \in SUBSET later
    OBVIOUS
  <2>2. QED  BY <1>1, <2>1, FS_Subset
<1>3. s \in SUBSET t
  <2>1. SUFFICES ASSUME NEW b \in list, b.state = state PROVE b \in later
    OBVIOUS
  <2>2. IsAncestor(b) /\ b.scope = scope
    BY DEF ListOK
  <2>3. IsTerminal(b)
    BY <2>1 DEF IsTerminal, Outcome
  <2>4. b.id \in BatchId /\ batches[b.id] = b /\ b \in Batch
    BY <2>2, <2>3 DEF IsAncestor
  <2>5. QED  BY <2>2, <2>4, ListedBatches, BatchIsNotNone
<1>4. Cardinality(s) <= Cardinality(t)
  BY <1>2, <1>3, FS_Subset
<1>5. QED  BY <1>4 DEF InState

\* A set of numbers that is not empty has a least element.
LEMMA LeastNumber ==
  ASSUME NEW T \in SUBSET Nat, T # {}
  PROVE  \E m \in T : \A n \in T : m <= n
<1>1. PICK m \in T : \A n \in T : ~(<<n, m>> \in OpToRel(<, Nat))
  BY NatLessThanWellFounded, WFMin
<1>2. \A n \in T : ~(n < m)
  BY <1>1 DEF OpToRel
<1>3. QED  BY <1>2

\* Max is an element of a set of integers with a bound.
LEMMA MaxIsElement ==
  ASSUME NEW S \in SUBSET Int, S # {}, NEW top \in Int, \A s \in S : s <= top
  PROVE  Max(S) \in S /\ \A s \in S : s <= Max(S)
<1> DEFINE T == {n \in Nat : \E s \in S : n = top - s}
<1>1. T \in SUBSET Nat /\ T # {}
  <2>1. PICK s \in S : TRUE
    OBVIOUS
  <2>2. top - s \in Nat
    BY <2>1
  <2>3. QED  BY <2>2
<1>2. PICK m \in T : \A n \in T : m <= n
  <2> HIDE DEF T
  <2>1. QED  BY <1>1, LeastNumber
<1>3. PICK g \in S : m = top - g
  OBVIOUS
<1>4. ASSUME NEW s \in S PROVE g >= s
  <2>1. top - s \in T
    OBVIOUS
  <2>2. m <= top - s
    BY <1>2, <2>1
  <2>3. QED  BY <1>3, <2>2
<1>5. \E x \in S : \A y \in S : x >= y
  BY <1>4
<1>6. Max(S) \in S /\ \A y \in S : Max(S) >= y
  BY <1>5 DEF Max
<1>7. QED  BY <1>6

\* The last activity is that of a batch, which has been active since or not.
LEMMA ActivityIsListed ==
  ASSUME Base, FiniteStore, NEW scope \in Scope, NEW list, ListOK(list, scope),
         NEW at, at = Max({b.updatedAt : b \in list} \cup {-1}), at >= 0
  PROVE  \E b \in ListBatches(scope) : b.updatedAt >= at
<1> PICK S : S = {b.updatedAt : b \in list} \cup {-1}
  OBVIOUS
<1>1. ASSUME NEW b \in list
      PROVE  /\ IsAncestor(b) /\ b.scope = scope
             /\ batches[b.id].scope = scope /\ batches[b.id] # NoBatch
             /\ b.id \in BatchId
             /\ b.updatedAt \in Nat /\ batches[b.id].updatedAt \in Nat
             /\ b.updatedAt <= batches[b.id].updatedAt
             /\ batches[b.id].updatedAt <= now
  <2>1. IsAncestor(b) /\ b.scope = scope
    BY DEF ListOK
  <2>2. QED  BY <2>1, BatchIsNotNone
             DEF IsAncestor, Base, Versions, Batch, Instant
<1>2. now \in Nat
  BY NowIsInstant DEF Base, TypeInv, Instant
<1>3. \A b \in list : b.updatedAt \in Nat /\ b.updatedAt <= now
  BY <1>1, <1>2
<1>4. S \in SUBSET Int /\ S # {} /\ \A s \in S : s <= now
  BY <1>2, <1>3
<1>5. at \in S
  <2>1. at = Max(S) /\ now \in Int
    BY <1>2
  <2> PICK t : t = now
    OBVIOUS
  <2>2. t \in Int /\ \A s \in S : s <= t
    BY <1>4, <2>1
  <2>3. Max(S) \in S
    BY <1>4, <2>2, MaxIsElement
  <2>4. QED  BY <2>1, <2>3
<1>6. PICK b \in list : at = b.updatedAt
  BY <1>5
<1>7. batches[b.id] \in ListBatches(scope)
  BY <1>1, ListedBatches
<1>8. QED  BY <1>1, <1>6, <1>7

\* The counts that are read after a summary are not behind it.
LEMMA DashboardIsAhead ==
  ASSUME Base, FiniteStore, ScopesOK, Dashboard
  PROVE  DashboardNeverGoesBack'
<1> PICK scope, items, list :
      scope = view.scope /\ items = view.items /\ list = view.batches
  OBVIOUS
<1> PICK summary : summary = SummarizeScope(items, list)
  OBVIOUS
<1> PICK counts : counts = CountByState(scope)
  OBVIOUS
<1> PICK recent : recent = ListBatches(scope)
  OBVIOUS
<1>1. /\ reading = "scope" /\ reading' = "dashboard"
      /\ view' = [query |-> "dashboard", summary |-> summary,
                  counts |-> counts, recent |-> recent]
  BY DEF Dashboard, Advance
<1>2. scope \in Scope /\ ListOK(list, scope)
  BY <1>1 DEF ScopesOK
<1>3. /\ summary.approved = InState(list, "approved")
      /\ summary.rejected = InState(list, "rejected")
      /\ summary.cancelled = InState(list, "cancelled")
      /\ summary.lastActivityAt = Max({b.updatedAt : b \in list} \cup {-1})
  BY DEF SummarizeScope
<1>4. \A state \in Outcome : counts[state] = InState(recent, state)
  BY DEF CountByState, Outcome, BatchState
<1>5. \A state \in Outcome : InState(list, state) <= counts[state]
  BY <1>2, <1>4, ClosedAreCounted
<1>6. /\ summary.approved <= counts["approved"]
      /\ summary.rejected <= counts["rejected"]
      /\ summary.cancelled <= counts["cancelled"]
  BY <1>3, <1>5 DEF Outcome
<1> PICK at : at = summary.lastActivityAt
  OBVIOUS
<1>7. at >= 0 => \E b \in recent : b.updatedAt >= at
  BY <1>2, <1>3, ActivityIsListed
<1>8. view'.summary = summary /\ view'.counts = counts /\ view'.recent = recent
  BY <1>1
<1>9. QED  BY <1>6, <1>7, <1>8 DEF DashboardNeverGoesBack

\* What a dashboard shows last is never behind what it shows first, however many
\* requests come in between (dashboard.go:17-25).
THEOREM DashboardsNeverGoBack == QuerySpec => []DashboardNeverGoesBack
<1>1. Begin => DashboardNeverGoesBack
  BY DEF Begin, DashboardNeverGoesBack
<1>2. Base /\ FiniteStore /\ ScopesOK /\ DashboardNeverGoesBack
        /\ [Read \/ Write]_readVars => DashboardNeverGoesBack'
  <2> SUFFICES ASSUME Base, FiniteStore, ScopesOK, DashboardNeverGoesBack,
                      [Read \/ Write]_readVars
               PROVE  DashboardNeverGoesBack'
    OBVIOUS
  <2>1. CASE Write \/ UNCHANGED readVars
    BY <2>1 DEF Write, readVars, DashboardNeverGoesBack
  <2>2. CASE Read /\ ~Dashboard
    <3>1. reading' # "dashboard"
      BY <2>2 DEF Read, BatchDetail, ResolveEvidence, ListReceipts, ListAudit,
         ReadScope, ReadBatches, Answered, Timeline, Advance
    <3>2. QED  BY <3>1 DEF DashboardNeverGoesBack
  <2>3. CASE Dashboard
    BY <2>3, DashboardIsAhead
  <2>4. QED  BY <2>1, <2>2, <2>3
<1>3. QED
  BY <1>1, <1>2, ReadersChangeNothing, StoreInvariants, FiniteStoreInvariant,
     ScopesInvariant, PTL DEF QuerySpec

-----------------------------------------------------------------------------
\* A report.

\* The evidence of the batches that were known is on the list.
KnownIsCovered ==
  reading \in {"batches", "scope"} =>
    \A b \in view.known : \A id \in b.evidence : \E item \in view.items : item.id = id

\* ListEvidence has the evidence of the batches there are.
LEMMA EvidenceIsListed ==
  ASSUME Base, EvidenceOK, NEW id \in BatchId, batches[id] # NoBatch,
         \A n \in Name : \A i \in DOMAIN n : n[i] # ":",
         NEW x \in batches[id].evidence
  PROVE  \E item \in ListEvidence(batches[id].scope) : item.id = x
<1>1. PICK b \in Batch : b = batches[id] /\ Good(b)
  BY DEF Base, TypeInv, StoreOK, StoreTypeOK, EvidenceOK
<1>2. FindEvidence(evidence, b.scope, x) # {}
  BY <1>1, GoodVerdict DEF Good
<1>3. PICK e \in evidence : EvidenceKey(e.scope, e.id) = EvidenceKey(b.scope, x)
  BY <1>2 DEF FindEvidence
<1>4. PICK s : s = e.scope /\ s \in Scope
  BY DEF Evidence, Base, TypeInv, StoreOK, StoreTypeOK
<1>5. PICK t : t = b.scope /\ t \in Scope
  BY DEF Batch
<1>6. PICK y : y = e.id
  OBVIOUS
<1>7. EvidenceKey(s, y) = EvidenceKey(t, x)
  BY <1>3, <1>4, <1>5, <1>6
<1>8. y = x /\ Key(s) = Key(t)
  BY <1>4, <1>5, <1>7, EvidenceKeys
<1>9. s = t
  BY <1>4, <1>5, <1>8, KeysDiffer
<1>10. QED  BY <1>1, <1>4, <1>5, <1>6, <1>8, <1>9 DEF ListEvidence

\* A report lacks evidence of a batch only if the batch is newer than the report,
\* as long as no name has a colon in it (report.go:10-14, scope.go:29).
THEOREM ReportsLagOnNewBatchesOnly ==
  ASSUME \A n \in Name : \A i \in DOMAIN n : n[i] # ":"
  PROVE  QuerySpec => []ReportLagsOnNewBatchesOnly
<1>1. Begin => KnownIsCovered
  BY DEF Begin, KnownIsCovered
<1>2. ASSUME Base, EvidenceOK, ScopesOK, KnownIsCovered, [Read \/ Write]_readVars
      PROVE  KnownIsCovered'
  <2>1. CASE Write \/ UNCHANGED readVars
    BY <1>2, <2>1 DEF Write, readVars, KnownIsCovered
  <2>2. ASSUME NEW scope \in Scope, ReadScope(scope) PROVE KnownIsCovered'
    <3> PICK known, items :
          known = ListBatches(scope) /\ items = ListEvidence(scope)
      OBVIOUS
    <3>1. view' = [query |-> "scope", scope |-> scope,
                   items |-> items, known |-> known]
      BY <2>2 DEF ReadScope, Advance
    <3>2. ASSUME NEW b \in known, NEW x \in b.evidence
          PROVE  \E item \in items : item.id = x
      <4>1. PICK id \in BatchId : /\ b = batches[id] /\ batches[id] # NoBatch
                                  /\ batches[id].scope = scope
        BY DEF ListBatches
      <4>2. QED  BY <1>2, <3>2, <4>1, EvidenceIsListed
    <3>3. view'.items = items /\ view'.known = known
      BY <3>1
    <3>4. QED  BY <3>2, <3>3 DEF KnownIsCovered
  <2>3. CASE ReadBatches
    <3> PICK more : more = [batches |-> ListBatches(view.scope)]
      OBVIOUS
    <3>1. /\ reading = "batches" /\ view' = With(view, more)
          /\ DOMAIN more = {"batches"}
          /\ DOMAIN view = {"query", "scope", "items", "known"}
      BY <1>2, <2>3 DEF ReadBatches, Advance, ScopesOK, Fields
    <3>2. view'.items = view.items /\ view'.known = view.known
      BY <3>1 DEF With
    <3>3. QED  BY <1>2, <3>1, <3>2 DEF KnownIsCovered
  <2>4. CASE Read /\ ~ReadBatches /\ ~(\E scope \in Scope : ReadScope(scope))
    <3>1. reading' \notin {"batches", "scope"}
      BY <2>4 DEF Read, BatchDetail, ResolveEvidence, ListReceipts, ListAudit,
         Dashboard, Answered, Timeline, Advance
    <3>2. QED  BY <3>1 DEF KnownIsCovered
  <2>5. QED  BY <1>2, <2>1, <2>2, <2>3, <2>4
<1>3. ASSUME ScopesOK, KnownIsCovered PROVE ReportLagsOnNewBatchesOnly
  <2> SUFFICES ASSUME reading = "scope", NEW b \in view.batches,
                      NEW old \in view.known, old.id = b.id, NEW x \in b.evidence
               PROVE  \E item \in view.items : item.id = x
    BY DEF ReportLagsOnNewBatchesOnly
  <2>1. IsAncestor(b) /\ IsAncestor(old)
    BY <1>3 DEF ScopesOK, ListOK
  <2>2. x \in old.evidence
    BY <2>1 DEF IsAncestor
  <2>3. QED  BY <1>3, <2>2 DEF KnownIsCovered
<1>4. Base /\ EvidenceOK /\ ScopesOK /\ KnownIsCovered /\ [Read \/ Write]_readVars
        => KnownIsCovered'
  BY <1>2
<1>5. ScopesOK /\ KnownIsCovered => ReportLagsOnNewBatchesOnly
  BY <1>3
<1>6. QED
  BY <1>1, <1>4, <1>5, StoreInvariants, ScopesInvariant, PTL DEF QuerySpec

-----------------------------------------------------------------------------
\* The queue of the reviewers.

\* The risk of a good batch that is not rejected is the number of its expired
\* items.
LEMMA RiskOfGood ==
  ASSUME Base, EvidenceOK, FiniteStore, NEW id \in BatchId, batches[id] # NoBatch,
         Policy.requireCertificate, batches[id].state # "rejected"
  PROVE  LET risk == RiskForBatch(batches[id])
         IN ~risk.uncertified /\ (risk.level # "low" <=> risk.expired > 0)
<1>1. PICK b \in Batch : b = batches[id] /\ Good(b)
  BY DEF Base, TypeInv, StoreOK, StoreTypeOK, EvidenceOK
<1> PICK items : items = EvidenceOf(b)
  OBVIOUS
<1>2. \E item \in items : item.kind = "certificate"
  <2>1. SatisfiesPolicy(Found(b.scope, b.evidence), Cardinality(b.evidence))
    BY <1>1, GoodVerdict DEF Good
  <2>2. QED  BY <2>1 DEF SatisfiesPolicy, Found, EvidenceOf
<1> PICK expired : expired = {item \in items : IsExpired(item, b.updatedAt)}
  OBVIOUS
<1>3. Cardinality(expired) \in Nat
  <2> PICK all : all = evidence
    OBVIOUS
  <2>1. expired \in SUBSET all /\ IsFiniteSet(all)
    BY DEF EvidenceOf, FindEvidence, FiniteStore
  <2>2. IsFiniteSet(expired)
    BY <2>1, FS_Subset
  <2>3. QED  BY <2>2, FS_CardinalityType
<1> PICK n : n = Cardinality(expired)
  OBVIOUS
<1> PICK risk : risk = RiskForBatch(b)
  OBVIOUS
<1>4. ~(\A item \in items : item.kind # "certificate")
  BY <1>2
<1>5. n + 0 = n /\ n \in Nat
  BY <1>3
<1>6. risk = [level |-> CASE n > 1 -> "high" [] n = 1 -> "medium" [] OTHER -> "low",
              expired |-> n, uncertified |-> FALSE]
  <2>1. risk = AssessRisk(items, b)
    BY DEF RiskForBatch
  <2>2. b.state # "rejected"
    BY <1>1
  <2>3. QED  BY <1>4, <1>5, <2>1, <2>2 DEF AssessRisk
<1>7. ~risk.uncertified /\ risk.expired = n
      /\ risk.level = CASE n > 1 -> "high" [] n = 1 -> "medium" [] OTHER -> "low"
  BY <1>6
<1>8. risk.level # "low" <=> n > 0
  BY <1>5, <1>7
<1>9. QED  BY <1>1, <1>7, <1>8

\* The evidence of a good batch is as much as the policy admits.
LEMMA CountOfGood ==
  ASSUME Base, EvidenceOK, FiniteStore, NEW id \in BatchId, batches[id] # NoBatch,
         Policy.maxEvidence > 0
  PROVE  Cardinality(batches[id].evidence) \in 1 .. Policy.maxEvidence
<1>1. PICK b \in Batch : b = batches[id] /\ Good(b)
  BY DEF Base, TypeInv, StoreOK, StoreTypeOK, EvidenceOK
<1> PICK own : own = b.evidence
  OBVIOUS
<1>2. /\ \A x \in own : FindEvidence(evidence, b.scope, x) # {}
      /\ SatisfiesPolicy(Found(b.scope, own), Cardinality(own))
  BY <1>1, GoodVerdict DEF Good
<1>3. IsFiniteSet(own)
  <2> PICK all : all = evidence
    OBVIOUS
  <2> PICK ids : ids = {e.id : e \in all}
    OBVIOUS
  <2>1. ASSUME NEW x \in own PROVE x \in ids
    <3>1. PICK e \in all : EvidenceKey(e.scope, e.id) = EvidenceKey(b.scope, x)
      BY <1>2 DEF FindEvidence
    <3>2. PICK s : s = e.scope /\ s \in Scope
      BY DEF Evidence, Base, TypeInv, StoreOK, StoreTypeOK
    <3>3. PICK t : t = b.scope /\ t \in Scope
      BY DEF Batch
    <3>4. PICK y : y = e.id
      OBVIOUS
    <3>5. EvidenceKey(s, y) = EvidenceKey(t, x)
      BY <3>1, <3>2, <3>3, <3>4
    <3>6. y = x
      BY <3>2, <3>3, <3>5, EvidenceKeys
    <3>7. QED  BY <3>4, <3>6
  <2>2. IsFiniteSet(ids)
    <3> PICK f : f = [e \in all |-> e.id]
      OBVIOUS
    <3>1. f \in Surjection(all, ids)
      BY DEF Surjection
    <3>2. IsFiniteSet(all)
      BY DEF FiniteStore
    <3>3. QED  BY <3>1, <3>2, FS_Surjection
  <2>3. QED  BY <2>1, <2>2, FS_Subset
<1>4. Cardinality(own) \in Nat
  BY <1>3, FS_CardinalityType
<1>5. Cardinality(own) > 0 /\ Cardinality(own) <= Policy.maxEvidence
  BY <1>2 DEF SatisfiesPolicy
<1>6. Policy.maxEvidence \in Int
  BY DomainAssumption DEF ReviewPolicy
<1>7. QED  BY <1>1, <1>4, <1>5, <1>6

\* With a policy that asks for a certificate and limits the evidence, what awaits
\* a reviewer is certified, within the limit, and a risk only where evidence has
\* expired (report.go:27-44, risk.go:25-41).
THEOREM QueuedRisksAreExpiries ==
  ASSUME Policy.requireCertificate, Policy.maxEvidence > 0
  PROVE  Spec => []QueuedRiskIsExpiry
<1>1. ASSUME Base, EvidenceOK, FiniteStore PROVE QueuedRiskIsExpiry
  <2> SUFFICES ASSUME NEW scope \in Scope, NEW item \in ReviewQueue(scope)
               PROVE  /\ item.evidenceCount \in 1 .. Policy.maxEvidence
                      /\ ~item.risk.uncertified
                      /\ item.risk.level # "low" <=> item.risk.expired > 0
    BY DEF QueuedRiskIsExpiry
  <2>1. PICK b \in ListBatches(scope) :
          /\ IsVisibleToReviewer(b)
          /\ item = [batch |-> b, risk |-> RiskForBatch(b),
                     evidenceCount |-> Cardinality(b.evidence)]
    BY DEF ReviewQueue
  <2>2. PICK id \in BatchId : b = batches[id] /\ batches[id] # NoBatch
    BY DEF ListBatches
  <2>3. b.state # "rejected"
    BY <2>1 DEF IsVisibleToReviewer
  <2>4. item.risk = RiskForBatch(b) /\ item.evidenceCount = Cardinality(b.evidence)
    BY <2>1
  <2>5. Cardinality(b.evidence) \in 1 .. Policy.maxEvidence
    BY <1>1, <2>2, CountOfGood
  <2> PICK risk : risk = RiskForBatch(b)
    OBVIOUS
  <2>6. ~risk.uncertified /\ (risk.level # "low" <=> risk.expired > 0)
    BY <1>1, <2>2, <2>3, RiskOfGood
  <2>7. QED  BY <2>4, <2>5, <2>6
<1>2. TypeInv /\ Versions /\ WorkersOK /\ EvidenceOK /\ FiniteStore
        => QueuedRiskIsExpiry
  BY <1>1 DEF Base
<1>3. QED
  BY <1>2, TypeInvariant, VersionsInvariant, WorkersInvariant, EvidenceInvariant,
     FiniteStoreInvariant, PTL

-----------------------------------------------------------------------------
(***************************************************************************)
(* Metrics.  Each step that counts a receipt or an item has its worker     *)
(* about to append the event, and each event that is counted has its       *)
(* worker done with it.                                                    *)
(***************************************************************************)

Auditing == {w \in Worker : pc[w] = "audit"}

Balanced ==
  /\ \A w \in Worker : ~gone[w]
  /\ IsFiniteSet(evidence) /\ IsFiniteSet(Entries(receipts))
  /\ IsFiniteSet(Entries(audits)) /\ IsFiniteSet(Auditing)
  /\ MetricsBalance

\* One element more counts for one.
LEMMA OneMore ==
  ASSUME NEW old, NEW more, NEW place, IsFiniteSet(old), place \notin old,
         more = old \cup {place}
  PROVE  IsFiniteSet(more) /\ Cardinality(more) = Cardinality(old) + 1
BY FS_AddElement

\* What is appended to a log is one entry more.
LEMMA OneEntryMore ==
  ASSUME NEW S, NEW keys, NEW log \in [keys -> Seq(S)], NEW key \in keys, NEW e \in S,
         IsFiniteSet(Entries(log))
  PROVE  /\ IsFiniteSet(Entries(AppendAt(log, key, e)))
         /\ Cardinality(Entries(AppendAt(log, key, e))) = Cardinality(Entries(log)) + 1
<1> PICK new : new = AppendAt(log, key, e)
  OBVIOUS
<1> PICK n : n = Len(log[key]) + 1
  OBVIOUS
<1>1. /\ DOMAIN new = keys /\ new[key] = Append(log[key], e)
      /\ \A k \in keys : k # key => new[k] = log[k]
  BY DEF AppendAt
<1>2. log[key] \in Seq(S)
  OBVIOUS
<1>3. DOMAIN new[key] = DOMAIN log[key] \cup {n} /\ n \notin DOMAIN log[key]
  BY <1>1, <1>2, AppendElements
<1>4. \A p : p \in Entries(log) <=> \E k \in keys : p \in {k} \X DOMAIN log[k]
  BY DEF Entries
<1>5. \A p : p \in Entries(new) <=> \E k \in keys : p \in {k} \X DOMAIN new[k]
  BY <1>1 DEF Entries
<1>6. \A k \in keys : k # key => DOMAIN new[k] = DOMAIN log[k]
  BY <1>1
<1>7. <<key, n>> \notin Entries(log)
  BY <1>3, <1>4
<1>8. Entries(new) = Entries(log) \cup {<<key, n>>}
  <2>1. ASSUME NEW p \in Entries(new) PROVE p \in Entries(log) \cup {<<key, n>>}
    <3>1. PICK k \in keys : p \in {k} \X DOMAIN new[k]
      BY <1>5
    <3>2. CASE k = key
      BY <1>3, <1>4, <3>1, <3>2
    <3>3. CASE k # key
      BY <1>4, <1>6, <3>1, <3>3
    <3>4. QED  BY <3>2, <3>3
  <2>2. <<key, n>> \in Entries(new)
    BY <1>3, <1>5
  <2>3. ASSUME NEW p \in Entries(log) PROVE p \in Entries(new)
    <3>1. PICK k \in keys : p \in {k} \X DOMAIN log[k]
      BY <1>4
    <3>2. CASE k = key
      BY <1>3, <1>5, <3>1, <3>2
    <3>3. CASE k # key
      BY <1>5, <1>6, <3>1, <3>3
    <3>4. QED  BY <3>2, <3>3
  <2>4. QED  BY <2>1, <2>2, <2>3
<1> PICK old, more, place :
      old = Entries(log) /\ more = Entries(new) /\ place = <<key, n>>
  OBVIOUS
<1>9. IsFiniteSet(old) /\ place \notin old /\ more = old \cup {place}
  BY <1>7, <1>8
<1>10. IsFiniteSet(more) /\ Cardinality(more) = Cardinality(old) + 1
  BY <1>9, OneMore
<1>11. QED  BY <1>10

\* A worker that goes from one call to the next, and the events to come.
LEMMA AuditingStep ==
  ASSUME Base, IsFiniteSet(Auditing), NEW w \in Worker, NEW next, NEW b, Proceed(w, next, b)
  PROVE  /\ IsFiniteSet(Auditing') /\ UNCHANGED gone
         /\ pc[w] # "audit" /\ next # "audit" => Auditing' = Auditing
         /\ pc[w] # "audit" /\ next = "audit"
              => Cardinality(Auditing') = Cardinality(Auditing) + 1
         /\ pc[w] = "audit" /\ next # "audit"
              => Cardinality(Auditing') = Cardinality(Auditing) - 1
<1> PICK old : old = Auditing
  OBVIOUS
<1> PICK new : new = Auditing'
  OBVIOUS
<1>1. /\ DOMAIN pc = Worker /\ pc'[w] = next /\ UNCHANGED gone
      /\ \A v \in Worker : v # w => pc'[v] = pc[v]
  BY DEF Base, TypeInv, RequestTypeOK, Proceed
<1>2. IsFiniteSet(old) /\ (w \in old <=> pc[w] = "audit")
  BY DEF Auditing
<1>3. new = IF next = "audit" THEN old \cup {w} ELSE old \ {w}
  BY <1>1 DEF Auditing
<1>4. pc[w] # "audit" /\ next # "audit" => new = old
  BY <1>2, <1>3
<1>5. IsFiniteSet(old \cup {w}) /\ IsFiniteSet(old \ {w})
  BY <1>2, FS_AddElement, FS_RemoveElement
<1>6. pc[w] # "audit" => Cardinality(old \cup {w}) = Cardinality(old) + 1
  BY <1>2, FS_AddElement
<1>7. pc[w] = "audit" => Cardinality(old \ {w}) = Cardinality(old) - 1
  BY <1>2, FS_RemoveElement
<1>8. QED  BY <1>1, <1>3, <1>4, <1>5, <1>6, <1>7

\* A step that files nothing and asks for no event.
LEMMA PlainBalance ==
  ASSUME Base, Balanced, NEW w \in Worker, NEW next, NEW b, Proceed(w, next, b),
         pc[w] # "audit", next # "audit", UNCHANGED <<evidence, receipts, audits>>
  PROVE  Balanced'
<1>1. Auditing' = Auditing /\ UNCHANGED gone
  BY AuditingStep DEF Balanced
<1>2. MetricsBalance'
  BY <1>1 DEF Balanced, MetricsBalance, Metrics, Auditing
<1>3. QED  BY <1>1, <1>2 DEF Balanced

\* A batch that is found or not found, which files nothing.
LEMMA LoadBalance ==
  ASSUME Base, Balanced, NEW w \in Worker, NEW t, Load(w, t), pc[w] # "audit"
  PROVE  Balanced'
<1>1. \E next, b : /\ Proceed(w, next, b) /\ next # "audit"
                  /\ UNCHANGED <<evidence, receipts, audits>>
  BY DEF Load, Fail, store
<1>2. QED  BY <1>1, PlainBalance

\* Of the requests that come, only a registration adds something to count.
LEMMA ArriveBalance ==
  ASSUME Base, Balanced, [Next]_vars, NEW w \in Worker, Arrive(w)
  PROVE  Balanced'
<1>1. ASSUME NEW id \in EvidenceId, NEW scope \in Scope, NEW kind \in OfferedKinds,
             NEW expiresAt \in OfferedExpiries, Register(w, id, scope, kind, expiresAt)
      PROVE  Balanced'
  <2>1. /\ pc[w] = "idle" /\ Proceed(w, "audit", NoBatch)
        /\ \A item \in evidence : item.id # id
        /\ UNCHANGED <<receipts, audits>>
    BY <1>1 DEF Register
  <2>2. evidence' # evidence
    <3>1. PICK t \in Clock(w) :
            evidence' = SaveEvidence(evidence,
                          [id |-> id, scope |-> scope, kind |-> kind,
                           expiresAt |-> expiresAt, createdAt |-> t])
      BY <1>1 DEF Register
    <3> PICK item : item = [id |-> id, scope |-> scope, kind |-> kind,
                            expiresAt |-> expiresAt, createdAt |-> t]
      OBVIOUS
    <3>2. item \in evidence' /\ item.id = id
      BY <3>1 DEF SaveEvidence
    <3>3. QED  BY <2>1, <3>2
  <2>3. PICK item : item \notin evidence /\ evidence' = evidence \cup {item}
    BY <2>2, RegistrationAdds DEF Base
  <2> PICK old, new : old = evidence /\ new = evidence'
    OBVIOUS
  <2>4. IsFiniteSet(new) /\ Cardinality(new) = Cardinality(old) + 1
    <3>1. IsFiniteSet(old) /\ item \notin old /\ new = old \cup {item}
      BY <2>3 DEF Balanced
    <3>2. QED  BY <3>1, FS_AddElement
  <2>5. /\ IsFiniteSet(Auditing') /\ UNCHANGED gone
        /\ Cardinality(Auditing') = Cardinality(Auditing) + 1
    BY <2>1, AuditingStep DEF Balanced
  <2>6. Cardinality(evidence') = Cardinality(evidence) + 1
    BY <2>4
  <2> PICK r, a : r = Cardinality(Entries(receipts)) /\ a = Cardinality(Entries(audits))
    OBVIOUS
  <2> PICK e, k : e = Cardinality(evidence) /\ k = Cardinality(Auditing)
    OBVIOUS
  <2>7. r \in Int /\ a \in Int /\ e \in Int /\ k \in Int /\ r + e = a + k
    BY FS_CardinalityType DEF Balanced, MetricsBalance, Metrics, Auditing
  <2>8. MetricsBalance'
    BY <2>1, <2>5, <2>6, <2>7 DEF MetricsBalance, Metrics, Auditing
  <2>9. QED  BY <2>1, <2>4, <2>5, <2>8 DEF Balanced
<1>2. ASSUME NEW id \in BatchId, NEW scope \in Scope, NEW list \in OfferedLists,
             CreateBatch(w, id, scope, list)
      PROVE  Balanced'
  <2>1. pc[w] = "idle"
    BY <1>2 DEF CreateBatch
  <2>2. \E next, b : /\ Proceed(w, next, b) /\ next # "audit"
                    /\ UNCHANGED <<evidence, receipts, audits>>
    BY <1>2 DEF CreateBatch, Fail, Verdict, store
  <2>3. QED  BY <2>1, <2>2, PlainBalance
<1>3. ASSUME NEW id \in BatchId, StartReview(w, id)
      PROVE  Balanced'
  <2>1. pc[w] = "idle"
    BY <1>3 DEF StartReview
  <2>2. \E next, b : /\ Proceed(w, next, b) /\ next # "audit"
                    /\ UNCHANGED <<evidence, receipts, audits>>
    BY <1>3 DEF StartReview, Fail, store
  <2>3. QED  BY <2>1, <2>2, PlainBalance
<1>4. ASSUME NEW t, Load(w, t), pc[w] = "idle"
      PROVE  Balanced'
  BY <1>4, LoadBalance
<1>5. QED  BY <1>1, <1>2, <1>3, <1>4 DEF Arrive, DecideBatch, CancelBatch

\* A step that counts a receipt and has its worker append the event next.
LEMMA ReceiptBalance ==
  ASSUME Base, Balanced, NEW w \in Worker, NEW b, Proceed(w, "audit", b),
         pc[w] # "audit", NEW id \in BatchId, NEW receipt \in Receipt,
         receipts' = AppendAt(receipts, id, receipt), UNCHANGED <<evidence, audits>>
  PROVE  Balanced'
<1>1. /\ IsFiniteSet(Entries(receipts'))
      /\ Cardinality(Entries(receipts')) = Cardinality(Entries(receipts)) + 1
  <2>1. receipts \in [BatchId -> Seq(Receipt)] /\ IsFiniteSet(Entries(receipts))
    BY DEF Base, TypeInv, StoreOK, StoreTypeOK, Balanced
  <2>2. QED  BY <2>1, OneEntryMore
<1>2. /\ IsFiniteSet(Auditing') /\ UNCHANGED gone
      /\ Cardinality(Auditing') = Cardinality(Auditing) + 1
  BY AuditingStep DEF Balanced
<1> PICK r, a : r = Cardinality(Entries(receipts)) /\ a = Cardinality(Entries(audits))
  OBVIOUS
<1> PICK e, k : e = Cardinality(evidence) /\ k = Cardinality(Auditing)
  OBVIOUS
<1>3. r \in Int /\ a \in Int /\ e \in Int /\ k \in Int /\ r + e = a + k
  BY FS_CardinalityType DEF Balanced, MetricsBalance, Metrics, Auditing
<1>4. MetricsBalance'
  BY <1>1, <1>2, <1>3 DEF MetricsBalance, Metrics, Auditing
<1>5. QED  BY <1>1, <1>2, <1>4 DEF Balanced

\* As long as nobody leaves, an event that is to be appended is.
LEMMA EventBalance ==
  ASSUME Base, Balanced, NEW w \in Worker, AppendAudit(w)
  PROVE  Balanced'
<1>1. pc[w] = "audit" /\ ~gone[w] /\ UNCHANGED <<evidence, receipts>>
  BY DEF AppendAudit, Balanced
<1>2. \E next : next # "audit" /\ Proceed(w, next, seen[w])
  <2> PICK next : next = IF task[w].recipient # "" THEN "notify" ELSE "ok"
    OBVIOUS
  <2>1. Proceed(w, next, seen[w])
    BY DEF AppendAudit
  <2>2. QED  BY <2>1
<1>3. PICK key, e : /\ key \in DOMAIN audits /\ e \in AuditEvent
                   /\ audits' = AppendAt(audits, key, e)
  BY <1>1, AuditEffect
<1>4. /\ IsFiniteSet(Entries(audits'))
      /\ Cardinality(Entries(audits')) = Cardinality(Entries(audits)) + 1
  <2>1. \E keys : audits \in [keys -> Seq(AuditEvent)]
    BY DEF Base, TypeInv, StoreOK, StoreTypeOK
  <2>2. PICK keys : audits \in [keys -> Seq(AuditEvent)] /\ key \in keys
    BY <1>3, <2>1
  <2> PICK log, new : log = audits /\ new = AppendAt(audits, key, e)
    OBVIOUS
  <2>3. /\ IsFiniteSet(Entries(new))
        /\ Cardinality(Entries(new)) = Cardinality(Entries(log)) + 1
    <3>1. log \in [keys -> Seq(AuditEvent)] /\ e \in AuditEvent
          /\ IsFiniteSet(Entries(log))
      BY <1>3, <2>2 DEF Balanced
    <3>2. QED  BY <2>2, <3>1, OneEntryMore
  <2>4. audits' = new
    BY <1>3
  <2>5. QED  BY <2>3, <2>4
<1>5. /\ IsFiniteSet(Auditing') /\ UNCHANGED gone
      /\ Cardinality(Auditing') = Cardinality(Auditing) - 1
  BY <1>1, <1>2, AuditingStep DEF Balanced
<1> PICK r, a : r = Cardinality(Entries(receipts)) /\ a = Cardinality(Entries(audits))
  OBVIOUS
<1> PICK i, k : i = Cardinality(evidence) /\ k = Cardinality(Auditing)
  OBVIOUS
<1>6. r \in Int /\ a \in Int /\ i \in Int /\ k \in Int /\ r + i = a + k
  BY FS_CardinalityType DEF Balanced, MetricsBalance, Metrics, Auditing
<1>7. MetricsBalance'
  BY <1>1, <1>4, <1>5, <1>6 DEF MetricsBalance, Metrics, Auditing
<1>8. QED  BY <1>1, <1>4, <1>5, <1>7 DEF Balanced

\* Each call of a request keeps the balance.
LEMMA ServeBalance ==
  ASSUME Base, Balanced, NEW w \in Worker, Serve(w)
  PROVE  Balanced'
<1>1. CASE CommitSubmission(w)
  <2>1. pc[w] = "commit" /\ seen[w] \in Batch /\ seen[w].id \in BatchId
    BY <1>1 DEF CommitSubmission, Base, TypeInv, HandlersOK, Holds, Batch
  <2>2. CASE Fail(w, "conflict")
    BY <2>1, <2>2, PlainBalance DEF Fail, store
  <2>3. CASE ~Fail(w, "conflict")
    <3> PICK receipt : receipt = [kind |-> ReceiptFor["submitted"],
                                  at |-> seen[w].createdAt]
      OBVIOUS
    <3>1. /\ receipts' = AppendAt(receipts, seen[w].id, receipt)
          /\ Proceed(w, "audit", seen[w]) /\ UNCHANGED <<evidence, audits>>
      BY <1>1, <2>3 DEF CommitSubmission
    <3>2. receipt \in Receipt
      BY <2>1 DEF Receipt, ReceiptFor, ReceiptKind, Batch
    <3>3. QED  BY <2>1, <3>1, <3>2, ReceiptBalance
  <2>4. QED  BY <2>2, <2>3
<1>2. CASE SubmitBatch(w) \/ SaveBatch(w)
  <2>1. pc[w] \in {"submit", "save"}
    BY <1>2 DEF SubmitBatch, SaveBatch
  <2>2. \E next, b : /\ Proceed(w, next, b) /\ next # "audit"
                    /\ UNCHANGED <<evidence, receipts, audits>>
    BY <1>2 DEF SubmitBatch, SaveBatch, Fail, store
  <2>3. QED  BY <2>1, <2>2, PlainBalance
<1>3. CASE ValidateBatch(w)
  <2>1. pc[w] = "validate"
    BY <1>3 DEF ValidateBatch
  <2>2. \E next, b : /\ Proceed(w, next, b) /\ next # "audit"
                    /\ UNCHANGED <<evidence, receipts, audits>>
    BY <1>3 DEF ValidateBatch, Fail, Verdict, store
  <2>3. QED  BY <2>1, <2>2, PlainBalance
<1>4. CASE FindBatch(w)
  BY <1>4, LoadBalance DEF FindBatch
<1>5. CASE AppendReceipt(w)
  <2>1. /\ pc[w] = "receipt" /\ Proceed(w, "audit", seen[w])
        /\ UNCHANGED <<evidence, audits>>
    BY <1>5 DEF AppendReceipt
  <2>2. PICK t \in IF task[w].op = "submitted" THEN {seen[w].createdAt} ELSE Clock(w) :
          receipts' = AppendAt(receipts, seen[w].id,
                               [kind |-> ReceiptFor[task[w].op], at |-> t])
    BY <1>5 DEF AppendReceipt
  <2>3. seen[w] \in Batch /\ seen[w].id \in BatchId /\ task[w].op \in Moves \cup {"submitted"}
    BY <2>1 DEF Base, TypeInv, HandlersOK, Holds, Batch
  <2>4. t \in Instant
    BY <2>3, ClockIsInstant DEF Base, TypeInv, Batch
  <2>5. [kind |-> ReceiptFor[task[w].op], at |-> t] \in Receipt
    BY <2>3, <2>4 DEF Receipt, ReceiptFor, ReceiptKind, Moves
  <2>6. QED  BY <2>1, <2>2, <2>3, <2>5, ReceiptBalance
<1>6. CASE AppendAudit(w)
  BY <1>6, EventBalance
<1>7. CASE QueueNotification(w)
  BY <1>7, PlainBalance DEF QueueNotification
<1>8. CASE Abort(w)
  BY <1>8 DEF Abort, Balanced
<1>9. CASE Reply(w)
  <2>1. /\ pc[w] \in Answer /\ pc' = [pc EXCEPT ![w] = "idle"]
        /\ gone' = [gone EXCEPT ![w] = FALSE]
        /\ UNCHANGED <<evidence, receipts, audits>>
    BY <1>9 DEF Reply, store
  <2>2. Auditing' = Auditing
    BY <2>1 DEF Auditing, Answer, Base, TypeInv, RequestTypeOK
  <2>3. \A v \in Worker : ~gone'[v]
    BY <2>1 DEF Balanced, Base, TypeInv, RequestTypeOK
  <2>4. MetricsBalance'
    BY <2>1, <2>2 DEF Balanced, MetricsBalance, Metrics, Auditing
  <2>5. QED  BY <2>1, <2>2, <2>3, <2>4 DEF Balanced
<1>10. QED  BY <1>1, <1>2, <1>3, <1>4, <1>5, <1>6, <1>7, <1>8, <1>9 DEF Serve

\* However many requests interleave, receipts and items are as many as the events
\* there are and the events being appended, while clients stay (metrics.go:16-30).
THEOREM MetricsStayBalanced ==
  ASSUME ~MayDisconnect
  PROVE  Spec => []MetricsBalance
<1>1. Init => Balanced
  <2> SUFFICES ASSUME Init PROVE Balanced
    OBVIOUS
  <2>1. /\ Entries(receipts) = {} /\ Entries(audits) = {} /\ evidence = {}
        /\ Auditing = {}
    BY DEF Init, Entries, Auditing
  <2>2. IsFiniteSet({}) /\ Cardinality({}) = 0
    BY FS_EmptySet
  <2>3. \A w \in Worker : ~gone[w]
    BY DEF Init
  <2>4. MetricsBalance
    BY <2>1, <2>2 DEF MetricsBalance, Metrics, Auditing
  <2>5. QED  BY <2>1, <2>2, <2>3, <2>4 DEF Balanced
<1>2. ASSUME Base, Balanced, [Next]_vars PROVE Balanced'
  <2>1. CASE \E w \in Worker : Arrive(w)
    BY <1>2, <2>1, ArriveBalance
  <2>2. CASE \E w \in Worker : Serve(w)
    BY <1>2, <2>2, ServeBalance
  <2>3. CASE Tick \/ UNCHANGED vars
    <3>1. UNCHANGED <<evidence, receipts, audits, pc, gone>>
      BY <2>3 DEF Tick, vars, store, request
    <3>2. MetricsBalance'
      BY <1>2, <3>1 DEF Balanced, MetricsBalance, Metrics
    <3>3. QED  BY <1>2, <3>1, <3>2 DEF Balanced, Auditing
  <2>4. QED  BY <1>2, <2>1, <2>2, <2>3 DEF Next, Disconnect
<1>3. TypeInv /\ Versions /\ WorkersOK /\ Balanced /\ [Next]_vars => Balanced'
  BY <1>2 DEF Base
<1>4. Balanced => MetricsBalance
  BY DEF Balanced
<1>5. QED
  BY <1>1, <1>3, <1>4, TypeInvariant, VersionsInvariant, WorkersInvariant, PTL DEF Spec
=============================================================================
