------------------------ MODULE ReviewRecordsProofs ------------------------
(***************************************************************************)
(* Theorems about what the service records of the states batches go        *)
(* through: receipts, audit events, notices, the answers clients get, and  *)
(* the ledger all this amounts to.  For any number of workers and batches, *)
(* with or without a committer, and with clients that leave unless a       *)
(* theorem says otherwise.                                                 *)
(***************************************************************************)
EXTENDS ReviewServiceProofs

-----------------------------------------------------------------------------
(***************************************************************************)
(* Receipts.  A mover about to file its receipt is the only one who could  *)
(* have filed it, so there is none yet; from then on there is one.         *)
(***************************************************************************)

\* The states with a receipt, each with a receipt and an audit action of its own.
States == {"submitted", "under_review", "approved", "rejected", "cancelled"}

\* The receipts and events of different states differ.
LEMMA StatesHaveRecords ==
  /\ DOMAIN ReceiptFor = States
  /\ States \subseteq DOMAIN AuditActionFor
  /\ \A s \in States : ReceiptFor[s] \in ReceiptKind
  /\ \A s, t \in States : ReceiptFor[s] = ReceiptFor[t] => s = t
  /\ \A s, t \in States : AuditActionFor[s] = AuditActionFor[t] => s = t
BY DEF States, ReceiptFor, AuditActionFor, ReceiptKind

\* A history has no other states.
LEMMA ReachedStates ==
  ASSUME ShapesOK, NEW id \in BatchId
  PROVE  Reached(id) \subseteq States
BY DEF ShapesOK, Shaped, Reached, History, States

\* What Append does to a sequence.
LEMMA AppendElements ==
  ASSUME NEW S, NEW s \in Seq(S), NEW e \in S
  PROVE  /\ DOMAIN Append(s, e) = DOMAIN s \cup {Len(s) + 1}
         /\ Len(s) + 1 \notin DOMAIN s
         /\ \A k \in DOMAIN s : Append(s, e)[k] = s[k]
         /\ Append(s, e)[Len(s) + 1] = e
         /\ Append(s, e) # <<>>
OBVIOUS

\* What is in a sequence is of its kind.
LEMMA SequenceElement ==
  ASSUME NEW S, NEW s \in Seq(S), NEW k \in DOMAIN s
  PROVE  s[k] \in S
OBVIOUS

ReceiptsOK ==
  /\ ReceiptsTellHistory
  /\ \A w \in Worker : Moved(w) =>
       (pc[w] = "receipt" <=> ~HasReceipt(task[w].batch, task[w].op))

\* A state that is still ahead of the batch has no receipt.
LEMMA UnreachedReceipt ==
  ASSUME ReceiptsTellHistory, ShapesOK, NEW id \in BatchId,
         NEW s \in States, s \notin Reached(id)
  PROVE  ~HasReceipt(id, s)
BY ReachedStates, StatesHaveRecords DEF ReceiptsTellHistory, HasReceipt

\* What appending a receipt does to the log it is appended to, and to no other.
LEMMA AppendedReceipt ==
  ASSUME TypeInv, NEW id \in BatchId, NEW s \in States, NEW t \in Instant,
         receipts' = AppendAt(receipts, id, [kind |-> ReceiptFor[s], at |-> t])
  PROVE  /\ \A i \in BatchId \ {id} : receipts'[i] = receipts[i]
         /\ \E n : /\ n \notin DOMAIN receipts[id]
                   /\ DOMAIN receipts'[id] = DOMAIN receipts[id] \cup {n}
                   /\ receipts'[id][n] = [kind |-> ReceiptFor[s], at |-> t]
         /\ \A k \in DOMAIN receipts[id] : receipts'[id][k] = receipts[id][k]
         /\ \A i \in BatchId, u \in States :
              HasReceipt(i, u)' <=> HasReceipt(i, u) \/ (i = id /\ u = s)
<1> DEFINE r == [kind |-> ReceiptFor[s], at |-> t]
           log == receipts[id]
           n == Len(log) + 1
<1>1. r \in Receipt /\ log \in Seq(Receipt) /\ r.kind = ReceiptFor[s]
  BY StatesHaveRecords DEF Receipt, TypeInv, StoreOK, StoreTypeOK
<1> HIDE DEF r
<1>2. /\ receipts'[id] = Append(log, r)
      /\ \A i \in BatchId \ {id} : receipts'[i] = receipts[i]
  BY DEF AppendAt, TypeInv, StoreOK, StoreTypeOK, r
<1>3. /\ DOMAIN receipts'[id] = DOMAIN log \cup {n} /\ n \notin DOMAIN log
      /\ \A k \in DOMAIN log : receipts'[id][k] = log[k]
      /\ receipts'[id][n] = r
  BY <1>1, <1>2, AppendElements
<1>4. \A u \in States :
        HasReceipt(id, u)' <=> HasReceipt(id, u) \/ u = s
  BY <1>1, <1>3, StatesHaveRecords DEF HasReceipt
<1>5. \A i \in BatchId \ {id}, u \in States : HasReceipt(i, u)' <=> HasReceipt(i, u)
  BY <1>2 DEF HasReceipt
<1>6. QED  BY <1>2, <1>3, <1>4, <1>5 DEF r

\* A receipt that nobody has filed may be filed.
LEMMA ReceiptIsFiled ==
  ASSUME TypeInv, ReceiptsTellHistory, NEW id \in BatchId, NEW s \in States,
         NEW t \in Instant,
         receipts' = AppendAt(receipts, id, [kind |-> ReceiptFor[s], at |-> t]),
         ~HasReceipt(id, s), s \in Reached(id)',
         \A i \in BatchId : Reached(i) \subseteq Reached(i)'
  PROVE  ReceiptsTellHistory'
<1>1. PICK n :
        /\ n \notin DOMAIN receipts[id]
        /\ DOMAIN receipts'[id] = DOMAIN receipts[id] \cup {n}
        /\ receipts'[id][n] = [kind |-> ReceiptFor[s], at |-> t]
        /\ \A k \in DOMAIN receipts[id] : receipts'[id][k] = receipts[id][k]
  BY AppendedReceipt
<1>2. receipts'[id][n].kind = ReceiptFor[s]
  BY <1>1
<1>3. ASSUME NEW k \in DOMAIN receipts'[id]
      PROVE  \E u \in Reached(id)' : receipts'[id][k].kind = ReceiptFor[u]
  BY <1>1, <1>2 DEF ReceiptsTellHistory
<1>4. ASSUME NEW i \in DOMAIN receipts'[id], NEW k \in DOMAIN receipts'[id],
             receipts'[id][i].kind = receipts'[id][k].kind
      PROVE  i = k
  BY <1>1, <1>2, <1>4 DEF ReceiptsTellHistory, HasReceipt
<1>5. \A i \in BatchId \ {id} : receipts'[i] = receipts[i]
  BY AppendedReceipt
<1>6. QED  BY <1>3, <1>4, <1>5 DEF ReceiptsTellHistory

\* What a mover holds, as the next lemmas need it.
LEMMA MoverFacts ==
  ASSUME Base, NEW w \in Worker, Moved(w)
  PROVE  /\ task[w].batch \in BatchId /\ batches[task[w].batch] \in Batch
         /\ task[w].op \in States /\ task[w].op \in Reached(task[w].batch)
         /\ seen[w] \in Batch /\ seen[w].id = task[w].batch
         /\ seen[w].scope = batches[task[w].batch].scope
<1>1. MoverOK(w) /\ ShapesOK
  BY DEF Base, WorkersOK, MoversOK
<1>2. batches[task[w].batch] # NoBatch
  BY <1>1 DEF MoverOK, Reached, History
<1>3. QED
  BY <1>1, <1>2, ReachedStates DEF MoverOK, Base, TypeInv, StoreOK, StoreTypeOK

\* Histories only grow.
LEMMA ReachedGrows ==
  ASSUME Base, [Next]_vars, NEW id \in BatchId
  PROVE  Reached(id) \subseteq Reached(id)'
<1>1. (\E w \in Worker : Quiet(w) \/ Stores(w) \/ Files(w)) \/ Idles
  BY StepEffect DEF Base
<1>2. CASE UNCHANGED batches
  BY <1>2 DEF Reached
<1>3. ASSUME NEW w \in Worker, Stores(w)
      PROVE  Reached(id) \subseteq Reached(id)'
  <2> PICK i : i = task[w].batch
    OBVIOUS
  <2>1. /\ Reached(i) \subseteq Reached(i)'
        /\ id # i => batches'[id] = batches[id]
    <3>1. LegalStep
      BY VersionsStep DEF Base
    <3>2. QED  BY <1>3, <3>1, StoredHistory
  <2>2. QED  BY <2>1 DEF Reached
<1>4. QED
  BY <1>1, <1>2, <1>3, FilesKeeps DEF Quiet, Idles, Base

\* A step that leaves the receipts alone.
LEMMA QuietReceipts ==
  ASSUME Base, ReceiptsOK, [Next]_vars, NEW w \in Worker, Quiet(w)
  PROVE  ReceiptsOK'
<1>1. UNCHANGED receipts /\ \A id \in BatchId : Reached(id)' = Reached(id)
  BY DEF Quiet, Reached
<1>2. ReceiptsTellHistory'
  BY <1>1 DEF ReceiptsOK, ReceiptsTellHistory
<1>3. ASSUME NEW v \in Worker, Moved(v)'
      PROVE  pc'[v] = "receipt" <=> ~HasReceipt(task[v].batch, task[v].op)'
  <2>1. v # w
    BY <1>3 DEF Quiet
  <2>2. pc'[v] = pc[v] /\ task'[v] = task[v]
    BY <2>1 DEF Quiet, Others
  <2>3. Moved(v)
    BY <1>3, <2>2 DEF Moved
  <2>4. QED  BY <1>1, <2>2, <2>3 DEF ReceiptsOK, HasReceipt
<1>4. QED  BY <1>2, <1>3 DEF ReceiptsOK

\* A batch is moved: with the receipt, or to a state without one.
LEMMA StoresReceipts ==
  ASSUME Base, ReceiptsOK, [Next]_vars, NEW w \in Worker, Stores(w)
  PROVE  ReceiptsOK'
<1> PICK id : id = task[w].batch
  OBVIOUS
<1> PICK s : s = task[w].op
  OBVIOUS
<1> PICK b : b = seen'[w]
  OBVIOUS
<1>1. /\ id \in BatchId /\ b \in Batch /\ b.state = s /\ Shaped(b)
      /\ Reached(id)' = Reached(id) \cup {s} /\ s \notin Reached(id)
  <2>1. LegalStep
    BY VersionsStep DEF Base
  <2>2. /\ id \in BatchId /\ b \in Batch /\ b.state = s /\ Shaped(b)
        /\ Reached(id)' = Reached(id) \cup {b.state} /\ b.state \notin Reached(id)
    BY <2>1, StoredHistory
  <2>3. QED  BY <2>2
<1>2. ShapesOK
  BY DEF Base, WorkersOK
<1>3. s \in States
  BY <1>1 DEF Shaped, States
<1>4. ~HasReceipt(id, s)
  BY <1>1, <1>2, <1>3, UnreachedReceipt DEF ReceiptsOK
<1>5. /\ UNCHANGED task
      /\ \A v \in Worker \ {w} : pc'[v] = pc[v] /\ (Moved(v)' <=> Moved(v))
  BY DEF Stores, Others, Moved
<1>6. \A v \in Worker \ {w} : Moved(v) =>
        /\ task[v].batch \in BatchId /\ task[v].op \in States
        /\ task[v].batch # id \/ task[v].op # s
  BY <1>1, MoverFacts
<1>7. CASE pc[w] = "commit"
  <2>1. /\ s = "submitted" /\ pc'[w] = "audit"
        /\ receipts' = AppendAt(receipts, id,
                         [kind |-> "submitted", at |-> b.createdAt])
    BY <1>7 DEF Stores
  <2>2. /\ receipts' = AppendAt(receipts, id,
                         [kind |-> ReceiptFor[s], at |-> b.createdAt])
        /\ b.createdAt \in Instant
    BY <1>1, <2>1 DEF ReceiptFor, Batch
  <2>3. \A i \in BatchId : Reached(i) \subseteq Reached(i)'
    BY ReachedGrows
  <2>4. ReceiptsTellHistory'
    BY <1>1, <1>3, <1>4, <2>2, <2>3, ReceiptIsFiled DEF ReceiptsOK, Base
  <2>5. \A i \in BatchId, u \in States :
          HasReceipt(i, u)' <=> HasReceipt(i, u) \/ (i = id /\ u = s)
    BY <1>1, <1>3, <2>2, AppendedReceipt DEF Base
  <2>6. \A v \in Worker \ {w} : Moved(v)' =>
          (pc'[v] = "receipt" <=> ~HasReceipt(task[v].batch, task[v].op)')
    BY <1>5, <1>6, <2>5 DEF ReceiptsOK
  <2>7. pc'[w] # "receipt" /\ HasReceipt(task[w].batch, task[w].op)'
    BY <1>1, <1>3, <1>5, <2>1, <2>5
  <2>8. QED  BY <2>4, <2>6, <2>7 DEF ReceiptsOK
<1>8. CASE pc[w] # "commit"
  <2>1. UNCHANGED receipts /\ pc'[w] = "receipt"
    BY <1>8 DEF Stores
  <2>2. \A i, u : HasReceipt(i, u)' <=> HasReceipt(i, u)
    BY <2>1 DEF HasReceipt
  <2>3. ReceiptsTellHistory'
    <3>1. \A i \in BatchId : Reached(i) \subseteq Reached(i)'
      BY ReachedGrows
    <3>2. QED  BY <2>1, <3>1 DEF ReceiptsOK, ReceiptsTellHistory
  <2>4. ~HasReceipt(task[w].batch, task[w].op)'
    BY <1>4, <1>5, <2>2
  <2>5. \A v \in Worker \ {w} : Moved(v)' =>
          (pc'[v] = "receipt" <=> ~HasReceipt(task[v].batch, task[v].op)')
    BY <1>5, <2>2 DEF ReceiptsOK
  <2>6. QED  BY <2>1, <2>3, <2>4, <2>5 DEF ReceiptsOK
<1>9. QED  BY <1>7, <1>8

\* The receipt of a mover is filed; the other records leave the receipts alone.
LEMMA FilesReceipts ==
  ASSUME Base, ReceiptsOK, [Next]_vars, NEW w \in Worker, Files(w)
  PROVE  ReceiptsOK'
<1>1. /\ UNCHANGED <<task, batches>> /\ (Moved(w)' <=> Moved(w))
      /\ pc'[w] \in {"audit", "notify", "ok"}
      /\ \A v \in Worker \ {w} : pc'[v] = pc[v] /\ (Moved(v)' <=> Moved(v))
  BY FilesKeeps DEF Files, Others, Moved, Base
<1>2. \A i \in BatchId : Reached(i)' = Reached(i)
  BY <1>1 DEF Reached
<1>3. CASE AppendReceipt(w)
  <2> PICK id : id = task[w].batch
    OBVIOUS
  <2> PICK s : s = task[w].op
    OBVIOUS
  <2>1. pc[w] = "receipt" /\ Moved(w)
    BY <1>3 DEF AppendReceipt, Moved, Base, TypeInv, HandlersOK, Holds, Moves
  <2>2. /\ id \in BatchId /\ s \in States /\ s \in Reached(id)
        /\ seen[w] \in Batch /\ seen[w].id = id
    BY <2>1, MoverFacts
  <2>3. PICK t \in Instant :
          receipts' = AppendAt(receipts, id, [kind |-> ReceiptFor[s], at |-> t])
    <3>1. PICK t \in IF s = "submitted" THEN {seen[w].createdAt} ELSE Clock(w) :
            receipts' = AppendAt(receipts, id, [kind |-> ReceiptFor[s], at |-> t])
      BY <1>3, <2>2 DEF AppendReceipt
    <3>2. t \in Instant
      BY <2>2, <3>1, ClockIsInstant DEF Batch, Base, TypeInv
    <3>3. QED  BY <3>1, <3>2
  <2>4. ~HasReceipt(id, s)
    BY <2>1 DEF ReceiptsOK
  <2>5. ReceiptsTellHistory'
    BY <1>2, <2>2, <2>3, <2>4, ReceiptIsFiled DEF ReceiptsOK, Base
  <2>6. \A i \in BatchId, u \in States :
          HasReceipt(i, u)' <=> HasReceipt(i, u) \/ (i = id /\ u = s)
    BY <2>2, <2>3, AppendedReceipt DEF Base
  <2>7. \A v \in Worker \ {w} : Moved(v) =>
          /\ task[v].batch \in BatchId /\ task[v].op \in States
          /\ task[v].batch # id \/ task[v].op # s
    BY <2>1, MoverFacts DEF Base, WorkersOK, MoversOK
  <2>8. \A v \in Worker \ {w} : Moved(v)' =>
          (pc'[v] = "receipt" <=> ~HasReceipt(task[v].batch, task[v].op)')
    BY <1>1, <2>6, <2>7 DEF ReceiptsOK
  <2>9. pc'[w] # "receipt" /\ HasReceipt(task[w].batch, task[w].op)'
    BY <1>1, <2>2, <2>6
  <2>10. QED  BY <2>5, <2>8, <2>9 DEF ReceiptsOK
<1>4. CASE AppendAudit(w) \/ QueueNotification(w)
  <2>1. UNCHANGED receipts /\ pc[w] # "receipt"
    BY <1>4 DEF AppendAudit, QueueNotification
  <2>2. ReceiptsTellHistory'
    BY <1>2, <2>1 DEF ReceiptsOK, ReceiptsTellHistory
  <2>3. \A i, u : HasReceipt(i, u)' <=> HasReceipt(i, u)
    BY <2>1 DEF HasReceipt
  <2>4. \A v \in Worker : Moved(v)' =>
          (pc'[v] = "receipt" <=> ~HasReceipt(task[v].batch, task[v].op)')
    BY <1>1, <2>1, <2>3 DEF ReceiptsOK
  <2>5. QED  BY <2>2, <2>4 DEF ReceiptsOK
<1>5. QED  BY <1>3, <1>4 DEF Files

\* Idling keeps the receipts.
LEMMA IdlesReceipts == ASSUME ReceiptsOK, Idles PROVE ReceiptsOK'
BY DEF Idles, ReceiptsOK, ReceiptsTellHistory, HasReceipt, Reached, Moved

\* Every step keeps the receipts true.
LEMMA ReceiptsStep ==
  ASSUME Base, ReceiptsOK, [Next]_vars
  PROVE  ReceiptsOK'
<1>1. (\E w \in Worker : Quiet(w) \/ Stores(w) \/ Files(w)) \/ Idles
  BY StepEffect DEF Base
<1>2. QED
  BY <1>1, QuietReceipts, StoresReceipts, FilesReceipts, IdlesReceipts

\* At the start there is no receipt.
LEMMA ReceiptsInit == Init => ReceiptsOK
<1> SUFFICES ASSUME Init PROVE ReceiptsOK
  OBVIOUS
<1>1. /\ \A w \in Worker : pc[w] = "idle"
      /\ \A id \in BatchId : receipts[id] = <<>>
  BY DEF Init
<1>2. QED  BY <1>1 DEF ReceiptsOK, ReceiptsTellHistory, Moved

\* What has to be filed of a state is filed by the worker that moved its batch
\* there, after the receipt itself.
THEOREM ReceiptsInvariant == Spec => []ReceiptsOK
<1>1. TypeInv /\ Versions /\ WorkersOK /\ ReceiptsOK /\ [Next]_vars => ReceiptsOK'
  BY ReceiptsStep DEF Base
<1>2. QED
  BY ReceiptsInit, <1>1, TypeInvariant, VersionsInvariant, WorkersInvariant, PTL
     DEF Spec

\* The receipts of a batch tell states it has really been in, each at most once.
THEOREM ReceiptsAreTrue == Spec => []ReceiptsTellHistory
<1>1. ReceiptsOK => ReceiptsTellHistory
  BY DEF ReceiptsOK
<1>2. QED  BY <1>1, ReceiptsInvariant, PTL

-----------------------------------------------------------------------------
\* With a committer: a batch is visible exactly when its first receipt is.

FirstReceipts ==
  \A id \in BatchId :
    /\ batches[id] # NoBatch <=> receipts[id] # <<>>
    /\ receipts[id] # <<>> => receipts[id][1].kind = "submitted"

\* A receipt after the first leaves the first.
LEMMA FirstIsKept ==
  ASSUME NEW log \in Seq(Receipt), NEW r \in Receipt
  PROVE  /\ Append(log, r) # <<>>
         /\ log # <<>> => Append(log, r)[1] = log[1]
         /\ log = <<>> => Append(log, r)[1] = r
OBVIOUS

\* Every step keeps the first receipts.
LEMMA FirstReceiptsStep ==
  ASSUME Base, FirstReceipts, HasCommitter, [Next]_vars
  PROVE  FirstReceipts'
<1>1. ASSUME NEW w \in Worker, Stores(w)
      PROVE  FirstReceipts'
  <2> PICK id : id = task[w].batch
    OBVIOUS
  <2> PICK b : b = seen'[w]
    OBVIOUS
  <2>1. /\ id \in BatchId /\ b \in Batch /\ batches'[id] = b /\ b # NoBatch
        /\ \A i \in BatchId \ {id} : batches'[i] = batches[i]
    <3>1. LegalStep
      BY VersionsStep DEF Base
    <3>2. QED  BY <1>1, <3>1, StoredHistory, BatchIsNotNone
  <2>2. CASE pc[w] = "commit"
    <3> DEFINE r == [kind |-> "submitted", at |-> b.createdAt]
    <3>1. receipts' = AppendAt(receipts, id, r) /\ batches[id] = NoBatch
      BY <1>1, <2>2 DEF Stores
    <3>2. r \in Receipt /\ r.kind = "submitted"
      BY <2>1 DEF Receipt, ReceiptKind, Batch
    <3> HIDE DEF r
    <3>3. /\ receipts'[id] = Append(receipts[id], r)
          /\ receipts[id] \in Seq(Receipt)
          /\ \A i \in BatchId \ {id} : receipts'[i] = receipts[i]
      BY <2>1, <3>1 DEF AppendAt, Base, TypeInv, StoreOK, StoreTypeOK
    <3>4. receipts[id] = <<>>
      BY <2>1, <3>1 DEF FirstReceipts
    <3>5. receipts'[id] # <<>> /\ receipts'[id][1] = r
      BY <3>2, <3>3, <3>4, FirstIsKept
    <3>6. QED  BY <2>1, <3>2, <3>3, <3>5 DEF FirstReceipts
  <2>3. CASE pc[w] # "commit"
    <3>1. UNCHANGED receipts /\ pc[w] = "save"
      BY <1>1, <2>3 DEF Stores, Base, WorkersOK, RequestsOK
    <3>2. batches[id] # NoBatch
      BY <3>1 DEF Base, Versions, IsVersionOf, TypeInv, HandlersOK, Holds
    <3>3. QED  BY <2>1, <3>1, <3>2 DEF FirstReceipts
  <2>4. QED  BY <2>2, <2>3
<1>2. ASSUME NEW w \in Worker, AppendReceipt(w)
      PROVE  FirstReceipts'
  <2> PICK id : id = task[w].batch
    OBVIOUS
  <2>1. /\ pc[w] = "receipt" /\ Moved(w)
        /\ UNCHANGED <<task, batches>>
    BY <1>2 DEF AppendReceipt, Moved, Base, TypeInv, HandlersOK, Holds, Moves
  <2>2. /\ id \in BatchId /\ batches[id] # NoBatch /\ task[w].op \in States
        /\ seen[w] \in Batch /\ seen[w].id = id
    BY <2>1, MoverFacts, BatchIsNotNone
  <2>3. PICK r \in Receipt : receipts' = AppendAt(receipts, id, r)
    <3>1. PICK t \in IF task[w].op = "submitted"
                     THEN {seen[w].createdAt} ELSE Clock(w) :
            receipts' = AppendAt(receipts, id,
                                 [kind |-> ReceiptFor[task[w].op], at |-> t])
      BY <1>2, <2>2 DEF AppendReceipt
    <3>2. t \in Instant
      BY <2>2, <3>1, ClockIsInstant DEF Batch, Base, TypeInv
    <3>3. [kind |-> ReceiptFor[task[w].op], at |-> t] \in Receipt
      BY <2>2, <3>2, StatesHaveRecords DEF Receipt
    <3>4. QED  BY <3>1, <3>3
  <2>4. /\ receipts'[id] = Append(receipts[id], r)
        /\ receipts[id] \in Seq(Receipt)
        /\ \A i \in BatchId \ {id} : receipts'[i] = receipts[i]
    BY <2>2, <2>3 DEF AppendAt, Base, TypeInv, StoreOK, StoreTypeOK
  <2>5. receipts[id] # <<>>
    BY <2>2 DEF FirstReceipts
  <2>6. receipts'[id] # <<>> /\ receipts'[id][1] = receipts[id][1]
    BY <2>4, <2>5, FirstIsKept
  <2>7. QED  BY <2>1, <2>2, <2>4, <2>5, <2>6 DEF FirstReceipts
<1>3. CASE UNCHANGED <<batches, receipts>>
  BY <1>3 DEF FirstReceipts
<1>4. (\E w \in Worker : Quiet(w) \/ Stores(w) \/ Files(w)) \/ Idles
  BY StepEffect DEF Base
<1>5. ASSUME NEW w \in Worker, AppendAudit(w) \/ QueueNotification(w)
      PROVE  UNCHANGED <<batches, receipts>>
  BY <1>5 DEF AppendAudit, QueueNotification
<1>6. QED
  BY <1>1, <1>2, <1>3, <1>4, <1>5 DEF Quiet, Files, Idles

\* With a committer receipts tell the history from the first moment: a batch
\* and the receipt of its submission become visible together (commit.go:8).
THEOREM CommittedReceiptsMatch ==
  ASSUME HasCommitter
  PROVE  Spec => []ReceiptsMatchHistory
<1>1. Init => FirstReceipts
  BY DEF Init, FirstReceipts
<1>2. TypeInv /\ Versions /\ WorkersOK /\ FirstReceipts /\ [Next]_vars
        => FirstReceipts'
  BY FirstReceiptsStep DEF Base
<1>3. ReceiptsTellHistory /\ FirstReceipts => ReceiptsMatchHistory
  BY DEF FirstReceipts, ReceiptsMatchHistory
<1>4. QED
  BY <1>1, <1>2, <1>3, TypeInvariant, VersionsInvariant, WorkersInvariant,
     ReceiptsAreTrue, PTL DEF Spec

-----------------------------------------------------------------------------
(***************************************************************************)
(* The audit trail.  What is said of the receipt of a mover holds of its   *)
(* event one call later, but for a client that has left.                   *)
(***************************************************************************)

HasEvent(id, state) ==
  \E key \in DOMAIN audits : \E k \in DOMAIN audits[key] :
    audits[key][k].batch = id /\ audits[key][k].action = AuditActionFor[state]

\* What the trail says when it has the event under the key.
Told(key, event) ==
  event.batch # "" =>
    /\ batches[event.batch] # NoBatch
    /\ key = Key(batches[event.batch].scope)
    /\ \E s \in Reached(event.batch) :
         event.action = AuditActionFor[s] /\ HasReceipt(event.batch, s)

\* No other event of the trail says the same as its i-th.
Once(key, i) ==
  audits[key][i].batch # "" =>
    \A k \in DOMAIN audits[key] :
      /\ audits[key][k].batch = audits[key][i].batch
      /\ audits[key][k].action = audits[key][i].action
      => k = i

TrailOK ==
  \A key \in DOMAIN audits : \A i \in DOMAIN audits[key] :
    Told(key, audits[key][i]) /\ Once(key, i)

AuditsOK ==
  /\ TrailOK
  /\ \A w \in Worker : Moved(w) =>
       /\ pc[w] \in {"receipt", "audit"} => ~HasEvent(task[w].batch, task[w].op)
       /\ pc[w] \in {"notify", "ok"} /\ ~gone[w] =>
            IsAudited(task[w].batch, task[w].op)

Records == Base /\ ReceiptsOK /\ AuditsOK

\* A receipt stays.
LEMMA ReceiptsStay ==
  ASSUME Base, [Next]_vars, NEW id \in BatchId, NEW s \in States,
         HasReceipt(id, s)
  PROVE  HasReceipt(id, s)'
<1>1. ASSUME UNCHANGED receipts
      PROVE  HasReceipt(id, s)'
  BY <1>1 DEF HasReceipt
<1>2. ASSUME NEW w \in Worker, Stores(w), pc[w] = "commit"
      PROVE  HasReceipt(id, s)'
  <2> PICK i : i = task[w].batch
    OBVIOUS
  <2> PICK b : b = seen'[w]
    OBVIOUS
  <2>1. /\ i \in BatchId /\ b.createdAt \in Instant
        /\ receipts' = AppendAt(receipts, i,
                         [kind |-> ReceiptFor["submitted"], at |-> b.createdAt])
    BY <1>2 DEF Stores, Batch, ReceiptFor
  <2>2. "submitted" \in States
    BY DEF States
  <2>3. QED  BY <2>1, <2>2, AppendedReceipt DEF Base
<1>3. ASSUME NEW w \in Worker, AppendReceipt(w)
      PROVE  HasReceipt(id, s)'
  <2>1. pc[w] = "receipt" /\ Moved(w)
    BY <1>3 DEF AppendReceipt, Moved, Base, TypeInv, HandlersOK, Holds, Moves
  <2>2. /\ task[w].batch \in BatchId /\ task[w].op \in States
        /\ seen[w] \in Batch /\ seen[w].id = task[w].batch
    BY <2>1, MoverFacts
  <2>3. PICK t \in IF task[w].op = "submitted" THEN {seen[w].createdAt} ELSE Clock(w) :
          receipts' = AppendAt(receipts, task[w].batch,
                               [kind |-> ReceiptFor[task[w].op], at |-> t])
    BY <1>3, <2>2 DEF AppendReceipt
  <2>4. t \in Instant
    BY <2>2, <2>3, ClockIsInstant DEF Batch, Base, TypeInv
  <2>5. QED  BY <2>2, <2>3, <2>4, AppendedReceipt DEF Base
<1>4. (\E w \in Worker : Quiet(w) \/ Stores(w) \/ Files(w)) \/ Idles
  BY StepEffect DEF Base
<1>5. ASSUME NEW w \in Worker, AppendAudit(w) \/ QueueNotification(w)
      PROVE  UNCHANGED receipts
  BY <1>5 DEF AppendAudit, QueueNotification
<1>6. ASSUME NEW w \in Worker, Stores(w), pc[w] # "commit"
      PROVE  UNCHANGED receipts
  BY <1>6 DEF Stores
<1>7. QED
  BY <1>1, <1>2, <1>3, <1>4, <1>5, <1>6 DEF Quiet, Files, Idles

\* What stays of a batch that is stored: its scope and its creation.
LEMMA BatchesStay ==
  ASSUME Base, [Next]_vars, NEW id \in BatchId, batches[id] # NoBatch
  PROVE  /\ batches'[id] # NoBatch /\ batches'[id].scope = batches[id].scope
         /\ batches'[id].createdAt = batches[id].createdAt
<1>1. (\E w \in Worker : Quiet(w) \/ Stores(w) \/ Files(w)) \/ Idles
  BY StepEffect DEF Base
<1>2. CASE UNCHANGED batches
  BY <1>2
<1>3. ASSUME NEW w \in Worker, Stores(w)
      PROVE  /\ batches'[id] # NoBatch /\ batches'[id].scope = batches[id].scope
             /\ batches'[id].createdAt = batches[id].createdAt
  <2> PICK i : i = task[w].batch
    OBVIOUS
  <2> PICK b : b = seen'[w]
    OBVIOUS
  <2>1. LegalStep
    BY VersionsStep DEF Base
  <2>2. /\ b \in Batch /\ batches'[i] = b
        /\ \A j \in BatchId \ {i} : batches'[j] = batches[j]
        /\ batches[i] # NoBatch => /\ b.scope = batches[i].scope
                                   /\ b.createdAt = batches[i].createdAt
    BY <1>3, <2>1, StoredHistory
  <2>3. QED  BY <2>2, BatchIsNotNone
<1>4. QED  BY <1>1, <1>2, <1>3, FilesKeeps DEF Quiet, Idles, Base

\* The elements of a trail are events, of a batch or of none.
LEMMA TrailHasEvents ==
  ASSUME TypeInv, NEW key \in DOMAIN audits, NEW i \in DOMAIN audits[key]
  PROVE  audits[key][i] \in AuditEvent
<1>1. audits[key] \in Seq(AuditEvent)
  BY DEF TypeInv, StoreOK, StoreTypeOK
<1>2. QED  BY <1>1, SequenceElement

\* What is told by an event stays true.
LEMMA ToldStays ==
  ASSUME Base, [Next]_vars, NEW key, NEW event \in AuditEvent, Told(key, event)
  PROVE  Told(key, event)'
<1> PICK id : id = event.batch
  OBVIOUS
<1>1. CASE id = ""
  BY <1>1 DEF Told
<1>2. CASE id # ""
  <2>1. id \in BatchId
    BY <1>2 DEF AuditEvent
  <2>2. batches[id] # NoBatch /\ key = Key(batches[id].scope)
    BY <1>2 DEF Told
  <2>3. PICK s \in Reached(id) :
          event.action = AuditActionFor[s] /\ HasReceipt(id, s)
    BY <1>2 DEF Told
  <2>4. s \in States
    BY <2>1, <2>3, ReachedStates DEF Base, WorkersOK
  <2>5. s \in Reached(id)' /\ HasReceipt(id, s)'
    BY <2>1, <2>3, <2>4, ReachedGrows, ReceiptsStay
  <2>6. batches'[id] # NoBatch /\ batches'[id].scope = batches[id].scope
    BY <2>1, <2>2, BatchesStay
  <2>7. QED  BY <2>2, <2>3, <2>5, <2>6 DEF Told
<1>3. QED  BY <1>1, <1>2

\* A step that adds no event keeps the trail true.
LEMMA TrailStays ==
  ASSUME Base, TrailOK, [Next]_vars, UNCHANGED audits
  PROVE  TrailOK'
<1> SUFFICES ASSUME NEW key \in DOMAIN audits, NEW i \in DOMAIN audits[key]
             PROVE  Told(key, audits[key][i])' /\ Once(key, i)'
  BY DEF TrailOK
<1> PICK event : event = audits[key][i]
  OBVIOUS
<1>1. Told(key, event) /\ Once(key, i)
  BY DEF TrailOK
<1>2. event \in AuditEvent
  BY TrailHasEvents DEF Base
<1>3. Told(key, event)'
  BY <1>1, <1>2, ToldStays
<1>4. Once(key, i)'
  BY <1>1 DEF Once
<1>5. event = audits'[key][i]
  OBVIOUS
<1>6. QED  BY <1>3, <1>4, <1>5

\* What appending an event does.
LEMMA AppendedEvent ==
  ASSUME TypeInv, NEW key \in DOMAIN audits, NEW e \in AuditEvent,
         audits' = AppendAt(audits, key, e)
  PROVE  /\ DOMAIN audits' = DOMAIN audits
         /\ \A other \in DOMAIN audits \ {key} : audits'[other] = audits[other]
         /\ \E n : /\ n \notin DOMAIN audits[key]
                   /\ DOMAIN audits'[key] = DOMAIN audits[key] \cup {n}
                   /\ audits'[key][n] = e
         /\ \A k \in DOMAIN audits[key] : audits'[key][k] = audits[key][k]
<1>1. /\ audits'[key] = Append(audits[key], e)
      /\ DOMAIN audits' = DOMAIN audits
      /\ \A other \in DOMAIN audits \ {key} : audits'[other] = audits[other]
  BY DEF AppendAt, TypeInv, StoreOK, StoreTypeOK
<1>2. audits[key] \in Seq(AuditEvent)
  BY DEF TypeInv, StoreOK, StoreTypeOK
<1>3. QED  BY <1>1, <1>2, AppendElements

\* The event of a handler is about its batch, in the trail of the batch's
\* scope; that of a registration is about no batch.  It is dated after the
\* worker's previous call.
LEMMA AuditEffect ==
  ASSUME Base, NEW w \in Worker, AppendAudit(w), ~gone[w]
  PROVE  \E key \in DOMAIN audits, e \in AuditEvent :
           /\ audits' = AppendAt(audits, key, e)
           /\ e.batch = task[w].batch /\ e.action = AuditActionFor[task[w].op]
           /\ since[w] <= e.at
           /\ IF Moved(w) THEN key = Key(batches[task[w].batch].scope)
                          ELSE e.batch = ""
<1>1. pc[w] = "audit"
  BY DEF AppendAudit
<1> DEFINE op == task[w].op
           key == IF op = "registered" THEN task[w].key ELSE Key(seen[w].scope)
           event(t) == [batch |-> task[w].batch, action |-> AuditActionFor[op],
                        at |-> t]
<1>2. PICK t \in Clock(w) : audits' = AppendAt(audits, key, event(t))
  BY DEF AppendAudit
<1>3. op \in Operation /\ t \in Instant /\ since[w] <= t
  BY <1>1, ClockIsInstant, Tables DEF Base, TypeInv, HandlersOK, Holds, Moves
<1>4. event(t) \in AuditEvent /\ since[w] <= event(t).at
  BY <1>3 DEF AuditEvent, Base, TypeInv, RequestTypeOK, Task
<1>5. CASE Moved(w)
  <2>1. op # "registered" /\ seen[w].scope = batches[task[w].batch].scope
    BY <1>5, MoverFacts DEF Moved
  <2>2. key = Key(batches[task[w].batch].scope) /\ seen[w].scope \in Scope
    BY <1>5, <2>1, MoverFacts DEF Batch
  <2>3. key \in DOMAIN audits
    BY <2>1, <2>2 DEF Base, TypeInv, StoreOK, StoreTypeOK
  <2>4. QED  BY <1>2, <1>4, <1>5, <2>2, <2>3
<1>6. CASE ~Moved(w)
  <2>1. op = "registered" /\ task[w].batch = ""
    BY <1>1, <1>6 DEF Moved, Base, WorkersOK, RequestsOK
  <2>2. key = task[w].key /\ key \in {Key(scope) : scope \in Scope}
    BY <1>1, <2>1 DEF Base, TypeInv, HandlersOK, Holds, Moves
  <2>3. key \in DOMAIN audits
    BY <2>2 DEF Base, TypeInv, StoreOK, StoreTypeOK
  <2>4. QED  BY <1>2, <1>4, <1>6, <2>1, <2>3
<1>7. QED  BY <1>5, <1>6

\* An audited state stays audited.
LEMMA AuditsStay ==
  ASSUME Base, [Next]_vars, NEW id \in BatchId, NEW s, IsAudited(id, s)
  PROVE  IsAudited(id, s)'
<1> PICK key : key = Key(batches[id].scope)
  OBVIOUS
<1>1. PICK k \in DOMAIN audits[key] :
        audits[key][k].batch = id /\ audits[key][k].action = AuditActionFor[s]
  BY DEF IsAudited
<1>2. key \in DOMAIN audits /\ batches[id] # NoBatch
  BY DEF IsAudited, Base, TypeInv, StoreOK, StoreTypeOK, Batch
<1>3. batches'[id] # NoBatch /\ key = Key(batches'[id].scope)
  BY <1>2, BatchesStay
<1>4. k \in DOMAIN audits'[key] /\ audits'[key][k] = audits[key][k]
  <2>1. CASE UNCHANGED audits
    BY <2>1
  <2>2. ASSUME NEW w \in Worker, AppendAudit(w)
        PROVE  k \in DOMAIN audits'[key] /\ audits'[key][k] = audits[key][k]
    <3>1. CASE gone[w]
      BY <2>2, <3>1 DEF AppendAudit
    <3>2. CASE ~gone[w]
      <4>1. PICK other \in DOMAIN audits, e \in AuditEvent :
              audits' = AppendAt(audits, other, e)
        BY <2>2, <3>2, AuditEffect
      <4>2. CASE other = key
        BY <1>2, <4>1, <4>2, AppendedEvent DEF Base
      <4>3. CASE other # key
        BY <1>2, <4>1, <4>3, AppendedEvent DEF Base
      <4>4. QED  BY <4>2, <4>3
    <3>3. QED  BY <3>1, <3>2
  <2>3. ASSUME NEW w \in Worker, AppendReceipt(w) \/ QueueNotification(w)
        PROVE  UNCHANGED audits
    BY <2>3 DEF AppendReceipt, QueueNotification
  <2>4. (\E w \in Worker : Quiet(w) \/ Stores(w) \/ Files(w)) \/ Idles
    BY StepEffect DEF Base
  <2>5. QED  BY <2>1, <2>2, <2>3, <2>4 DEF Quiet, Stores, Files, Idles
<1>5. QED  BY <1>1, <1>3, <1>4 DEF IsAudited

\* A state that is still ahead of the batch has no event.
LEMMA UnreachedEvent ==
  ASSUME Base, TrailOK, NEW id \in BatchId, NEW s \in States,
         s \notin Reached(id)
  PROVE  ~HasEvent(id, s)
<1> SUFFICES ASSUME NEW key \in DOMAIN audits, NEW k \in DOMAIN audits[key],
                    audits[key][k].batch = id,
                    audits[key][k].action = AuditActionFor[s]
             PROVE  FALSE
  BY DEF HasEvent
<1> PICK event : event = audits[key][k]
  OBVIOUS
<1>1. event.batch = id /\ id # "" /\ Told(key, event)
  BY Constants DEF TrailOK
<1>2. PICK u \in Reached(id) : event.action = AuditActionFor[u]
  BY <1>1 DEF Told
<1>3. u \in States
  BY <1>2, ReachedStates DEF Base, WorkersOK
<1>4. QED  BY <1>2, <1>3, StatesHaveRecords

\* A step that adds no event and makes no mover.
LEMMA PlainAudits ==
  ASSUME Records, [Next]_vars, UNCHANGED audits,
         \A v \in Worker : Moved(v)' =>
           /\ Moved(v) /\ task'[v] = task[v]
           /\ gone[v] => gone'[v]
           /\ pc'[v] \in {"receipt", "audit"} => pc[v] \in {"receipt", "audit"}
           /\ pc'[v] \in {"notify", "ok"} /\ ~gone'[v] => pc[v] \in {"notify", "ok"}
  PROVE  AuditsOK'
<1>1. TrailOK'
  BY TrailStays DEF Records, AuditsOK
<1>2. \A id, s : HasEvent(id, s)' <=> HasEvent(id, s)
  BY DEF HasEvent
<1>3. ASSUME NEW v \in Worker, Moved(v)'
      PROVE  /\ pc'[v] \in {"receipt", "audit"} =>
                  ~HasEvent(task[v].batch, task[v].op)'
             /\ pc'[v] \in {"notify", "ok"} /\ ~gone'[v] =>
                  IsAudited(task[v].batch, task[v].op)'
  <2> PICK id : id = task[v].batch
    OBVIOUS
  <2> PICK s : s = task[v].op
    OBVIOUS
  <2>1. Moved(v) /\ task'[v] = task[v] /\ id \in BatchId
    BY <1>3, MoverFacts DEF Records
  <2>2. pc'[v] \in {"receipt", "audit"} => ~HasEvent(id, s)'
    BY <1>2, <1>3, <2>1 DEF Records, AuditsOK
  <2>3. ASSUME pc'[v] \in {"notify", "ok"}, ~gone'[v]
        PROVE  IsAudited(id, s)'
    <3>1. IsAudited(id, s)
      BY <1>3, <2>1, <2>3 DEF Records, AuditsOK
    <3>2. QED  BY <2>1, <3>1, AuditsStay DEF Records
  <2>4. QED  BY <2>1, <2>2, <2>3
<1>4. QED  BY <1>1, <1>3 DEF AuditsOK

\* A step that files nothing keeps the trails.
LEMMA QuietAudits ==
  ASSUME Records, [Next]_vars, NEW w \in Worker, Quiet(w)
  PROVE  AuditsOK'
<1>1. ASSUME NEW v \in Worker, Moved(v)'
      PROVE  /\ Moved(v) /\ task'[v] = task[v]
             /\ gone'[v] = gone[v] /\ pc'[v] = pc[v]
  <2>1. v # w
    BY <1>1 DEF Quiet
  <2>2. pc'[v] = pc[v] /\ task'[v] = task[v] /\ gone'[v] = gone[v]
    BY <2>1 DEF Quiet, Others
  <2>3. QED  BY <1>1, <2>2 DEF Moved
<1>2. UNCHANGED audits
  BY DEF Quiet
<1>3. QED  BY <1>1, <1>2, PlainAudits

\* The mover of a new state finds no event of it.
LEMMA StoresAudits ==
  ASSUME Records, [Next]_vars, NEW w \in Worker, Stores(w)
  PROVE  AuditsOK'
<1> PICK id : id = task[w].batch
  OBVIOUS
<1> PICK s : s = task[w].op
  OBVIOUS
<1>1. id \in BatchId /\ s \in States /\ s \notin Reached(id)
  <2> PICK b : b = seen'[w]
    OBVIOUS
  <2>1. LegalStep
    BY VersionsStep DEF Base, Records
  <2>2. id \in BatchId /\ b.state = s /\ Shaped(b) /\ b.state \notin Reached(id)
    BY <2>1, StoredHistory DEF Records
  <2>3. QED  BY <2>2 DEF Shaped, States
<1>2. /\ UNCHANGED <<task, audits>> /\ pc'[w] \in {"receipt", "audit"}
      /\ \A v \in Worker \ {w} : pc'[v] = pc[v] /\ gone'[v] = gone[v]
  BY DEF Stores, Others
<1>3. TrailOK'
  BY <1>2, TrailStays DEF Records, AuditsOK
<1>4. \A i, u : HasEvent(i, u)' <=> HasEvent(i, u)
  BY <1>2 DEF HasEvent
<1>5. ~HasEvent(task[w].batch, task[w].op)'
  BY <1>1, <1>2, <1>4, UnreachedEvent DEF Records, AuditsOK
<1>6. ASSUME NEW v \in Worker \ {w}, Moved(v)'
      PROVE  /\ pc'[v] \in {"receipt", "audit"} =>
                  ~HasEvent(task[v].batch, task[v].op)'
             /\ pc'[v] \in {"notify", "ok"} /\ ~gone'[v] =>
                  IsAudited(task[v].batch, task[v].op)'
  <2> PICK i : i = task[v].batch
    OBVIOUS
  <2> PICK u : u = task[v].op
    OBVIOUS
  <2>1. Moved(v) /\ task'[v] = task[v]
    BY <1>2, <1>6 DEF Moved
  <2>2. i \in BatchId
    BY <2>1, MoverFacts DEF Records
  <2>3. pc'[v] \in {"receipt", "audit"} => ~HasEvent(i, u)'
    BY <1>2, <1>4, <2>1 DEF Records, AuditsOK
  <2>4. ASSUME pc'[v] \in {"notify", "ok"}, ~gone'[v]
        PROVE  IsAudited(i, u)'
    <3>1. IsAudited(i, u)
      BY <1>2, <2>1, <2>4 DEF Records, AuditsOK
    <3>2. QED  BY <2>2, <3>1, AuditsStay DEF Records
  <2>5. QED  BY <2>1, <2>3, <2>4
<1>7. QED  BY <1>2, <1>3, <1>5, <1>6 DEF AuditsOK

\* A trail stays true when an event is added that is, and is new.
LEMMA TrailIsAdded ==
  ASSUME Base, TrailOK, [Next]_vars,
         NEW key \in DOMAIN audits, NEW e \in AuditEvent,
         audits' = AppendAt(audits, key, e), Told(key, e),
         e.batch # "" =>
           \E s : e.action = AuditActionFor[s] /\ ~HasEvent(e.batch, s)
  PROVE  TrailOK'
<1>1. DOMAIN audits' = DOMAIN audits
  BY AppendedEvent DEF Base
<1>2. PICK n :
        /\ n \notin DOMAIN audits[key]
        /\ DOMAIN audits'[key] = DOMAIN audits[key] \cup {n}
        /\ audits'[key][n] = e
        /\ \A k \in DOMAIN audits[key] : audits'[key][k] = audits[key][k]
  BY AppendedEvent DEF Base
<1>3. \A other \in DOMAIN audits \ {key} : audits'[other] = audits[other]
  BY AppendedEvent DEF Base
<1>4. ASSUME NEW k \in DOMAIN audits[key], e.batch # ""
      PROVE  ~(audits[key][k].batch = e.batch /\ audits[key][k].action = e.action)
  BY <1>4 DEF HasEvent
<1> SUFFICES ASSUME NEW at \in DOMAIN audits, NEW i \in DOMAIN audits'[at]
             PROVE  Told(at, audits[at][i])' /\ Once(at, i)'
  BY <1>1 DEF TrailOK
<1> PICK event : event = audits'[at][i]
  OBVIOUS
<1>5. CASE at = key /\ i = n
  <2>1. event = e
    BY <1>2, <1>5
  <2>2. Told(at, event)'
    BY <1>5, <2>1, ToldStays
  <2>3. Once(at, i)'
    <3> SUFFICES ASSUME e.batch # "", NEW k \in DOMAIN audits'[key],
                        audits'[key][k].batch = e.batch,
                        audits'[key][k].action = e.action
                 PROVE  k = n
      BY <1>2, <1>5 DEF Once
    <3>1. QED  BY <1>2, <1>4
  <2>4. QED  BY <2>2, <2>3
<1>6. CASE ~(at = key /\ i = n)
  <2>1. i \in DOMAIN audits[at] /\ event = audits[at][i]
    <3>1. CASE at = key
      BY <1>2, <1>6, <3>1
    <3>2. CASE at # key
      BY <1>3, <3>2
    <3>3. QED  BY <3>1, <3>2
  <2>2. Told(at, event) /\ Once(at, i) /\ event \in AuditEvent
    BY <2>1, TrailHasEvents DEF TrailOK, Base
  <2>3. Told(at, event)'
    BY <2>2, ToldStays
  <2>4. Once(at, i)'
    <3>1. CASE at # key
      BY <1>3, <2>1, <2>2, <3>1 DEF Once
    <3>2. CASE at = key
      <4>1. i # n /\ audits[key][i] = event
        BY <1>6, <2>1, <3>2
      <4> SUFFICES ASSUME event.batch # "", NEW k \in DOMAIN audits'[key],
                          audits'[key][k].batch = event.batch,
                          audits'[key][k].action = event.action
                   PROVE  k = i
        BY <3>2 DEF Once
      <4>2. CASE k = n
        <5>1. e.batch = event.batch /\ e.action = event.action
          BY <1>2, <4>2
        <5>2. QED  BY <1>4, <2>1, <3>2, <5>1
      <4>3. CASE k # n
        <5>1. k \in DOMAIN audits[key] /\ audits'[key][k] = audits[key][k]
          BY <1>2, <4>3
        <5>2. QED  BY <2>2, <3>2, <4>1, <5>1 DEF Once
      <4>4. QED  BY <4>2, <4>3
    <3>3. QED  BY <3>1, <3>2
  <2>5. QED  BY <2>3, <2>4
<1>7. QED  BY <1>5, <1>6

\* The event of a mover is the first of its state, and stays the only one.
LEMMA AppendAuditAudits ==
  ASSUME Records, [Next]_vars, NEW w \in Worker, Files(w), AppendAudit(w), ~gone[w]
  PROVE  AuditsOK'
<1> PICK id : id = task[w].batch
  OBVIOUS
<1> PICK s : s = task[w].op
  OBVIOUS
<1>1. PICK key \in DOMAIN audits, e \in AuditEvent :
        /\ audits' = AppendAt(audits, key, e)
        /\ e.batch = id /\ e.action = AuditActionFor[s]
        /\ IF Moved(w) THEN key = Key(batches[id].scope) ELSE e.batch = ""
  BY AuditEffect DEF Records
<1>2. /\ UNCHANGED <<task, batches>> /\ (Moved(w)' <=> Moved(w))
      /\ pc'[w] \in {"notify", "ok"} /\ pc[w] = "audit"
      /\ \A v \in Worker \ {w} :
           pc'[v] = pc[v] /\ gone'[v] = gone[v] /\ (Moved(v)' <=> Moved(v))
  <2>1. pc[w] = "audit" /\ UNCHANGED <<task, batches>>
    BY DEF AppendAudit
  <2>2. pc'[w] \in {"notify", "ok"}
    BY DEF AppendAudit, Proceed, Records, Base, TypeInv, RequestTypeOK
  <2>3. QED  BY <2>1, <2>2 DEF Files, Others, Moved
<1>3. ASSUME Moved(w)
      PROVE  /\ id \in BatchId /\ s \in States /\ s \in Reached(id)
             /\ batches[id] # NoBatch /\ HasReceipt(id, s) /\ ~HasEvent(id, s)
  <2>1. id \in BatchId /\ s \in States /\ s \in Reached(id) /\ batches[id] \in Batch
    BY <1>3, MoverFacts DEF Records
  <2>2. HasReceipt(id, s) /\ ~HasEvent(id, s)
    BY <1>2, <1>3 DEF Records, ReceiptsOK, AuditsOK
  <2>3. QED  BY <2>1, <2>2, BatchIsNotNone
<1>4. TrailOK'
  <2>1. CASE Moved(w)
    <3>1. Told(key, e)
      BY <1>1, <1>3, <2>1 DEF Told
    <3>2. QED  BY <1>1, <1>3, <2>1, <3>1, TrailIsAdded DEF Records, AuditsOK
  <2>2. CASE ~Moved(w)
    <3>1. Told(key, e)
      BY <1>1, <2>2 DEF Told
    <3>2. QED  BY <1>1, <2>2, <3>1, TrailIsAdded DEF Records, AuditsOK
  <2>3. QED  BY <2>1, <2>2
<1>5. PICK n :
        /\ DOMAIN audits'[key] = DOMAIN audits[key] \cup {n}
        /\ audits'[key][n] = e
        /\ \A k \in DOMAIN audits[key] : audits'[key][k] = audits[key][k]
  BY <1>1, AppendedEvent, ZenonT(40) DEF Records, Base
<1>6. ASSUME Moved(w)
      PROVE  IsAudited(id, s)'
  <2>1. key = Key(batches[id].scope) /\ batches[id] # NoBatch
    BY <1>1, <1>3, <1>6
  <2>2. key = Key(batches'[id].scope) /\ batches'[id] # NoBatch
    BY <1>2, <2>1
  <2>3. /\ n \in DOMAIN audits'[key]
        /\ audits'[key][n].batch = id /\ audits'[key][n].action = AuditActionFor[s]
    BY <1>1, <1>5
  <2>4. QED  BY <2>2, <2>3 DEF IsAudited
<1>7. ASSUME NEW i, NEW u \in States, HasEvent(i, u)', ~HasEvent(i, u)
      PROVE  i = id /\ AuditActionFor[u] = AuditActionFor[s]
  <2> PICK at \in DOMAIN audits' :
        \E k \in DOMAIN audits'[at] :
          audits'[at][k].batch = i /\ audits'[at][k].action = AuditActionFor[u]
    BY <1>7 DEF HasEvent
  <2>1. PICK k \in DOMAIN audits'[at] :
          audits'[at][k].batch = i /\ audits'[at][k].action = AuditActionFor[u]
    OBVIOUS
  <2>2. /\ DOMAIN audits' = DOMAIN audits
        /\ \A other \in DOMAIN audits \ {key} : audits'[other] = audits[other]
    BY <1>1, AppendedEvent DEF Records, Base
  <2>3. at = key /\ k = n
    BY <1>5, <1>7, <2>1, <2>2 DEF HasEvent
  <2>4. QED  BY <1>1, <1>5, <2>1, <2>3
<1>8. ASSUME NEW v \in Worker \ {w}, Moved(v)'
      PROVE  /\ pc'[v] \in {"receipt", "audit"} =>
                  ~HasEvent(task[v].batch, task[v].op)'
             /\ pc'[v] \in {"notify", "ok"} /\ ~gone'[v] =>
                  IsAudited(task[v].batch, task[v].op)'
  <2> PICK i : i = task[v].batch
    OBVIOUS
  <2> PICK u : u = task[v].op
    OBVIOUS
  <2>1. Moved(v) /\ task'[v] = task[v]
    BY <1>2, <1>8
  <2>2. i \in BatchId /\ u \in States /\ i # ""
    BY <2>1, MoverFacts, Constants DEF Records
  <2>3. ASSUME pc'[v] \in {"receipt", "audit"}
        PROVE  ~HasEvent(i, u)'
    <3>1. ~HasEvent(i, u)
      BY <1>2, <2>1, <2>3 DEF Records, AuditsOK
    <3>2. CASE Moved(w)
      <4>1. i # id \/ u # s
        BY <2>1, <3>2 DEF Records, Base, WorkersOK, MoversOK
      <4> SUFFICES ASSUME HasEvent(i, u)' PROVE FALSE
        OBVIOUS
      <4>2. i = id /\ AuditActionFor[u] = AuditActionFor[s]
        BY <1>7, <2>2, <3>1
      <4>3. u = s
        BY <1>3, <2>2, <3>2, <4>2, StatesHaveRecords
      <4>4. QED  BY <4>1, <4>2, <4>3
    <3>3. CASE ~Moved(w)
      BY <1>1, <1>7, <2>2, <3>1, <3>3
    <3>4. QED  BY <3>2, <3>3
  <2>4. ASSUME pc'[v] \in {"notify", "ok"}, ~gone'[v]
        PROVE  IsAudited(i, u)'
    <3>1. IsAudited(i, u)
      BY <1>2, <2>1, <2>4 DEF Records, AuditsOK
    <3>2. QED  BY <2>2, <3>1, AuditsStay DEF Records
  <2>5. QED  BY <2>1, <2>3, <2>4
<1>9. QED  BY <1>2, <1>4, <1>6, <1>8 DEF AuditsOK

\* The other records leave the trail; a mover whose client is gone loses its
\* event and goes on.
LEMMA FilesAudits ==
  ASSUME Records, [Next]_vars, NEW w \in Worker, Files(w)
  PROVE  AuditsOK'
<1>1. CASE AppendAudit(w) /\ ~gone[w]
  BY <1>1, AppendAuditAudits
<1>2. CASE ~(AppendAudit(w) /\ ~gone[w])
  <2>1. /\ UNCHANGED audits /\ (Moved(w)' <=> Moved(w)) /\ UNCHANGED task
        /\ pc'[w] \in {"audit", "notify", "ok"}
        /\ \A v \in Worker \ {w} :
             pc'[v] = pc[v] /\ gone'[v] = gone[v] /\ (Moved(v)' <=> Moved(v))
        /\ gone'[w] = gone[w]
    <3>1. UNCHANGED audits
      BY <1>2 DEF Files, AppendReceipt, AppendAudit, QueueNotification
    <3>2. /\ UNCHANGED task /\ (Moved(w)' <=> Moved(w))
          /\ pc'[w] \in {"audit", "notify", "ok"}
      BY FilesKeeps DEF Files, Moved, Records, Base
    <3>3. QED  BY <3>1, <3>2 DEF Files, Others, Moved
  <2>2. /\ pc'[w] \in {"receipt", "audit"} => pc[w] \in {"receipt", "audit"}
        /\ pc'[w] \in {"notify", "ok"} /\ ~gone'[w] => pc[w] \in {"notify", "ok"}
    <3>1. CASE AppendReceipt(w)
      <4>1. pc[w] = "receipt" /\ pc'[w] = "audit"
        BY <3>1 DEF AppendReceipt, Proceed, Records, Base, TypeInv, RequestTypeOK
      <4>2. QED  BY <4>1
    <3>2. CASE QueueNotification(w)
      <4>1. pc[w] = "notify" /\ pc'[w] = "ok"
        BY <3>2 DEF QueueNotification, Proceed, Records, Base, TypeInv, RequestTypeOK
      <4>2. QED  BY <4>1
    <3>3. CASE AppendAudit(w)
      <4>1. pc[w] = "audit" /\ gone[w]
        BY <1>2, <3>3 DEF AppendAudit
      <4>2. QED  BY <2>1, <4>1
    <3>4. QED  BY <3>1, <3>2, <3>3 DEF Files
  <2>3. ASSUME NEW v \in Worker, Moved(v)'
        PROVE  /\ Moved(v) /\ task'[v] = task[v]
               /\ gone[v] => gone'[v]
               /\ pc'[v] \in {"receipt", "audit"} => pc[v] \in {"receipt", "audit"}
               /\ pc'[v] \in {"notify", "ok"} /\ ~gone'[v]
                    => pc[v] \in {"notify", "ok"}
    <3>1. CASE v = w
      BY <2>1, <2>2, <2>3, <3>1
    <3>2. CASE v # w
      BY <2>1, <2>3, <3>2
    <3>3. QED  BY <3>1, <3>2
  <2>4. QED  BY <2>1, <2>3, PlainAudits
<1>3. QED  BY <1>1, <1>2

\* Nor does an idle step touch it.
LEMMA IdlesAudits ==
  ASSUME Records, [Next]_vars, Idles
  PROVE  AuditsOK'
<1>1. UNCHANGED <<audits, pc, task>> /\ \A v \in Worker : gone[v] => gone'[v]
  BY DEF Idles
<1>2. \A v \in Worker : Moved(v)' <=> Moved(v)
  BY <1>1 DEF Moved
<1>3. QED  BY <1>1, <1>2, PlainAudits

\* Every step keeps the trail true.
LEMMA AuditsStep ==
  ASSUME Records, [Next]_vars
  PROVE  AuditsOK'
<1>1. (\E w \in Worker : Quiet(w) \/ Stores(w) \/ Files(w)) \/ Idles
  BY StepEffect DEF Records, Base
<1>2. QED  BY <1>1, QuietAudits, StoresAudits, FilesAudits, IdlesAudits

\* An empty trail is true.
LEMMA AuditsInit == Init => AuditsOK
<1> SUFFICES ASSUME Init PROVE AuditsOK
  OBVIOUS
<1>1. /\ \A w \in Worker : pc[w] = "idle"
      /\ \A key \in DOMAIN audits : audits[key] = <<>>
  BY DEF Init
<1>2. TrailOK
  BY <1>1 DEF TrailOK
<1>3. QED  BY <1>1, <1>2 DEF AuditsOK, Moved

\* What has to be in the trail of a state is put there once, by the worker that
\* moved its batch there and has filed the receipt, unless its client left.
THEOREM AuditsInvariant == Spec => []AuditsOK
<1>1. TypeInv /\ Versions /\ WorkersOK /\ ReceiptsOK /\ AuditsOK /\ [Next]_vars
        => AuditsOK'
  BY AuditsStep DEF Records, Base
<1>2. QED
  BY AuditsInit, <1>1, TypeInvariant, VersionsInvariant, WorkersInvariant,
     ReceiptsInvariant, PTL DEF Spec

\* A trail that is in order tells what is receipted.
LEMMA TrailsFollow ==
  ASSUME AuditsOK
  PROVE  AuditFollowsReceipt
<1> SUFFICES ASSUME NEW key \in DOMAIN audits, NEW i \in DOMAIN audits[key],
                    audits[key][i].batch # ""
             PROVE  LET event == audits[key][i]
                    IN /\ batches[event.batch] # NoBatch
                       /\ key = Key(batches[event.batch].scope)
                       /\ \E state \in Reached(event.batch) :
                            /\ event.action = AuditActionFor[state]
                            /\ HasReceipt(event.batch, state)
                       /\ \A k \in DOMAIN audits[key] :
                            /\ audits[key][k].batch = event.batch
                            /\ audits[key][k].action = event.action
                            => k = i
  BY DEF AuditFollowsReceipt
<1>1. Told(key, audits[key][i]) /\ Once(key, i)
  BY DEF AuditsOK, TrailOK
<1>2. QED  BY <1>1 DEF Told, Once

\* The audit trail follows the receipts.
THEOREM AuditsAreTrue == Spec => []AuditFollowsReceipt
BY TrailsFollow, AuditsInvariant, PTL

-----------------------------------------------------------------------------
(***************************************************************************)
(* Notices.  A decision is the last state of a batch, so the worker that   *)
(* moved a batch to it is the only one that could have queued a notice of  *)
(* the batch.                                                              *)
(***************************************************************************)

Decisions == {"approved", "rejected"}

\* What notice n says is so.
NoticeIsTrue(n) ==
  /\ batches[n.batch] # NoBatch /\ batches[n.batch].state \in Decisions
  /\ n.event = AuditActionFor[batches[n.batch].state]
  /\ HasReceipt(n.batch, batches[n.batch].state)
  /\ IsAudited(n.batch, batches[n.batch].state)

NoticeListOK ==
  \A i \in DOMAIN notices :
    /\ NoticeIsTrue(notices[i])
    /\ \A k \in DOMAIN notices : notices[k].batch = notices[i].batch => k = i

\* Whether worker w, or anyone before it, has queued the notice it is to queue.
NoticeIsOwed(w) == \A i \in DOMAIN notices : notices[i].batch # task[w].batch
NoticeIsQueued(w) ==
  \E i \in DOMAIN notices : /\ notices[i].batch = task[w].batch
                            /\ notices[i].recipient = task[w].recipient

NoticesOK ==
  /\ NoticeListOK
  /\ \A w \in Worker : Moved(w) /\ task[w].recipient # "" =>
       IF pc[w] = "ok" THEN NoticeIsQueued(w) ELSE NoticeIsOwed(w)

\* A decided batch does not change.
LEMMA DecisionStays ==
  ASSUME Base, [Next]_vars, NEW id \in BatchId, batches[id] # NoBatch,
         batches[id].state \in Decisions
  PROVE  batches'[id] = batches[id]
<1>1. LegalStep
  BY VersionsStep DEF Base
<1>2. batches'[id] # batches[id] => CanTransition(batches[id], batches'[id].state)
  BY <1>1 DEF LegalStep, OneLegalStep
<1>3. QED  BY <1>2 DEF CanTransition, Decisions

\* A mover that is to tell somebody has moved its batch to the decision the
\* batch has.
LEMMA DecidingMover ==
  ASSUME Base, NEW w \in Worker, Moved(w), task[w].recipient # ""
  PROVE  /\ task[w].batch \in BatchId /\ batches[task[w].batch] # NoBatch
         /\ task[w].op \in Decisions /\ batches[task[w].batch].state = task[w].op
<1> PICK id : id = task[w].batch
  OBVIOUS
<1> PICK s : s = task[w].op
  OBVIOUS
<1>1. s \in Decisions
  BY DEF Base, TypeInv, HandlersOK, Holds, Decisions
<1>2. id \in BatchId /\ batches[id] # NoBatch /\ s \in Reached(id)
  BY MoverFacts, BatchIsNotNone
<1>3. Shaped(batches[id])
  BY <1>2 DEF Base, WorkersOK, ShapesOK
<1>4. batches[id].state = s
  BY <1>1, <1>2, <1>3 DEF Reached, History, Shaped, Decisions
<1>5. QED  BY <1>1, <1>2, <1>4

\* Two movers never have a notice of one batch to queue.
LEMMA DecidersDiffer ==
  ASSUME Base, NEW v \in Worker, NEW w \in Worker, v # w, Moved(v), Moved(w),
         task[v].recipient # "", task[w].recipient # ""
  PROVE  task[v].batch # task[w].batch
BY DecidingMover, ZenonT(40) DEF Base, WorkersOK, MoversOK

\* What a notice says stays true.
LEMMA NoticeStaysTrue ==
  ASSUME Base, [Next]_vars, NEW n \in Notification, NoticeIsTrue(n)
  PROVE  NoticeIsTrue(n)'
<1> PICK id : id = n.batch
  OBVIOUS
<1> PICK s : s = batches[id].state
  OBVIOUS
<1>1. id \in BatchId
  BY DEF Notification
<1>2. /\ batches[id] # NoBatch /\ s \in Decisions /\ n.event = AuditActionFor[s]
      /\ HasReceipt(id, s) /\ IsAudited(id, s)
  BY DEF NoticeIsTrue
<1>3. batches'[id] = batches[id]
  BY <1>1, <1>2, DecisionStays
<1>4. HasReceipt(id, s)' /\ IsAudited(id, s)'
  BY <1>1, <1>2, ReceiptsStay, AuditsStay DEF Decisions, States
<1>5. QED  BY <1>2, <1>3, <1>4 DEF NoticeIsTrue

\* Every notice in the list is a notification.
LEMMA NoticeElement ==
  ASSUME TypeInv, NEW i \in DOMAIN notices
  PROVE  notices[i] \in Notification
BY SequenceElement DEF TypeInv, StoreOK, StoreTypeOK

\* The notices of a list that stays, stay true.
LEMMA NoticeListStays ==
  ASSUME Base, NoticeListOK, [Next]_vars, UNCHANGED notices
  PROVE  NoticeListOK'
<1> SUFFICES ASSUME NEW i \in DOMAIN notices
             PROVE  /\ NoticeIsTrue(notices[i])'
                    /\ \A k \in DOMAIN notices :
                         notices[k].batch = notices[i].batch => k = i
  BY DEF NoticeListOK
<1> PICK n : n = notices[i]
  OBVIOUS
<1>1. NoticeIsTrue(n) /\ n \in Notification
  BY NoticeElement DEF NoticeListOK, Base
<1>2. NoticeIsTrue(n)' /\ n = notices'[i]
  BY <1>1, NoticeStaysTrue
<1>3. QED  BY <1>2 DEF NoticeListOK

\* A step that queues nothing and makes no mover.
LEMMA PlainNotices ==
  ASSUME Base, NoticesOK, [Next]_vars, UNCHANGED notices,
         \A v \in Worker : Moved(v)' /\ task'[v].recipient # "" =>
           /\ Moved(v) /\ task'[v] = task[v]
           /\ pc'[v] = "ok" <=> pc[v] = "ok"
  PROVE  NoticesOK'
<1>1. NoticeListOK'
  BY NoticeListStays DEF NoticesOK
<1>2. ASSUME NEW v \in Worker, Moved(v)', task'[v].recipient # ""
      PROVE  IF pc'[v] = "ok" THEN NoticeIsQueued(v)' ELSE NoticeIsOwed(v)'
  <2>1. /\ Moved(v) /\ task'[v] = task[v] /\ (pc'[v] = "ok" <=> pc[v] = "ok")
    BY <1>2
  <2>2. IF pc[v] = "ok" THEN NoticeIsQueued(v) ELSE NoticeIsOwed(v)
    BY <1>2, <2>1 DEF NoticesOK
  <2>3. /\ NoticeIsQueued(v)' <=> NoticeIsQueued(v)
        /\ NoticeIsOwed(v)' <=> NoticeIsOwed(v)
    BY <2>1 DEF NoticeIsQueued, NoticeIsOwed
  <2>4. QED  BY <2>1, <2>2, <2>3
<1>3. QED  BY <1>1, <1>2 DEF NoticesOK

\* Requests on their way queue nothing.
LEMMA QuietNotices ==
  ASSUME Base, NoticesOK, [Next]_vars, NEW w \in Worker, Quiet(w)
  PROVE  NoticesOK'
<1>1. ASSUME NEW v \in Worker, Moved(v)'
      PROVE  Moved(v) /\ task'[v] = task[v] /\ pc'[v] = pc[v]
  <2>1. v # w
    BY <1>1 DEF Quiet
  <2>2. pc'[v] = pc[v] /\ task'[v] = task[v]
    BY <2>1 DEF Quiet, Others
  <2>3. QED  BY <1>1, <2>2 DEF Moved
<1>2. UNCHANGED notices
  BY DEF Quiet
<1>3. QED  BY <1>1, <1>2, PlainNotices

\* Nor do idle steps.
LEMMA IdlesNotices ==
  ASSUME Base, NoticesOK, [Next]_vars, Idles
  PROVE  NoticesOK'
<1>1. UNCHANGED <<notices, pc, task>>
  BY DEF Idles
<1>2. \A v \in Worker : Moved(v)' <=> Moved(v)
  BY <1>1 DEF Moved
<1>3. QED  BY <1>1, <1>2, PlainNotices

\* The mover of a batch finds no notice of it: the batch was not decided.
LEMMA StoresNotices ==
  ASSUME Base, NoticesOK, [Next]_vars, NEW w \in Worker, Stores(w)
  PROVE  NoticesOK'
<1> PICK id : id = task[w].batch
  OBVIOUS
<1>1. /\ UNCHANGED <<task, notices>> /\ pc'[w] \in {"receipt", "audit"}
      /\ \A v \in Worker \ {w} : pc'[v] = pc[v]
  BY DEF Stores, Others
<1>2. id \in BatchId /\ batches'[id] # batches[id]
  <2> PICK b : b = seen'[w]
    OBVIOUS
  <2>1. LegalStep
    BY VersionsStep DEF Base
  <2>2. id \in BatchId /\ batches'[id] = b
    BY <2>1, StoredHistory
  <2>3. b # batches[id]
    BY DEF Stores
  <2>4. QED  BY <2>2, <2>3
<1>3. ASSUME NEW i \in DOMAIN notices
      PROVE  notices[i].batch # id
  <2>1. NoticeIsTrue(notices[i])
    BY DEF NoticesOK, NoticeListOK
  <2>2. QED  BY <1>2, <2>1, DecisionStays DEF NoticeIsTrue
<1>4. NoticeListOK'
  BY <1>1, NoticeListStays DEF NoticesOK
<1>5. pc'[w] # "ok" /\ NoticeIsOwed(w)'
  BY <1>1, <1>3 DEF NoticeIsOwed
<1>6. ASSUME NEW v \in Worker \ {w}, Moved(v)', task'[v].recipient # ""
      PROVE  IF pc'[v] = "ok" THEN NoticeIsQueued(v)' ELSE NoticeIsOwed(v)'
  <2>1. Moved(v) /\ task'[v] = task[v] /\ pc'[v] = pc[v]
    BY <1>1, <1>6 DEF Moved
  <2>2. IF pc[v] = "ok" THEN NoticeIsQueued(v) ELSE NoticeIsOwed(v)
    BY <1>6, <2>1 DEF NoticesOK
  <2>3. /\ NoticeIsQueued(v)' <=> NoticeIsQueued(v)
        /\ NoticeIsOwed(v)' <=> NoticeIsOwed(v)
    BY <1>1 DEF NoticeIsQueued, NoticeIsOwed
  <2>4. QED  BY <2>1, <2>2, <2>3
<1>7. QED  BY <1>4, <1>5, <1>6 DEF NoticesOK

\* A notice that is queued is true, and the first of its batch.
LEMMA QueueNotices ==
  ASSUME Records, NoticesOK, [Next]_vars, NEW w \in Worker, Files(w),
         QueueNotification(w)
  PROVE  NoticesOK'
<1> PICK id : id = task[w].batch
  OBVIOUS
<1> PICK s : s = task[w].op
  OBVIOUS
<1>1. /\ pc[w] = "notify" /\ ~gone[w] /\ pc'[w] = "ok" /\ UNCHANGED task
      /\ \A v \in Worker \ {w} : pc'[v] = pc[v]
  <2>1. pc[w] = "notify" /\ ~gone[w] /\ UNCHANGED task
    BY DEF QueueNotification
  <2>2. pc'[w] = "ok"
    BY DEF QueueNotification, Proceed, Records, Base, TypeInv, RequestTypeOK
  <2>3. QED  BY <2>1, <2>2 DEF Files, Others
<1>2. Moved(w) /\ task[w].recipient # "" /\ s \in Decisions
  BY <1>1 DEF Moved, Records, Base, TypeInv, HandlersOK, Holds, Decisions
<1>3. /\ id \in BatchId /\ batches[id] # NoBatch /\ batches[id].state = s
      /\ seen[w].id = id
  BY <1>2, DecidingMover, MoverFacts DEF Records
<1>4. HasReceipt(id, s) /\ IsAudited(id, s)
  BY <1>1, <1>2 DEF Records, ReceiptsOK, AuditsOK
<1>5. NoticeIsOwed(w)
  BY <1>1, <1>2 DEF NoticesOK
<1>6. PICK n :
        /\ notices' = Append(notices, n)
        /\ n.batch = id /\ n.recipient = task[w].recipient
        /\ n.event = AuditActionFor[s]
        /\ n \in Notification
  <2> DEFINE note(t) == [batch |-> seen[w].id, recipient |-> task[w].recipient,
                         event |-> AuditActionFor[s],
                         state |-> "pending", attempts |-> 0, createdAt |-> t]
  <2>1. PICK t \in Clock(w) : notices' = Append(notices, note(t))
    BY DEF QueueNotification, QueueNotice
  <2>2. t \in Instant
    BY ClockIsInstant DEF Records, Base, TypeInv
  <2>3. task[w].recipient \in Recipient /\ AuditActionFor[s] \in NoticeEvent
    BY <1>2, Tables DEF Records, Base, TypeInv, RequestTypeOK, Task, Decisions
  <2>4. note(t) \in Notification
    BY <1>3, <2>2, <2>3 DEF Notification
  <2>5. QED  BY <1>3, <2>1, <2>4
<1>7. NoticeIsTrue(n)
  BY <1>2, <1>3, <1>4, <1>6 DEF NoticeIsTrue
<1> PICK m : m = Len(notices) + 1
  OBVIOUS
<1>8. /\ DOMAIN notices' = DOMAIN notices \cup {m} /\ m \notin DOMAIN notices
      /\ \A k \in DOMAIN notices : notices'[k] = notices[k]
      /\ notices'[m] = n
  <2>1. notices \in Seq(Notification)
    BY DEF Records, Base, TypeInv, StoreOK, StoreTypeOK
  <2>2. QED  BY <1>6, <2>1, AppendElements
<1>9. \A k \in DOMAIN notices : notices[k].batch # id
  BY <1>5 DEF NoticeIsOwed
<1>10. NoticeListOK'
  <2> SUFFICES ASSUME NEW i \in DOMAIN notices'
               PROVE  /\ NoticeIsTrue(notices[i])'
                      /\ \A k \in DOMAIN notices' :
                           notices'[k].batch = notices'[i].batch => k = i
    BY DEF NoticeListOK
  <2> PICK old : old = notices'[i]
    OBVIOUS
  <2>1. NoticeIsTrue(old) /\ old \in Notification
    BY <1>6, <1>7, <1>8, NoticeElement
       DEF NoticesOK, NoticeListOK, Records, Base
  <2>2. NoticeIsTrue(old)'
    BY <2>1, NoticeStaysTrue DEF Records
  <2>3. \A k \in DOMAIN notices' : notices'[k].batch = notices'[i].batch => k = i
    <3>1. CASE i = m
      BY <1>6, <1>8, <1>9, <3>1
    <3>2. CASE i # m
      <4>1. i \in DOMAIN notices /\ notices'[i] = notices[i]
        BY <1>8, <3>2
      <4>2. \A k \in DOMAIN notices : notices[k].batch = notices[i].batch => k = i
        BY <4>1 DEF NoticesOK, NoticeListOK
      <4>3. notices'[m].batch # notices[i].batch
        BY <1>6, <1>8, <1>9, <4>1
      <4>4. QED  BY <1>8, <4>1, <4>2, <4>3
    <3>3. QED  BY <3>1, <3>2
  <2>4. QED  BY <2>2, <2>3
<1>11. NoticeIsQueued(w)'
  BY <1>1, <1>6, <1>8 DEF NoticeIsQueued
<1>12. ASSUME NEW v \in Worker \ {w}, Moved(v)', task'[v].recipient # ""
       PROVE  IF pc'[v] = "ok" THEN NoticeIsQueued(v)' ELSE NoticeIsOwed(v)'
  <2>1. Moved(v) /\ task'[v] = task[v] /\ pc'[v] = pc[v]
    BY <1>1, <1>12 DEF Moved
  <2>2. IF pc[v] = "ok" THEN NoticeIsQueued(v) ELSE NoticeIsOwed(v)
    BY <1>12, <2>1 DEF NoticesOK
  <2>3. task[v].batch # id
    BY <1>2, <1>12, <2>1, DecidersDiffer DEF Records
  <2>4. NoticeIsQueued(v) => NoticeIsQueued(v)'
    BY <1>8, <2>1 DEF NoticeIsQueued
  <2>5. NoticeIsOwed(v) => NoticeIsOwed(v)'
    BY <1>6, <1>8, <2>1, <2>3 DEF NoticeIsOwed
  <2>6. QED  BY <2>1, <2>2, <2>4, <2>5
<1>13. QED  BY <1>1, <1>10, <1>11, <1>12 DEF NoticesOK

\* The worker that files the other records queues its notice later, if it has
\* one to queue.
LEMMA FilesNotices ==
  ASSUME Records, NoticesOK, [Next]_vars, NEW w \in Worker, Files(w)
  PROVE  NoticesOK'
<1>1. CASE QueueNotification(w)
  BY <1>1, QueueNotices
<1>2. CASE AppendReceipt(w) \/ AppendAudit(w)
  <2>1. /\ UNCHANGED <<task, notices>> /\ (Moved(w)' <=> Moved(w))
        /\ pc[w] \in {"receipt", "audit"}
        /\ task[w].recipient # "" => pc'[w] # "ok"
    <3>1. UNCHANGED <<task, notices>> /\ pc[w] \in {"receipt", "audit"}
      BY <1>2 DEF AppendReceipt, AppendAudit
    <3>2. Moved(w)' <=> Moved(w)
      BY FilesKeeps DEF Records, Base
    <3>3. task[w].recipient # "" => pc'[w] # "ok"
      BY <1>2 DEF AppendReceipt, AppendAudit, Proceed, Records, Base, TypeInv,
                  RequestTypeOK
    <3>4. QED  BY <3>1, <3>2, <3>3
  <2>2. ASSUME NEW v \in Worker, Moved(v)', task'[v].recipient # ""
        PROVE  /\ Moved(v) /\ task'[v] = task[v]
               /\ pc'[v] = "ok" <=> pc[v] = "ok"
    <3>1. CASE v = w
      BY <2>1, <2>2, <3>1
    <3>2. CASE v # w
      <4>1. pc'[v] = pc[v] /\ task'[v] = task[v]
        BY <3>2 DEF Files, Others
      <4>2. QED  BY <2>2, <4>1 DEF Moved
    <3>3. QED  BY <3>1, <3>2
  <2>3. QED  BY <2>1, <2>2, PlainNotices DEF Records
<1>3. QED  BY <1>1, <1>2 DEF Files

\* Every step keeps the notices true.
LEMMA NoticesStep ==
  ASSUME Records, NoticesOK, [Next]_vars
  PROVE  NoticesOK'
<1>1. (\E w \in Worker : Quiet(w) \/ Stores(w) \/ Files(w)) \/ Idles
  BY StepEffect DEF Records, Base
<1>2. QED
  BY <1>1, QuietNotices, StoresNotices, FilesNotices, IdlesNotices DEF Records

\* There are none in the beginning.
LEMMA NoticesInit == Init => NoticesOK
BY DEF Init, NoticesOK, NoticeListOK, Moved

\* Notices are true and one of a kind, and a worker that has one to queue is
\* the only one that has.
THEOREM NoticesInvariant == Spec => []NoticesOK
<1>1. /\ TypeInv /\ Versions /\ WorkersOK /\ ReceiptsOK /\ AuditsOK /\ NoticesOK
      /\ [Next]_vars
      => NoticesOK'
  BY NoticesStep DEF Records, Base
<1>2. QED
  BY NoticesInit, <1>1, TypeInvariant, VersionsInvariant, WorkersInvariant,
     ReceiptsInvariant, AuditsInvariant, PTL DEF Spec

\* Nobody is told of a decision that does not stand.
THEOREM NoticesAreTrue == Spec => []NoticesTellTheDecision
<1>1. NoticesOK => NoticesTellTheDecision
  BY DEF NoticesOK, NoticeListOK, NoticeIsTrue, Decisions, NoticesTellTheDecision
<1>2. QED  BY <1>1, NoticesInvariant, PTL

\* The records of a request that is answered are in the store.
LEMMA AnswersHold ==
  ASSUME Records, NoticesOK
  PROVE  AnsweredIsRecorded
<1> SUFFICES ASSUME NEW w \in Worker, pc[w] = "ok", task[w].op # "registered"
             PROVE  LET id == task[w].batch
                    IN /\ task[w].op \in Reached(id)
                       /\ seen[w].revision <= batches[id].revision
                       /\ HasReceipt(id, task[w].op)
                       /\ ~gone[w] => IsAudited(id, task[w].op)
                       /\ task[w].recipient # "" => NoticeIsQueued(w)
  BY DEF AnsweredIsRecorded, NoticeIsQueued
<1>1. Moved(w)
  BY DEF Moved
<1>2. /\ task[w].op \in Reached(task[w].batch)
      /\ seen[w].revision <= batches[task[w].batch].revision
  BY <1>1 DEF Records, Base, WorkersOK, MoversOK, MoverOK
<1>3. HasReceipt(task[w].batch, task[w].op)
  BY <1>1 DEF Records, ReceiptsOK
<1>4. ~gone[w] => IsAudited(task[w].batch, task[w].op)
  BY <1>1 DEF Records, AuditsOK
<1>5. task[w].recipient # "" => NoticeIsQueued(w)
  BY <1>1 DEF NoticesOK
<1>6. QED  BY <1>2, <1>3, <1>4, <1>5

\* A client that is answered without an error finds in the store what its
\* request stands for.
THEOREM AnswersAreRecorded == Spec => []AnsweredIsRecorded
<1>1. TypeInv /\ Versions /\ WorkersOK /\ ReceiptsOK /\ AuditsOK /\ NoticesOK
        => AnsweredIsRecorded
  BY AnswersHold DEF Records, Base
<1>2. QED
  BY <1>1, TypeInvariant, VersionsInvariant, WorkersInvariant, ReceiptsInvariant,
     AuditsInvariant, NoticesInvariant, PTL

-----------------------------------------------------------------------------
(***************************************************************************)
(* Conflicts.  A request is turned away only when its batch has moved on;  *)
(* the two steps that then lie between the copy and the stored batch leave *)
(* room for one more only if the request is a cancellation.                *)
(***************************************************************************)

ConflictIsReal(w) ==
  LET b == batches[task[w].batch]
  IN /\ b # NoBatch /\ b.revision > 2
     /\ CanTransition(b, task[w].op) =>
          task[w].op = "cancelled" /\ b.state = "under_review"

ConflictsOK ==
  \A w \in Worker : pc[w] = "conflict" =>
    task[w].batch \in BatchId /\ ConflictIsReal(w)

\* The store turns away only what is really behind.
LEMMA RefusalIsReal ==
  ASSUME Base, NEW w \in Worker, Refused(w)
  PROVE  task[w].batch \in BatchId /\ ConflictIsReal(w)
<1> PICK id : id = task[w].batch
  OBVIOUS
<1> PICK copy : copy = seen[w]
  OBVIOUS
<1> PICK b : b = batches[id]
  OBVIOUS
<1>1. pc[w] = "save" /\ b # NoBatch /\ b.revision > copy.revision
  BY DEF Refused, Base, WorkersOK, RequestsOK
<1>2. /\ copy \in Batch /\ copy.id = id /\ id \in BatchId
      /\ task[w].op \in Moves /\ CanTransition(copy, task[w].op)
  BY <1>1 DEF Base, TypeInv, HandlersOK, Holds, Batch
<1>3. Shaped(copy) /\ Shaped(b) /\ b \in Batch
  BY <1>1, <1>2 DEF Base, WorkersOK, ShapesOK, TypeInv, StoreOK, StoreTypeOK
<1>4. copy.revision \in Nat /\ b.revision \in Nat
  BY <1>2, <1>3 DEF Batch
<1>5. copy.state \in {"submitted", "under_review"}
  BY <1>2, <1>3 DEF Shaped, CanTransition
<1>6. CASE copy.state = "submitted"
  <2>1. copy.revision = 2 /\ task[w].op \in {"under_review", "cancelled"}
    BY <1>2, <1>3, <1>6 DEF Shaped, CanTransition
  <2>2. b.state # "submitted" /\ b.revision > 2
    BY <1>1, <1>3, <1>4, <2>1 DEF Shaped
  <2>3. CanTransition(b, task[w].op) =>
          task[w].op = "cancelled" /\ b.state = "under_review"
    BY <1>3, <2>1, <2>2 DEF Shaped, CanTransition
  <2>4. QED  BY <1>1, <1>2, <2>2, <2>3 DEF ConflictIsReal
<1>7. CASE copy.state = "under_review"
  <2>1. copy.revision = 3
    BY <1>3, <1>7 DEF Shaped
  <2>2. b.state \in {"approved", "rejected", "cancelled"} /\ b.revision > 2
    BY <1>1, <1>3, <1>4, <2>1 DEF Shaped
  <2>3. ~CanTransition(b, task[w].op)
    BY <2>2 DEF CanTransition
  <2>4. QED  BY <1>1, <1>2, <2>2, <2>3 DEF ConflictIsReal
<1>8. QED  BY <1>2, <1>5, <1>6, <1>7

\* A batch that moves on leaves those it has left behind further behind.
LEMMA ConflictStaysReal ==
  ASSUME Base, [Next]_vars, NEW v \in Worker, task[v].batch \in BatchId,
         ConflictIsReal(v), task'[v] = task[v]
  PROVE  ConflictIsReal(v)'
<1> PICK id : id = task[v].batch
  OBVIOUS
<1>1. CASE batches'[id] = batches[id]
  BY <1>1 DEF ConflictIsReal
<1>2. CASE batches'[id] # batches[id]
  <2>1. PICK old : old = batches[id]
    OBVIOUS
  <2>2. PICK new : new = batches'[id]
    OBVIOUS
  <2>3. old # NoBatch /\ old.revision > 2 /\ Shaped(old) /\ old \in Batch
    BY <2>1 DEF ConflictIsReal, Base, WorkersOK, ShapesOK, TypeInv, StoreOK,
                StoreTypeOK
  <2>4. OneLegalStep(old, new)
    BY <1>2, <2>1, <2>2, VersionsStep DEF Base, LegalStep
  <2>5. old.state = "under_review"
    BY <2>3, <2>4 DEF OneLegalStep, Shaped, CanTransition
  <2>6. new.state \in {"approved", "rejected", "cancelled"}
    BY <2>3, <2>4, <2>5 DEF OneLegalStep, CanTransition
  <2>7. new.revision > 2 /\ new # NoBatch
    <3>1. new = Transition(old, new.state, new.updatedAt)
      BY <2>3, <2>4 DEF OneLegalStep
    <3>2. new.revision = old.revision + 1
      BY <2>3, <3>1 DEF Transition, Batch
    <3>3. new # NoBatch
      BY <2>1, <2>2, <2>3, BatchesStay
    <3>4. QED  BY <2>3, <3>2, <3>3 DEF Batch
  <2>8. ~CanTransition(new, task[v].op)
    BY <2>6 DEF CanTransition
  <2>9. QED  BY <2>2, <2>7, <2>8 DEF ConflictIsReal
<1>3. QED  BY <1>1, <1>2

\* Every step keeps the conflicts real.
LEMMA ConflictsStep ==
  ASSUME Base, ConflictsOK, [Next]_vars
  PROVE  ConflictsOK'
<1> SUFFICES ASSUME NEW v \in Worker, pc'[v] = "conflict"
             PROVE  task'[v].batch \in BatchId /\ ConflictIsReal(v)'
  BY DEF ConflictsOK
<1>1. (\E w \in Worker : Quiet(w) \/ Stores(w) \/ Files(w)) \/ Idles
  BY StepEffect DEF Base
<1>2. task'[v] = task[v] /\ task[v].batch \in BatchId /\ ConflictIsReal(v)
  <2>1. ASSUME pc'[v] = pc[v], task'[v] = task[v]
        PROVE  task'[v] = task[v] /\ task[v].batch \in BatchId /\ ConflictIsReal(v)
    BY <2>1 DEF ConflictsOK
  <2>2. ASSUME NEW w \in Worker, Quiet(w) \/ Stores(w) \/ Files(w), v # w
        PROVE  pc'[v] = pc[v] /\ task'[v] = task[v]
    BY <2>2 DEF Quiet, Stores, Files, Others
  <2>3. CASE Quiet(v)
    <3>1. Refused(v) /\ task'[v] = task[v]
      BY <2>3 DEF Quiet
    <3>2. QED  BY <3>1, RefusalIsReal
  <2>4. CASE Stores(v)
    BY <2>4 DEF Stores
  <2>5. CASE Files(v)
    <3>1. pc'[v] \in {"audit", "notify", "ok"}
      BY <2>5, FilesKeeps DEF Base
    <3>2. QED  BY <3>1
  <2>6. CASE Idles
    BY <2>1, <2>6 DEF Idles
  <2>7. QED  BY <1>1, <2>1, <2>2, <2>3, <2>4, <2>5, <2>6
<1>3. QED  BY <1>2, ConflictStaysReal

\* A request that is answered 409 has lost to another one that moved its
\* batch on after it was found, and to try again does not help, but for a
\* cancellation that lost to the start of the review.
THEOREM ConflictsAreNeverSpurious == Spec => []ConflictsAreReal
<1>1. Init => ConflictsOK
  BY DEF Init, ConflictsOK
<1>2. TypeInv /\ Versions /\ WorkersOK /\ ConflictsOK /\ [Next]_vars => ConflictsOK'
  BY ConflictsStep DEF Base
<1>3. ConflictsOK => ConflictsAreReal
  BY DEF ConflictsOK, ConflictIsReal, ConflictsAreReal, Status
<1>4. QED
  BY <1>1, <1>2, <1>3, TypeInvariant, VersionsInvariant, WorkersInvariant, PTL
     DEF Spec

-----------------------------------------------------------------------------
\* Dates: the copy of a mover still has the instant of its transition, and the
\* clock it reads for the receipt is read after it.

\* The receipt is not older than the batch, nor than the state it tells.
IsDatedAfter(id, receipt) ==
  /\ receipt.at >= batches[id].createdAt
  /\ receipt.kind = ReceiptFor[batches[id].state] => receipt.at >= batches[id].updatedAt

\* What the domain of the dates is.
LEMMA BatchDates ==
  ASSUME Base, NEW id \in BatchId, batches[id] # NoBatch
  PROVE  /\ batches[id] \in Batch /\ Shaped(batches[id])
         /\ batches[id].createdAt \in Nat /\ batches[id].updatedAt \in Nat
         /\ batches[id].state \in States
BY DEF Base, WorkersOK, ShapesOK, TypeInv, StoreOK, StoreTypeOK, Batch, Instant,
       Shaped, States

\* The receipt a mover files is dated after its state.
LEMMA FiledReceiptIsDated ==
  ASSUME Base, NEW w \in Worker, Moved(w), NEW receipt, NEW t \in Nat,
         receipt = [kind |-> ReceiptFor[task[w].op], at |-> t],
         t \in IF task[w].op = "submitted" THEN {seen[w].createdAt} ELSE Clock(w)
  PROVE  IsDatedAfter(task[w].batch, receipt)
<1> PICK id : id = task[w].batch
  OBVIOUS
<1> PICK copy : copy = seen[w]
  OBVIOUS
<1> PICK b : b = batches[id]
  OBVIOUS
<1>1. /\ id \in BatchId /\ copy \in Batch /\ copy.state = task[w].op
      /\ copy.createdAt = b.createdAt
      /\ copy.createdAt <= copy.updatedAt /\ copy.updatedAt <= since[w]
      /\ copy.state = b.state => copy = b
  BY DEF Base, WorkersOK, MoversOK, MoverOK
<1>2. b # NoBatch /\ task[w].op \in States
  BY <1>1, MoverFacts, BatchIsNotNone
<1>3. /\ copy.createdAt \in Nat /\ copy.updatedAt \in Nat /\ since[w] \in Nat
      /\ b.createdAt \in Nat /\ b.updatedAt \in Nat /\ b.state \in States
      /\ Shaped(b)
  BY <1>1, <1>2, BatchDates, MaxTimeIsInstant
     DEF Batch, Instant, Base, TypeInv, RequestTypeOK
<1>4. CASE task[w].op = "submitted"
  <2>1. t = copy.createdAt /\ (copy = b => copy.createdAt = copy.updatedAt)
    BY <1>1, <1>3, <1>4 DEF Shaped
  <2>2. receipt.kind = ReceiptFor[b.state] => copy = b
    BY <1>1, <1>2, <1>3, StatesHaveRecords
  <2>3. receipt.at = t
    OBVIOUS
  <2>4. QED  BY <1>1, <1>3, <2>1, <2>2, <2>3 DEF IsDatedAfter
<1>5. CASE task[w].op # "submitted"
  <2>1. t >= copy.updatedAt /\ t >= copy.createdAt
    BY <1>1, <1>3, <1>5 DEF Clock
  <2>2. receipt.kind = ReceiptFor[b.state] => copy = b
    BY <1>1, <1>2, <1>3, StatesHaveRecords
  <2>3. receipt.at = t
    OBVIOUS
  <2>4. QED  BY <1>1, <1>3, <2>1, <2>2, <2>3 DEF IsDatedAfter
<1>6. QED  BY <1>4, <1>5

DatesOK ==
  \A id \in BatchId : \A k \in DOMAIN receipts[id] : IsDatedAfter(id, receipts[id][k])

\* A receipt that is dated after its state stays so: a batch that moves on
\* enters a state no receipt tells yet.
LEMMA DateStays ==
  ASSUME Base, ReceiptsTellHistory, [Next]_vars, NEW id \in BatchId,
         NEW k \in DOMAIN receipts[id], NEW r, r = receipts[id][k],
         IsDatedAfter(id, r)
  PROVE  IsDatedAfter(id, r)'
<1>1. CASE batches'[id] = batches[id]
  BY <1>1 DEF IsDatedAfter
<1>2. CASE batches'[id] # batches[id]
  <2> PICK old : old = batches[id]
    OBVIOUS
  <2> PICK new : new = batches'[id]
    OBVIOUS
  <2>1. PICK u \in Reached(id) : r.kind = ReceiptFor[u]
    BY DEF ReceiptsTellHistory
  <2>2. old # NoBatch /\ u \in History(old) /\ u \in States
    BY <2>1, ReachedStates DEF Base, WorkersOK, Reached, History
  <2>3. OneLegalStep(old, new) /\ Shaped(old) /\ old \in Batch
    BY <1>2, <2>2, VersionsStep, BatchDates DEF Base, LegalStep
  <2>4. /\ CanTransition(old, new.state)
        /\ new = Transition(old, new.state, new.updatedAt)
    BY <2>2, <2>3 DEF OneLegalStep
  <2>5. new.createdAt = old.createdAt
    BY <2>3, <2>4 DEF Transition, Batch
  <2>6. new.state \in States /\ new.state \notin History(old)
    BY <2>2, <2>3, <2>4 DEF Shaped, CanTransition, History, States
  <2>7. r.kind # ReceiptFor[new.state]
    BY <2>1, <2>2, <2>6, StatesHaveRecords
  <2>8. QED  BY <2>5, <2>7 DEF IsDatedAfter
<1>3. QED  BY <1>1, <1>2

\* The steps that add a receipt.
LEMMA AddedReceiptIsDated ==
  ASSUME Base, [Next]_vars, NEW w \in Worker,
         \/ Stores(w) /\ pc[w] = "commit"
         \/ Files(w) /\ AppendReceipt(w)
  PROVE  \E id \in BatchId, s \in States, t \in Instant :
           /\ receipts' = AppendAt(receipts, id, [kind |-> ReceiptFor[s], at |-> t])
           /\ IsDatedAfter(id, [kind |-> ReceiptFor[s], at |-> t])'
<1> PICK id : id = task[w].batch
  OBVIOUS
<1> PICK s : s = task[w].op
  OBVIOUS
<1>1. CASE Stores(w) /\ pc[w] = "commit"
  <2> PICK b : b = seen'[w]
    OBVIOUS
  <2>1. LegalStep
    BY VersionsStep DEF Base
  <2>2. /\ id \in BatchId /\ b \in Batch /\ b.state = s /\ batches'[id] = b
        /\ Shaped(b)
    BY <1>1, <2>1, StoredHistory
  <2>3. /\ s = "submitted"
        /\ receipts' = AppendAt(receipts, id, [kind |-> "submitted", at |-> b.createdAt])
    BY <1>1 DEF Stores
  <2>4. b.createdAt = b.updatedAt /\ b.createdAt \in Nat
    BY <2>2, <2>3 DEF Shaped, Batch, Instant
  <2>5. ReceiptFor[s] = "submitted" /\ s \in States
    BY <2>3 DEF ReceiptFor, States
  <2> DEFINE r == [kind |-> ReceiptFor[s], at |-> b.createdAt]
  <2>6. r.at = b.createdAt
    OBVIOUS
  <2> HIDE DEF r
  <2>7. IsDatedAfter(id, r)'
    BY <2>2, <2>4, <2>6 DEF IsDatedAfter
  <2>8. QED  BY <2>2, <2>3, <2>4, <2>5, <2>7 DEF r, Instant
<1>2. CASE Files(w) /\ AppendReceipt(w)
  <2>1. pc[w] = "receipt" /\ Moved(w) /\ UNCHANGED batches
    BY <1>2 DEF AppendReceipt, Moved, Base, TypeInv, HandlersOK, Holds, Moves
  <2>2. id \in BatchId /\ s \in States /\ seen[w] \in Batch /\ seen[w].id = id
    BY <2>1, MoverFacts
  <2>3. PICK t \in IF s = "submitted" THEN {seen[w].createdAt} ELSE Clock(w) :
          receipts' = AppendAt(receipts, id, [kind |-> ReceiptFor[s], at |-> t])
    BY <1>2, <2>2 DEF AppendReceipt
  <2>4. t \in Instant /\ t \in Nat
    BY <2>2, <2>3, ClockIsInstant DEF Batch, Base, TypeInv, Instant
  <2> DEFINE r == [kind |-> ReceiptFor[s], at |-> t]
  <2>5. IsDatedAfter(id, r)
    BY <2>1, <2>3, <2>4, FiledReceiptIsDated
  <2> HIDE DEF r
  <2>6. IsDatedAfter(id, r)'
    BY <2>1, <2>5 DEF IsDatedAfter
  <2>7. QED  BY <2>2, <2>3, <2>4, <2>6 DEF r
<1>3. QED  BY <1>1, <1>2

\* Every step keeps the receipts dated after their states.
LEMMA DatesStep ==
  ASSUME Base, ReceiptsOK, DatesOK, [Next]_vars
  PROVE  DatesOK'
<1>1. (\E w \in Worker : Quiet(w) \/ Stores(w) \/ Files(w)) \/ Idles
  BY StepEffect DEF Base
<1>2. CASE UNCHANGED receipts
  <2> SUFFICES ASSUME NEW id \in BatchId, NEW k \in DOMAIN receipts[id]
               PROVE  IsDatedAfter(id, receipts[id][k])'
    BY <1>2 DEF DatesOK
  <2> PICK r : r = receipts[id][k]
    OBVIOUS
  <2>1. IsDatedAfter(id, r)
    BY DEF DatesOK
  <2>2. IsDatedAfter(id, r)' /\ r = receipts'[id][k]
    BY <1>2, <2>1, DateStays DEF ReceiptsOK
  <2>3. QED  BY <2>2
<1>3. ASSUME NEW w \in Worker,
             \/ Stores(w) /\ pc[w] = "commit"
             \/ Files(w) /\ AppendReceipt(w)
      PROVE  DatesOK'
  <2>1. PICK id \in BatchId, s \in States, t \in Instant :
          /\ receipts' = AppendAt(receipts, id, [kind |-> ReceiptFor[s], at |-> t])
          /\ IsDatedAfter(id, [kind |-> ReceiptFor[s], at |-> t])'
    BY <1>3, AddedReceiptIsDated
  <2> PICK new : new = [kind |-> ReceiptFor[s], at |-> t]
    OBVIOUS
  <2>2. /\ \A i \in BatchId \ {id} : receipts'[i] = receipts[i]
        /\ \A k \in DOMAIN receipts[id] : receipts'[id][k] = receipts[id][k]
        /\ \E n : /\ DOMAIN receipts'[id] = DOMAIN receipts[id] \cup {n}
                  /\ receipts'[id][n] = new
    BY <2>1, AppendedReceipt DEF Base
  <2> SUFFICES ASSUME NEW i \in BatchId, NEW k \in DOMAIN receipts'[i]
               PROVE  IsDatedAfter(i, receipts[i][k])'
    BY DEF DatesOK
  <2> PICK r : r = receipts'[i][k]
    OBVIOUS
  <2>3. CASE k \in DOMAIN receipts[i]
    <3>1. r = receipts[i][k]
      BY <2>2, <2>3
    <3>2. IsDatedAfter(i, r)
      BY <2>3, <3>1 DEF DatesOK
    <3>3. QED  BY <2>3, <3>1, <3>2, DateStays DEF ReceiptsOK
  <2>4. CASE k \notin DOMAIN receipts[i]
    <3>1. i = id /\ r = new
      BY <2>2, <2>4
    <3>2. QED  BY <2>1, <3>1
  <2>5. QED  BY <2>3, <2>4
<1>4. ASSUME NEW w \in Worker, Stores(w), pc[w] # "commit"
      PROVE  UNCHANGED receipts
  BY <1>4 DEF Stores
<1>5. ASSUME NEW w \in Worker, AppendAudit(w) \/ QueueNotification(w)
      PROVE  UNCHANGED receipts
  BY <1>5 DEF AppendAudit, QueueNotification
<1>6. ASSUME NEW w \in Worker, Quiet(w)
      PROVE  DatesOK'
  BY <1>2, <1>6 DEF Quiet
<1>7. ASSUME NEW w \in Worker, Stores(w)
      PROVE  DatesOK'
  <2>1. CASE pc[w] = "commit"
    <3>1. \/ Stores(w) /\ pc[w] = "commit"
          \/ Files(w) /\ AppendReceipt(w)
      BY <1>7, <2>1
    <3>2. QED  BY <1>3, <3>1
  <2>2. CASE pc[w] # "commit"
    <3>1. UNCHANGED receipts
      BY <1>4, <1>7, <2>2
    <3>2. QED  BY <1>2, <3>1
  <2>3. QED  BY <2>1, <2>2
<1>8. ASSUME NEW w \in Worker, Files(w)
      PROVE  DatesOK'
  <2>1. AppendReceipt(w) \/ AppendAudit(w) \/ QueueNotification(w)
    BY <1>8 DEF Files
  <2>2. QED  BY <1>2, <1>3, <1>5, <1>8, <2>1
<1>9. Idles => DatesOK'
  BY <1>2 DEF Idles
<1>10. QED  BY <1>1, <1>6, <1>7, <1>8, <1>9

\* The same at every moment.
LEMMA DatesInvariant == Spec => []DatesOK
<1>1. Init => DatesOK
  BY DEF Init, DatesOK
<1>2. TypeInv /\ Versions /\ WorkersOK /\ ReceiptsOK /\ DatesOK /\ [Next]_vars
        => DatesOK'
  BY DatesStep DEF Base
<1>3. QED
  BY <1>1, <1>2, TypeInvariant, VersionsInvariant, WorkersInvariant,
     ReceiptsInvariant, PTL DEF Spec

\* A receipt is never dated before its batch, nor that of the present state
\* before the batch entered it.
THEOREM ReceiptsAreDated == Spec => []ReceiptsAreDatedAfterTheirState
<1>1. DatesOK => ReceiptsAreDatedAfterTheirState
  BY DEF DatesOK, IsDatedAfter, ReceiptsAreDatedAfterTheirState
<1>2. QED  BY <1>1, DatesInvariant, PTL

-----------------------------------------------------------------------------
(***************************************************************************)
(* The event of a state is never dated before its receipt: its worker has  *)
(* filed the receipt in an earlier call, dated by a clock read before.     *)
(***************************************************************************)

\* The receipt of the state, if there is one, is not later than t.
ReceiptedBy(id, s, t) ==
  \A k \in DOMAIN receipts[id] :
    receipts[id][k].kind = ReceiptFor[s] => receipts[id][k].at <= t

\* The event is not older than the receipt of the state it tells.
FollowsReceipt(event) ==
  event.batch # "" =>
    \A s \in States : event.action = AuditActionFor[s] =>
      ReceiptedBy(event.batch, s, event.at)

EventsFollowReceipts ==
  \A key \in DOMAIN audits : \A i \in DOMAIN audits[key] :
    FollowsReceipt(audits[key][i])

EventDatesOK ==
  /\ EventsFollowReceipts
  /\ \A w \in Worker : Moved(w) => ReceiptedBy(task[w].batch, task[w].op, since[w])

\* What is in the log of a batch is a receipt, with a date.
LEMMA LogDates ==
  ASSUME TypeInv, NEW id \in BatchId, NEW k \in DOMAIN receipts[id]
  PROVE  receipts[id][k] \in Receipt /\ receipts[id][k].at \in Nat
<1>1. receipts[id] \in Seq(Receipt)
  BY DEF TypeInv, StoreOK, StoreTypeOK
<1>2. PICK r : r = receipts[id][k]
  OBVIOUS
<1>3. r \in Receipt
  BY <1>1, <1>2, SequenceElement
<1>4. r.at \in Nat
  BY <1>3 DEF Receipt, Instant
<1>5. QED  BY <1>2, <1>3, <1>4

\* A later bound is one as well.
LEMMA LaterBound ==
  ASSUME TypeInv, NEW id \in BatchId, NEW s, NEW t \in Nat, NEW u \in Nat,
         t <= u, ReceiptedBy(id, s, t)
  PROVE  ReceiptedBy(id, s, u)
<1>1. \A k \in DOMAIN receipts[id] : receipts[id][k].at \in Nat
  BY LogDates
<1>2. QED  BY <1>1 DEF ReceiptedBy

\* Instants are numbers.
LEMMA InstantsAreNumbers ==
  /\ \A e \in AuditEvent : e.at \in Nat
  /\ TypeInv => now \in Nat /\ \A w \in Worker : since[w] \in Nat /\ since[w] <= now
<1>1. \A e \in AuditEvent : e.at \in Nat
  BY DEF AuditEvent, Instant
<1>2. ASSUME TypeInv, NEW w \in Worker
      PROVE  since[w] \in Nat /\ since[w] <= now
  <2>1. since[w] \in 0 .. now /\ now \in Nat
    BY <1>2 DEF TypeInv, RequestTypeOK
  <2>2. QED  BY <2>1
<1>3. TypeInv => now \in Nat
  BY DEF TypeInv, RequestTypeOK
<1>4. QED  BY <1>1, <1>2, <1>3

\* A receipt that is filed stays as it is.
LEMMA ReceiptsKeep ==
  ASSUME Base, [Next]_vars, NEW id \in BatchId, NEW k \in DOMAIN receipts[id]
  PROVE  k \in DOMAIN receipts'[id] /\ receipts'[id][k] = receipts[id][k]
<1>1. (\E w \in Worker : Quiet(w) \/ Stores(w) \/ Files(w)) \/ Idles
  BY StepEffect DEF Base
<1>2. ASSUME NEW w \in Worker,
             \/ Stores(w) /\ pc[w] = "commit"
             \/ Files(w) /\ AppendReceipt(w)
      PROVE  k \in DOMAIN receipts'[id] /\ receipts'[id][k] = receipts[id][k]
  <2>1. PICK i \in BatchId, s \in States, t \in Instant :
          receipts' = AppendAt(receipts, i, [kind |-> ReceiptFor[s], at |-> t])
    BY <1>2, AddedReceiptIsDated
  <2>2. CASE i = id
    BY <2>1, <2>2, AppendedReceipt DEF Base
  <2>3. CASE i # id
    <3>1. receipts'[id] = receipts[id]
      BY <2>1, <2>3, AppendedReceipt DEF Base
    <3>2. QED  BY <3>1
  <2>4. QED  BY <2>2, <2>3
<1>3. ASSUME NEW w \in Worker, Stores(w), pc[w] # "commit"
      PROVE  UNCHANGED receipts
  BY <1>3 DEF Stores
<1>4. ASSUME NEW w \in Worker, AppendAudit(w) \/ QueueNotification(w)
      PROVE  UNCHANGED receipts
  BY <1>4 DEF AppendAudit, QueueNotification
<1>5. QED
  BY <1>1, <1>2, <1>3, <1>4 DEF Quiet, Files, Idles

\* A state gets one receipt: what is said of its date stays true.
LEMMA ReceiptedStays ==
  ASSUME Base, ReceiptsOK, [Next]_vars, NEW id \in BatchId, NEW s \in States,
         NEW t, ReceiptedBy(id, s, t), HasReceipt(id, s)
  PROVE  ReceiptedBy(id, s, t)'
<1>1. PICK n \in DOMAIN receipts[id] : receipts[id][n].kind = ReceiptFor[s]
  BY DEF HasReceipt
<1>2. n \in DOMAIN receipts'[id] /\ receipts'[id][n] = receipts[id][n]
  BY ReceiptsKeep
<1>3. ReceiptsTellHistory'
  BY ReceiptsStep DEF ReceiptsOK
<1>4. ASSUME NEW k \in DOMAIN receipts'[id], receipts'[id][k].kind = ReceiptFor[s]
      PROVE  k = n
  BY <1>1, <1>2, <1>3, <1>4 DEF ReceiptsTellHistory
<1>5. receipts[id][n].at <= t
  BY <1>1 DEF ReceiptedBy
<1>6. QED  BY <1>2, <1>4, <1>5 DEF ReceiptedBy

\* An event follows its receipt for ever.
LEMMA FollowsStays ==
  ASSUME Records, [Next]_vars, NEW key \in DOMAIN audits, NEW i \in DOMAIN audits[key],
         NEW event, event = audits[key][i], FollowsReceipt(event)
  PROVE  FollowsReceipt(event)'
<1> SUFFICES ASSUME event.batch # "", NEW s \in States,
                    event.action = AuditActionFor[s]
             PROVE  ReceiptedBy(event.batch, s, event.at)'
  BY DEF FollowsReceipt
<1> PICK id : id = event.batch
  OBVIOUS
<1>1. event \in AuditEvent /\ Told(key, event)
  BY TrailHasEvents DEF Records, Base, AuditsOK, TrailOK
<1>2. id \in BatchId
  BY <1>1 DEF AuditEvent
<1>3. PICK u \in Reached(id) : event.action = AuditActionFor[u] /\ HasReceipt(id, u)
  BY <1>1 DEF Told
<1>4. u = s
  BY <1>2, <1>3, ReachedStates, StatesHaveRecords DEF Records, Base, WorkersOK
<1>5. ReceiptedBy(id, s, event.at)
  BY DEF FollowsReceipt
<1>6. QED  BY <1>2, <1>3, <1>4, <1>5, ReceiptedStays DEF Records

\* The event a worker adds follows the receipt the worker has filed.
LEMMA AddedEventFollows ==
  ASSUME Records, EventDatesOK, [Next]_vars, NEW w \in Worker,
         AppendAudit(w), ~gone[w]
  PROVE  EventsFollowReceipts'
<1>1. PICK key \in DOMAIN audits, e \in AuditEvent :
        /\ audits' = AppendAt(audits, key, e)
        /\ e.batch = task[w].batch /\ e.action = AuditActionFor[task[w].op]
        /\ since[w] <= e.at /\ (~Moved(w) => e.batch = "")
  BY AuditEffect DEF Records
<1>2. UNCHANGED receipts
  BY DEF AppendAudit
<1>3. FollowsReceipt(e)
  <2> SUFFICES ASSUME e.batch # "", NEW s \in States, e.action = AuditActionFor[s]
               PROVE  ReceiptedBy(e.batch, s, e.at)
    BY DEF FollowsReceipt
  <2>1. Moved(w)
    BY <1>1
  <2>2. task[w].op = s /\ e.batch \in BatchId
    BY <1>1, <2>1, MoverFacts, StatesHaveRecords DEF Records
  <2>3. ReceiptedBy(e.batch, s, since[w])
    BY <1>1, <2>1, <2>2 DEF EventDatesOK
  <2>4. e.at \in Nat /\ since[w] \in Nat /\ since[w] <= e.at
    BY <1>1, InstantsAreNumbers DEF Records, Base
  <2>5. QED  BY <2>2, <2>3, <2>4, LaterBound DEF Records, Base
<1>4. FollowsReceipt(e)'
  BY <1>2, <1>3 DEF FollowsReceipt, ReceiptedBy
<1>5. /\ DOMAIN audits' = DOMAIN audits
      /\ \A other \in DOMAIN audits \ {key} : audits'[other] = audits[other]
      /\ \E n : /\ n \notin DOMAIN audits[key]
                /\ DOMAIN audits'[key] = DOMAIN audits[key] \cup {n}
                /\ audits'[key][n] = e
      /\ \A k \in DOMAIN audits[key] : audits'[key][k] = audits[key][k]
  <2>1. audits' = AppendAt(audits, key, e) /\ TypeInv
    BY <1>1 DEF Records, Base
  <2>2. QED  BY <2>1, AppendedEvent
<1> SUFFICES ASSUME NEW at \in DOMAIN audits, NEW i \in DOMAIN audits'[at]
             PROVE  FollowsReceipt(audits[at][i])'
  BY <1>5 DEF EventsFollowReceipts
<1> PICK event : event = audits'[at][i]
  OBVIOUS
<1>6. CASE i \in DOMAIN audits[at] /\ audits[at][i] = event
  <2>1. FollowsReceipt(event)
    BY <1>6 DEF EventDatesOK, EventsFollowReceipts
  <2>2. FollowsReceipt(event)'
    BY <1>6, <2>1, FollowsStays
  <2>3. QED  BY <2>2
<1>7. CASE ~(i \in DOMAIN audits[at] /\ audits[at][i] = event)
  <2>1. event = e
    BY <1>5, <1>7
  <2>2. QED  BY <1>4, <2>1
<1>8. QED  BY <1>6, <1>7

\* The other steps add no event.
LEMMA EventsFollow ==
  ASSUME Records, EventDatesOK, [Next]_vars
  PROVE  EventsFollowReceipts'
<1>1. CASE UNCHANGED audits
  <2> SUFFICES ASSUME NEW key \in DOMAIN audits, NEW i \in DOMAIN audits[key]
               PROVE  FollowsReceipt(audits[key][i])'
    BY <1>1 DEF EventsFollowReceipts
  <2> PICK event : event = audits[key][i]
    OBVIOUS
  <2>1. FollowsReceipt(event)
    BY DEF EventDatesOK, EventsFollowReceipts
  <2>2. FollowsReceipt(event)' /\ event = audits'[key][i]
    BY <1>1, <2>1, FollowsStays
  <2>3. QED  BY <2>2
<1>2. ASSUME NEW w \in Worker, AppendAudit(w), gone[w]
      PROVE  UNCHANGED audits
  BY <1>2 DEF AppendAudit
<1>3. ASSUME NEW w \in Worker, AppendReceipt(w) \/ QueueNotification(w)
      PROVE  UNCHANGED audits
  BY <1>3 DEF AppendReceipt, QueueNotification
<1>4. (\E w \in Worker : Quiet(w) \/ Stores(w) \/ Files(w)) \/ Idles
  BY StepEffect DEF Records, Base
<1>5. QED
  BY <1>1, <1>2, <1>3, <1>4, AddedEventFollows DEF Quiet, Stores, Files, Idles

\* The receipt that is the first of its state is the one that counts.
LEMMA FirstOfItsState ==
  ASSUME TypeInv, NEW id \in BatchId, NEW s \in States, NEW t \in Instant, NEW u,
         t <= u, ~HasReceipt(id, s),
         receipts' = AppendAt(receipts, id, [kind |-> ReceiptFor[s], at |-> t])
  PROVE  \A k \in DOMAIN receipts'[id] :
           receipts'[id][k].kind = ReceiptFor[s] => receipts'[id][k].at <= u
<1>1. PICK n :
        /\ DOMAIN receipts'[id] = DOMAIN receipts[id] \cup {n}
        /\ receipts'[id][n] = [kind |-> ReceiptFor[s], at |-> t]
        /\ \A k \in DOMAIN receipts[id] : receipts'[id][k] = receipts[id][k]
  BY AppendedReceipt
<1>2. receipts'[id][n].at = t
  BY <1>1
<1>3. QED  BY <1>1, <1>2 DEF HasReceipt

\* The receipt a worker files is dated by now, when its call returns.
LEMMA FiledByNow ==
  ASSUME Records, [Next]_vars, NEW w \in Worker, Stores(w) \/ Files(w), Moved(w)',
         EventDatesOK
  PROVE  ReceiptedBy(task[w].batch, task[w].op, since[w])'
<1> PICK id : id = task[w].batch
  OBVIOUS
<1> PICK s : s = task[w].op
  OBVIOUS
<1>1. UNCHANGED <<now, task>>
  BY FilesKeeps DEF Stores, Records, Base
<1>2. ReceiptsOK' /\ Base'
  BY ReceiptsStep, TypeInvStep, VersionsStep, WorkersStep DEF Records, Base
<1>3. CASE pc'[w] = "receipt"
  <2>1. ~HasReceipt(id, s)'
    BY <1>1, <1>2, <1>3 DEF ReceiptsOK
  <2>2. QED  BY <1>1, <2>1 DEF HasReceipt, ReceiptedBy
<1>4. CASE Stores(w) /\ pc'[w] # "receipt"
  <2> PICK b : b = seen'[w]
    OBVIOUS
  <2>1. LegalStep
    BY VersionsStep DEF Records, Base
  <2>2. /\ id \in BatchId /\ b \in Batch /\ b.state = s /\ Shaped(b)
        /\ s \notin Reached(id)
    BY <1>4, <2>1, StoredHistory DEF Records
  <2>3. /\ s = "submitted" /\ b.updatedAt <= since'[w]
        /\ receipts' = AppendAt(receipts, id, [kind |-> "submitted", at |-> b.createdAt])
    BY <1>4 DEF Stores
  <2>4. /\ receipts' = AppendAt(receipts, id, [kind |-> ReceiptFor[s], at |-> b.createdAt])
        /\ s \in States /\ b.createdAt \in Instant
    BY <2>2, <2>3 DEF ReceiptFor, States, Batch
  <2>5. ~HasReceipt(id, s)
    BY <2>2, <2>4, UnreachedReceipt DEF Records, ReceiptsOK, Base, WorkersOK
  <2>6. since'[w] \in Nat
    BY <1>2, MaxTimeIsInstant DEF Base, TypeInv, RequestTypeOK
  <2>7. b.createdAt <= since'[w]
    BY <2>2, <2>3, <2>6 DEF Shaped, Batch, Instant
  <2>8. \A k \in DOMAIN receipts'[id] :
          receipts'[id][k].kind = ReceiptFor[s] => receipts'[id][k].at <= since'[w]
    <3> PICK t : t = b.createdAt
      OBVIOUS
    <3> PICK u : u = since'[w]
      OBVIOUS
    <3>1. TypeInv /\ t \in Instant /\ t <= u /\ ~HasReceipt(id, s)
      BY <2>4, <2>5, <2>7 DEF Records, Base
    <3>2. receipts' = AppendAt(receipts, id, [kind |-> ReceiptFor[s], at |-> t])
      BY <2>4
    <3>3. QED  BY <2>2, <2>4, <3>1, <3>2, FirstOfItsState
  <2>9. task'[w].batch = id /\ task'[w].op = s
    BY <1>1
  <2>10. QED  BY <2>8, <2>9 DEF ReceiptedBy
<1>5. CASE Files(w) /\ pc'[w] # "receipt"
  <2>1. Moved(w) /\ since'[w] = now
    BY <1>5, FilesKeeps DEF Files, Records, Base
  <2>2. id \in BatchId /\ s \in States /\ seen[w] \in Batch /\ seen[w].id = id
    BY <2>1, MoverFacts DEF Records
  <2>3. now \in Nat /\ since[w] \in Nat /\ since[w] <= now
    BY InstantsAreNumbers DEF Records, Base
  <2>4. CASE AppendReceipt(w)
    <3>1. PICK t \in IF s = "submitted" THEN {seen[w].createdAt} ELSE Clock(w) :
            receipts' = AppendAt(receipts, id, [kind |-> ReceiptFor[s], at |-> t])
      BY <2>2, <2>4 DEF AppendReceipt
    <3>2. /\ seen[w].createdAt <= since[w] /\ seen[w].createdAt \in Instant
          /\ seen[w].createdAt \in Nat
      BY <2>1, <2>3 DEF Records, Base, WorkersOK, MoversOK, MoverOK, Batch, Instant
    <3>3. t \in Instant /\ t <= now
      BY <2>3, <3>1, <3>2, ClockIsInstant DEF Records, Base, TypeInv
    <3>4. ~HasReceipt(id, s)
      BY <2>1, <2>4 DEF AppendReceipt, Records, ReceiptsOK
    <3>5. \A k \in DOMAIN receipts'[id] :
            receipts'[id][k].kind = ReceiptFor[s] => receipts'[id][k].at <= now
      <4> PICK u : u = now
        OBVIOUS
      <4>1. TypeInv /\ t \in Instant /\ t <= u
        BY <3>3 DEF Records, Base
      <4>2. QED  BY <2>2, <3>1, <3>4, <4>1, FirstOfItsState
    <3>6. task'[w].batch = id /\ task'[w].op = s
      BY <1>1
    <3>7. QED  BY <2>1, <3>5, <3>6 DEF ReceiptedBy
  <2>5. CASE ~AppendReceipt(w)
    <3>1. UNCHANGED receipts
      BY <1>5, <2>5 DEF Files, AppendAudit, QueueNotification
    <3>2. ReceiptedBy(id, s, since[w])
      BY <2>1 DEF EventDatesOK
    <3>3. ReceiptedBy(id, s, now)
      BY <2>2, <2>3, <3>2, LaterBound DEF Records, Base
    <3>4. QED  BY <1>1, <2>1, <3>1, <3>3 DEF ReceiptedBy
  <2>6. QED  BY <2>4, <2>5
<1>6. QED  BY <1>3, <1>4, <1>5

\* Every step keeps the events dated after their receipts.
LEMMA EventDatesStep ==
  ASSUME Records, EventDatesOK, [Next]_vars
  PROVE  EventDatesOK'
<1>1. ReceiptsOK'
  BY ReceiptsStep DEF Records
<1>2. (\E w \in Worker : Quiet(w) \/ Stores(w) \/ Files(w)) \/ Idles
  BY StepEffect DEF Records, Base
<1>3. ASSUME NEW v \in Worker, Moved(v)', Moved(v),
             pc'[v] = pc[v], task'[v] = task[v], since'[v] = since[v]
      PROVE  ReceiptedBy(task[v].batch, task[v].op, since[v])'
  <2> PICK id : id = task[v].batch
    OBVIOUS
  <2> PICK s : s = task[v].op
    OBVIOUS
  <2> PICK t : t = since[v]
    OBVIOUS
  <2>1. id \in BatchId /\ s \in States
    BY <1>3, MoverFacts DEF Records
  <2>2. ReceiptedBy(id, s, t)
    BY <1>3 DEF EventDatesOK
  <2>3. CASE HasReceipt(id, s)
    <3>1. ReceiptedBy(id, s, t)'
      BY <2>1, <2>2, <2>3, ReceiptedStays DEF Records
    <3>2. QED  BY <1>3, <3>1 DEF ReceiptedBy
  <2>4. CASE ~HasReceipt(id, s)
    <3>1. pc[v] = "receipt"
      BY <1>3, <2>4 DEF Records, ReceiptsOK
    <3>2. ~HasReceipt(id, s)'
      BY <1>1, <1>3, <3>1 DEF ReceiptsOK
    <3>3. QED  BY <1>3, <3>2 DEF HasReceipt, ReceiptedBy
  <2>5. QED  BY <2>3, <2>4
<1>4. ASSUME NEW w \in Worker, Quiet(w) \/ Stores(w) \/ Files(w),
             NEW v \in Worker, Moved(v)'
      PROVE  ReceiptedBy(task[v].batch, task[v].op, since[v])'
  <2>1. CASE v = w
    <3>1. Stores(w) \/ Files(w)
      BY <1>4, <2>1 DEF Quiet
    <3>2. QED  BY <1>4, <2>1, <3>1, FiledByNow
  <2>2. CASE v # w
    <3>1. /\ pc'[v] = pc[v] /\ task'[v] = task[v] /\ since'[v] = since[v]
      BY <1>4, <2>2 DEF Quiet, Stores, Files, Others
    <3>2. Moved(v)
      BY <1>4, <3>1 DEF Moved
    <3>3. QED  BY <1>3, <1>4, <3>1, <3>2
  <2>3. QED  BY <2>1, <2>2
<1>5. ASSUME Idles, NEW v \in Worker, Moved(v)'
      PROVE  ReceiptedBy(task[v].batch, task[v].op, since[v])'
  <2>1. pc'[v] = pc[v] /\ task'[v] = task[v] /\ since'[v] = since[v]
    BY <1>5 DEF Idles
  <2>2. Moved(v)
    BY <1>5, <2>1 DEF Moved
  <2>3. QED  BY <1>3, <1>5, <2>1, <2>2
<1>6. QED  BY <1>2, <1>4, <1>5, EventsFollow DEF EventDatesOK

\* The audit event of a state is never dated before the state's receipt, whatever
\* instants the two calls read the clock at (batch.go:97-100).
THEOREM EventsAreDated == Spec => []EventsFollowReceipts
<1>1. Init => EventDatesOK
  BY DEF Init, EventDatesOK, EventsFollowReceipts, Moved
<1>2. TypeInv /\ Versions /\ WorkersOK /\ ReceiptsOK /\ AuditsOK /\ EventDatesOK
        /\ [Next]_vars => EventDatesOK'
  BY EventDatesStep DEF Records, Base
<1>3. EventDatesOK => EventsFollowReceipts
  BY DEF EventDatesOK
<1>4. QED
  BY <1>1, <1>2, <1>3, TypeInvariant, VersionsInvariant, WorkersInvariant,
     ReceiptsInvariant, AuditsInvariant, PTL DEF Spec

-----------------------------------------------------------------------------
(***************************************************************************)
(* Missing records, while clients stay.  A worker that is to file a        *)
(* receipt or an event stays where it is until it does.                    *)
(***************************************************************************)

\* Whatever else happens, a worker whose client is there files its record.
LEMMA FilerStays ==
  ASSUME TypeInv, Versions, [Next]_vars, NEW v \in Worker,
         pc[v] \in {"receipt", "audit"}, ~gone[v]
  PROVE  \/ pc[v] = "receipt" /\ Files(v) /\ pc'[v] = "audit" /\ task'[v] = task[v]
         \/ pc[v] = "audit" /\ Files(v)
              /\ pc'[v] \in {"notify", "ok"} /\ task'[v] = task[v]
         \/ pc'[v] = pc[v] /\ task'[v] = task[v]
<1>1. ASSUME NEW w \in Worker, Arrive(w)
      PROVE  pc'[v] = pc[v] /\ task'[v] = task[v]
  <2>1. pc[w] = "idle"
    BY <1>1 DEF Arrive, Register, CreateBatch, StartReview, DecideBatch, CancelBatch
  <2>2. w # v
    BY <2>1
  <2>3. Others(w)
    BY <1>1, ArriveIsQuiet DEF Quiet
  <2>4. QED  BY <2>2, <2>3 DEF Others
<1>2. ASSUME NEW w \in Worker, Serve(w), w # v
      PROVE  pc'[v] = pc[v] /\ task'[v] = task[v]
  <2>1. Others(w)
    BY <1>2, ServeEffect DEF Quiet, Stores, Files
  <2>2. QED  BY <1>2, <2>1 DEF Others
<1>3. ASSUME Serve(v)
      PROVE  AppendReceipt(v) \/ AppendAudit(v)
  BY <1>3 DEF Serve, CommitSubmission, SubmitBatch, ValidateBatch, FindBatch,
              SaveBatch, QueueNotification, Abort, Reply, Answer
<1>4. ASSUME AppendReceipt(v) \/ AppendAudit(v)
      PROVE  /\ Files(v) /\ task'[v] = task[v]
             /\ \/ pc[v] = "receipt" /\ pc'[v] = "audit"
                \/ pc[v] = "audit" /\ pc'[v] \in {"notify", "ok"}
  <2>1. Files(v)
    BY <1>4, FilingEffect
  <2>2. task'[v] = task[v]
    BY <2>1 DEF Files
  <2>3. \/ pc[v] = "receipt" /\ pc'[v] = "audit"
        \/ pc[v] = "audit" /\ pc'[v] \in {"notify", "ok"}
    BY <1>4 DEF AppendReceipt, AppendAudit, Proceed, TypeInv, RequestTypeOK
  <2>4. QED  BY <2>1, <2>2, <2>3
<1>5. ASSUME (\E w \in Worker : Disconnect(w)) \/ Tick \/ UNCHANGED vars
      PROVE  pc'[v] = pc[v] /\ task'[v] = task[v]
  BY <1>5 DEF Disconnect, Tick, vars, request
<1>6. QED  BY <1>1, <1>2, <1>3, <1>4, <1>5 DEF Next

\* Nobody is missing, and what is missing is owed.
Owed ==
  /\ \A w \in Worker : ~gone[w]
  /\ \A id \in BatchId : \A s \in Reached(id) :
       /\ HasReceipt(id, s) \/ \E w \in Worker : Filing(w, id, s, {"receipt"})
       /\ IsAudited(id, s) \/ \E w \in Worker : Filing(w, id, s, {"receipt", "audit"})

\* A state is new only to the worker that makes it.
LEMMA NewStateHasMover ==
  ASSUME Base, [Next]_vars, NEW id \in BatchId, NEW s \in Reached(id)' \ Reached(id)
  PROVE  \E w \in Worker : Stores(w) /\ task[w].batch = id /\ task[w].op = s
<1>1. (\E w \in Worker : Quiet(w) \/ Stores(w) \/ Files(w)) \/ Idles
  BY StepEffect DEF Base
<1>2. ASSUME UNCHANGED batches
      PROVE  FALSE
  BY <1>2 DEF Reached
<1>3. ASSUME NEW w \in Worker, Quiet(w) \/ Files(w)
      PROVE  FALSE
  BY <1>2, <1>3, FilesKeeps DEF Quiet, Base
<1>4. ~Idles
  BY <1>2 DEF Idles
<1>5. PICK w \in Worker : Stores(w)
  BY <1>1, <1>3, <1>4
<1> PICK i : i = task[w].batch
  OBVIOUS
<1> PICK b : b = seen'[w]
  OBVIOUS
<1>6. LegalStep
  BY VersionsStep DEF Base
<1>7. /\ b.state = task[w].op /\ Reached(i)' = Reached(i) \cup {b.state}
      /\ \A j \in BatchId \ {i} : batches'[j] = batches[j]
  BY <1>5, <1>6, StoredHistory
<1>8. i = id
  BY <1>7 DEF Reached
<1>9. QED  BY <1>5, <1>7, <1>8

\* Every step keeps what is missing owed.
LEMMA OwedStep ==
  ASSUME ~MayDisconnect, Records, Owed, [Next]_vars
  PROVE  Owed'
<1>1. ReceiptsOK' /\ AuditsOK' /\ WorkersOK'
  BY ReceiptsStep, AuditsStep, WorkersStep DEF Records, Base
<1>2. ASSUME NEW v \in Worker
      PROVE  ~gone'[v]
  <2>1. ~gone[v]
    BY DEF Owed
  <2>2. (\E w \in Worker : Quiet(w) \/ Stores(w) \/ Files(w)) \/ Idles
    BY StepEffect DEF Records, Base
  <2>3. ASSUME NEW w \in Worker, Quiet(w) \/ Stores(w) \/ Files(w), v # w
        PROVE  gone'[v] = gone[v]
    BY <2>3 DEF Quiet, Stores, Files, Others
  <2>4. ASSUME Quiet(v) \/ Stores(v) \/ Files(v)
        PROVE  ~gone'[v]
    BY <2>1, <2>4 DEF Quiet, Stores, Files
  <2>5. Idles => gone'[v] = gone[v]
    BY DEF Idles
  <2>6. QED  BY <2>1, <2>2, <2>3, <2>4, <2>5
<1> SUFFICES ASSUME NEW id \in BatchId, NEW s \in Reached(id)'
             PROVE  /\ \/ HasReceipt(id, s)'
                       \/ \E w \in Worker : Filing(w, id, s, {"receipt"})'
                    /\ \/ IsAudited(id, s)'
                       \/ \E w \in Worker : Filing(w, id, s, {"receipt", "audit"})'
  BY <1>2 DEF Owed
<1>3. CASE s \in Reached(id)
  <2>1. s \in States /\ s # "registered"
    BY <1>3, ReachedStates DEF Records, Base, WorkersOK, States
  <2>2. \/ HasReceipt(id, s)'
        \/ \E w \in Worker : Filing(w, id, s, {"receipt"})'
    <3>1. CASE HasReceipt(id, s)
      BY <2>1, <3>1, ReceiptsStay DEF Records
    <3>2. ASSUME NEW w \in Worker, Filing(w, id, s, {"receipt"})
          PROVE  HasReceipt(id, s)' \/ Filing(w, id, s, {"receipt"})'
      <4>1. pc[w] = "receipt" /\ task[w].batch = id /\ task[w].op = s /\ ~gone[w]
        BY <3>2 DEF Filing, Owed
      <4>2. task'[w] = task[w] /\ pc'[w] \in {"receipt", "audit"}
        BY <4>1, FilerStays DEF Records, Base
      <4>3. CASE pc'[w] = "receipt"
        BY <4>1, <4>2, <4>3 DEF Filing
      <4>4. CASE pc'[w] = "audit"
        <5>1. Moved(w)'
          BY <2>1, <4>1, <4>2, <4>4 DEF Moved
        <5>2. HasReceipt(task[w].batch, task[w].op)'
          BY <1>1, <4>4, <5>1 DEF ReceiptsOK
        <5>3. task'[w].batch = id /\ task'[w].op = s
          BY <4>1, <4>2
        <5>4. QED  BY <5>2, <5>3
      <4>5. QED  BY <4>2, <4>3, <4>4
    <3>3. QED  BY <1>3, <3>1, <3>2 DEF Owed
  <2>3. \/ IsAudited(id, s)'
        \/ \E w \in Worker : Filing(w, id, s, {"receipt", "audit"})'
    <3>1. CASE IsAudited(id, s)
      BY <3>1, AuditsStay DEF Records
    <3>2. ASSUME NEW w \in Worker, Filing(w, id, s, {"receipt", "audit"})
          PROVE  IsAudited(id, s)' \/ Filing(w, id, s, {"receipt", "audit"})'
      <4>1. /\ pc[w] \in {"receipt", "audit"} /\ ~gone[w]
            /\ task[w].batch = id /\ task[w].op = s
        BY <3>2 DEF Filing, Owed
      <4>2. /\ task'[w] = task[w]
            /\ pc'[w] \in {"receipt", "audit", "notify", "ok"}
        BY <4>1, FilerStays DEF Records, Base
      <4>3. CASE pc'[w] \in {"receipt", "audit"}
        BY <4>1, <4>2, <4>3 DEF Filing
      <4>4. CASE pc'[w] \in {"notify", "ok"}
        <5>1. Moved(w)'
          BY <2>1, <4>1, <4>2, <4>4 DEF Moved
        <5>2. IsAudited(task[w].batch, task[w].op)'
          BY <1>1, <1>2, <4>4, <5>1 DEF AuditsOK
        <5>3. task'[w].batch = id /\ task'[w].op = s
          BY <4>1, <4>2
        <5>4. QED  BY <5>2, <5>3
      <4>5. QED  BY <4>2, <4>3, <4>4
    <3>3. QED  BY <1>3, <3>1, <3>2 DEF Owed
  <2>4. QED  BY <2>2, <2>3
<1>4. CASE s \notin Reached(id)
  <2>1. PICK w \in Worker : Stores(w) /\ task[w].batch = id /\ task[w].op = s
    BY <1>4, NewStateHasMover DEF Records
  <2>2. task'[w].batch = id /\ task'[w].op = s /\ pc'[w] \in {"receipt", "audit"}
    BY <2>1 DEF Stores
  <2>3. s # "registered"
    BY <1>1, ReachedStates DEF WorkersOK, ShapesOK, Shaped, Reached, History
  <2>4. Moved(w)'
    BY <2>2, <2>3 DEF Moved
  <2>5. pc'[w] = "audit" => HasReceipt(id, s)'
    <3>1. pc'[w] = "audit" => HasReceipt(task[w].batch, task[w].op)'
      BY <1>1, <2>4 DEF ReceiptsOK
    <3>2. QED  BY <2>2, <3>1
  <2>6. /\ pc'[w] = "receipt" => Filing(w, id, s, {"receipt"})'
        /\ Filing(w, id, s, {"receipt", "audit"})'
    BY <2>2 DEF Filing
  <2>7. QED  BY <2>2, <2>5, <2>6
<1>5. QED  BY <1>3, <1>4

\* An audited state has an event.
LEMMA AuditedHasEvent ==
  ASSUME TypeInv, NEW id \in BatchId, NEW s, IsAudited(id, s)
  PROVE  HasEvent(id, s)
<1> PICK key : key = Key(batches[id].scope)
  OBVIOUS
<1>1. key \in DOMAIN audits
  BY DEF IsAudited, TypeInv, StoreOK, StoreTypeOK, Batch
<1>2. QED  BY <1>1 DEF IsAudited, HasEvent

\* While clients stay, a record is missing only as long as the one request that
\* owes it is at work.
THEOREM MissingIsOwed ==
  ASSUME ~MayDisconnect
  PROVE  Spec => []MissingRecordsAreOwed
<1>1. Init => Owed
  BY DEF Init, Owed, Reached, History
<1>2. TypeInv /\ Versions /\ WorkersOK /\ ReceiptsOK /\ AuditsOK /\ Owed /\ [Next]_vars
        => Owed'
  BY OwedStep DEF Records, Base
<1>3. ASSUME TypeInv, WorkersOK, ReceiptsOK, AuditsOK, Owed
      PROVE  MissingRecordsAreOwed
  <2> SUFFICES ASSUME NEW id \in BatchId, NEW s \in Reached(id)
               PROVE  /\ ~HasReceipt(id, s) <=>
                           \E w \in Worker : Filing(w, id, s, {"receipt"})
                      /\ ~IsAudited(id, s) <=>
                           \E w \in Worker : Filing(w, id, s, {"receipt", "audit"})
    BY DEF MissingRecordsAreOwed
  <2>1. s # "registered"
    BY <1>3, ReachedStates DEF WorkersOK, States
  <2>2. ASSUME NEW w \in Worker, Filing(w, id, s, {"receipt", "audit"})
        PROVE  ~IsAudited(id, s) /\ (pc[w] = "receipt" => ~HasReceipt(id, s))
    <3>1. Moved(w) /\ pc[w] \in {"receipt", "audit"} /\ task[w].batch = id /\ task[w].op = s
      BY <2>1, <2>2 DEF Filing, Moved
    <3>2. ~HasEvent(id, s) /\ (pc[w] = "receipt" => ~HasReceipt(id, s))
      BY <1>3, <3>1 DEF ReceiptsOK, AuditsOK
    <3>3. QED  BY <1>3, <3>2, AuditedHasEvent
  <2>3. QED  BY <1>3, <2>2 DEF Owed, Filing
<1>4. QED
  BY <1>1, <1>2, <1>3, TypeInvariant, VersionsInvariant, WorkersInvariant,
     ReceiptsInvariant, AuditsInvariant, PTL DEF Spec

\* What fails when clients leave holds as long as they stay: when no
\* request is at work, every state a batch went through has its receipt and the
\* event of it (batch.go:69-75, audit.go:13).
THEOREM CompleteWhileClientsStay ==
  ASSUME ~MayDisconnect
  PROVE  Spec => [](ReceiptsAreComplete /\ ReceiptsAreAudited)
<1>1. MissingRecordsAreOwed => ReceiptsAreComplete
  BY DEF MissingRecordsAreOwed, ReceiptsAreComplete, Filing, Answer
<1>2. MissingRecordsAreOwed => ReceiptsAreAudited
  BY DEF MissingRecordsAreOwed, ReceiptsAreAudited, Filing, Answer
<1>3. QED  BY <1>1, <1>2, MissingIsOwed, PTL

-----------------------------------------------------------------------------
(***************************************************************************)
(* The service implements the ledger when its store is a                   *)
(* SubmissionCommitter, as repository.Store is.                            *)
(*                                                                         *)
(* The step that stores a batch is the ledger's Submit or Move, the step   *)
(* that files a receipt is its Publish, and every other step is a stutter. *)
(* Without a committer this is false: the submission is visible before its *)
(* receipt, which the ledger does not allow.                               *)
(***************************************************************************)

\* The ledger's view of one batch.
PhaseOf(id) == IF batches[id] = NoBatch THEN "none" ELSE batches[id].state
PublishedOf(id) == [k \in DOMAIN receipts[id] |-> StateOf(receipts[id][k].kind)]

\* All batches but id look the same to the ledger.
OthersLookTheSame(id) ==
  \A i \in BatchId \ {id} :
    /\ PhaseOf(i)' = PhaseOf(i) /\ Reached(i)' = Reached(i)
    /\ PublishedOf(i)' = PublishedOf(i)

-----------------------------------------------------------------------------
\* The ledger's actions, batch by batch.

\* What the service has to do for a Submit.
LEMMA IsSubmit ==
  ASSUME NEW id \in BatchId, OthersLookTheSame(id), PhaseOf(id) = "none",
         PhaseOf(id)' = "submitted",
         Reached(id)' = Reached(id) \cup {"submitted"},
         PublishedOf(id)' = <<"submitted">>
  PROVE  Ledger!Submit(id)
<1>1. "submitted" \in Ledger!Successors["none"]
  BY DEF Ledger!Successors
<1>2. Ledger!Enter(id, "submitted")
  BY <1>1 DEF Ledger!Enter, PhaseOf, OthersLookTheSame
<1>3. [i \in BatchId |-> PublishedOf(i)]'
        = [[i \in BatchId |-> PublishedOf(i)] EXCEPT ![id] = <<"submitted">>]
  BY DEF OthersLookTheSame
<1>4. QED  BY <1>2, <1>3 DEF Ledger!Submit, PhaseOf, PublishedOf

\* What it has to do for a Move.
LEMMA IsMove ==
  ASSUME NEW id \in BatchId, OthersLookTheSame(id), PhaseOf(id) # "none",
         NEW s \in Ledger!Successors[PhaseOf(id)], PhaseOf(id)' = s,
         Reached(id)' = Reached(id) \cup {s},
         PublishedOf(id)' = PublishedOf(id)
  PROVE  Ledger!Move(id, s)
BY ZenonT(40) DEF Ledger!Move, Ledger!Enter, PhaseOf, PublishedOf, OthersLookTheSame

\* What it has to do for a Publish.
LEMMA IsPublish ==
  ASSUME NEW id \in BatchId, OthersLookTheSame(id), NEW s \in Reached(id),
         PhaseOf(id)' = PhaseOf(id), Reached(id)' = Reached(id),
         \A k \in DOMAIN receipts[id] : PublishedOf(id)[k] # s,
         PublishedOf(id)' = Append(PublishedOf(id), s)
  PROVE  Ledger!Publish(id, s)
BY ZenonT(40) DEF Ledger!Publish, Ledger!IsPublished, PhaseOf, PublishedOf, OthersLookTheSame

-----------------------------------------------------------------------------
\* What the ledger sees of a log of receipts.

\* A receipt tells the state it was filed for.
LEMMA StateOfReceipt ==
  \A s \in States : StateOf(ReceiptFor[s]) = s
<1> SUFFICES ASSUME NEW s \in States PROVE StateOf(ReceiptFor[s]) = s
  OBVIOUS
<1>1. \E u \in DOMAIN ReceiptFor : ReceiptFor[u] = ReceiptFor[s]
  BY StatesHaveRecords
<1>2. \A u \in DOMAIN ReceiptFor : ReceiptFor[u] = ReceiptFor[s] => u = s
  BY StatesHaveRecords
<1>3. QED  BY <1>1, <1>2 DEF StateOf

\* The view of a log is a sequence, and grows by one entry with it.
LEMMA ViewOfLog ==
  ASSUME NEW log \in Seq(Receipt), NEW r \in Receipt, NEW s, StateOf(r.kind) = s
  PROVE  LET View(l) == [k \in DOMAIN l |-> StateOf(l[k].kind)]
         IN View(Append(log, r)) = Append(View(log), s)
<1> DEFINE View(l) == [k \in DOMAIN l |-> StateOf(l[k].kind)]
           longer == Append(log, r)
           n == Len(log)
<1>1. /\ longer \in Seq(Receipt) /\ DOMAIN longer = 1 .. (n + 1) /\ n \in Nat
      /\ \A k \in 1 .. n : longer[k] = log[k]
      /\ longer[n + 1] = r /\ DOMAIN log = 1 .. n
  OBVIOUS
<1>2. View(log) \in Seq({StateOf(l.kind) : l \in Receipt}) /\ Len(View(log)) = n
  <2>1. \A k \in 1 .. n : log[k] \in Receipt
    OBVIOUS
  <2>2. View(log) \in [1 .. n -> {StateOf(l.kind) : l \in Receipt}]
    BY <1>1, <2>1
  <2>3. QED  BY <1>1, <2>2
<1> PICK v : v = View(log)
  OBVIOUS
<1>3. Append(v, s) = [k \in 1 .. (n + 1) |-> IF k = n + 1 THEN s ELSE v[k]]
  BY <1>2
<1>4. \A k \in 1 .. (n + 1) :
        StateOf(longer[k].kind) = IF k = n + 1 THEN s ELSE v[k]
  BY <1>1
<1>5. View(longer) = [k \in 1 .. (n + 1) |-> StateOf(longer[k].kind)]
  BY <1>1
<1>6. View(longer) = Append(v, s)
  <2> HIDE DEF View, longer
  <2>1. QED  BY <1>3, <1>4, <1>5
<1>7. QED  BY <1>6

\* The view of the first receipt.
LEMMA ViewOfFirst ==
  ASSUME NEW r, NEW s, StateOf(r.kind) = s
  PROVE  LET log == Append(<<>>, r)
         IN [k \in DOMAIN log |-> StateOf(log[k].kind)] = <<s>>
<1>1. Append(<<>>, r) = <<r>>
  OBVIOUS
<1>2. QED  BY <1>1

\* The ledger sees the receipt that is filed, and nothing else.
LEMMA PublishedReceipt ==
  ASSUME TypeInv, NEW id \in BatchId, NEW s \in States, NEW t \in Instant,
         receipts' = AppendAt(receipts, id, [kind |-> ReceiptFor[s], at |-> t])
  PROVE  /\ PublishedOf(id)' = Append(PublishedOf(id), s)
         /\ receipts[id] = <<>> => PublishedOf(id)' = <<s>>
         /\ \A i \in BatchId \ {id} : PublishedOf(i)' = PublishedOf(i)
<1> DEFINE r == [kind |-> ReceiptFor[s], at |-> t]
<1>1. r \in Receipt /\ r.kind = ReceiptFor[s]
  BY StatesHaveRecords DEF Receipt
<1> HIDE DEF r
<1>2. StateOf(r.kind) = s
  BY <1>1, StateOfReceipt
<1>3. /\ receipts[id] \in Seq(Receipt) /\ receipts'[id] = Append(receipts[id], r)
      /\ \A i \in BatchId \ {id} : receipts'[i] = receipts[i]
  BY DEF AppendAt, TypeInv, StoreOK, StoreTypeOK, r
<1>4. PublishedOf(id)' = Append(PublishedOf(id), s)
  BY <1>1, <1>2, <1>3, ViewOfLog DEF PublishedOf
<1>5. receipts[id] = <<>> => PublishedOf(id)' = <<s>>
  BY <1>2, <1>3, ViewOfFirst DEF PublishedOf
<1>6. QED  BY <1>3, <1>4, <1>5 DEF PublishedOf

-----------------------------------------------------------------------------
\* The steps of the service.

\* A step that changes neither batches nor receipts changes no ledger.
LEMMA Stutters ==
  ASSUME UNCHANGED <<batches, receipts>>
  PROVE  UNCHANGED Ledger!vars
BY DEF Ledger!vars, Reached

\* What follows of a step by which w moves batch id.
LEMMA StoredLook ==
  ASSUME Base, [Next]_vars, NEW w \in Worker, Stores(w), NEW id, id = task[w].batch
  PROVE  /\ id \in BatchId /\ task[w].op \in States
         /\ PhaseOf(id)' = task[w].op
         /\ Reached(id)' = Reached(id) \cup {task[w].op}
         /\ \A i \in BatchId \ {id} : PhaseOf(i)' = PhaseOf(i) /\ Reached(i)' = Reached(i)
         /\ batches[id] = NoBatch => task[w].op = "submitted"
         /\ batches[id] # NoBatch =>
              task[w].op \in Ledger!Successors[PhaseOf(id)] /\ PhaseOf(id) # "none"
<1> PICK b : b = seen'[w]
  OBVIOUS
<1> PICK old : old = batches[id]
  OBVIOUS
<1>1. LegalStep
  BY VersionsStep DEF Base
<1>2. /\ id \in BatchId /\ b \in Batch /\ b.state = task[w].op
      /\ batches'[id] = b /\ Shaped(b)
      /\ Reached(id)' = Reached(id) \cup {b.state}
      /\ \A i \in BatchId \ {id} : batches'[i] = batches[i]
      /\ old # NoBatch => old \in Batch /\ Shaped(old)
  BY <1>1, StoredHistory
<1>3. b # old
  BY DEF Stores
<1>4. OneLegalStep(old, b)
  BY <1>1, <1>2, <1>3 DEF LegalStep
<1>5. PhaseOf(id)' = b.state /\ b.state \in States
  BY <1>2, BatchIsNotNone DEF PhaseOf, Shaped, States
<1>6. old = NoBatch => b.state = "submitted"
  BY <1>4 DEF OneLegalStep
<1>7. ASSUME old # NoBatch
      PROVE  b.state \in Ledger!Successors[PhaseOf(id)] /\ PhaseOf(id) # "none"
  <2>1. PhaseOf(id) = old.state /\ CanTransition(old, b.state) /\ Shaped(old)
    BY <1>2, <1>4, <1>7 DEF OneLegalStep, PhaseOf
  <2>2. old.state \in States
    BY <2>1 DEF Shaped, States
  <2>3. CASE old.state = "submitted"
    BY <2>1, <2>3 DEF CanTransition, Ledger!Successors
  <2>4. CASE old.state = "under_review"
    BY <2>1, <2>4 DEF CanTransition, Ledger!Successors
  <2>5. CASE old.state \in {"approved", "rejected", "cancelled"}
    BY <2>1, <2>5 DEF CanTransition
  <2>6. QED  BY <2>2, <2>3, <2>4, <2>5 DEF States
<1>8. \A i \in BatchId \ {id} : PhaseOf(i)' = PhaseOf(i) /\ Reached(i)' = Reached(i)
  BY <1>2 DEF PhaseOf, Reached
<1>9. QED  BY <1>2, <1>5, <1>6, <1>7, <1>8

\* Storing a batch is a Submit or a Move.
LEMMA StoringIsALedgerStep ==
  ASSUME Base, ReceiptsTellHistory, HasCommitter, [Next]_vars,
         NEW w \in Worker, Stores(w)
  PROVE  Ledger!Next
<1> PICK id : id = task[w].batch
  OBVIOUS
<1> PICK s : s = task[w].op
  OBVIOUS
<1>1. /\ id \in BatchId /\ s \in States
      /\ PhaseOf(id)' = s /\ Reached(id)' = Reached(id) \cup {s}
      /\ \A i \in BatchId \ {id} : PhaseOf(i)' = PhaseOf(i) /\ Reached(i)' = Reached(i)
      /\ batches[id] = NoBatch => s = "submitted"
      /\ batches[id] # NoBatch =>
           s \in Ledger!Successors[PhaseOf(id)] /\ PhaseOf(id) # "none"
  BY StoredLook
<1>2. CASE pc[w] = "commit"
  <2> PICK t : t = seen'[w].createdAt
    OBVIOUS
  <2>1. /\ s = "submitted" /\ batches[id] = NoBatch /\ seen'[w] \in Batch
        /\ receipts' = AppendAt(receipts, id, [kind |-> "submitted", at |-> t])
    BY <1>2 DEF Stores
  <2>2. ReceiptFor[s] = "submitted" /\ t \in Instant
    BY <2>1 DEF ReceiptFor, Batch
  <2>3. receipts[id] = <<>>
    <3>1. DOMAIN receipts[id] = {}
      BY <1>1, <2>1 DEF ReceiptsTellHistory, Reached, History
    <3>2. receipts[id] \in Seq(Receipt)
      BY <1>1 DEF Base, TypeInv, StoreOK, StoreTypeOK
    <3>3. DOMAIN receipts[id] = 1 .. Len(receipts[id]) /\ Len(receipts[id]) \in Nat
      BY <3>2
    <3>4. Len(receipts[id]) = 0
      <4>1. ASSUME Len(receipts[id]) > 0
            PROVE  FALSE
        <5>1. 1 \in 1 .. Len(receipts[id])
          BY <3>3, <4>1
        <5>2. QED  BY <3>1, <3>3, <5>1
      <4>2. QED  BY <3>3, <4>1
    <3>5. QED  BY <3>2, <3>4
  <2>4. /\ PublishedOf(id)' = <<s>>
        /\ \A i \in BatchId \ {id} : PublishedOf(i)' = PublishedOf(i)
    BY <1>1, <2>1, <2>2, <2>3, PublishedReceipt DEF Base
  <2>5. PhaseOf(id) = "none"
    BY <2>1 DEF PhaseOf
  <2>6. Ledger!Submit(id)
    BY <1>1, <2>1, <2>4, <2>5, IsSubmit DEF OthersLookTheSame
  <2>7. QED  BY <1>1, <2>6 DEF Ledger!Next
<1>3. CASE pc[w] # "commit"
  <2>1. UNCHANGED receipts /\ pc[w] = "save"
    BY <1>3 DEF Stores, Base, WorkersOK, RequestsOK
  <2>2. batches[id] # NoBatch
    BY <2>1 DEF Base, Versions, IsVersionOf, TypeInv, HandlersOK, Holds
  <2>3. \A i \in BatchId : PublishedOf(i)' = PublishedOf(i)
    BY <2>1 DEF PublishedOf
  <2>4. Ledger!Move(id, s)
    BY <1>1, <2>2, <2>3, IsMove DEF OthersLookTheSame
  <2>5. s \in DOMAIN Ledger!Successors
    BY <1>1 DEF States, Ledger!Successors
  <2>6. QED  BY <1>1, <2>4, <2>5 DEF Ledger!Next
<1>4. QED  BY <1>2, <1>3

\* Filing a receipt is a Publish.
LEMMA FilingIsALedgerStep ==
  ASSUME Base, ReceiptsOK, NEW w \in Worker, AppendReceipt(w)
  PROVE  Ledger!Next
<1> PICK id : id = task[w].batch
  OBVIOUS
<1> PICK s : s = task[w].op
  OBVIOUS
<1>1. pc[w] = "receipt" /\ Moved(w) /\ UNCHANGED batches
  BY DEF AppendReceipt, Moved, Base, TypeInv, HandlersOK, Holds, Moves
<1>2. /\ id \in BatchId /\ s \in States /\ s \in Reached(id)
      /\ seen[w] \in Batch /\ seen[w].id = id
  BY <1>1, MoverFacts
<1>3. PICK t \in IF s = "submitted" THEN {seen[w].createdAt} ELSE Clock(w) :
        receipts' = AppendAt(receipts, id, [kind |-> ReceiptFor[s], at |-> t])
  BY <1>2 DEF AppendReceipt
<1>4. t \in Instant
  BY <1>2, <1>3, ClockIsInstant DEF Batch, Base, TypeInv
<1>5. /\ PublishedOf(id)' = Append(PublishedOf(id), s)
      /\ \A i \in BatchId \ {id} : PublishedOf(i)' = PublishedOf(i)
  BY <1>2, <1>3, <1>4, PublishedReceipt DEF Base
<1>6. ASSUME NEW k \in DOMAIN receipts[id]
      PROVE  PublishedOf(id)[k] # s
  <2>1. PICK u \in Reached(id) : receipts[id][k].kind = ReceiptFor[u]
    BY <1>2 DEF ReceiptsOK, ReceiptsTellHistory
  <2>2. u \in States
    BY <1>2, <2>1, ReachedStates DEF Base, WorkersOK
  <2>3. PublishedOf(id)[k] = u
    BY <2>1, <2>2, StateOfReceipt DEF PublishedOf
  <2>4. ~HasReceipt(id, s)
    BY <1>1 DEF ReceiptsOK
  <2>5. QED  BY <2>1, <2>3, <2>4 DEF HasReceipt
<1>7. \A i \in BatchId : PhaseOf(i)' = PhaseOf(i) /\ Reached(i)' = Reached(i)
  BY <1>1 DEF PhaseOf, Reached
<1>8. Ledger!Publish(id, s)
  BY <1>2, <1>5, <1>6, <1>7, IsPublish DEF OthersLookTheSame
<1>9. s \in DOMAIN Ledger!Successors
  BY <1>2 DEF States, Ledger!Successors
<1>10. QED  BY <1>2, <1>8, <1>9 DEF Ledger!Next

\* Every step of the service is a step of the ledger, or none.
LEMMA LedgerStep ==
  ASSUME Base, ReceiptsOK, HasCommitter, [Next]_vars
  PROVE  [Ledger!Next]_(Ledger!vars)
<1>1. (\E w \in Worker : Quiet(w) \/ Stores(w) \/ Files(w)) \/ Idles
  BY StepEffect DEF Base
<1>2. ASSUME NEW w \in Worker, Stores(w)
      PROVE  Ledger!Next
  BY <1>2, StoringIsALedgerStep DEF ReceiptsOK
<1>3. ASSUME NEW w \in Worker, Files(w)
      PROVE  Ledger!Next \/ UNCHANGED <<batches, receipts>>
  BY <1>3, FilingIsALedgerStep DEF Files, AppendAudit, QueueNotification
<1>4. ASSUME NEW w \in Worker, Quiet(w)
      PROVE  UNCHANGED <<batches, receipts>>
  BY <1>4 DEF Quiet
<1>5. Idles => UNCHANGED <<batches, receipts>>
  BY DEF Idles
<1>6. Ledger!Next \/ UNCHANGED <<batches, receipts>>
  BY <1>1, <1>2, <1>3, <1>4, <1>5
<1>7. QED  BY <1>6, Stutters

\* An empty store is an empty ledger.
LEMMA LedgerInit == Init => Ledger!Init
<1> SUFFICES ASSUME Init PROVE Ledger!Init
  OBVIOUS
<1>1. \A id \in BatchId : /\ batches[id] = NoBatch /\ receipts[id] = <<>>
                          /\ Reached(id) = {}
  BY DEF Init, Reached, History
<1>2. \A id \in BatchId : PublishedOf(id) = <<>>
  BY <1>1 DEF PublishedOf
<1>3. QED  BY <1>1, <1>2 DEF Ledger!Init, PublishedOf

\* With a committer the service implements the ledger: whatever requests do to
\* each other, and whenever clients leave, the store moves as the ledger may.
THEOREM LedgerIsImplemented ==
  ASSUME HasCommitter
  PROVE  Spec => ImplementsLedger
<1>1. TypeInv /\ Versions /\ WorkersOK /\ ReceiptsOK /\ [Next]_vars
        => [Ledger!Next]_(Ledger!vars)
  BY LedgerStep DEF Base
<1>2. QED
  BY LedgerInit, <1>1, TypeInvariant, VersionsInvariant, WorkersInvariant,
     ReceiptsInvariant, PTL DEF Spec, ImplementsLedger, Ledger!Spec
=============================================================================
