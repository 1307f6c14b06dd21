------------------------- MODULE ReviewServiceProofs -------------------------
(***************************************************************************)
(* Theorems about ReviewService, for any number of workers, batches,       *)
(* evidence, names and recipients, any policy, and any last instant: what  *)
(* handlers hold at each of their calls has its type, no request loses     *)
(* another's update, each state a batch goes through is one worker's, and  *)
(* what was judged of its evidence stays so.                               *)
(***************************************************************************)
EXTENDS ReviewService, FiniteSetTheorems, TLAPS

-----------------------------------------------------------------------------
\* The operators the steps are built from.

\* The tables have an entry for each state a request moves a batch to.
LEMMA Tables ==
  /\ Operation = {"registered", "submitted", "under_review", "approved",
                  "rejected", "cancelled"}
  /\ \A op \in Operation \ {"registered"} : ReceiptFor[op] \in ReceiptKind
  /\ \A op \in Operation \ {"registered"} : op \in BatchState
  /\ \A op \in {"approved", "rejected"} : AuditActionFor[op] \in NoticeEvent
BY DEF Operation, AuditActionFor, ReceiptFor, ReceiptKind, BatchState, NoticeEvent

\* A transition keeps a batch a batch, and touches three fields of it.
LEMMA TransitionIsBatch ==
  ASSUME NEW b \in Batch, NEW to \in BatchState, NEW t \in Instant
  PROVE  /\ Transition(b, to, t) \in Batch
         /\ Transition(b, to, t).id = b.id
         /\ Transition(b, to, t).scope = b.scope
         /\ Transition(b, to, t).state = to
         /\ Transition(b, to, t).revision = b.revision + 1
         /\ Transition(b, to, t).createdAt = b.createdAt
         /\ Transition(b, to, t).updatedAt = t
<1> DEFINE n == Transition(b, to, t)
<1>1. /\ n.id = b.id /\ n.scope = b.scope /\ n.evidence = b.evidence
      /\ n.createdAt = b.createdAt
  BY DEF Transition, Batch
<1>2. /\ n.state = to /\ n.revision = b.revision + 1 /\ n.updatedAt = t
  BY DEF Transition, Batch
<1>3. b.revision + 1 \in Nat \ {0}
  BY DEF Batch
<1>4. n \in Batch
  BY <1>3 DEF Transition, Batch, Instant
<1>5. QED  BY <1>1, <1>2, <1>4

\* A new batch is one, and is what its arguments say.
LEMMA NewBatchIsBatch ==
  ASSUME NEW id \in BatchId, NEW scope \in Scope,
         NEW ids \in SUBSET EvidenceId, NEW t \in Instant
  PROVE  /\ NewBatch(id, scope, ids, t) \in Batch
         /\ NewBatch(id, scope, ids, t).id = id
         /\ NewBatch(id, scope, ids, t).state = "draft"
BY DEF NewBatch, Batch, BatchState, Instant

\* A normalized list is a set of identifiers of evidence.
LEMMA NormalizedIDs ==
  ASSUME NEW list \in Seq(EvidenceId)
  PROVE  NormalizeIDs(list) \in SUBSET EvidenceId
BY DEF NormalizeIDs

\* The store's operators keep the types of what they work on.
LEMMA StoreOperators ==
  /\ \A log \in [BatchId -> Seq(Receipt)], id \in BatchId, r \in Receipt :
       AppendAt(log, id, r) \in [BatchId -> Seq(Receipt)]
  /\ \A keys : \A log \in [keys -> Seq(AuditEvent)], key \in keys, e \in AuditEvent :
       AppendAt(log, key, e) \in [keys -> Seq(AuditEvent)]
  /\ \A list \in Seq(Notification), n \in Notification :
       QueueNotice(list, n) \in Seq(Notification)
BY DEF AppendAt, QueueNotice

-----------------------------------------------------------------------------
(***************************************************************************)
(* Type correctness.  TypeOK alone is not inductive: CommitSubmission      *)
(* stores what the worker holds, so it must hold a batch, and              *)
(* AppendReceipt looks up the worker's operation in a table that has no    *)
(* entry for every operation.  What a worker holds at each of its steps is *)
(* the other half of the invariant.                                        *)
(***************************************************************************)
Moves == {"under_review", "approved", "rejected", "cancelled"}

\* What a worker at pc p with request t holds as its copy b.
Holds(p, t, b) ==
  /\ t.recipient # "" => t.op \in {"approved", "rejected"}
  /\ p \in {"commit", "submit", "validate", "save", "receipt", "notify"} =>
       b \in Batch /\ b.id = t.batch
  /\ p \in {"commit", "submit", "receipt", "notify"} => b.state = t.op
  /\ p \in {"commit", "submit"} => t.op = "submitted"
  /\ p \in {"validate", "find"} => t.op = "under_review" /\ t.batch \in BatchId
  /\ p = "save" => t.op \in Moves /\ CanTransition(b, t.op)
  /\ p = "receipt" => t.op \in Moves \cup {"submitted"}
  /\ p = "audit" =>
       \/ t.op = "registered" /\ t.key \in {Key(scope) : scope \in Scope}
       \/ /\ t.op \in Moves \cup {"submitted"}
          /\ b \in Batch /\ b.id = t.batch /\ b.state = t.op
  /\ p = "notify" => t.recipient # ""

HandlersOK == \A w \in Worker : Holds(pc[w], task[w], seen[w])

\* The store keeps a batch under its own identifier.
StoreOK ==
  /\ StoreTypeOK
  /\ \A id \in BatchId : batches[id] # NoBatch => batches[id].id = id

TypeInv == StoreOK /\ RequestTypeOK /\ HandlersOK

PCs == StoreCall \cup Answer \cup {"idle", "audit"}

\* The arithmetical assumption on the constants, for use by itself.
LEMMA MaxTimeIsInstant == MaxTime \in Nat
BY ServiceAssumption DEF ServiceAssumption

\* The other assumptions, as the proofs use them.
LEMMA Constants ==
  /\ NoBatch \notin Batch
  /\ "" \notin Recipient /\ "" \notin BatchId
  /\ OfferedKinds \subseteq EvidenceKind
  /\ OfferedExpiries \subseteq Expiry
  /\ OfferedLists \subseteq Seq(EvidenceId)
BY ServiceAssumption, DomainAssumption DEF ServiceAssumption, DomainAssumption

\* A step of one worker leaves the others where they were.
LEMMA ProceedOK ==
  ASSUME RequestTypeOK, HandlersOK,
         NEW w \in Worker, NEW next \in PCs, NEW b \in Batch \cup {NoBatch},
         NEW t \in Task, Proceed(w, next, b),
         task' = [task EXCEPT ![w] = t], Holds(next, t, b)
  PROVE  RequestTypeOK' /\ HandlersOK'
<1>1. RequestTypeOK'
  BY DEF RequestTypeOK, Proceed, PCs
<1>2. ASSUME NEW v \in Worker
      PROVE  Holds(pc'[v], task'[v], seen'[v])
  <2>1. CASE v = w
    BY <2>1 DEF RequestTypeOK, Proceed
  <2>2. CASE v # w
    <3>1. pc'[v] = pc[v] /\ task'[v] = task[v] /\ seen'[v] = seen[v]
      BY <2>2 DEF RequestTypeOK, Proceed
    <3>2. QED  BY <3>1 DEF HandlersOK
  <2>3. QED  BY <2>1, <2>2
<1>3. QED  BY <1>1, <1>2 DEF HandlersOK

\* The same for a step that keeps the request.
LEMMA ProceedSameTask ==
  ASSUME RequestTypeOK, HandlersOK,
         NEW w \in Worker, NEW next \in PCs, NEW b \in Batch \cup {NoBatch},
         Proceed(w, next, b), UNCHANGED task, Holds(next, task[w], b)
  PROVE  RequestTypeOK' /\ HandlersOK'
<1>1. task[w] \in Task /\ task' = [task EXCEPT ![w] = task[w]]
  BY DEF RequestTypeOK
<1>2. QED  BY <1>1, ProceedOK

\* A step that leaves the store alone leaves it well-formed.
LEMMA StoreUnchanged == ASSUME StoreOK, UNCHANGED store PROVE StoreOK'
BY DEF StoreOK, StoreTypeOK, store

\* An error leaves the store alone and the worker with nothing to hold.
LEMMA FailOK ==
  ASSUME TypeInv, NEW w \in Worker, NEW answer \in Answer, NEW t \in Task,
         Fail(w, answer), task' = [task EXCEPT ![w] = t],
         t.recipient # "" => t.op \in {"approved", "rejected"}
  PROVE  TypeInv'
<1>1. StoreOK'
  BY StoreUnchanged DEF TypeInv, Fail
<1>2. Holds(answer, t, NoBatch) /\ answer \in PCs
  BY DEF Holds, Answer, PCs
<1>3. RequestTypeOK' /\ HandlersOK'
  BY <1>2, ProceedOK DEF Fail, TypeInv
<1>4. QED  BY <1>1, <1>3 DEF TypeInv

\* The requests clients make are of their type.
LEMMA RequestsAreTasks ==
  ASSUME NEW op \in Operation \cup {"none"}, NEW id \in BatchId \cup {""},
         NEW recipient \in Recipient \cup {""}
  PROVE  /\ Request(op, id, recipient) \in Task
         /\ Request(op, id, recipient).op = op
         /\ Request(op, id, recipient).batch = id
         /\ Request(op, id, recipient).recipient = recipient
BY DEF Request, Task

\* The clock shows an instant.
LEMMA NowIsInstant == ASSUME RequestTypeOK PROVE now \in Instant
BY MaxTimeIsInstant DEF RequestTypeOK, Instant

\* Verdict is an answer, or lets the request go on.
LEMMA VerdictIsAnswer ==
  ASSUME NEW scope, NEW ids, NEW count
  PROVE  Verdict(scope, ids, count) \in Answer
BY DEF Verdict, Answer

\* Saving evidence adds the item and perhaps removes another.
LEMMA SaveEvidenceType ==
  ASSUME NEW items \in SUBSET Evidence, NEW item \in Evidence
  PROVE  SaveEvidence(items, item) \subseteq Evidence
BY DEF SaveEvidence

\* The service starts with an empty store and idle workers.
LEMMA TypeInvInit == Init => TypeInv
<1>1. SUFFICES ASSUME Init PROVE TypeInv
  OBVIOUS
<1>2. StoreOK
  BY <1>1 DEF Init, StoreOK, StoreTypeOK
<1>3. RequestTypeOK
  <2>1. NoTask \in Task
    BY RequestsAreTasks DEF NoTask
  <2>2. 0 \in 0 .. MaxTime /\ 0 \in 0 .. 0
    BY MaxTimeIsInstant
  <2>3. QED  BY <1>1, <2>1, <2>2 DEF Init, RequestTypeOK
<1>4. HandlersOK
  BY <1>1 DEF Init, HandlersOK, Holds, NoTask, Request
<1>5. QED  BY <1>2, <1>3, <1>4 DEF TypeInv

\* An instant a worker reads is between its previous call and now.
LEMMA ClockIsInstant ==
  ASSUME RequestTypeOK, NEW w \in Worker, NEW t \in Clock(w)
  PROVE  t \in Instant /\ since[w] <= t /\ t <= now
BY MaxTimeIsInstant DEF RequestTypeOK, Clock, Instant

\* RegisterEvidence: the item is evidence, and the worker holds its key.
LEMMA RegisterType ==
  ASSUME TypeInv, NEW w \in Worker, NEW id \in EvidenceId, NEW scope \in Scope,
         NEW kind \in OfferedKinds, NEW expiresAt \in OfferedExpiries,
         Register(w, id, scope, kind, expiresAt)
  PROVE  TypeInv'
<1> DEFINE t == [op |-> "registered", batch |-> "", recipient |-> "",
                 key |-> Key(scope)]
<1>1. PICK at \in Clock(w) :
        evidence' = SaveEvidence(evidence,
                      [id |-> id, scope |-> scope, kind |-> kind,
                       expiresAt |-> expiresAt, createdAt |-> at])
  BY DEF Register
<1> DEFINE item == [id |-> id, scope |-> scope, kind |-> kind,
                    expiresAt |-> expiresAt, createdAt |-> at]
<1>2. item \in Evidence
  <2>1. at \in Instant
    BY ClockIsInstant DEF TypeInv
  <2>2. kind \in EvidenceKind /\ expiresAt \in Expiry
    BY Constants
  <2>3. QED  BY <2>1, <2>2 DEF Evidence
<1>3. StoreOK'
  BY <1>2, <1>1, SaveEvidenceType DEF Register, TypeInv, StoreOK, StoreTypeOK
<1>4. t \in Task /\ task' = [task EXCEPT ![w] = t]
  BY Tables DEF Task, Register
<1>5. Holds("audit", t, NoBatch)
  BY DEF Holds
<1>6. RequestTypeOK' /\ HandlersOK'
  BY <1>4, <1>5, ProceedOK DEF Register, TypeInv, PCs
<1>7. QED  BY <1>3, <1>6 DEF TypeInv

\* CreateBatch: the worker holds a submitted batch, or an error.
LEMMA CreateBatchType ==
  ASSUME TypeInv, NEW w \in Worker, NEW id \in BatchId, NEW scope \in Scope,
         NEW list \in OfferedLists, CreateBatch(w, id, scope, list)
  PROVE  TypeInv'
<1> DEFINE t == Request("submitted", id, "")
           ids == NormalizeIDs(list)
           verdict == Verdict(scope, ids, Len(list))
           draft == NewBatch(id, scope, ids, now)
           batch == Transition(draft, "submitted", now)
<1>1. /\ t \in Task /\ task' = [task EXCEPT ![w] = t]
      /\ t.op = "submitted" /\ t.batch = id /\ t.recipient = ""
  <2>1. "submitted" \in Operation
    BY Tables
  <2>2. t \in Task
    BY <2>1 DEF Request, Task
  <2>3. t.op = "submitted" /\ t.batch = id /\ t.recipient = ""
    BY DEF Request
  <2>4. task' = [task EXCEPT ![w] = t]
    BY DEF CreateBatch
  <2>5. QED  BY <2>2, <2>3, <2>4
<1>2. now \in Instant /\ ids \in SUBSET EvidenceId
  <2>1. now \in Instant
    BY NowIsInstant DEF TypeInv
  <2>2. ids \in SUBSET EvidenceId
    BY Constants, NormalizedIDs
  <2>3. QED  BY <2>1, <2>2
<1>3. /\ batch \in Batch /\ batch.id = id /\ batch.state = "submitted"
  <2>1. draft \in Batch /\ draft.id = id
    BY <1>2, NewBatchIsBatch
  <2>2. "submitted" \in BatchState
    BY DEF BatchState
  <2>3. QED  BY <1>2, <2>1, <2>2, TransitionIsBatch
<1>4. CASE verdict = "ok"
  <2>1. PICK next \in {"commit", "submit"} :
          Proceed(w, next, batch) /\ UNCHANGED store
    BY <1>4 DEF CreateBatch
  <2>2. Holds(next, t, batch)
    BY <1>1, <1>3 DEF Holds
  <2>3. RequestTypeOK' /\ HandlersOK'
    BY <1>1, <1>3, <2>1, <2>2, ProceedOK DEF TypeInv, PCs, StoreCall
  <2>4. StoreOK'
    BY <2>1, StoreUnchanged DEF TypeInv
  <2>5. QED  BY <2>3, <2>4 DEF TypeInv
<1>5. CASE verdict # "ok"
  <2>1. Fail(w, verdict)
    BY <1>5 DEF CreateBatch
  <2>2. QED  BY <1>1, <2>1, VerdictIsAnswer, FailOK
<1>6. QED  BY <1>4, <1>5

\* The same for a request that is already known.
LEMMA FailSameTask ==
  ASSUME TypeInv, NEW w \in Worker, NEW answer \in Answer,
         Fail(w, answer), UNCHANGED task
  PROVE  TypeInv'
<1>1. /\ task[w] \in Task /\ task' = [task EXCEPT ![w] = task[w]]
      /\ task[w].recipient # "" => task[w].op \in {"approved", "rejected"}
  BY DEF TypeInv, RequestTypeOK, HandlersOK, Holds
<1>2. QED  BY <1>1, FailOK

\* CommitSubmission stores the batch the worker holds.
LEMMA CommitSubmissionType ==
  ASSUME TypeInv, NEW w \in Worker, CommitSubmission(w)
  PROVE  TypeInv'
<1> DEFINE b == seen[w]
           receipt == [kind |-> ReceiptFor["submitted"], at |-> b.createdAt]
<1>1. /\ pc[w] = "commit" /\ UNCHANGED task
      /\ b \in Batch /\ b.id = task[w].batch /\ b.state = task[w].op
      /\ task[w].op = "submitted"
      /\ task[w].recipient # "" => task[w].op \in {"approved", "rejected"}
  BY DEF CommitSubmission, TypeInv, HandlersOK, Holds
<1>2. b.id \in BatchId /\ b.createdAt \in Instant
  BY <1>1 DEF Batch
<1>3. CASE SubmissionAccepts(batches[b.id])
  <2>1. receipt \in Receipt
    <3>1. ReceiptFor["submitted"] \in ReceiptKind
      BY DEF ReceiptFor, ReceiptKind
    <3>2. QED  BY <1>2, <3>1 DEF Receipt
  <2>2. /\ batches' = [batches EXCEPT ![b.id] = b]
        /\ receipts' = AppendAt(receipts, b.id, receipt)
        /\ Proceed(w, "audit", b)
        /\ UNCHANGED <<evidence, audits, notices>>
    BY <1>3 DEF CommitSubmission
  <2>3. StoreOK'
    BY <1>1, <1>2, <2>1, <2>2, StoreOperators DEF TypeInv, StoreOK, StoreTypeOK
  <2>4. Holds("audit", task[w], b)
    BY <1>1 DEF Holds
  <2>5. QED  BY <1>1, <2>2, <2>3, <2>4, ProceedSameTask DEF TypeInv, PCs
<1>4. CASE ~SubmissionAccepts(batches[b.id])
  <2>1. Fail(w, "conflict")
    BY <1>4 DEF CommitSubmission
  <2>2. QED  BY <1>1, <2>1, FailSameTask DEF Answer
<1>5. QED  BY <1>3, <1>4

\* SaveBatch of a new batch stores what the worker holds, too.
LEMMA SubmitBatchType ==
  ASSUME TypeInv, NEW w \in Worker, SubmitBatch(w)
  PROVE  TypeInv'
<1> DEFINE b == seen[w]
<1>1. /\ pc[w] = "submit" /\ UNCHANGED task
      /\ b \in Batch /\ b.id = task[w].batch /\ b.state = task[w].op
      /\ task[w].op = "submitted"
      /\ task[w].recipient # "" => task[w].op \in {"approved", "rejected"}
  BY DEF SubmitBatch, TypeInv, HandlersOK, Holds
<1>2. b.id \in BatchId
  BY <1>1 DEF Batch
<1>3. CASE SaveAccepts(batches[b.id], b)
  <2>1. /\ batches' = [batches EXCEPT ![b.id] = b]
        /\ Proceed(w, "receipt", b)
        /\ UNCHANGED <<evidence, receipts, audits, notices>>
    BY <1>3 DEF SubmitBatch
  <2>2. StoreOK'
    BY <1>1, <1>2, <2>1 DEF TypeInv, StoreOK, StoreTypeOK
  <2>3. Holds("receipt", task[w], b)
    BY <1>1 DEF Holds
  <2>4. QED  BY <1>1, <2>1, <2>2, <2>3, ProceedSameTask
             DEF TypeInv, PCs, StoreCall
<1>4. CASE ~SaveAccepts(batches[b.id], b)
  <2>1. Fail(w, "conflict")
    BY <1>4 DEF SubmitBatch
  <2>2. QED  BY <1>1, <2>1, FailSameTask DEF Answer
<1>5. QED  BY <1>3, <1>4

\* StartReview: the worker holds the batch it found.
LEMMA StartReviewType ==
  ASSUME TypeInv, NEW w \in Worker, NEW id \in BatchId, StartReview(w, id)
  PROVE  TypeInv'
<1> DEFINE t == Request("under_review", id, "")
<1>1. /\ t \in Task /\ task' = [task EXCEPT ![w] = t]
      /\ t.op = "under_review" /\ t.batch = id /\ t.recipient = ""
  <2>1. "under_review" \in Operation
    BY Tables
  <2>2. t \in Task
    BY <2>1 DEF Request, Task
  <2>3. t.op = "under_review" /\ t.batch = id /\ t.recipient = ""
    BY DEF Request
  <2>4. task' = [task EXCEPT ![w] = t]
    BY DEF StartReview
  <2>5. QED  BY <2>2, <2>3, <2>4
<1>2. CASE batches[id] = NoBatch
  <2>1. Fail(w, "not_found")
    BY <1>2 DEF StartReview
  <2>2. QED  BY <1>1, <2>1, FailOK DEF Answer
<1>3. CASE batches[id] # NoBatch
  <2>1. Proceed(w, "validate", batches[id]) /\ UNCHANGED store
    BY <1>3 DEF StartReview
  <2>2. batches[id] \in Batch /\ batches[id].id = id
    BY <1>3 DEF TypeInv, StoreOK, StoreTypeOK
  <2>3. Holds("validate", t, batches[id])
    BY <1>1, <2>2 DEF Holds
  <2>4. QED  BY <1>1, <2>1, <2>2, <2>3, ProceedOK, StoreUnchanged
             DEF TypeInv, PCs, StoreCall
<1>4. QED  BY <1>2, <1>3

\* ValidateBatch lets the batch go, or answers with its error.
LEMMA ValidateBatchType ==
  ASSUME TypeInv, NEW w \in Worker, ValidateBatch(w)
  PROVE  TypeInv'
<1> DEFINE ids == seen[w].evidence
           verdict == Verdict(seen[w].scope, ids, Cardinality(ids))
<1>1. /\ pc[w] = "validate" /\ UNCHANGED task
      /\ task[w].op = "under_review" /\ task[w].batch \in BatchId
      /\ task[w].recipient # "" => task[w].op \in {"approved", "rejected"}
  BY DEF ValidateBatch, TypeInv, HandlersOK, Holds
<1>2. CASE verdict = "ok"
  <2>1. Proceed(w, "find", NoBatch) /\ UNCHANGED store
    BY <1>2 DEF ValidateBatch
  <2>2. Holds("find", task[w], NoBatch)
    BY <1>1 DEF Holds
  <2>3. QED  BY <1>1, <2>1, <2>2, ProceedSameTask, StoreUnchanged
             DEF TypeInv, PCs, StoreCall
<1>3. CASE verdict # "ok"
  <2>1. Fail(w, verdict)
    BY <1>3 DEF ValidateBatch
  <2>2. QED  BY <1>1, <2>1, VerdictIsAnswer, FailSameTask
<1>4. QED  BY <1>2, <1>3

\* FindBatch and the check of the transition, for any request to move a batch.
LEMMA LoadType ==
  ASSUME TypeInv, NEW w \in Worker, NEW t \in Task, Load(w, t),
         t.op \in Moves, t.batch \in BatchId,
         t.recipient # "" => t.op \in {"approved", "rejected"}
  PROVE  TypeInv'
<1> DEFINE b == batches[t.batch]
<1>1. task' = [task EXCEPT ![w] = t]
  BY DEF Load
<1>2. CASE b = NoBatch
  BY <1>1, <1>2, FailOK DEF Load, Answer
<1>3. CASE b # NoBatch /\ ~CanTransition(b, t.op)
  BY <1>1, <1>3, FailOK DEF Load, Answer
<1>4. CASE b # NoBatch /\ CanTransition(b, t.op)
  <2>1. Proceed(w, "save", b) /\ UNCHANGED store
    BY <1>4 DEF Load
  <2>2. b \in Batch /\ b.id = t.batch
    BY <1>4 DEF TypeInv, StoreOK, StoreTypeOK
  <2>3. Holds("save", t, b)
    BY <1>4, <2>2 DEF Holds
  <2>4. QED  BY <1>1, <2>1, <2>2, <2>3, ProceedOK, StoreUnchanged
             DEF TypeInv, PCs, StoreCall
<1>5. QED  BY <1>2, <1>3, <1>4

\* The second FindBatch of StartReview.
LEMMA FindBatchType ==
  ASSUME TypeInv, NEW w \in Worker, FindBatch(w)
  PROVE  TypeInv'
<1>1. /\ task[w] \in Task /\ task[w].op = "under_review"
      /\ task[w].batch \in BatchId
      /\ task[w].recipient # "" => task[w].op \in {"approved", "rejected"}
  BY DEF FindBatch, TypeInv, RequestTypeOK, HandlersOK, Holds
<1>2. Load(w, task[w])
  BY DEF FindBatch
<1>3. QED  BY <1>1, <1>2, LoadType DEF Moves

\* DecideBatch: a recipient comes with a decision only.
LEMMA DecideBatchType ==
  ASSUME TypeInv, NEW w \in Worker, NEW id \in BatchId, NEW to,
         NEW recipient \in Recipient \cup {""}, DecideBatch(w, id, to, recipient)
  PROVE  TypeInv'
<1> DEFINE t == Request(to, id, recipient)
<1>1. Load(w, t) /\ to \in {"approved", "rejected"}
  BY DEF DecideBatch
<1>2. to \in Operation
  BY <1>1, Tables
<1>3. t \in Task
  BY <1>2 DEF Request, Task
<1>4. t.op = to /\ t.batch = id
  BY DEF Request
<1>5. QED  BY <1>1, <1>3, <1>4, LoadType DEF Moves

\* CancelBatch is a request without a recipient.
LEMMA CancelBatchType ==
  ASSUME TypeInv, NEW w \in Worker, NEW id \in BatchId, CancelBatch(w, id)
  PROVE  TypeInv'
<1> DEFINE t == Request("cancelled", id, "")
<1>1. Load(w, t)
  BY DEF CancelBatch
<1>2. "cancelled" \in Operation
  BY Tables
<1>3. t \in Task
  BY <1>2 DEF Request, Task
<1>4. t.op = "cancelled" /\ t.batch = id /\ t.recipient = ""
  BY DEF Request
<1>5. QED  BY <1>1, <1>3, <1>4, LoadType DEF Moves

\* SaveBatch stores the transition of a batch, which is a batch.
LEMMA SaveBatchType ==
  ASSUME TypeInv, NEW w \in Worker, SaveBatch(w)
  PROVE  TypeInv'
<1>1. /\ UNCHANGED task
      /\ seen[w] \in Batch /\ seen[w].id = task[w].batch
      /\ task[w].op \in Moves
      /\ task[w].recipient # "" => task[w].op \in {"approved", "rejected"}
  BY DEF SaveBatch, TypeInv, HandlersOK, Holds
<1>2. PICK t \in Clock(w) :
        LET b == Transition(seen[w], task[w].op, t)
        IN IF SaveAccepts(batches[b.id], b)
           THEN /\ batches' = [batches EXCEPT ![b.id] = b]
                /\ Proceed(w, "receipt", b)
                /\ UNCHANGED <<evidence, receipts, audits, notices>>
           ELSE Fail(w, "conflict")
  BY DEF SaveBatch
<1> DEFINE b == Transition(seen[w], task[w].op, t)
<1>3. b \in Batch /\ b.id = task[w].batch /\ b.state = task[w].op
  <2>1. t \in Instant
    BY ClockIsInstant DEF TypeInv
  <2>2. task[w].op \in BatchState
    BY <1>1 DEF Moves, BatchState
  <2>3. QED  BY <1>1, <2>1, <2>2, TransitionIsBatch
<1>4. b.id \in BatchId
  BY <1>3 DEF Batch
<1>5. CASE SaveAccepts(batches[b.id], b)
  <2>1. /\ batches' = [batches EXCEPT ![b.id] = b]
        /\ Proceed(w, "receipt", b)
        /\ UNCHANGED <<evidence, receipts, audits, notices>>
    BY <1>2, <1>5
  <2>2. StoreOK'
    BY <1>3, <1>4, <2>1 DEF TypeInv, StoreOK, StoreTypeOK
  <2>3. Holds("receipt", task[w], b)
    BY <1>1, <1>3 DEF Holds
  <2>4. QED  BY <1>1, <1>3, <2>1, <2>2, <2>3, ProceedSameTask
             DEF TypeInv, PCs, StoreCall
<1>6. CASE ~SaveAccepts(batches[b.id], b)
  <2>1. Fail(w, "conflict")
    BY <1>2, <1>6
  <2>2. QED  BY <1>1, <2>1, FailSameTask DEF Answer
<1>7. QED  BY <1>5, <1>6

\* AppendReceipt: every operation that moves a batch has a receipt.
LEMMA AppendReceiptType ==
  ASSUME TypeInv, NEW w \in Worker, AppendReceipt(w)
  PROVE  TypeInv'
<1>1. /\ UNCHANGED task
      /\ seen[w] \in Batch /\ seen[w].id = task[w].batch
      /\ seen[w].state = task[w].op /\ task[w].op \in Moves \cup {"submitted"}
      /\ task[w].recipient # "" => task[w].op \in {"approved", "rejected"}
  BY DEF AppendReceipt, TypeInv, HandlersOK, Holds
<1>2. seen[w].id \in BatchId
  BY <1>1 DEF Batch
<1>3. PICK t \in Clock(w) \cup {seen[w].createdAt} :
        receipts' = AppendAt(receipts, seen[w].id,
                             [kind |-> ReceiptFor[task[w].op], at |-> t])
  BY DEF AppendReceipt
<1>4. [kind |-> ReceiptFor[task[w].op], at |-> t] \in Receipt
  <2>1. t \in Instant
    <3>1. seen[w].createdAt \in Instant
      BY <1>1 DEF Batch
    <3>2. QED  BY <3>1, ClockIsInstant DEF TypeInv
  <2>2. ReceiptFor[task[w].op] \in ReceiptKind
    BY <1>1, Tables DEF Moves
  <2>3. QED  BY <2>1, <2>2 DEF Receipt
<1>5. /\ Proceed(w, "audit", seen[w])
      /\ UNCHANGED <<evidence, batches, audits, notices>>
  BY DEF AppendReceipt
<1>6. receipts' \in [BatchId -> Seq(Receipt)]
  BY <1>2, <1>3, <1>4, StoreOperators DEF TypeInv, StoreOK, StoreTypeOK
<1>7. StoreOK'
  BY <1>5, <1>6 DEF TypeInv, StoreOK, StoreTypeOK
<1>8. Holds("audit", task[w], seen[w])
  BY <1>1 DEF Holds
<1>9. QED  BY <1>1, <1>5, <1>7, <1>8, ProceedSameTask DEF TypeInv, PCs

\* AppendAudit: the trail of the scope exists, and the event has an action.
LEMMA AppendAuditType ==
  ASSUME TypeInv, NEW w \in Worker, AppendAudit(w)
  PROVE  TypeInv'
<1> DEFINE t == task[w]
           b == seen[w]
           key == IF t.op = "registered" THEN t.key ELSE Key(b.scope)
           event(at) == [batch |-> t.batch, action |-> AuditActionFor[t.op],
                         at |-> at]
           next == IF t.recipient # "" THEN "notify" ELSE "ok"
<1>1. /\ UNCHANGED task /\ t \in Task
      /\ t.recipient # "" => t.op \in {"approved", "rejected"}
      /\ \/ t.op = "registered" /\ t.key \in {Key(scope) : scope \in Scope}
         \/ /\ t.op \in Moves \cup {"submitted"}
            /\ b \in Batch /\ b.id = t.batch /\ b.state = t.op
  BY DEF AppendAudit, TypeInv, RequestTypeOK, HandlersOK, Holds
<1>2. key \in {Key(scope) : scope \in Scope}
  BY <1>1 DEF Moves, Batch
<1>3. ASSUME NEW at \in Clock(w)
      PROVE  event(at) \in AuditEvent
  <2>1. t.op \in Operation
    BY <1>1, Tables DEF Moves
  <2>2. t.batch \in BatchId \cup {""}
    BY <1>1 DEF Task
  <2>3. at \in Instant
    BY ClockIsInstant DEF TypeInv
  <2>4. QED  BY <2>1, <2>2, <2>3 DEF AuditEvent
<1>4. /\ \/ audits' = audits
         \/ \E at \in Clock(w) : audits' = AppendAt(audits, key, event(at))
      /\ Proceed(w, next, b)
      /\ UNCHANGED <<evidence, batches, receipts, notices>>
  BY DEF AppendAudit
<1>5. audits' \in [{Key(scope) : scope \in Scope} -> Seq(AuditEvent)]
  <2>1. audits \in [{Key(scope) : scope \in Scope} -> Seq(AuditEvent)]
    BY DEF TypeInv, StoreOK, StoreTypeOK
  <2>2. CASE audits' = audits
    BY <2>1, <2>2
  <2>3. CASE \E at \in Clock(w) : audits' = AppendAt(audits, key, event(at))
    <3>1. PICK at \in Clock(w) : audits' = AppendAt(audits, key, event(at))
      BY <2>3
    <3>2. event(at) \in AuditEvent
      BY <1>3
    <3> HIDE DEF key, event
    <3>3. QED  BY <1>2, <2>1, <3>1, <3>2, StoreOperators
  <2>4. QED  BY <1>4, <2>2, <2>3
<1>6. StoreOK'
  BY <1>4, <1>5 DEF TypeInv, StoreOK, StoreTypeOK
<1>7. Holds(next, t, b)
  BY <1>1 DEF Holds
<1>8. next \in PCs /\ b \in Batch \cup {NoBatch}
  BY DEF PCs, StoreCall, Answer, TypeInv, RequestTypeOK
<1>9. QED  BY <1>1, <1>4, <1>6, <1>7, <1>8, ProceedSameTask DEF TypeInv

\* queueNotification: only decisions get here, and they have an event.
LEMMA QueueNotificationType ==
  ASSUME TypeInv, NEW w \in Worker, QueueNotification(w)
  PROVE  TypeInv'
<1>1. /\ UNCHANGED task /\ task[w] \in Task
      /\ seen[w] \in Batch
      /\ task[w].recipient # "" /\ task[w].op \in {"approved", "rejected"}
  BY DEF QueueNotification, TypeInv, RequestTypeOK, HandlersOK, Holds
<1>2. PICK t \in Clock(w) :
        notices' = QueueNotice(notices,
                     [batch |-> seen[w].id, recipient |-> task[w].recipient,
                      event |-> AuditActionFor[task[w].op],
                      state |-> "pending", attempts |-> 0, createdAt |-> t])
  BY DEF QueueNotification
<1> DEFINE notice == [batch |-> seen[w].id, recipient |-> task[w].recipient,
                      event |-> AuditActionFor[task[w].op],
                      state |-> "pending", attempts |-> 0, createdAt |-> t]
<1>3. notice \in Notification
  <2>1. t \in Instant
    BY ClockIsInstant DEF TypeInv
  <2>2. AuditActionFor[task[w].op] \in NoticeEvent
    BY <1>1, Tables
  <2>3. task[w].recipient \in Recipient /\ seen[w].id \in BatchId
    BY <1>1 DEF Task, Batch
  <2>4. t \in Nat
    BY <2>1 DEF Instant
  <2>5. QED  BY <2>2, <2>3, <2>4 DEF Notification, Instant
<1>4. /\ Proceed(w, "ok", seen[w])
      /\ UNCHANGED <<evidence, batches, receipts, audits>>
  BY DEF QueueNotification
<1>5. notices' \in Seq(Notification)
  BY <1>2, <1>3, StoreOperators DEF TypeInv, StoreOK, StoreTypeOK
<1>6. StoreOK'
  BY <1>4, <1>5 DEF TypeInv, StoreOK, StoreTypeOK
<1>7. Holds("ok", task[w], seen[w])
  BY <1>1 DEF Holds
<1>8. QED  BY <1>1, <1>4, <1>6, <1>7, ProceedSameTask DEF TypeInv, PCs, Answer

\* A call under a cancelled context ends the request.
LEMMA AbortType ==
  ASSUME TypeInv, NEW w \in Worker, Abort(w)
  PROVE  TypeInv'
BY FailSameTask DEF Abort, Answer

\* A worker that has answered holds nothing.
LEMMA ReplyType ==
  ASSUME TypeInv, NEW w \in Worker, Reply(w)
  PROVE  TypeInv'
<1>1. StoreOK'
  BY StoreUnchanged DEF Reply, TypeInv
<1>2. RequestTypeOK'
  <2>1. NoTask \in Task
    BY RequestsAreTasks DEF NoTask
  <2>2. 0 \in 0 .. now
    BY NowIsInstant DEF TypeInv, Instant
  <2>3. QED  BY <2>1, <2>2 DEF Reply, TypeInv, RequestTypeOK
<1>3. ASSUME NEW v \in Worker
      PROVE  Holds(pc'[v], task'[v], seen'[v])
  <2>1. CASE v = w
    <3>1. Holds("idle", NoTask, NoBatch)
      BY DEF Holds, NoTask, Request
    <3>2. pc'[v] = "idle" /\ task'[v] = NoTask /\ seen'[v] = NoBatch
      BY <2>1 DEF Reply, TypeInv, RequestTypeOK
    <3>3. QED  BY <3>1, <3>2
  <2>2. CASE v # w
    <3>1. pc'[v] = pc[v] /\ task'[v] = task[v] /\ seen'[v] = seen[v]
      BY <2>2 DEF Reply, TypeInv, RequestTypeOK
    <3>2. QED  BY <3>1 DEF TypeInv, HandlersOK
  <2>3. QED  BY <2>1, <2>2
<1>4. QED  BY <1>1, <1>2, <1>3 DEF TypeInv, HandlersOK

\* The steps that move no worker on: a client leaves, time passes, nothing.
LEMMA OtherStepsType ==
  ASSUME TypeInv,
         \/ \E w \in Worker : Disconnect(w)
         \/ Tick
         \/ UNCHANGED vars
  PROVE  TypeInv'
<1>1. StoreOK' /\ UNCHANGED <<pc, task, seen, since>>
  BY StoreUnchanged DEF TypeInv, Disconnect, Tick, vars, request
<1>2. HandlersOK'
  BY <1>1 DEF TypeInv, HandlersOK
<1>3. now' \in 0 .. MaxTime /\ now <= now'
  BY MaxTimeIsInstant DEF TypeInv, RequestTypeOK, Disconnect, Tick, vars
<1>4. since' \in [Worker -> 0 .. now']
  <2>1. 0 .. now \subseteq 0 .. now'
    BY <1>3, MaxTimeIsInstant DEF TypeInv, RequestTypeOK
  <2>2. QED  BY <1>1, <2>1 DEF TypeInv, RequestTypeOK
<1>5. gone' \in [Worker -> BOOLEAN]
  BY DEF TypeInv, RequestTypeOK, Disconnect, Tick, vars, request
<1>6. RequestTypeOK'
  BY <1>1, <1>3, <1>4, <1>5 DEF TypeInv, RequestTypeOK
<1>7. QED  BY <1>1, <1>2, <1>6 DEF TypeInv

\* Every step keeps the invariant: one case per action.
LEMMA TypeInvStep == TypeInv /\ [Next]_vars => TypeInv'
<1> SUFFICES ASSUME TypeInv, [Next]_vars PROVE TypeInv'
  OBVIOUS
<1>1. CASE \E w \in Worker : Arrive(w)
  <2>1. PICK w \in Worker : Arrive(w)
    BY <1>1
  <2>2. CASE \E id \in EvidenceId, scope \in Scope, kind \in OfferedKinds,
                expiresAt \in OfferedExpiries :
               Register(w, id, scope, kind, expiresAt)
    BY <2>2, RegisterType
  <2>3. CASE \E id \in BatchId, scope \in Scope, list \in OfferedLists :
               CreateBatch(w, id, scope, list)
    BY <2>3, CreateBatchType
  <2>4. CASE \E id \in BatchId : StartReview(w, id)
    BY <2>4, StartReviewType
  <2>5. CASE \E id \in BatchId, to \in BatchState,
                recipient \in Recipient \cup {""} :
               DecideBatch(w, id, to, recipient)
    BY <2>5, DecideBatchType
  <2>6. CASE \E id \in BatchId : CancelBatch(w, id)
    BY <2>6, CancelBatchType
  <2>7. QED  BY <2>1, <2>2, <2>3, <2>4, <2>5, <2>6 DEF Arrive
<1>2. CASE \E w \in Worker : Serve(w)
  <2>1. PICK w \in Worker : Serve(w)
    BY <1>2
  <2>1a. CASE SubmitBatch(w)      BY <2>1a, SubmitBatchType
  <2>2. CASE CommitSubmission(w)  BY <2>2, CommitSubmissionType
  <2>3. CASE ValidateBatch(w)     BY <2>3, ValidateBatchType
  <2>4. CASE FindBatch(w)         BY <2>4, FindBatchType
  <2>5. CASE SaveBatch(w)         BY <2>5, SaveBatchType
  <2>6. CASE AppendReceipt(w)     BY <2>6, AppendReceiptType
  <2>7. CASE AppendAudit(w)       BY <2>7, AppendAuditType
  <2>8. CASE QueueNotification(w) BY <2>8, QueueNotificationType
  <2>9. CASE Abort(w)             BY <2>9, AbortType
  <2>10. CASE Reply(w)            BY <2>10, ReplyType
  <2>11. QED  BY <2>1, <2>1a, <2>2, <2>3, <2>4, <2>5, <2>6, <2>7, <2>8, <2>9, <2>10
              DEF Serve
<1>3. CASE (\E w \in Worker : Disconnect(w)) \/ Tick \/ UNCHANGED vars
  BY <1>3, OtherStepsType
<1>4. QED  BY <1>1, <1>2, <1>3 DEF Next

\* The store and the handlers always hold values of their kinds, with what
\* each handler holds at each of its store calls.
THEOREM TypeInvariant == Spec => []TypeInv
<1>1. TypeInv /\ [Next]_vars => TypeInv'
  BY TypeInvStep
<1>2. QED  BY TypeInvInit, <1>1, PTL DEF Spec

\* In particular the type invariant that TLC checks.
THEOREM TypeCorrect == Spec => []TypeOK
<1>1. TypeInv => TypeOK
  BY DEF TypeInv, StoreOK, TypeOK
<1>2. QED  BY <1>1, TypeInvariant, PTL

-----------------------------------------------------------------------------
(***************************************************************************)
(* No request loses another's update: NoLostUpdate.                        *)
(*                                                                         *)
(* A handler transitions a copy that may be stale by the time it is saved. *)
(* What makes this safe is an invariant on the copies, Versions: a copy    *)
(* about to be saved is an older version of the stored batch, or the very  *)
(* version that is stored.  The revision check of SaveBatch turns away the *)
(* first, so what it accepts is one transition from the stored version.    *)
(***************************************************************************)

\* A copy is the stored version, or an older one.
IsVersionOf(copy, stored) ==
  /\ stored # NoBatch
  /\ copy.revision <= stored.revision
  /\ copy.revision = stored.revision => copy = stored

Versions ==
  /\ \A id \in BatchId : batches[id] # NoBatch =>
       batches[id].revision >= 2 /\ batches[id].updatedAt <= now
  /\ \A w \in Worker : pc[w] \in {"commit", "submit"} =>
       seen[w].revision = 2 /\ seen[w].updatedAt <= now
  /\ \A w \in Worker : pc[w] = "save" =>
       /\ IsVersionOf(seen[w], batches[seen[w].id])
       /\ seen[w].updatedAt <= since[w]

\* What one step does to the stored batches.
LegalStep ==
  \A id \in BatchId : batches'[id] # batches[id] =>
    OneLegalStep(batches[id], batches'[id])

-----------------------------------------------------------------------------
\* NoBatch is not a batch.
LEMMA BatchIsNotNone == \A b \in Batch : b # NoBatch
BY DomainAssumption DEF DomainAssumption

\* A step that stores no batch: its worker holds nothing, a new batch, or
\* what it has just read.
LEMMA UnstoredVersions ==
  ASSUME TypeInv, Versions, NEW w \in Worker, NEW next, NEW b,
         Proceed(w, next, b), UNCHANGED batches,
         next \in {"commit", "submit"} => b.revision = 2 /\ b.updatedAt <= now,
         next = "save" => /\ b \in Batch /\ b = batches[b.id]
                          /\ b.updatedAt <= now
  PROVE  Versions' /\ LegalStep
<1>1. UNCHANGED now
  BY DEF Proceed
<1>2. \A v \in Worker \ {w} :
        pc'[v] = pc[v] /\ seen'[v] = seen[v] /\ since'[v] = since[v]
  BY DEF TypeInv, RequestTypeOK, Proceed
<1>3. pc'[w] = next /\ seen'[w] = b /\ since'[w] = now
  BY DEF TypeInv, RequestTypeOK, Proceed
<1>4. \A id \in BatchId : batches'[id] # NoBatch =>
        batches'[id].revision >= 2 /\ batches'[id].updatedAt <= now'
  BY <1>1 DEF Versions
<1>5. ASSUME NEW v \in Worker, pc'[v] \in {"commit", "submit"}
      PROVE  seen'[v].revision = 2 /\ seen'[v].updatedAt <= now'
  BY <1>1, <1>2, <1>3, <1>5 DEF Versions
<1>6. ASSUME NEW v \in Worker, pc'[v] = "save"
      PROVE  /\ IsVersionOf(seen'[v], batches'[seen'[v].id])
             /\ seen'[v].updatedAt <= since'[v]
  <2>1. CASE v = w
    <3>1. b \in Batch /\ b = batches[b.id] /\ b.updatedAt <= now
      BY <1>3, <1>6, <2>1
    <3>2. b.revision \in Nat
      BY <3>1 DEF Batch
    <3>3. IsVersionOf(b, batches[b.id])
      BY <3>1, <3>2, BatchIsNotNone DEF IsVersionOf
    <3>4. QED  BY <1>3, <2>1, <3>1, <3>3
  <2>2. CASE v # w
    BY <1>2, <1>6, <2>2 DEF Versions
  <2>3. QED  BY <2>1, <2>2
<1>7. Versions'
  BY <1>4, <1>5, <1>6 DEF Versions
<1>8. QED  BY <1>7 DEF LegalStep

\* A step that stores a batch newer than the one it replaces leaves every
\* other worker with a version of it.
LEMMA StoredVersions ==
  ASSUME TypeInv, Versions, NEW w \in Worker, NEW next, NEW b \in Batch,
         Proceed(w, next, b), next \notin {"commit", "submit", "save"},
         batches' = [batches EXCEPT ![b.id] = b],
         b.revision >= 2, b.updatedAt <= now,
         batches[b.id] # NoBatch => batches[b.id].revision < b.revision
  PROVE  Versions'
<1>1. UNCHANGED now /\ b.id \in BatchId
  BY DEF Proceed, Batch
<1>2. \A v \in Worker \ {w} :
        pc'[v] = pc[v] /\ seen'[v] = seen[v] /\ since'[v] = since[v]
  BY DEF TypeInv, RequestTypeOK, Proceed
<1>3. pc'[w] = next
  BY DEF TypeInv, RequestTypeOK, Proceed
<1>4. /\ batches'[b.id] = b
      /\ \A id \in BatchId \ {b.id} : batches'[id] = batches[id]
  BY <1>1 DEF TypeInv, StoreOK, StoreTypeOK
<1>5. \A id \in BatchId : batches'[id] # NoBatch =>
        batches'[id].revision >= 2 /\ batches'[id].updatedAt <= now'
  BY <1>1, <1>4 DEF Versions
<1>6. \A v \in Worker : pc'[v] \in {"commit", "submit"} =>
        seen'[v].revision = 2 /\ seen'[v].updatedAt <= now'
  BY <1>1, <1>2, <1>3 DEF Versions
<1>7. ASSUME NEW v \in Worker, pc'[v] = "save"
      PROVE  /\ IsVersionOf(seen'[v], batches'[seen'[v].id])
             /\ seen'[v].updatedAt <= since'[v]
  <2> DEFINE c == seen[v]
             stored == batches[c.id]
  <2>1. v # w /\ pc[v] = "save" /\ seen'[v] = c /\ since'[v] = since[v]
    BY <1>2, <1>3, <1>7
  <2>2. IsVersionOf(c, stored) /\ c.updatedAt <= since[v]
    BY <2>1 DEF Versions
  <2>3. c \in Batch /\ c.id \in BatchId
    BY <2>1 DEF TypeInv, HandlersOK, Holds, Batch
  <2>4. IsVersionOf(c, batches'[c.id])
    <3>1. CASE c.id # b.id
      BY <1>4, <2>2, <2>3, <3>1
    <3>2. CASE c.id = b.id
      <4>1. stored \in Batch /\ stored.revision < b.revision
        BY <2>2, <2>3, <3>2 DEF IsVersionOf, TypeInv, StoreOK, StoreTypeOK
      <4>2. c.revision <= stored.revision
        BY <2>2 DEF IsVersionOf
      <4>3. c.revision \in Nat /\ stored.revision \in Nat /\ b.revision \in Nat
        BY <2>3, <4>1 DEF Batch
      <4>4. c.revision < b.revision
        BY <4>1, <4>2, <4>3
      <4>5. IsVersionOf(c, b)
        BY <4>3, <4>4, BatchIsNotNone DEF IsVersionOf
      <4>6. QED  BY <1>4, <3>2, <4>5
    <3>3. QED  BY <3>1, <3>2
  <2>5. QED  BY <2>1, <2>2, <2>4
<1>8. QED  BY <1>5, <1>6, <1>7 DEF Versions

-----------------------------------------------------------------------------
\* The steps that prepare a batch or store one, and the rest.

\* CreateBatch prepares revision 2.
LEMMA CreateBatchVersions ==
  ASSUME TypeInv, Versions, NEW w \in Worker, NEW id \in BatchId,
         NEW scope \in Scope, NEW list \in OfferedLists,
         CreateBatch(w, id, scope, list)
  PROVE  Versions' /\ LegalStep
<1> DEFINE ids == NormalizeIDs(list)
           verdict == Verdict(scope, ids, Len(list))
           draft == NewBatch(id, scope, ids, now)
           batch == Transition(draft, "submitted", now)
<1>1. now \in Nat
  BY NowIsInstant DEF TypeInv, Instant
<1>2. batch.revision = 2 /\ batch.updatedAt <= now
  BY <1>1 DEF Transition, NewBatch
<1>3. CASE verdict = "ok"
  <2>1. PICK next \in {"commit", "submit"} :
          Proceed(w, next, batch) /\ UNCHANGED batches
    BY <1>3 DEF CreateBatch, store
  <2>2. QED  BY <1>2, <2>1, UnstoredVersions
<1>4. CASE verdict # "ok"
  <2>1. Proceed(w, verdict, NoBatch) /\ UNCHANGED batches
    BY <1>4 DEF CreateBatch, Fail, store
  <2>2. verdict \notin {"commit", "submit", "save"}
    BY VerdictIsAnswer DEF Answer
  <2>3. QED  BY <2>1, <2>2, UnstoredVersions
<1>5. QED  BY <1>3, <1>4

\* FindBatch before a transition reads the stored version.
LEMMA LoadVersions ==
  ASSUME TypeInv, Versions, NEW w \in Worker, NEW t, t.batch \in BatchId,
         Load(w, t)
  PROVE  Versions' /\ LegalStep
<1> DEFINE b == batches[t.batch]
<1>1. CASE b = NoBatch \/ ~CanTransition(b, t.op)
  <2>1. PICK answer \in {"not_found", "invalid_state"} : Fail(w, answer)
    BY <1>1 DEF Load
  <2>2. Proceed(w, answer, NoBatch) /\ UNCHANGED batches
    BY <2>1 DEF Fail, store
  <2>3. QED  BY <2>2, UnstoredVersions
<1>2. CASE b # NoBatch /\ CanTransition(b, t.op)
  <2>1. Proceed(w, "save", b) /\ UNCHANGED batches
    BY <1>2 DEF Load, store
  <2>2. b \in Batch /\ b = batches[b.id]
    BY <1>2 DEF TypeInv, StoreOK, StoreTypeOK
  <2>3. b.updatedAt <= now
    BY <1>2 DEF Versions
  <2>4. QED  BY <2>1, <2>2, <2>3, UnstoredVersions
<1>3. QED  BY <1>1, <1>2

\* CommitSubmission stores a batch where there was none.
LEMMA CommitSubmissionVersions ==
  ASSUME TypeInv, Versions, NEW w \in Worker, CommitSubmission(w)
  PROVE  Versions' /\ LegalStep
<1> DEFINE b == seen[w]
<1>1. /\ b \in Batch /\ b.id \in BatchId /\ b.state = "submitted"
      /\ b.revision = 2 /\ b.updatedAt <= now
  BY DEF CommitSubmission, TypeInv, HandlersOK, Holds, Batch, Versions
<1>2. CASE batches[b.id] = NoBatch
  <2>1. Proceed(w, "audit", b) /\ batches' = [batches EXCEPT ![b.id] = b]
    BY <1>2 DEF CommitSubmission, SubmissionAccepts
  <2>2. Versions'
    <3>1. "audit" \notin {"commit", "submit", "save"}
      OBVIOUS
    <3>2. b.revision >= 2
      BY <1>1
    <3>3. QED  BY <1>1, <1>2, <2>1, <3>1, <3>2, StoredVersions, Zenon
  <2>3. LegalStep
    BY <1>1, <1>2, <2>1
       DEF LegalStep, OneLegalStep, TypeInv, StoreOK, StoreTypeOK
  <2>4. QED  BY <2>2, <2>3
<1>3. CASE batches[b.id] # NoBatch
  <2>1. Proceed(w, "conflict", NoBatch) /\ UNCHANGED batches
    BY <1>3 DEF CommitSubmission, SubmissionAccepts, Fail, store
  <2>2. QED  BY <2>1, UnstoredVersions
<1>4. QED  BY <1>2, <1>3

\* SaveBatch of a new batch is refused where there is one: it is older than any
\* stored.
LEMMA SubmitBatchVersions ==
  ASSUME TypeInv, Versions, NEW w \in Worker, SubmitBatch(w)
  PROVE  Versions' /\ LegalStep
<1> DEFINE b == seen[w]
<1>1. /\ b \in Batch /\ b.id \in BatchId /\ b.state = "submitted"
      /\ b.revision = 2 /\ b.updatedAt <= now
  BY DEF SubmitBatch, TypeInv, HandlersOK, Holds, Batch, Versions
<1>2. CASE batches[b.id] = NoBatch
  <2>1. Proceed(w, "receipt", b) /\ batches' = [batches EXCEPT ![b.id] = b]
    BY <1>2 DEF SubmitBatch, SaveAccepts
  <2>2. Versions'
    <3>1. "receipt" \notin {"commit", "submit", "save"} /\ b.revision >= 2
      BY <1>1
    <3>2. QED  BY <1>1, <1>2, <2>1, <3>1, StoredVersions, Zenon
  <2>3. LegalStep
    BY <1>1, <1>2, <2>1
       DEF LegalStep, OneLegalStep, TypeInv, StoreOK, StoreTypeOK
  <2>4. QED  BY <2>2, <2>3
<1>3. CASE batches[b.id] # NoBatch
  <2>1. batches[b.id].revision >= b.revision
    BY <1>1, <1>3 DEF Versions
  <2>2. Proceed(w, "conflict", NoBatch) /\ UNCHANGED batches
    BY <1>3, <2>1 DEF SubmitBatch, SaveAccepts, Fail, store
  <2>3. QED  BY <2>2, UnstoredVersions
<1>4. QED  BY <1>2, <1>3

\* SaveBatch is refused, or takes one transition from the stored version.
LEMMA SaveBatchVersions ==
  ASSUME TypeInv, Versions, NEW w \in Worker, SaveBatch(w)
  PROVE  Versions' /\ LegalStep
<1> DEFINE c == seen[w]
           op == task[w].op
           stored == batches[c.id]
<1>1. /\ c \in Batch /\ c.id \in BatchId
      /\ op \in BatchState /\ CanTransition(c, op)
      /\ IsVersionOf(c, stored) /\ c.updatedAt <= since[w]
  BY DEF SaveBatch, TypeInv, HandlersOK, Holds, Batch, Versions, Moves, BatchState
<1>2. PICK t \in Clock(w) :
        LET b == Transition(c, op, t)
        IN IF SaveAccepts(batches[b.id], b)
           THEN /\ batches' = [batches EXCEPT ![b.id] = b]
                /\ Proceed(w, "receipt", b)
                /\ UNCHANGED <<evidence, receipts, audits, notices>>
           ELSE Fail(w, "conflict")
  BY DEF SaveBatch
<1> DEFINE b == Transition(c, op, t)
<1>3. t \in Instant /\ since[w] <= t /\ t <= now
  BY ClockIsInstant DEF TypeInv
<1>4. /\ b \in Batch /\ b.id = c.id /\ b.state = op
      /\ b.revision = c.revision + 1 /\ b.updatedAt = t
  BY <1>1, <1>3, TransitionIsBatch
<1>5. CASE SaveAccepts(stored, b)
  <2>1. batches' = [batches EXCEPT ![c.id] = b] /\ Proceed(w, "receipt", b)
    BY <1>2, <1>4, <1>5
  <2>2. stored \in Batch
    BY <1>1 DEF IsVersionOf, TypeInv, StoreOK, StoreTypeOK
  <2>3. ~(stored.revision >= b.revision)
    BY <1>1, <1>5 DEF IsVersionOf, SaveAccepts
  <2>4. c.revision \in Nat /\ stored.revision \in Nat
    BY <1>1, <2>2 DEF Batch
  <2>5. stored.revision < b.revision /\ c.revision = stored.revision
    BY <1>1, <1>4, <2>3, <2>4 DEF IsVersionOf
  <2>6. c = stored
    BY <1>1, <2>5 DEF IsVersionOf
  <2>7. Versions'
    <3>1. "receipt" \notin {"commit", "submit", "save"}
      OBVIOUS
    <3>2. /\ batches' = [batches EXCEPT ![b.id] = b] /\ b.updatedAt <= now
          /\ batches[b.id].revision < b.revision /\ b.revision >= 2
      <4>1. stored.revision >= 2
        BY <1>1 DEF IsVersionOf, Versions
      <4>2. QED  BY <1>3, <1>4, <2>1, <2>4, <2>5, <4>1
    <3>3. QED  BY <1>4, <2>1, <3>1, <3>2, StoredVersions, Zenon
  <2>8. c.updatedAt <= t
    <3>1. c.updatedAt \in Int /\ since[w] \in Int /\ t \in Int
      BY <1>1, <1>3 DEF Batch, Instant, TypeInv, RequestTypeOK
    <3>2. QED  BY <1>1, <1>3, <3>1
  <2>9. OneLegalStep(stored, b)
    BY <1>1, <1>4, <2>2, <2>6, <2>8, BatchIsNotNone DEF OneLegalStep
  <2>10. LegalStep
    BY <1>1, <2>1, <2>9 DEF LegalStep, TypeInv, StoreOK, StoreTypeOK
  <2>11. QED  BY <2>7, <2>10
<1>6. CASE ~SaveAccepts(stored, b)
  <2>1. Proceed(w, "conflict", NoBatch) /\ UNCHANGED batches
    BY <1>2, <1>4, <1>6 DEF Fail, store
  <2>2. QED  BY <2>1, UnstoredVersions
<1>7. QED  BY <1>5, <1>6

\* Every other step of a worker stores no batch and prepares none.
LEMMA PlainVersions ==
  ASSUME TypeInv, Versions, NEW w \in Worker, NEW next, NEW b,
         next \notin {"commit", "submit", "save"}, Proceed(w, next, b), UNCHANGED batches
  PROVE  Versions' /\ LegalStep
BY UnstoredVersions

\* An error stores no batch and leaves the worker without a copy.
LEMMA FailVersions ==
  ASSUME TypeInv, Versions, NEW w \in Worker, NEW answer \in Answer,
         Fail(w, answer)
  PROVE  Versions' /\ LegalStep
<1>1. Proceed(w, answer, NoBatch) /\ UNCHANGED batches
  BY DEF Fail, store
<1>2. answer \notin {"commit", "submit", "save"}
  BY DEF Answer
<1>3. QED  BY <1>1, <1>2, PlainVersions

\* The first step of each kind of request.
LEMMA ArriveVersions ==
  ASSUME TypeInv, Versions, NEW w \in Worker, Arrive(w)
  PROVE  Versions' /\ LegalStep
<1>1. CASE \E id \in EvidenceId, scope \in Scope, kind \in OfferedKinds,
              expiresAt \in OfferedExpiries :
             Register(w, id, scope, kind, expiresAt)
  <2>1. Proceed(w, "audit", NoBatch) /\ UNCHANGED batches
    BY <1>1 DEF Register
  <2>2. QED  BY <2>1, PlainVersions
<1>2. CASE \E id \in BatchId, scope \in Scope, list \in OfferedLists :
             CreateBatch(w, id, scope, list)
  BY <1>2, CreateBatchVersions
<1>3. CASE \E id \in BatchId : StartReview(w, id)
  <2>1. PICK id \in BatchId : StartReview(w, id)
    BY <1>3
  <2>2. CASE batches[id] = NoBatch
    BY <2>1, <2>2, FailVersions DEF StartReview, Answer
  <2>3. CASE batches[id] # NoBatch
    <3>1. Proceed(w, "validate", batches[id]) /\ UNCHANGED batches
      BY <2>1, <2>3 DEF StartReview, store
    <3>2. QED  BY <3>1, PlainVersions
  <2>4. QED  BY <2>2, <2>3
<1>4. CASE \E id \in BatchId, to \in BatchState, recipient \in Recipient \cup {""} :
             DecideBatch(w, id, to, recipient)
  <2>1. PICK id \in BatchId, to \in BatchState, recipient \in Recipient \cup {""} :
          Load(w, Request(to, id, recipient))
    BY <1>4 DEF DecideBatch
  <2>2. Request(to, id, recipient).batch = id
    BY DEF Request
  <2>3. QED  BY <2>1, <2>2, LoadVersions
<1>5. CASE \E id \in BatchId : CancelBatch(w, id)
  <2>1. PICK id \in BatchId : Load(w, Request("cancelled", id, ""))
    BY <1>5 DEF CancelBatch
  <2>2. Request("cancelled", id, "").batch = id
    BY DEF Request
  <2>3. QED  BY <2>1, <2>2, LoadVersions
<1>6. QED  BY <1>1, <1>2, <1>3, <1>4, <1>5 DEF Arrive

\* The answer is sent: the worker holds nothing any more.
LEMMA ReplyVersions ==
  ASSUME TypeInv, Versions, NEW w \in Worker, Reply(w)
  PROVE  Versions' /\ LegalStep
<1>1. UNCHANGED <<now, batches>>
  BY DEF Reply, store
<1>2. pc'[w] = "idle"
  BY DEF Reply, TypeInv, RequestTypeOK
<1>3. \A v \in Worker \ {w} :
        pc'[v] = pc[v] /\ seen'[v] = seen[v] /\ since'[v] = since[v]
  BY DEF Reply, TypeInv, RequestTypeOK
<1>4. QED  BY <1>1, <1>2, <1>3 DEF Versions, LegalStep

\* The later steps of a request.
LEMMA ServeVersions ==
  ASSUME TypeInv, Versions, NEW w \in Worker, Serve(w)
  PROVE  Versions' /\ LegalStep
<1>1. CASE CommitSubmission(w)
  BY <1>1, CommitSubmissionVersions
<1>1a. CASE SubmitBatch(w)
  BY <1>1a, SubmitBatchVersions
<1>2. CASE ValidateBatch(w)
  <2> DEFINE ids == seen[w].evidence
             verdict == Verdict(seen[w].scope, ids, Cardinality(ids))
  <2>1. CASE verdict = "ok"
    <3>1. Proceed(w, "find", NoBatch) /\ UNCHANGED batches
      BY <1>2, <2>1 DEF ValidateBatch, store
    <3>2. QED  BY <3>1, PlainVersions
  <2>2. CASE verdict # "ok"
    BY <1>2, <2>2, VerdictIsAnswer, FailVersions DEF ValidateBatch
  <2>3. QED  BY <2>1, <2>2
<1>3. CASE FindBatch(w)
  <2>1. task[w].batch \in BatchId /\ Load(w, task[w])
    BY <1>3 DEF FindBatch, TypeInv, HandlersOK, Holds
  <2>2. QED  BY <2>1, LoadVersions
<1>4. CASE SaveBatch(w)
  BY <1>4, SaveBatchVersions
<1>5. CASE AppendReceipt(w)
  <2>1. Proceed(w, "audit", seen[w]) /\ UNCHANGED batches
    BY <1>5 DEF AppendReceipt
  <2>2. QED  BY <2>1, PlainVersions
<1>6. CASE AppendAudit(w)
  <2>1. PICK next \in {"notify", "ok"} :
          Proceed(w, next, seen[w]) /\ UNCHANGED batches
    BY <1>6 DEF AppendAudit
  <2>2. QED  BY <2>1, PlainVersions
<1>7. CASE QueueNotification(w)
  <2>1. Proceed(w, "ok", seen[w]) /\ UNCHANGED batches
    BY <1>7 DEF QueueNotification
  <2>2. QED  BY <2>1, PlainVersions
<1>8. CASE Abort(w)
  BY <1>8, FailVersions DEF Abort, Answer
<1>9. CASE Reply(w)
  BY <1>9, ReplyVersions
<1>10. QED  BY <1>1, <1>1a, <1>2, <1>3, <1>4, <1>5, <1>6, <1>7, <1>8, <1>9 DEF Serve

\* A client leaves, time passes, nothing happens.
LEMMA OtherVersions ==
  ASSUME TypeInv, Versions,
         \/ \E w \in Worker : Disconnect(w)
         \/ Tick
         \/ UNCHANGED vars
  PROVE  Versions' /\ LegalStep
<1>1. UNCHANGED <<batches, pc, seen, since>>
  BY DEF Disconnect, Tick, vars, store, request
<1>2. now \in Nat /\ now' \in Nat /\ now <= now'
  BY MaxTimeIsInstant
     DEF TypeInv, RequestTypeOK, Disconnect, Tick, vars, store
<1>3. ASSUME NEW id \in BatchId, batches[id] # NoBatch
      PROVE  batches[id].revision >= 2 /\ batches[id].updatedAt <= now'
  <2>1. batches[id].updatedAt \in Nat
    BY <1>3 DEF TypeInv, StoreOK, StoreTypeOK, Batch, Instant
  <2>2. QED  BY <1>2, <1>3, <2>1 DEF Versions
<1>4. ASSUME NEW v \in Worker, pc[v] \in {"commit", "submit"}
      PROVE  seen[v].revision = 2 /\ seen[v].updatedAt <= now'
  <2>1. seen[v].updatedAt \in Nat
    BY <1>4 DEF TypeInv, HandlersOK, Holds, Batch, Instant
  <2>2. QED  BY <1>2, <1>4, <2>1 DEF Versions
<1>5. QED  BY <1>1, <1>3, <1>4 DEF Versions, LegalStep

-----------------------------------------------------------------------------
\* At the start no batch is stored and no worker holds a copy.
LEMMA VersionsInit == Init => Versions
BY DEF Init, Versions

\* Every step keeps the copies versions, and is legal.
LEMMA VersionsStep ==
  TypeInv /\ Versions /\ [Next]_vars => Versions' /\ LegalStep
<1> SUFFICES ASSUME TypeInv, Versions, [Next]_vars
             PROVE  Versions' /\ LegalStep
  OBVIOUS
<1>1. CASE \E w \in Worker : Arrive(w)
  BY <1>1, ArriveVersions
<1>2. CASE \E w \in Worker : Serve(w)
  BY <1>2, ServeVersions
<1>3. CASE (\E w \in Worker : Disconnect(w)) \/ Tick \/ UNCHANGED vars
  BY <1>3, OtherVersions
<1>4. QED  BY <1>1, <1>2, <1>3 DEF Next

\* A handler about to save a batch holds the stored version or an older one.
THEOREM VersionsInvariant == Spec => []Versions
<1>1. TypeInv /\ Versions /\ [Next]_vars => Versions'
  BY VersionsStep
<1>2. QED  BY VersionsInit, <1>1, TypeInvariant, PTL DEF Spec

\* No step loses another request's update (store.go:64-67, batch.go:62-69).
THEOREM UpdatesAreNotLost == Spec => NoLostUpdate
<1>1. TypeInv /\ Versions /\ [Next]_vars
        => [\A id \in BatchId : batches'[id] # batches[id] =>
              OneLegalStep(batches[id], batches'[id])]_vars
  BY VersionsStep DEF LegalStep
<1>2. QED  BY <1>1, TypeInvariant, VersionsInvariant, PTL DEF Spec, NoLostUpdate

-----------------------------------------------------------------------------
(***************************************************************************)
(* Who owes a record.                                                      *)
(*                                                                         *)
(* A batch is moved in one step and filed in up to three later ones, with  *)
(* any number of steps of other requests between.  Each worker on that way *)
(* has a state of its batch to itself, so what it has not filed yet nobody *)
(* has, and what it has filed stays.                                       *)
(***************************************************************************)

\* A stored batch: its revision counts its states.
Shaped(b) ==
  /\ b.createdAt <= b.updatedAt
  /\ \/ b.state = "submitted" /\ b.revision = 2 /\ b.createdAt = b.updatedAt
     \/ b.state \in {"under_review", "cancelled"} /\ b.revision = 3
     \/ b.state \in {"approved", "rejected", "cancelled"} /\ b.revision = 4

\* The worker has moved its batch to the state it was asked for.
Moved(w) ==
  pc[w] \in {"receipt", "audit", "notify", "ok"} /\ task[w].op # "registered"

-----------------------------------------------------------------------------
(***************************************************************************)
(* The steps by what they do to batches and records.                       *)
(***************************************************************************)

\* All workers but w stay where they are.
Others(w) ==
  \A v \in Worker \ {w} :
    /\ pc'[v] = pc[v] /\ task'[v] = task[v] /\ seen'[v] = seen[v]
    /\ since'[v] = since[v] /\ gone'[v] = gone[v]

\* The store is about to turn the worker away.
Refused(w) ==
  /\ batches[task[w].batch] # NoBatch
  /\ \/ pc[w] \in {"commit", "submit"}
     \/ pc[w] = "save" /\ batches[task[w].batch].revision > seen[w].revision

\* A step of w that moves no batch and files nothing: a request arrives, is
\* read up, is refused, or is answered.
Quiet(w) ==
  /\ Others(w) /\ ~Moved(w)'
  /\ UNCHANGED <<now, batches, receipts, audits, notices>>
  /\ gone'[w] => gone[w]
  /\ \/ task'[w] = task[w]
     \/ /\ task'[w].op = "registered" => task'[w].batch = ""
        /\ task'[w].op = "submitted" => FreshBatch(task'[w].batch)
  /\ pc'[w] \in {"commit", "submit"} =>
       /\ batches[task'[w].batch] = NoBatch /\ Shaped(seen'[w])
       /\ seen'[w].updatedAt <= now
       /\ HasCommitter => pc'[w] = "commit"
  /\ pc'[w] = "save" =>
       /\ seen'[w] \in Batch /\ seen'[w] = batches[seen'[w].id]
       /\ since'[w] = now
  /\ pc'[w] = "conflict" => Refused(w) /\ task'[w] = task[w]

\* A step of w that moves its batch; that of a committer files the receipt.
Stores(w) ==
  /\ Others(w)
  /\ UNCHANGED <<now, task, audits, notices, gone>>
  /\ LET id == task[w].batch
         b == seen'[w]
     IN /\ id \in BatchId /\ b \in Batch /\ b.id = id /\ b.state = task[w].op
        /\ b # batches[id] /\ batches' = [batches EXCEPT ![id] = b]
        /\ b.updatedAt <= since'[w]
        /\ pc[w] \in {"commit", "submit"} => b = seen[w]
        /\ \/ /\ pc[w] = "commit" /\ pc'[w] = "audit"
              /\ batches[id] = NoBatch /\ task[w].op = "submitted"
              /\ receipts' = AppendAt(receipts, id,
                               [kind |-> "submitted", at |-> b.createdAt])
           \/ /\ pc[w] \in {"submit", "save"} /\ pc'[w] = "receipt"
              /\ pc[w] = "save" => task[w].op # "submitted"
              /\ UNCHANGED receipts

\* A step of w that files a record.
Files(w) ==
  /\ Others(w)
  /\ task'[w] = task[w] /\ seen'[w] = seen[w] /\ gone'[w] = gone[w]
  /\ since'[w] = now
  /\ AppendReceipt(w) \/ AppendAudit(w) \/ QueueNotification(w)

\* A client leaves, time passes, nothing happens.
Idles ==
  /\ UNCHANGED <<batches, receipts, audits, notices, pc, task, seen, since>>
  /\ MayDisconnect \/ UNCHANGED gone
  /\ \A w \in Worker : gone[w] => gone'[w]

\* A worker that proceeds, and with what.
LEMMA ProceedEffect ==
  ASSUME RequestTypeOK, NEW w \in Worker, NEW next, NEW b, NEW t,
         Proceed(w, next, b), task' = [task EXCEPT ![w] = t]
  PROVE  /\ Others(w) /\ UNCHANGED <<now, gone>>
         /\ pc'[w] = next /\ seen'[w] = b /\ task'[w] = t /\ since'[w] = now
BY DEF RequestTypeOK, Proceed, Others

\* The same for a step that keeps the request.
LEMMA ProceedEffectSame ==
  ASSUME RequestTypeOK, NEW w \in Worker, NEW next, NEW b,
         Proceed(w, next, b), UNCHANGED task
  PROVE  /\ Others(w) /\ UNCHANGED <<now, gone>> /\ task'[w] = task[w]
         /\ pc'[w] = next /\ seen'[w] = b /\ since'[w] = now
BY DEF RequestTypeOK, Proceed, Others

\* An error that is no conflict is quiet.
LEMMA FailIsQuiet ==
  ASSUME TypeInv, NEW w \in Worker, NEW answer \in Answer \ {"ok"}, NEW t,
         Fail(w, answer), task' = [task EXCEPT ![w] = t],
         \/ t = task[w]
         \/ /\ t.op = "registered" => t.batch = ""
            /\ t.op = "submitted" => FreshBatch(t.batch),
         answer = "conflict" => Refused(w) /\ t = task[w]
  PROVE  Quiet(w)
<1>1. /\ Others(w) /\ UNCHANGED <<now, gone>>
      /\ pc'[w] = answer /\ task'[w] = t
  BY ProceedEffect DEF Fail, TypeInv
<1>2. pc'[w] \notin {"commit", "submit", "save"} /\ ~Moved(w)'
  BY <1>1 DEF Answer, Moved
<1>3. UNCHANGED <<now, batches, receipts, audits, notices>> /\ (gone'[w] => gone[w])
  BY <1>1 DEF Fail, store
<1>4. QED  BY <1>1, <1>2, <1>3 DEF Quiet

\* The same for a request that is already known.
LEMMA FailIsQuietSame ==
  ASSUME TypeInv, NEW w \in Worker, NEW answer \in Answer \ {"ok"},
         Fail(w, answer), UNCHANGED task, answer = "conflict" => Refused(w)
  PROVE  Quiet(w)
<1>1. task' = [task EXCEPT ![w] = task[w]]
  BY DEF TypeInv, RequestTypeOK
<1>2. QED  BY <1>1, FailIsQuiet

\* FindBatch before a transition.
LEMMA LoadIsQuiet ==
  ASSUME TypeInv, NEW w \in Worker, NEW t, t.batch \in BatchId,
         t.op \notin {"registered", "submitted"}, Load(w, t)
  PROVE  Quiet(w)
<1> DEFINE b == batches[t.batch]
<1>1. task' = [task EXCEPT ![w] = t]
  BY DEF Load
<1>2. CASE b = NoBatch \/ ~CanTransition(b, t.op)
  <2>1. PICK answer \in {"not_found", "invalid_state"} : Fail(w, answer)
    BY <1>2 DEF Load
  <2>2. answer \in Answer \ {"ok"} /\ answer # "conflict"
    BY DEF Answer
  <2>3. QED  BY <1>1, <2>1, <2>2, FailIsQuiet
<1>3. CASE b # NoBatch /\ CanTransition(b, t.op)
  <2>1. Proceed(w, "save", b) /\ UNCHANGED store
    BY <1>3 DEF Load
  <2>2. /\ Others(w) /\ UNCHANGED <<now, gone>>
        /\ pc'[w] = "save" /\ seen'[w] = b /\ task'[w] = t /\ since'[w] = now
    BY <1>1, <2>1 DEF TypeInv, RequestTypeOK, Proceed, Others
  <2>3. b \in Batch /\ b = batches[b.id]
    BY <1>3 DEF TypeInv, StoreOK, StoreTypeOK
  <2>4. QED  BY <2>1, <2>2, <2>3 DEF Quiet, Moved, store
<1>4. QED  BY <1>2, <1>3

\* A new request: registered, prepared, read up or refused.
LEMMA ArriveIsQuiet ==
  ASSUME TypeInv, NEW w \in Worker, Arrive(w)
  PROVE  Quiet(w)
<1>1. CASE \E id \in EvidenceId, scope \in Scope, kind \in OfferedKinds,
              expiresAt \in OfferedExpiries :
             Register(w, id, scope, kind, expiresAt)
  <2>1. PICK scope \in Scope :
          /\ task' = [task EXCEPT ![w] =
                        [op |-> "registered", batch |-> "", recipient |-> "",
                         key |-> Key(scope)]]
          /\ Proceed(w, "audit", NoBatch)
          /\ UNCHANGED <<batches, receipts, audits, notices>>
    BY <1>1 DEF Register
  <2> DEFINE t == [op |-> "registered", batch |-> "", recipient |-> "",
                   key |-> Key(scope)]
  <2>2. t.op = "registered" /\ t.batch = "" /\ task' = [task EXCEPT ![w] = t]
    BY <2>1
  <2> HIDE DEF t
  <2>3. /\ Others(w) /\ UNCHANGED <<now, gone>>
        /\ pc'[w] = "audit" /\ task'[w] = t
    BY <2>1, <2>2 DEF TypeInv, RequestTypeOK, Proceed, Others
  <2>4. QED  BY <2>1, <2>2, <2>3 DEF Quiet, Moved
<1>2. CASE \E id \in BatchId, scope \in Scope, list \in OfferedLists :
             CreateBatch(w, id, scope, list)
  <2>1. PICK id \in BatchId, scope \in Scope, list \in OfferedLists :
          CreateBatch(w, id, scope, list)
    BY <1>2
  <2> DEFINE t == Request("submitted", id, "")
             ids == NormalizeIDs(list)
             verdict == Verdict(scope, ids, Len(list))
             batch == Transition(NewBatch(id, scope, ids, now), "submitted", now)
  <2>2. /\ task' = [task EXCEPT ![w] = t] /\ FreshBatch(id)
        /\ t.op = "submitted" /\ t.batch = id
    BY <2>1 DEF CreateBatch, Request
  <2>3. CASE verdict = "ok"
    <3>1. PICK next \in {"commit", "submit"} :
            /\ HasCommitter => next = "commit"
            /\ Proceed(w, next, batch) /\ UNCHANGED store
      BY <2>1, <2>3 DEF CreateBatch
    <3>2. Shaped(batch) /\ batch.updatedAt <= now
      <4>1. now \in Nat
        BY NowIsInstant DEF TypeInv, Instant
      <4>2. QED  BY <4>1 DEF Shaped, Transition, NewBatch
    <3>3. /\ Others(w) /\ UNCHANGED <<now, gone>>
          /\ pc'[w] = next /\ seen'[w] = batch /\ task'[w] = t
      BY <2>2, <3>1, ProceedEffect DEF TypeInv
    <3>4. batches[id] = NoBatch
      BY <2>2 DEF FreshBatch
    <3>5. QED  BY <2>2, <3>1, <3>2, <3>3, <3>4 DEF Quiet, Moved, store
  <2>4. CASE verdict # "ok"
    <3>1. Fail(w, verdict) /\ verdict \in Answer \ {"ok"} /\ verdict # "conflict"
      BY <2>1, <2>4 DEF CreateBatch, Verdict, Answer
    <3>2. QED  BY <2>2, <3>1, FailIsQuiet
  <2>5. QED  BY <2>3, <2>4
<1>3. CASE \E id \in BatchId : StartReview(w, id)
  <2>1. PICK id \in BatchId : StartReview(w, id)
    BY <1>3
  <2> DEFINE t == Request("under_review", id, "")
  <2>2. task' = [task EXCEPT ![w] = t] /\ t.op = "under_review"
    BY <2>1 DEF StartReview, Request
  <2>3. CASE batches[id] = NoBatch
    BY <2>1, <2>2, <2>3, FailIsQuiet DEF StartReview, Answer
  <2>4. CASE batches[id] # NoBatch
    <3>1. Proceed(w, "validate", batches[id]) /\ UNCHANGED store
      BY <2>1, <2>4 DEF StartReview
    <3>2. /\ Others(w) /\ UNCHANGED <<now, gone>>
          /\ pc'[w] = "validate" /\ task'[w] = t
      BY <2>2, <3>1 DEF TypeInv, RequestTypeOK, Proceed, Others
    <3>3. QED  BY <2>2, <3>1, <3>2 DEF Quiet, Moved, store
  <2>5. QED  BY <2>3, <2>4
<1>4. CASE \E id \in BatchId, to \in BatchState, recipient \in Recipient \cup {""} :
             DecideBatch(w, id, to, recipient)
  <2>1. PICK id \in BatchId, to \in {"approved", "rejected"},
             recipient \in Recipient \cup {""} :
          Load(w, Request(to, id, recipient))
    BY <1>4 DEF DecideBatch
  <2>2. Request(to, id, recipient).batch = id /\ Request(to, id, recipient).op = to
    BY DEF Request
  <2>3. QED  BY <2>1, <2>2, LoadIsQuiet
<1>5. CASE \E id \in BatchId : CancelBatch(w, id)
  <2>1. PICK id \in BatchId : Load(w, Request("cancelled", id, ""))
    BY <1>5 DEF CancelBatch
  <2>2. /\ Request("cancelled", id, "").batch = id
        /\ Request("cancelled", id, "").op = "cancelled"
    BY DEF Request
  <2>3. QED  BY <2>1, <2>2, LoadIsQuiet
<1>6. QED  BY <1>1, <1>2, <1>3, <1>4, <1>5 DEF Arrive

\* CommitSubmission stores the batch and its receipt, or is refused.
LEMMA CommitSubmissionEffect ==
  ASSUME TypeInv, Versions, NEW w \in Worker, CommitSubmission(w)
  PROVE  Quiet(w) \/ Stores(w)
<1> DEFINE b == seen[w]
           id == task[w].batch
<1>1. /\ pc[w] = "commit" /\ UNCHANGED task /\ b \in Batch /\ b.id = id
      /\ id \in BatchId /\ b.state = task[w].op /\ task[w].op = "submitted"
      /\ b.updatedAt <= now
  BY DEF CommitSubmission, TypeInv, HandlersOK, Holds, Batch, Versions
<1>2. CASE batches[id] = NoBatch
  <2>1. /\ batches' = [batches EXCEPT ![id] = b]
        /\ receipts' = AppendAt(receipts, id,
                         [kind |-> "submitted", at |-> b.createdAt])
        /\ Proceed(w, "audit", b)
        /\ UNCHANGED <<evidence, audits, notices>>
    BY <1>1, <1>2 DEF CommitSubmission, SubmissionAccepts, ReceiptFor
  <2>2. /\ Others(w) /\ UNCHANGED <<now, gone>>
        /\ pc'[w] = "audit" /\ seen'[w] = b /\ since'[w] = now
    BY <1>1, <2>1 DEF TypeInv, RequestTypeOK, Proceed, Others
  <2>3. QED  BY <1>1, <1>2, <2>1, <2>2, BatchIsNotNone DEF Stores
<1>3. CASE batches[id] # NoBatch
  <2>1. Fail(w, "conflict") /\ Refused(w)
    BY <1>1, <1>3 DEF CommitSubmission, SubmissionAccepts, Refused
  <2>2. QED  BY <1>1, <2>1, FailIsQuietSame DEF Answer
<1>4. QED  BY <1>2, <1>3

\* SaveBatch of a new batch stores it, or is refused.
LEMMA SubmitBatchEffect ==
  ASSUME TypeInv, Versions, NEW w \in Worker, SubmitBatch(w)
  PROVE  Quiet(w) \/ Stores(w)
<1> DEFINE b == seen[w]
           id == task[w].batch
<1>1. /\ pc[w] = "submit" /\ UNCHANGED task /\ b \in Batch /\ b.id = id
      /\ id \in BatchId /\ b.state = task[w].op
      /\ b.updatedAt <= now /\ b.revision = 2
  BY DEF SubmitBatch, TypeInv, HandlersOK, Holds, Batch, Versions
<1>2. CASE SaveAccepts(batches[id], b)
  <2>1. /\ batches' = [batches EXCEPT ![id] = b] /\ Proceed(w, "receipt", b)
        /\ UNCHANGED <<evidence, receipts, audits, notices>>
    BY <1>1, <1>2 DEF SubmitBatch
  <2>2. /\ Others(w) /\ UNCHANGED <<now, gone>>
        /\ pc'[w] = "receipt" /\ seen'[w] = b /\ since'[w] = now
    BY <1>1, <2>1 DEF TypeInv, RequestTypeOK, Proceed, Others
  <2>3. b # batches[id]
    BY <1>1, <1>2, BatchIsNotNone DEF SaveAccepts
  <2>4. QED  BY <1>1, <2>1, <2>2, <2>3 DEF Stores
<1>3. CASE ~SaveAccepts(batches[id], b)
  <2>1. Fail(w, "conflict") /\ Refused(w)
    BY <1>1, <1>3 DEF SubmitBatch, SaveAccepts, Refused
  <2>2. QED  BY <1>1, <2>1, FailIsQuietSame DEF Answer
<1>4. QED  BY <1>2, <1>3

\* SaveBatch of a transitioned copy stores it, or is refused.
LEMMA SaveBatchEffect ==
  ASSUME TypeInv, Versions, NEW w \in Worker, SaveBatch(w)
  PROVE  Quiet(w) \/ Stores(w)
<1> DEFINE c == seen[w]
           id == task[w].batch
           op == task[w].op
<1>1. /\ pc[w] = "save" /\ UNCHANGED task /\ c \in Batch /\ c.id = id
      /\ id \in BatchId /\ op \in BatchState /\ op # "submitted"
      /\ batches[id] # NoBatch
  BY DEF SaveBatch, TypeInv, HandlersOK, Holds, Batch, Versions, IsVersionOf,
         Moves, BatchState
<1>2. PICK t \in Clock(w) :
        LET b == Transition(c, op, t)
        IN IF SaveAccepts(batches[b.id], b)
           THEN /\ batches' = [batches EXCEPT ![b.id] = b]
                /\ Proceed(w, "receipt", b)
                /\ UNCHANGED <<evidence, receipts, audits, notices>>
           ELSE Fail(w, "conflict")
  BY DEF SaveBatch
<1> DEFINE b == Transition(c, op, t)
<1>3. t \in Instant /\ t <= now
  BY ClockIsInstant DEF TypeInv
<1>4. /\ b \in Batch /\ b.id = id /\ b.state = op
      /\ b.revision = c.revision + 1 /\ b.updatedAt = t
  BY <1>1, <1>3, TransitionIsBatch
<1>5. batches[id] \in Batch /\ batches[id].revision \in Nat /\ c.revision \in Nat
  BY <1>1 DEF TypeInv, StoreOK, StoreTypeOK, Batch
<1> HIDE DEF b
<1>6. CASE SaveAccepts(batches[id], b)
  <2>1. /\ batches' = [batches EXCEPT ![id] = b] /\ Proceed(w, "receipt", b)
        /\ UNCHANGED <<evidence, receipts, audits, notices>>
    BY <1>2, <1>4, <1>6 DEF b
  <2>2. /\ Others(w) /\ UNCHANGED <<now, gone>>
        /\ pc'[w] = "receipt" /\ seen'[w] = b /\ since'[w] = now
    BY <1>1, <2>1 DEF TypeInv, RequestTypeOK, Proceed, Others
  <2>3. b # batches[id]
    BY <1>1, <1>5, <1>6 DEF SaveAccepts
  <2>4. b.updatedAt <= since'[w]
    BY <1>3, <1>4, <2>2
  <2>5. QED  BY <1>1, <1>4, <2>1, <2>2, <2>3, <2>4 DEF Stores
<1>7. CASE ~SaveAccepts(batches[id], b)
  <2>1. Fail(w, "conflict")
    BY <1>2, <1>4, <1>7 DEF b
  <2>2. Refused(w)
    BY <1>1, <1>4, <1>5, <1>7 DEF SaveAccepts, Refused
  <2>3. QED  BY <1>1, <2>1, <2>2, FailIsQuietSame DEF Answer
<1>8. QED  BY <1>6, <1>7

\* The steps that file a record go on with the copy they have.
LEMMA FilingEffect ==
  ASSUME TypeInv, NEW w \in Worker,
         AppendReceipt(w) \/ AppendAudit(w) \/ QueueNotification(w)
  PROVE  Files(w)
<1>1. UNCHANGED task /\ \E next : Proceed(w, next, seen[w])
  BY DEF AppendReceipt, AppendAudit, QueueNotification
<1>2. /\ Others(w) /\ UNCHANGED <<now, gone>>
      /\ task'[w] = task[w] /\ seen'[w] = seen[w] /\ since'[w] = now
  BY <1>1, ProceedEffectSame DEF TypeInv
<1>3. QED  BY <1>2 DEF Files

\* The later steps of a request, but for those that store a batch.
LEMMA OtherEffect ==
  ASSUME TypeInv, NEW w \in Worker, Serve(w)
  PROVE  \/ Quiet(w) \/ Files(w)
         \/ CommitSubmission(w) \/ SubmitBatch(w) \/ SaveBatch(w)
<1>1. CASE AppendReceipt(w) \/ AppendAudit(w) \/ QueueNotification(w)
  BY <1>1, FilingEffect
<1>2. CASE ValidateBatch(w)
  <2> DEFINE ids == seen[w].evidence
             verdict == Verdict(seen[w].scope, ids, Cardinality(ids))
  <2>1. CASE verdict = "ok"
    <3>1. Proceed(w, "find", NoBatch) /\ UNCHANGED <<store, task>>
      BY <1>2, <2>1 DEF ValidateBatch
    <3>2. /\ Others(w) /\ UNCHANGED <<now, gone>>
          /\ pc'[w] = "find" /\ task'[w] = task[w]
      BY <3>1 DEF TypeInv, RequestTypeOK, Proceed, Others
    <3>3. QED  BY <3>1, <3>2 DEF Quiet, Moved, store
  <2>2. CASE verdict # "ok"
    <3>1. /\ Fail(w, verdict) /\ UNCHANGED task
          /\ verdict \in Answer \ {"ok"} /\ verdict # "conflict"
      BY <1>2, <2>2 DEF ValidateBatch, Verdict, Answer
    <3>2. QED  BY <3>1, FailIsQuietSame
  <2>3. QED  BY <2>1, <2>2
<1>3. CASE FindBatch(w)
  <2>1. /\ task[w].batch \in BatchId /\ Load(w, task[w])
        /\ task[w].op \notin {"registered", "submitted"}
    BY <1>3 DEF FindBatch, TypeInv, HandlersOK, Holds
  <2>2. QED  BY <2>1, LoadIsQuiet
<1>4. CASE Abort(w)
  BY <1>4, FailIsQuietSame DEF Abort, Answer
<1>5. CASE Reply(w)
  <2>1. Others(w)
    BY <1>5 DEF Reply, Others, TypeInv, RequestTypeOK
  <2>2. pc'[w] = "idle" /\ ~gone'[w] /\ task'[w] = NoTask
    BY <1>5 DEF Reply, TypeInv, RequestTypeOK
  <2>3. NoTask.op = "none"
    BY DEF NoTask, Request
  <2>4. QED  BY <1>5, <2>1, <2>2, <2>3 DEF Quiet, Moved, Reply, store
<1>6. QED  BY <1>1, <1>2, <1>3, <1>4, <1>5 DEF Serve

\* The steps of a request after its first.
LEMMA ServeEffect ==
  ASSUME TypeInv, Versions, NEW w \in Worker, Serve(w)
  PROVE  Quiet(w) \/ Stores(w) \/ Files(w)
BY OtherEffect, CommitSubmissionEffect, SubmitBatchEffect, SaveBatchEffect

\* What any step does.
LEMMA StepEffect ==
  ASSUME TypeInv, Versions, [Next]_vars
  PROVE  (\E w \in Worker : Quiet(w) \/ Stores(w) \/ Files(w)) \/ Idles
<1>1. CASE \E w \in Worker : Arrive(w)
  BY <1>1, ArriveIsQuiet
<1>2. CASE \E w \in Worker : Serve(w)
  BY <1>2, ServeEffect
<1>3. CASE \E w \in Worker : Disconnect(w)
  BY <1>3 DEF Disconnect, Idles, store, TypeInv, RequestTypeOK
<1>4. CASE Tick \/ UNCHANGED vars
  BY <1>4 DEF Tick, Idles, vars, store, request
<1>5. QED  BY <1>1, <1>2, <1>3, <1>4 DEF Next

-----------------------------------------------------------------------------
(***************************************************************************)
(* The workers.  Each state a batch goes through has one worker that moved *)
(* it there: a second one would have needed the state to be ahead of the   *)
(* batch after it was behind it.                                           *)
(***************************************************************************)

ShapesOK ==
  /\ \A id \in BatchId : batches[id] # NoBatch => Shaped(batches[id])
  /\ \A w \in Worker : pc[w] \in {"commit", "submit", "save"} => Shaped(seen[w])

\* Identifiers of batches are not used twice.
RequestsOK ==
  /\ \A v, w \in Worker :
       v # w /\ task[v].op = "submitted" /\ task[w].op = "submitted"
         => task[v].batch # task[w].batch
  /\ \A w \in Worker : pc[w] \in {"commit", "submit"} =>
       batches[task[w].batch] = NoBatch
  /\ \A w \in Worker : task[w].op = "registered" => task[w].batch = ""
  /\ HasCommitter => \A w \in Worker :
       pc[w] # "submit" /\ (pc[w] = "receipt" => task[w].op # "submitted")

\* The copy of a worker that has moved its batch is the version it stored.
MoverOK(w) ==
  LET id == task[w].batch
      copy == seen[w]
  IN /\ id \in BatchId /\ task[w].op \in Reached(id)
     /\ copy \in Batch /\ copy.id = id /\ copy.state = task[w].op
     /\ copy.revision <= batches[id].revision
     /\ copy.scope = batches[id].scope /\ copy.createdAt = batches[id].createdAt
     /\ copy.createdAt <= copy.updatedAt /\ copy.updatedAt <= since[w]
     /\ copy.state = batches[id].state => copy = batches[id]

MoversOK ==
  /\ \A w \in Worker : Moved(w) => MoverOK(w)
  /\ \A v, w \in Worker : Moved(v) /\ Moved(w) /\ v # w =>
       task[v].batch # task[w].batch \/ task[v].op # task[w].op

WorkersOK == ShapesOK /\ RequestsOK /\ MoversOK

\* What the next lemmas start from.
Base == TypeInv /\ Versions /\ WorkersOK

\* A legal step adds the new state to the history of a batch.
LEMMA HistoryGrows ==
  ASSUME NEW old \in Batch \cup {NoBatch}, NEW new \in Batch,
         old # NoBatch => Shaped(old), old = NoBatch => Shaped(new),
         OneLegalStep(old, new)
  PROVE  /\ Shaped(new)
         /\ History(new) = History(old) \cup {new.state}
         /\ new.state \notin History(old)
         /\ old # NoBatch => /\ new.scope = old.scope
                             /\ new.createdAt = old.createdAt
                             /\ new.revision = old.revision + 1
<1>0. new # NoBatch
  BY BatchIsNotNone
<1>1. CASE old = NoBatch
  <2>1. new.state = "submitted" /\ Shaped(new)
    BY <1>1 DEF OneLegalStep
  <2>2. History(old) = {} /\ History(new) = {"submitted"}
    BY <1>0, <1>1, <2>1 DEF History
  <2>3. new.state \notin History(old)
    BY <2>2
  <2>4. QED  BY <1>1, <2>1, <2>2, <2>3
<1>2. CASE old # NoBatch
  <2>1. /\ old \in Batch /\ Shaped(old) /\ CanTransition(old, new.state)
        /\ new = Transition(old, new.state, new.updatedAt)
        /\ old.updatedAt <= new.updatedAt
    BY <1>2 DEF OneLegalStep
  <2>2. /\ new.scope = old.scope /\ new.createdAt = old.createdAt
        /\ new.revision = old.revision + 1
    BY <2>1, TransitionIsBatch DEF Batch
  <2>3. /\ old.createdAt <= new.updatedAt
        /\ old.createdAt \in Nat /\ new.updatedAt \in Nat /\ old.revision \in Nat
    BY <2>1 DEF Shaped, Batch, Instant
  <2>4. CASE old.state = "submitted"
    <3>1. old.revision = 2 /\ new.state \in {"under_review", "cancelled"}
      BY <2>1, <2>4 DEF Shaped, CanTransition
    <3>2. new.revision = 3
      BY <2>2, <3>1
    <3>3. Shaped(new)
      BY <2>2, <2>3, <3>1, <3>2 DEF Shaped
    <3>4. QED  BY <1>0, <1>2, <2>2, <2>4, <3>1, <3>2, <3>3 DEF History
  <2>5. CASE old.state = "under_review"
    <3>1. /\ old.revision = 3
          /\ new.state \in {"approved", "rejected", "cancelled"}
      BY <2>1, <2>5 DEF Shaped, CanTransition
    <3>2. new.revision = 4
      BY <2>2, <3>1
    <3>3. Shaped(new)
      BY <2>2, <2>3, <3>1, <3>2 DEF Shaped
    <3>4. QED  BY <1>0, <1>2, <2>2, <2>5, <3>1, <3>2, <3>3 DEF History
  <2>6. QED  BY <2>1, <2>4, <2>5 DEF Shaped, CanTransition
<1>3. QED  BY <1>1, <1>2

\* The same of the step in which w moves batch id to b.
LEMMA StoredHistory ==
  ASSUME Base, LegalStep, NEW w \in Worker, Stores(w),
         NEW id, id = task[w].batch, NEW b, b = seen'[w]
  PROVE  /\ id \in BatchId /\ b \in Batch /\ b.id = id /\ b.state = task[w].op
         /\ batches'[id] = b
         /\ \A i \in BatchId \ {id} : batches'[i] = batches[i]
         /\ Shaped(b) /\ Reached(id)' = Reached(id) \cup {b.state}
         /\ b.state \notin Reached(id)
         /\ batches[id] # NoBatch => /\ batches[id] \in Batch
                                     /\ Shaped(batches[id])
                                     /\ b.scope = batches[id].scope
                                     /\ b.createdAt = batches[id].createdAt
                                     /\ b.revision = batches[id].revision + 1
<1>1. /\ id \in BatchId /\ b \in Batch /\ b.id = id /\ b.state = task[w].op
      /\ b # batches[id] /\ batches' = [batches EXCEPT ![id] = b]
  BY DEF Stores
<1>2. batches'[id] = b /\ \A i \in BatchId \ {id} : batches'[i] = batches[i]
  BY <1>1 DEF Base, TypeInv, StoreOK, StoreTypeOK
<1> DEFINE old == batches[id]
<1>3. old \in Batch \cup {NoBatch} /\ (old # NoBatch => Shaped(old))
  BY <1>1 DEF Base, TypeInv, StoreOK, StoreTypeOK, WorkersOK, ShapesOK
<1>4. OneLegalStep(old, b)
  BY <1>1, <1>2 DEF LegalStep
<1>5. old = NoBatch => Shaped(b)
  <2>1. CASE pc[w] \in {"commit", "submit"}
    BY <2>1 DEF Base, WorkersOK, ShapesOK, Stores
  <2>2. CASE pc[w] = "save"
    BY <2>2 DEF Base, Versions, IsVersionOf, TypeInv, HandlersOK, Holds
  <2>3. QED  BY <2>1, <2>2 DEF Stores
<1>6. /\ Shaped(b) /\ History(b) = History(old) \cup {b.state}
      /\ b.state \notin History(old)
      /\ old # NoBatch => /\ b.scope = old.scope
                          /\ b.createdAt = old.createdAt
                          /\ b.revision = old.revision + 1
  BY <1>1, <1>3, <1>4, <1>5, HistoryGrows
<1>7. Reached(id) = History(old) /\ Reached(id)' = History(b)
  BY <1>2 DEF Reached
<1>8. QED  BY <1>1, <1>2, <1>3, <1>6, <1>7

\* What a filing step leaves alone, and where it takes its worker.
LEMMA FilesKeeps ==
  ASSUME TypeInv, NEW w \in Worker, Files(w)
  PROVE  /\ UNCHANGED <<now, task, evidence, batches>>
         /\ pc[w] \in {"receipt", "audit", "notify"}
         /\ pc'[w] \in {"audit", "notify", "ok"}
         /\ pc[w] = "receipt" => pc'[w] = "audit"
         /\ Moved(w)' <=> Moved(w)
         /\ since[w] <= since'[w]
<1>1. /\ pc[w] \in {"receipt", "audit", "notify"}
      /\ UNCHANGED <<task, evidence, batches>>
      /\ \E next \in {"audit", "notify", "ok"} :
           /\ Proceed(w, next, seen[w])
           /\ pc[w] = "receipt" => next = "audit"
  BY DEF Files, AppendReceipt, AppendAudit, QueueNotification
<1>2. /\ pc'[w] \in {"audit", "notify", "ok"} /\ UNCHANGED now
      /\ pc[w] = "receipt" => pc'[w] = "audit"
  BY <1>1 DEF Proceed, TypeInv, RequestTypeOK
<1>3. Moved(w)' <=> Moved(w)
  BY <1>1, <1>2 DEF Moved
<1>4. since[w] <= since'[w]
  BY DEF Files, TypeInv, RequestTypeOK
<1>5. QED  BY <1>1, <1>2, <1>3, <1>4

\* A quiet step leaves the movers alone.
LEMMA QuietWorkers ==
  ASSUME Base, NEW w \in Worker, Quiet(w)
  PROVE  WorkersOK'
<1>1. UNCHANGED batches /\ \A id \in BatchId : Reached(id)' = Reached(id)
  BY DEF Quiet, Reached
<1>2. \A v \in Worker \ {w} :
        pc'[v] = pc[v] /\ task'[v] = task[v] /\ seen'[v] = seen[v] /\ since'[v] = since[v]
  BY DEF Quiet, Others
<1>3. ShapesOK'
  <2>1. ASSUME NEW v \in Worker, pc'[v] \in {"commit", "submit", "save"}
        PROVE  Shaped(seen'[v])
    <3>1. CASE v # w
      BY <1>2, <2>1, <3>1 DEF Base, WorkersOK, ShapesOK
    <3>2. CASE v = w /\ pc'[w] = "save"
      <4>1. seen'[w] \in Batch /\ seen'[w] = batches[seen'[w].id]
        BY <3>2 DEF Quiet
      <4>2. seen'[w].id \in BatchId
        BY <4>1 DEF Batch
      <4>3. QED  BY <3>2, <4>1, <4>2, BatchIsNotNone DEF Base, WorkersOK, ShapesOK
    <3>3. CASE v = w /\ pc'[w] # "save"
      BY <2>1, <3>3 DEF Quiet
    <3>4. QED  BY <3>1, <3>2, <3>3
  <2>2. QED  BY <1>1, <2>1 DEF Base, WorkersOK, ShapesOK
<1>4. RequestsOK'
  <2>1. /\ task'[w].op = "registered" => task'[w].batch = ""
        /\ task'[w].op = "submitted" =>
             \A v \in Worker \ {w} : task[v].op = "submitted" =>
               task[v].batch # task'[w].batch
    <3>1. CASE task'[w] = task[w]
      BY <3>1 DEF Base, WorkersOK, RequestsOK
    <3>2. CASE task'[w] # task[w]
      BY <3>2 DEF Quiet, FreshBatch
    <3>3. QED  BY <3>1, <3>2
  <2>2. ASSUME NEW u \in Worker, NEW v \in Worker, u # v,
               task'[u].op = "submitted", task'[v].op = "submitted"
        PROVE  task'[u].batch # task'[v].batch
    <3>1. CASE u # w /\ v # w
      <4>1. task'[u] = task[u] /\ task'[v] = task[v]
        BY <1>2, <3>1
      <4>2. RequestsOK
        BY DEF Base, WorkersOK
      <4>3. QED  BY <2>2, <4>1, <4>2, Zenon DEF RequestsOK
    <3>2. CASE u = w
      BY <1>2, <2>1, <2>2, <3>2
    <3>3. CASE v = w
      BY <1>2, <2>1, <2>2, <3>3
    <3>4. QED  BY <3>1, <3>2, <3>3
  <2>3. ASSUME NEW v \in Worker, task'[v].op = "registered"
        PROVE  task'[v].batch = ""
    <3>1. CASE v = w
      BY <2>1, <2>3, <3>1
    <3>2. CASE v # w
      BY <1>2, <2>3, <3>2 DEF Base, WorkersOK, RequestsOK
    <3>3. QED  BY <3>1, <3>2
  <2>4. ASSUME NEW v \in Worker, pc'[v] \in {"commit", "submit"}
        PROVE  batches'[task'[v].batch] = NoBatch
    <3>1. CASE v = w
      BY <1>1, <2>4, <3>1 DEF Quiet
    <3>2. CASE v # w
      BY <1>1, <1>2, <2>4, <3>2 DEF Base, WorkersOK, RequestsOK
    <3>3. QED  BY <3>1, <3>2
  <2>5. ASSUME HasCommitter, NEW v \in Worker
        PROVE  pc'[v] # "submit" /\ (pc'[v] = "receipt" => task'[v].op # "submitted")
    <3>1. CASE v = w
      BY <2>5, <3>1 DEF Quiet, Moved
    <3>2. CASE v # w
      BY <1>2, <2>5, <3>2 DEF Base, WorkersOK, RequestsOK
    <3>3. QED  BY <3>1, <3>2
  <2>6. QED  BY <2>2, <2>3, <2>4, <2>5 DEF RequestsOK
<1>5. MoversOK'
  <2>1. ASSUME NEW v \in Worker, Moved(v)'
        PROVE  v # w /\ Moved(v)
    <3>1. v # w
      BY <2>1 DEF Quiet
    <3>2. QED  BY <1>2, <2>1, <3>1 DEF Moved
  <2>2. ASSUME NEW v \in Worker, Moved(v)'
        PROVE  MoverOK(v)'
    <3>1. v # w /\ MoverOK(v) /\ task[v].batch \in BatchId
      BY <2>1, <2>2 DEF Base, WorkersOK, MoversOK, MoverOK
    <3>2. QED  BY <1>1, <1>2, <3>1 DEF MoverOK
  <2>3. QED  BY <1>2, <2>1, <2>2 DEF Base, WorkersOK, MoversOK
<1>6. QED  BY <1>3, <1>4, <1>5 DEF WorkersOK

\* The worker that moves a batch is the one mover of the new state.
LEMMA StoresWorkers ==
  ASSUME Base, LegalStep, NEW w \in Worker, Stores(w)
  PROVE  WorkersOK'
<1> PICK id : id = task[w].batch
  OBVIOUS
<1> PICK b : b = seen'[w]
  OBVIOUS
<1>1. /\ id \in BatchId /\ b \in Batch /\ b.id = id /\ b.state = task[w].op
      /\ batches'[id] = b
      /\ \A i \in BatchId \ {id} : batches'[i] = batches[i]
      /\ Shaped(b) /\ Reached(id)' = Reached(id) \cup {b.state}
      /\ b.state \notin Reached(id)
      /\ batches[id] # NoBatch => /\ batches[id] \in Batch
                                  /\ b.scope = batches[id].scope
                                  /\ b.createdAt = batches[id].createdAt
                                  /\ b.revision = batches[id].revision + 1
  BY StoredHistory
<1>2. /\ UNCHANGED task /\ pc[w] \in {"commit", "submit", "save"}
      /\ pc'[w] \in {"audit", "receipt"} /\ b.updatedAt <= since'[w]
      /\ \A v \in Worker \ {w} :
           pc'[v] = pc[v] /\ seen'[v] = seen[v] /\ since'[v] = since[v]
  BY DEF Stores, Others
<1>3. ShapesOK'
  BY <1>1, <1>2 DEF Base, WorkersOK, ShapesOK
<1>4. RequestsOK'
  <2>1. ASSUME NEW v \in Worker, pc'[v] \in {"commit", "submit"}
        PROVE  batches'[task'[v].batch] = NoBatch
    <3>1. /\ v # w /\ pc[v] \in {"commit", "submit"}
          /\ batches[task[v].batch] = NoBatch
      BY <1>2, <2>1 DEF Base, WorkersOK, RequestsOK
    <3>2. task[v].op = "submitted" /\ task[v].batch \in BatchId
      BY <3>1 DEF Base, TypeInv, HandlersOK, Holds, Batch
    <3>3. task[v].batch # id
      <4>1. CASE pc[w] \in {"commit", "submit"}
        BY <3>1, <3>2, <4>1
           DEF Base, TypeInv, HandlersOK, Holds, WorkersOK, RequestsOK
      <4>2. CASE pc[w] = "save"
        BY <3>1, <4>2 DEF Base, Versions, IsVersionOf, TypeInv, HandlersOK, Holds
      <4>3. QED  BY <1>2, <4>1, <4>2
    <3>4. QED  BY <1>1, <1>2, <3>1, <3>2, <3>3
  <2>2. ASSUME HasCommitter, NEW v \in Worker
        PROVE  pc'[v] # "submit" /\ (pc'[v] = "receipt" => task'[v].op # "submitted")
    <3>1. CASE v = w
      BY <1>2, <2>2, <3>1 DEF Base, WorkersOK, RequestsOK, Stores
    <3>2. CASE v # w
      BY <1>2, <2>2, <3>2 DEF Base, WorkersOK, RequestsOK
    <3>3. QED  BY <3>1, <3>2
  <2>3. QED  BY <1>2, <2>1, <2>2 DEF Base, WorkersOK, RequestsOK
<1>5. \A v \in Worker \ {w} : Moved(v)' => Moved(v) /\ MoverOK(v)
  BY <1>2 DEF Base, WorkersOK, MoversOK, Moved
<1>6. ASSUME NEW v \in Worker, Moved(v)'
      PROVE  MoverOK(v)'
  <2>1. CASE v = w
    <3>1. /\ task'[w].op \in Reached(id)' /\ b.revision <= b.revision
          /\ b.createdAt <= b.updatedAt
      BY <1>1, <1>2 DEF Batch, Shaped
    <3>2. task'[v].batch = id /\ seen'[v] = b
      BY <1>2, <2>1
    <3>3. QED  BY <1>1, <1>2, <2>1, <3>1, <3>2 DEF MoverOK
  <2>2. CASE v # w /\ task[v].batch # id
    <3>1. MoverOK(v) /\ task[v].batch \in BatchId
      BY <1>5, <1>6, <2>2 DEF MoverOK
    <3>2. /\ batches'[task[v].batch] = batches[task[v].batch]
          /\ Reached(task[v].batch)' = Reached(task[v].batch)
      BY <1>1, <1>2, <2>2, <3>1 DEF Reached
    <3>3. QED  BY <1>2, <2>2, <3>1, <3>2 DEF MoverOK
  <2>3. CASE v # w /\ task[v].batch = id
    <3>1. /\ task[v].op \in Reached(id) /\ seen[v] \in Batch /\ seen[v].id = id
          /\ seen[v].state = task[v].op
          /\ seen[v].revision <= batches[id].revision
          /\ seen[v].scope = batches[id].scope
          /\ seen[v].createdAt = batches[id].createdAt
          /\ seen[v].createdAt <= seen[v].updatedAt
          /\ seen[v].updatedAt <= since[v]
      BY <1>5, <1>6, <2>3 DEF MoverOK
    <3>2. batches[id] # NoBatch
      BY <3>1 DEF Reached, History
    <3>3. seen[v].revision <= b.revision
      <4>1. seen[v].revision \in Nat /\ batches[id].revision \in Nat
        BY <1>1, <3>1, <3>2 DEF Batch
      <4>2. QED  BY <1>1, <3>1, <3>2, <4>1
    <3>4. seen[v].state # b.state
      BY <1>1, <3>1
    <3>5. /\ task'[v].batch = id /\ task'[v].op = task[v].op
          /\ seen'[v] = seen[v] /\ since'[v] = since[v]
      BY <1>2, <2>3
    <3>6. QED  BY <1>1, <1>2, <3>1, <3>2, <3>3, <3>4, <3>5 DEF MoverOK
  <2>4. QED  BY <2>1, <2>2, <2>3
<1>7. \A u, v \in Worker : Moved(u)' /\ Moved(v)' /\ u # v =>
        task'[u].batch # task'[v].batch \/ task'[u].op # task'[v].op
  <2>1. \A v \in Worker \ {w} : Moved(v)' /\ task[v].batch = id =>
          task[v].op # task[w].op
    BY <1>1, <1>5 DEF MoverOK
  <2>2. QED  BY <1>2, <1>5, <2>1 DEF Base, WorkersOK, MoversOK
<1>8. QED  BY <1>3, <1>4, <1>6, <1>7 DEF WorkersOK, MoversOK

\* Filing a record takes the mover on its way.
LEMMA FilesWorkers ==
  ASSUME Base, NEW w \in Worker, Files(w)
  PROVE  WorkersOK'
<1>1. /\ UNCHANGED <<task, batches>> /\ (Moved(w)' <=> Moved(w))
      /\ pc'[w] \in {"audit", "notify", "ok"}
      /\ seen'[w] = seen[w] /\ since[w] <= since'[w]
  BY FilesKeeps DEF Base, Files
<1>2. \A v \in Worker \ {w} :
        pc'[v] = pc[v] /\ seen'[v] = seen[v] /\ since'[v] = since[v]
  BY DEF Files, Others
<1>3. \A id \in BatchId : Reached(id)' = Reached(id)
  BY <1>1 DEF Reached
<1>4. ShapesOK' /\ RequestsOK'
  BY <1>1, <1>2 DEF Base, WorkersOK, ShapesOK, RequestsOK
<1>5. \A v \in Worker : Moved(v)' => Moved(v) /\ MoverOK(v)
  BY <1>1, <1>2 DEF Base, WorkersOK, MoversOK, Moved
<1>6. ASSUME NEW v \in Worker, Moved(v)'
      PROVE  MoverOK(v)'
  <2>1. MoverOK(v)
    BY <1>5, <1>6
  <2>2. seen[v].updatedAt <= since'[v]
    <3>1. /\ seen[v].updatedAt \in Nat /\ since[v] \in Nat /\ since'[v] \in Nat
          /\ seen[v].updatedAt <= since[v]
      <4>1. seen[v].updatedAt \in Nat /\ seen[v].updatedAt <= since[v]
        BY <2>1 DEF MoverOK, Batch, Instant
      <4>2. since[v] \in Nat /\ now \in Nat
        BY MaxTimeIsInstant DEF Base, TypeInv, RequestTypeOK
      <4>3. since'[v] \in Nat
        BY <1>2, <4>2 DEF Files
      <4>4. QED  BY <4>1, <4>2, <4>3
    <3>2. CASE v = w
      BY <1>1, <3>1, <3>2
    <3>3. CASE v # w
      BY <1>2, <3>1, <3>3
    <3>4. QED  BY <3>2, <3>3
  <2>3. QED  BY <1>1, <1>2, <1>3, <2>1, <2>2 DEF MoverOK
<1>7. QED  BY <1>1, <1>4, <1>5, <1>6 DEF Base, WorkersOK, MoversOK

\* Idling keeps what the workers hold.
LEMMA IdlesWorkers == ASSUME Base, Idles PROVE WorkersOK'
BY DEF Idles, Base, WorkersOK, ShapesOK, RequestsOK, MoversOK, MoverOK, Moved,
       Reached

\* Every step keeps the workers as they should be.
LEMMA WorkersStep ==
  ASSUME Base, [Next]_vars
  PROVE  WorkersOK'
<1>1. LegalStep
  BY VersionsStep DEF Base
<1>2. (\E w \in Worker : Quiet(w) \/ Stores(w) \/ Files(w)) \/ Idles
  BY StepEffect DEF Base
<1>3. QED
  BY <1>1, <1>2, QuietWorkers, StoresWorkers, FilesWorkers, IdlesWorkers

\* At the start nothing is stored and nobody has moved anything.
LEMMA WorkersInit == Init => WorkersOK
<1> SUFFICES ASSUME Init PROVE WorkersOK
  OBVIOUS
<1>1. /\ \A w \in Worker : pc[w] = "idle" /\ task[w].op = "none"
      /\ \A id \in BatchId : batches[id] = NoBatch
  BY DEF Init, NoTask, Request
<1>2. QED  BY <1>1 DEF WorkersOK, ShapesOK, RequestsOK, MoversOK, Moved

\* Every state a batch has been through has one worker that moved it there, and
\* this worker's copy is what it stored.
THEOREM WorkersInvariant == Spec => []WorkersOK
<1>1. TypeInv /\ Versions /\ WorkersOK /\ [Next]_vars => WorkersOK'
  BY WorkersStep DEF Base
<1>2. QED
  BY WorkersInit, <1>1, TypeInvariant, VersionsInvariant, PTL DEF Spec

-----------------------------------------------------------------------------
(***************************************************************************)
(* The evidence of batches: a stored batch satisfies the review policy at  *)
(* every later time, and its evidence is of its own project and material   *)
(* as long as names have no colon in them.                                 *)
(*                                                                         *)
(* Evidence is judged before its batch is stored, any number of steps      *)
(* before.  Both invariants rest on what registrations leave alone: an     *)
(* identifier is registered once, so the key of a new item is the key of   *)
(* no item there is, and no key a batch refers to.                         *)
(***************************************************************************)

\* Keys.

\* What keys are made of: the provers do not know that the colon is a string.
Character == STRING \cup {":"}

\* A sequence with two more entries.
LEMMA Extended ==
  ASSUME NEW k \in Seq(Character), NEW c, NEW x, NEW r, r = k \o <<c, x>>
  PROVE  /\ Len(r) = Len(k) + 2 /\ r[Len(k) + 2] = x
         /\ \A i \in 1 .. Len(k) : r[i] = k[i]
OBVIOUS

\* Two sequences with a character between them.
LEMMA Joined ==
  ASSUME NEW k \in Seq(Character), NEW l \in Seq(Character), NEW c,
         NEW r, r = k \o <<c>> \o l
  PROVE  /\ Len(r) = Len(k) + 1 + Len(l) /\ r[Len(k) + 1] = c
         /\ \A i \in 1 .. Len(k) : r[i] = k[i]
         /\ \A i \in 1 .. Len(l) : r[Len(k) + 1 + i] = l[i]
OBVIOUS

\* A key is a sequence of characters.
LEMMA KeyType ==
  ASSUME NEW scope \in Scope
  PROVE  Key(scope) \in Seq(Character)
<1>1. scope.project \in Seq(Character) /\ scope.material \in Seq(Character)
  BY NameAssumption DEF Scope, Character
<1>2. <<":">> \in Seq(Character)
  <2>1. \A S : \A c \in S : <<c>> \in Seq(S)
    OBVIOUS
  <2>2. QED  BY <2>1 DEF Character
<1>3. QED  BY <1>1, <1>2 DEF Key

\* A store key ends in the identifier.
LEMMA EvidenceKeys ==
  ASSUME NEW s \in Scope, NEW t \in Scope, NEW x, NEW y,
         EvidenceKey(s, x) = EvidenceKey(t, y)
  PROVE  x = y /\ Key(s) = Key(t)
<1>1. PICK k \in Seq(Character) : k = Key(s)
  BY KeyType
<1>2. PICK l \in Seq(Character) : l = Key(t)
  BY KeyType
<1>3. PICK r : r = EvidenceKey(s, x)
  OBVIOUS
<1>4. r = k \o <<":", x>>
  BY <1>1, <1>3 DEF EvidenceKey
<1>5. r = l \o <<":", y>>
  BY <1>2, <1>3 DEF EvidenceKey
<1>6. /\ Len(r) = Len(k) + 2 /\ r[Len(k) + 2] = x
      /\ \A i \in 1 .. Len(k) : r[i] = k[i]
  BY <1>4, Extended
<1>7. /\ Len(r) = Len(l) + 2 /\ r[Len(l) + 2] = y
      /\ \A i \in 1 .. Len(l) : r[i] = l[i]
  BY <1>5, Extended
<1>8. Len(k) \in Nat /\ Len(l) \in Nat
  OBVIOUS
<1>9. Len(k) = Len(l)
  BY <1>6, <1>7, <1>8
<1>10. k = l
  <2>1. \A i \in 1 .. Len(k) : k[i] = l[i]
    BY <1>6, <1>7, <1>9
  <2>2. QED  BY <1>9, <2>1
<1>11. QED  BY <1>1, <1>2, <1>6, <1>7, <1>9, <1>10

\* Scopes whose projects have no colon in their names have different keys.
LEMMA KeysDiffer ==
  ASSUME NEW s \in Scope, NEW t \in Scope, Key(s) = Key(t),
         \A n \in Name : \A i \in DOMAIN n : n[i] # ":"
  PROVE  s = t
<1> DEFINE p == s.project
           q == t.project
           m == s.material
           n == t.material
<1>1. /\ p \in Seq(Character) /\ q \in Seq(Character)
      /\ m \in Seq(Character) /\ n \in Seq(Character)
      /\ \A i \in DOMAIN p : p[i] # ":"
      /\ \A i \in DOMAIN q : q[i] # ":"
  BY NameAssumption DEF Scope, Character
<1>2. PICK r : r = Key(s)
  OBVIOUS
<1>3. r = p \o <<":">> \o m
  BY <1>2 DEF Key
<1>4. r = q \o <<":">> \o n
  BY <1>2 DEF Key
<1>5. s = [project |-> p, material |-> m] /\ t = [project |-> q, material |-> n]
  BY DEF Scope
<1> HIDE DEF p, q, m, n
<1>6. /\ Len(r) = Len(p) + 1 + Len(m) /\ r[Len(p) + 1] = ":"
      /\ \A i \in 1 .. Len(p) : r[i] = p[i]
      /\ \A i \in 1 .. Len(m) : r[Len(p) + 1 + i] = m[i]
  BY <1>1, <1>3, Joined
<1>7. /\ Len(r) = Len(q) + 1 + Len(n) /\ r[Len(q) + 1] = ":"
      /\ \A i \in 1 .. Len(q) : r[i] = q[i]
      /\ \A i \in 1 .. Len(n) : r[Len(q) + 1 + i] = n[i]
  BY <1>1, <1>4, Joined
<1>8. Len(p) \in Nat /\ Len(q) \in Nat /\ Len(m) \in Nat /\ Len(n) \in Nat
  BY <1>1
<1>9. Len(p) = Len(q)
  <2>1. ~(Len(p) < Len(q))
    <3>1. SUFFICES ASSUME Len(p) < Len(q) PROVE FALSE
      OBVIOUS
    <3>2. Len(p) + 1 \in 1 .. Len(q) /\ DOMAIN q = 1 .. Len(q)
      BY <1>1, <1>8, <3>1
    <3>3. q[Len(p) + 1] = ":"
      BY <1>6, <1>7, <3>2
    <3>4. QED  BY <1>1, <3>2, <3>3
  <2>2. ~(Len(q) < Len(p))
    <3>1. SUFFICES ASSUME Len(q) < Len(p) PROVE FALSE
      OBVIOUS
    <3>2. Len(q) + 1 \in 1 .. Len(p) /\ DOMAIN p = 1 .. Len(p)
      BY <1>1, <1>8, <3>1
    <3>3. p[Len(q) + 1] = ":"
      BY <1>6, <1>7, <3>2
    <3>4. QED  BY <1>1, <3>2, <3>3
  <2>3. QED  BY <1>8, <2>1, <2>2
<1>10. Len(m) = Len(n)
  BY <1>6, <1>7, <1>8, <1>9
<1>11. p = q
  <2>1. \A i \in 1 .. Len(p) : p[i] = q[i]
    BY <1>6, <1>7, <1>9
  <2>2. QED  BY <1>1, <1>9, <2>1
<1>12. m = n
  <2>1. \A i \in 1 .. Len(m) : m[i] = n[i]
    BY <1>6, <1>7, <1>9, <1>10
  <2>2. QED  BY <1>1, <1>10, <2>1
<1>13. QED  BY <1>5, <1>11, <1>12

-----------------------------------------------------------------------------
\* Registrations.

\* The identifier of an item is its own.
Unique == \A e, f \in evidence : e.id = f.id => e = f

\* The items that a set of identifiers refers to.
Found(scope, ids) == UNION {FindEvidence(evidence, scope, x) : x \in ids}

\* A verdict is "ok" when everything is found and satisfies the policy.
LEMMA GoodVerdict ==
  ASSUME NEW scope, NEW ids, NEW count
  PROVE  Verdict(scope, ids, count) = "ok" <=>
           /\ \A x \in ids : FindEvidence(evidence, scope, x) # {}
           /\ SatisfiesPolicy(Found(scope, ids), count)
BY DEF Verdict, Found

\* The batch's evidence is there and satisfies the policy.
Good(b) == Verdict(b.scope, b.evidence, Cardinality(b.evidence)) = "ok"

\* The batch a worker holds is good.
HoldsGood(w) == Good(seen[w])

\* What a registration does to the evidence.
LEMMA RegistrationAdds ==
  ASSUME TypeInv, [Next]_vars, evidence' # evidence
  PROVE  \E item \in Evidence :
           /\ \A e \in evidence : e.id # item.id
           /\ evidence' = evidence \cup {item}
<1>1. PICK w \in Worker, id \in EvidenceId, scope \in Scope,
           kind \in OfferedKinds, expiresAt \in OfferedExpiries :
        Register(w, id, scope, kind, expiresAt)
  <2>1. ASSUME NEW w \in Worker, Serve(w) \/ Disconnect(w) PROVE FALSE
    <3>1. CASE Serve(w)
      BY <3>1 DEF Serve, CommitSubmission, SubmitBatch, ValidateBatch, FindBatch,
         Load, SaveBatch, AppendReceipt, AppendAudit, QueueNotification, Abort,
         Reply, Fail, store
    <3>2. CASE Disconnect(w)
      BY <3>2 DEF Disconnect, store
    <3>3. QED  BY <2>1, <3>1, <3>2
  <2>2. ~Tick /\ ~UNCHANGED vars
    BY DEF Tick, vars, store
  <2>3. PICK w \in Worker : Arrive(w)
    BY <2>1, <2>2 DEF Next
  <2>4. ASSUME NEW id \in BatchId, NEW scope \in Scope, NEW list \in OfferedLists
        PROVE  ~CreateBatch(w, id, scope, list)
    BY DEF CreateBatch, Fail, store
  <2>5. \A id \in BatchId : ~StartReview(w, id) /\ ~CancelBatch(w, id)
    BY DEF StartReview, CancelBatch, Load, Fail, store
  <2>6. ASSUME NEW id \in BatchId, NEW to \in BatchState, NEW recipient
        PROVE  ~DecideBatch(w, id, to, recipient)
    BY DEF DecideBatch, Load, Fail, store
  <2>7. QED  BY <2>3, <2>4, <2>5, <2>6 DEF Arrive
<1>2. PICK at \in Clock(w) :
        evidence' = SaveEvidence(evidence,
                      [id |-> id, scope |-> scope, kind |-> kind,
                       expiresAt |-> expiresAt, createdAt |-> at])
  BY <1>1 DEF Register
<1> DEFINE item == [id |-> id, scope |-> scope, kind |-> kind,
                    expiresAt |-> expiresAt, createdAt |-> at]
<1>3. /\ \A e \in evidence : e.id # id
      /\ evidence' = SaveEvidence(evidence, item)
  BY <1>1, <1>2 DEF Register
<1>4. item \in Evidence /\ item.id = id /\ item.scope = scope
  <2>1. kind \in EvidenceKind /\ expiresAt \in Expiry /\ at \in Instant
    BY Constants, ClockIsInstant DEF TypeInv
  <2>2. QED  BY <2>1 DEF Evidence
<1> HIDE DEF item
<1>5. \A e \in evidence : EvidenceKey(e.scope, e.id) # EvidenceKey(item.scope, item.id)
  <2>1. SUFFICES ASSUME NEW e \in evidence,
                        EvidenceKey(e.scope, e.id) = EvidenceKey(item.scope, item.id)
                 PROVE  FALSE
    OBVIOUS
  <2>2. PICK s : s = e.scope /\ s \in Scope
    BY DEF TypeInv, StoreOK, StoreTypeOK, Evidence
  <2>3. PICK x : x = e.id
    OBVIOUS
  <2>4. EvidenceKey(s, x) = EvidenceKey(scope, id)
    BY <1>4, <2>1, <2>2, <2>3
  <2>5. x = id
    BY <2>2, <2>4, EvidenceKeys
  <2>6. QED  BY <1>3, <2>3, <2>5
<1>6. evidence' = evidence \cup {item}
  BY <1>3, <1>5 DEF SaveEvidence
<1>7. QED  BY <1>3, <1>4, <1>6

\* A registration takes nothing away from what was found.
LEMMA FoundStays ==
  ASSUME TypeInv, NEW item \in Evidence, \A e \in evidence : e.id # item.id,
         evidence' = evidence \cup {item},
         NEW scope \in Scope, NEW x, FindEvidence(evidence, scope, x) # {}
  PROVE  FindEvidence(evidence', scope, x) = FindEvidence(evidence, scope, x)
<1>1. item.scope \in Scope
  BY DEF Evidence
<1>2. PICK e \in evidence : EvidenceKey(e.scope, e.id) = EvidenceKey(scope, x)
  BY DEF FindEvidence
<1>3. PICK s : s = e.scope /\ s \in Scope
  BY DEF TypeInv, StoreOK, StoreTypeOK, Evidence
<1>4. PICK y : y = e.id
  OBVIOUS
<1>5. y = x
  BY <1>2, <1>3, <1>4, EvidenceKeys
<1>6. EvidenceKey(item.scope, item.id) # EvidenceKey(scope, x)
  <2>1. SUFFICES ASSUME EvidenceKey(item.scope, item.id) = EvidenceKey(scope, x)
                 PROVE  FALSE
    OBVIOUS
  <2>2. item.id = x
    BY <1>1, <2>1, EvidenceKeys
  <2>3. QED  BY <1>4, <1>5, <2>2
<1>7. QED  BY <1>6 DEF FindEvidence

\* What was judged good stays good, whatever is registered since.
LEMMA GoodStays ==
  ASSUME TypeInv, [Next]_vars, NEW b \in Batch, Good(b)
  PROVE  Good(b)'
<1> DEFINE scope == b.scope
           ids == b.evidence
           count == Cardinality(b.evidence)
<1>1. CASE evidence' = evidence
  BY <1>1 DEF Good, Verdict
<1>2. CASE evidence' # evidence
  <2>1. PICK item \in Evidence : /\ \A e \in evidence : e.id # item.id
                                 /\ evidence' = evidence \cup {item}
    BY <1>2, RegistrationAdds
  <2>2. scope \in Scope
    BY DEF Batch
  <2>3. /\ \A x \in ids : FindEvidence(evidence, scope, x) # {}
        /\ SatisfiesPolicy(Found(scope, ids), count)
    BY GoodVerdict DEF Good
  <2>4. \A x \in ids :
          FindEvidence(evidence', scope, x) = FindEvidence(evidence, scope, x)
    BY <2>1, <2>2, <2>3, FoundStays
  <2>5. UNION {FindEvidence(evidence', scope, x) : x \in ids} = Found(scope, ids)
    BY <2>4 DEF Found
  <2>6. QED  BY <2>3, <2>4, <2>5 DEF Good, Verdict
<1>3. QED  BY <1>1, <1>2


-----------------------------------------------------------------------------
\* Requests.

\* A list has no more identifiers than entries, and one when it has entries.
LEMMA NormalizedCount ==
  ASSUME NEW list \in Seq(EvidenceId)
  PROVE  /\ Cardinality(NormalizeIDs(list)) \in Nat
         /\ Cardinality(NormalizeIDs(list)) <= Len(list)
         /\ Len(list) > 0 => Cardinality(NormalizeIDs(list)) > 0
<1> DEFINE ids == NormalizeIDs(list)
           n == Len(list)
<1>1. n \in Nat /\ DOMAIN list = 1 .. n /\ list \in [1 .. n -> EvidenceId]
  OBVIOUS
<1>2. ids = {list[i] : i \in 1 .. n}
  BY <1>1 DEF NormalizeIDs
<1>3. list \in Surjection(1 .. n, ids)
  BY <1>1, <1>2 DEF Surjection
<1>4. IsFiniteSet(1 .. n) /\ Cardinality(1 .. n) = n
  <2>1. /\ IsFiniteSet(1 .. n)
        /\ Cardinality(1 .. n) = IF 1 > n THEN 0 ELSE n - 1 + 1
    BY <1>1, FS_Interval
  <2>2. QED  BY <1>1, <2>1
<1>5. IsFiniteSet(ids) /\ Cardinality(ids) <= n
  <2>1. PICK S : S = 1 .. n
    OBVIOUS
  <2>2. PICK T : T = ids
    OBVIOUS
  <2>3. list \in Surjection(S, T) /\ IsFiniteSet(S) /\ Cardinality(S) = n
    BY <1>3, <1>4, <2>1, <2>2
  <2>4. IsFiniteSet(T) /\ Cardinality(T) <= Cardinality(S)
    BY <2>3, FS_Surjection
  <2>5. QED  BY <2>2, <2>3, <2>4
<1>6. Cardinality(ids) \in Nat
  BY <1>5, FS_CardinalityType
<1>7. n > 0 => Cardinality(ids) > 0
  <2>1. SUFFICES ASSUME n > 0 PROVE Cardinality(ids) # 0
    BY <1>6
  <2>2. list[1] \in ids
    BY <1>1, <1>2, <2>1
  <2>3. QED  BY <1>5, <2>2, FS_EmptySet
<1>8. QED  BY <1>5, <1>6, <1>7

\* What satisfies the policy as a list satisfies it as a set.
LEMMA PolicyOnSet ==
  ASSUME NEW items, NEW list \in Seq(EvidenceId),
         SatisfiesPolicy(items, Len(list))
  PROVE  SatisfiesPolicy(items, Cardinality(NormalizeIDs(list)))
<1>1. Policy.maxEvidence \in Int
  BY DomainAssumption DEF DomainAssumption, ReviewPolicy
<1>2. Len(list) \in Nat
  OBVIOUS
<1>3. QED  BY <1>1, <1>2, NormalizedCount DEF SatisfiesPolicy

\* CreateBatch prepares a good batch.
LEMMA CreatedIsGood ==
  ASSUME TypeInv, NEW w \in Worker, NEW id \in BatchId, NEW scope \in Scope,
         NEW list \in OfferedLists, CreateBatch(w, id, scope, list),
         pc'[w] \in {"commit", "submit"}
  PROVE  HoldsGood(w)'
<1> DEFINE ids == NormalizeIDs(list)
           verdict == Verdict(scope, ids, Len(list))
           b == Transition(NewBatch(id, scope, ids, now), "submitted", now)
<1>1. list \in Seq(EvidenceId)
  BY Constants
<1>2. b.scope = scope /\ b.evidence = ids
  BY DEF Transition, NewBatch
<1> HIDE DEF b
<1>3. verdict = "ok"
  <2>1. SUFFICES ASSUME verdict # "ok" PROVE FALSE
    OBVIOUS
  <2>2. Fail(w, verdict) /\ verdict \in Answer
    BY <2>1 DEF CreateBatch, Verdict, Answer
  <2>3. pc'[w] = verdict
    BY <2>2 DEF Fail, Proceed, TypeInv, RequestTypeOK
  <2>4. QED  BY <2>2, <2>3 DEF Answer
<1>4. (\E next : Proceed(w, next, b)) /\ UNCHANGED store
  BY <1>3 DEF CreateBatch, b
<1>5. seen'[w] = b /\ evidence' = evidence
  BY <1>4 DEF Proceed, TypeInv, RequestTypeOK, store
<1>6. /\ \A x \in ids : FindEvidence(evidence, scope, x) # {}
      /\ SatisfiesPolicy(Found(scope, ids), Cardinality(ids))
  BY <1>1, <1>3, GoodVerdict, PolicyOnSet
<1>7. Verdict(scope, ids, Cardinality(ids)) = "ok"
  BY <1>6, GoodVerdict
<1>8. QED  BY <1>2, <1>5, <1>7 DEF HoldsGood, Good, Verdict

\* A worker about to store a new batch holds the one it prepared.
LEMMA HolderStays ==
  ASSUME TypeInv, Versions, [Next]_vars, NEW v \in Worker,
         pc'[v] \in {"commit", "submit"}
  PROVE  \/ pc[v] = pc'[v] /\ seen'[v] = seen[v]
         \/ HoldsGood(v)'
<1>1. ASSUME NEW w \in Worker, Arrive(w) \/ Serve(w), w # v
      PROVE  pc'[v] = pc[v] /\ seen'[v] = seen[v]
  <2>1. Others(w)
    BY <1>1, ArriveIsQuiet, ServeEffect DEF Quiet, Stores, Files
  <2>2. QED  BY <1>1, <2>1 DEF Others
<1>2. CASE Arrive(v)
  <2>1. ~\E id \in EvidenceId, scope \in Scope, kind \in OfferedKinds,
            expiresAt \in OfferedExpiries : Register(v, id, scope, kind, expiresAt)
    BY DEF Register, Proceed, TypeInv, RequestTypeOK
  <2>2. ASSUME NEW t, Load(v, t) PROVE FALSE
    BY <2>2 DEF Load, Fail, Proceed, TypeInv, RequestTypeOK
  <2>3. ASSUME NEW id \in BatchId, StartReview(v, id) PROVE FALSE
    BY <2>3 DEF StartReview, Fail, Proceed, TypeInv, RequestTypeOK
  <2>4. PICK id \in BatchId, scope \in Scope, list \in OfferedLists :
          CreateBatch(v, id, scope, list)
    BY <1>2, <2>1, <2>2, <2>3 DEF Arrive, DecideBatch, CancelBatch
  <2>5. QED  BY <2>4, CreatedIsGood
<1>3. ASSUME Serve(v) PROVE FALSE
  <2>1. ASSUME NEW t, Load(v, t) PROVE FALSE
    BY <2>1 DEF Load, Fail, Proceed, TypeInv, RequestTypeOK
  <2>2. ASSUME NEW b, NEW next, Proceed(v, next, b) PROVE next = pc'[v]
    BY <2>2 DEF Proceed, TypeInv, RequestTypeOK
  <2>3. ~CommitSubmission(v) /\ ~SubmitBatch(v)
    BY <2>2 DEF CommitSubmission, SubmitBatch, Fail
  <2>4. ~SaveBatch(v)
    BY <2>2 DEF SaveBatch, Fail
  <2>5. ~ValidateBatch(v)
    BY <2>2 DEF ValidateBatch, Fail, Verdict
  <2>6. ~AppendReceipt(v) /\ ~AppendAudit(v) /\ ~QueueNotification(v)
    BY <2>2 DEF AppendReceipt, AppendAudit, QueueNotification
  <2>7. ~Abort(v)
    BY <2>2 DEF Abort, Fail
  <2>8. ~Reply(v)
    BY DEF Reply, TypeInv, RequestTypeOK
  <2>9. QED  BY <1>3, <2>1, <2>3, <2>4, <2>5, <2>6, <2>7, <2>8 DEF Serve, FindBatch
<1>4. ASSUME (\E w \in Worker : Disconnect(w)) \/ Tick \/ UNCHANGED vars
      PROVE  pc'[v] = pc[v] /\ seen'[v] = seen[v]
  BY <1>4 DEF Disconnect, Tick, vars, request
<1>5. QED  BY <1>1, <1>2, <1>3, <1>4 DEF Next


-----------------------------------------------------------------------------
(***************************************************************************)
(* The invariant: identifiers of evidence are unique, and the batches that *)
(* are stored, or prepared to be, are good.                                *)
(***************************************************************************)
EvidenceOK ==
  /\ Unique
  /\ \A w \in Worker : pc[w] \in {"commit", "submit"} => HoldsGood(w)
  /\ \A id \in BatchId : batches[id] # NoBatch => Good(batches[id])

\* A stored batch that moves is one that was prepared, or has the evidence it
\* had.
LEMMA MovedIsGood ==
  ASSUME Base, EvidenceOK, [Next]_vars, NEW id \in BatchId,
         batches'[id] # batches[id]
  PROVE  \E b \in Batch :
           /\ Good(b)
           /\ batches'[id] \in Batch
           /\ batches'[id].scope = b.scope /\ batches'[id].evidence = b.evidence
<1>1. TypeInv /\ Versions
  BY DEF Base
<1>2. PICK w \in Worker : Stores(w)
  BY <1>1, StepEffect DEF Quiet, Files, AppendReceipt, AppendAudit,
     QueueNotification, Idles
<1>3. PICK new \in Batch : /\ new = seen'[w] /\ new.id = task[w].batch
                           /\ new.id \in BatchId
                           /\ batches' = [batches EXCEPT ![new.id] = new]
                           /\ pc[w] \in {"commit", "submit"} => new = seen[w]
                           /\ pc[w] \in {"commit", "submit", "save"}
  BY <1>2 DEF Stores
<1>4. batches \in [BatchId -> Batch \cup {NoBatch}]
  BY <1>1 DEF TypeInv, StoreOK, StoreTypeOK
<1>5. id = new.id /\ batches'[id] = new
  BY <1>3, <1>4
<1>6. CASE pc[w] \in {"commit", "submit"}
  BY <1>3, <1>5, <1>6 DEF EvidenceOK, HoldsGood
<1>7. CASE batches[id] # NoBatch
  <2>1. OneLegalStep(batches[id], batches'[id])
    BY <1>1, <1>5, VersionsStep, BatchIsNotNone DEF LegalStep
  <2>2. batches[id] \in Batch /\ Good(batches[id])
    BY <1>4, <1>7 DEF EvidenceOK
  <2>3. new.scope = batches[id].scope /\ new.evidence = batches[id].evidence
    BY <1>5, <1>7, <2>1, <2>2, ZenonT(40) DEF OneLegalStep, Transition, Batch
  <2>4. QED  BY <1>5, <2>2, <2>3
<1>8. CASE pc[w] = "save" /\ batches[id] = NoBatch
  BY <1>1, <1>3, <1>5, <1>8 DEF Versions, IsVersionOf, TypeInv, HandlersOK, Holds
<1>9. QED  BY <1>3, <1>6, <1>7, <1>8


\* A registration gives an item an identifier of its own.
LEMMA UniqueStays == ASSUME TypeInv, Unique, [Next]_vars PROVE Unique'
<1>1. CASE evidence' = evidence
  BY <1>1 DEF Unique
<1>2. CASE evidence' # evidence
  <2>1. PICK item \in Evidence : /\ \A e \in evidence : e.id # item.id
                                 /\ evidence' = evidence \cup {item}
    BY <1>2, RegistrationAdds
  <2>2. QED  BY <2>1 DEF Unique
<1>3. QED  BY <1>1, <1>2

\* Every step keeps what is good.
LEMMA EvidenceStep ==
  ASSUME Base, EvidenceOK, [Next]_vars
  PROVE  EvidenceOK'
<1>1. TypeInv /\ Versions
  BY DEF Base
<1>2. Unique'
  BY <1>1, UniqueStays DEF EvidenceOK
<1>3. ASSUME NEW v \in Worker, pc'[v] \in {"commit", "submit"}
      PROVE  HoldsGood(v)'
  <2>1. CASE pc[v] = pc'[v] /\ seen'[v] = seen[v]
    <3>1. PICK b \in Batch : b = seen[v]
      BY <1>1, <1>3, <2>1 DEF TypeInv, HandlersOK, Holds
    <3>2. Good(b)
      BY <1>3, <2>1, <3>1 DEF EvidenceOK, HoldsGood
    <3>3. Good(b)'
      BY <1>1, <3>2, GoodStays
    <3>4. seen'[v] = b
      BY <2>1, <3>1
    <3>5. QED  BY <3>3, <3>4 DEF HoldsGood, Good, Verdict
  <2>2. QED  BY <1>1, <1>3, <2>1, HolderStays
<1>4. ASSUME NEW id \in BatchId, batches'[id] # NoBatch
      PROVE  Good(batches[id])'
  <2>1. \E b \in Batch :
          /\ Good(b)
          /\ batches'[id] \in Batch
          /\ batches'[id].scope = b.scope /\ batches'[id].evidence = b.evidence
    <3>1. CASE batches'[id] # batches[id]
      BY <3>1, MovedIsGood
    <3>2. CASE batches'[id] = batches[id]
      BY <1>1, <1>4, <3>2 DEF EvidenceOK, TypeInv, StoreOK, StoreTypeOK
    <3>3. QED  BY <3>1, <3>2
  <2>2. PICK b \in Batch :
          /\ Good(b)
          /\ batches'[id].scope = b.scope /\ batches'[id].evidence = b.evidence
    BY <2>1
  <2>3. Good(b)'
    BY <1>1, <2>2, GoodStays
  <2>4. QED  BY <2>2, <2>3 DEF Good, Verdict
<1>5. QED  BY <1>2, <1>3, <1>4 DEF EvidenceOK

\* At the start there is no evidence and no batch.
LEMMA EvidenceInit == Init => EvidenceOK
BY DEF Init, EvidenceOK, Unique

\* Batches are good when they are prepared and stay so.
THEOREM EvidenceInvariant == Spec => []EvidenceOK
<1>1. TypeInv /\ Versions /\ WorkersOK /\ EvidenceOK /\ [Next]_vars => EvidenceOK'
  BY EvidenceStep DEF Base
<1>2. QED
  BY EvidenceInit, <1>1, TypeInvariant, VersionsInvariant, WorkersInvariant, PTL
     DEF Spec

\* A stored batch satisfies the review policy at every later time: starting its
\* review never ends in "no longer satisfies review policy"
\* (validation.go:18-20).
THEOREM PolicyStaysSatisfied == Spec => []PolicyIsStable
<1>1. EvidenceOK => PolicyIsStable
  BY DEF EvidenceOK, Good, PolicyIsStable
<1>2. QED  BY <1>1, EvidenceInvariant, PTL

\* The evidence of a batch was registered for the batch's own project and
\* material, as long as no name has a colon in it (scope.go:29).
THEOREM EvidenceStaysInScope ==
  ASSUME \A n \in Name : \A i \in DOMAIN n : n[i] # ":"
  PROVE  Spec => []EvidenceIsOfTheScope
<1>1. ASSUME TypeInv, EvidenceOK, NEW id \in BatchId, batches[id] # NoBatch,
             NEW item \in evidence, item.id \in batches[id].evidence
      PROVE  item.scope = batches[id].scope
  <2>1. PICK b \in Batch : b = batches[id] /\ Good(b)
    BY <1>1 DEF TypeInv, StoreOK, StoreTypeOK, EvidenceOK
  <2>2. FindEvidence(evidence, b.scope, item.id) # {}
    BY <1>1, <2>1, GoodVerdict DEF Good
  <2>3. PICK e \in evidence :
          EvidenceKey(e.scope, e.id) = EvidenceKey(b.scope, item.id)
    BY <2>2 DEF FindEvidence
  <2>4. evidence \subseteq Evidence
    BY <1>1 DEF TypeInv, StoreOK, StoreTypeOK
  <2>5. PICK s : s = e.scope /\ s \in Scope
    BY <2>4 DEF Evidence
  <2>6. PICK t : t = b.scope /\ t \in Scope
    BY DEF Batch
  <2>7. PICK x, y : x = e.id /\ y = item.id
    OBVIOUS
  <2>8. EvidenceKey(s, x) = EvidenceKey(t, y)
    BY <2>3, <2>5, <2>6, <2>7
  <2>9. x = y /\ Key(s) = Key(t)
    BY <2>5, <2>6, <2>8, EvidenceKeys
  <2>10. s = t
    BY <2>5, <2>6, <2>9, KeysDiffer
  <2>11. e = item
    BY <1>1, <2>7, <2>9 DEF EvidenceOK, Unique
  <2>12. QED  BY <2>1, <2>5, <2>6, <2>10, <2>11
<1>2. TypeInv /\ EvidenceOK => EvidenceIsOfTheScope
  BY <1>1 DEF EvidenceIsOfTheScope
<1>3. QED  BY <1>2, TypeInvariant, EvidenceInvariant, PTL
=============================================================================
