--------------------------- MODULE ReviewService ---------------------------
(***************************************************************************)
(* The requests of application.EvidenceService that change the store:      *)
(* RegisterEvidence, CreateBatch, StartReview, DecideBatch, CancelBatch.   *)
(*                                                                         *)
(* A worker is a goroutine of the HTTP server with one request at a time.  *)
(* Each store method is atomic (Store.mu), so a worker's pc names the      *)
(* store call it is about to make, and everything between two calls - a    *)
(* transition of the local copy, reading the clock - belongs to the step   *)
(* of the later call.  Any number of other steps may come between.  A pc   *)
(* that is an answer is the result the handler hands to the transport.     *)
(*                                                                         *)
(* A client may disconnect at any moment of its request: its context is    *)
(* then cancelled, every later store call returns the context's error, and *)
(* the handler returns with whatever it has already stored left in place.  *)
(* A context cancelled before the first store call stores nothing and is   *)
(* not told apart from a request that never came.                          *)
(*                                                                         *)
(* The clock is read between the worker's previous store call and the one  *)
(* it prepares: any instant since that call.  A request that has made none *)
(* may have arrived at any instant, and since[w] is 0.  The clock never    *)
(* goes back: an assumption on the machine, because time.Now().UTC() drops *)
(* the monotonic reading Go takes along with the wall clock.               *)
(***************************************************************************)
EXTENDS Repository

CONSTANTS
  Worker,           \* the goroutines that serve requests
  OfferedKinds,     \* kinds of the evidence clients register
  OfferedExpiries,  \* expiries of the evidence clients register
  OfferedLists,     \* evidence lists clients submit, duplicates included
  HasCommitter,     \* whether the store of batches is a SubmissionCommitter
  MayDisconnect,    \* whether clients may go away during a request
  MaxTime           \* the last instant the clock shows

ASSUME ServiceAssumption ==
  /\ OfferedKinds \subseteq EvidenceKind
  /\ OfferedExpiries \subseteq Expiry
  /\ OfferedLists \subseteq Seq(EvidenceId)
  /\ HasCommitter \in BOOLEAN
  /\ MayDisconnect \in BOOLEAN
  /\ MaxTime \in Nat
  /\ "" \notin BatchId

VARIABLES
  now,        \* the wall clock
  evidence,   \* Store.evidence
  batches,    \* Store.batches
  receipts,   \* Store.receipts
  audits,     \* Store.audits
  notices,    \* Store.notifications
  pc,         \* per worker: the store call it is about to make, or its answer
  task,       \* per worker: the request
  seen,       \* per worker: the handler's copy of the batch
  since,      \* per worker: when its previous store call returned
  gone        \* per worker: whether the request's context is cancelled

store == <<evidence, batches, receipts, audits, notices>>
request == <<pc, task, seen, since, gone>>
vars == <<now, store, request>>

\* A request is named by the state it moves a batch to.
Operation == DOMAIN AuditActionFor
Task == [op : Operation \cup {"none"}, batch : BatchId \cup {""},
         recipient : Recipient \cup {""},
         key : {Key(scope) : scope \in Scope} \cup {<<>>}]
Request(op, id, recipient) ==
  [op |-> op, batch |-> id, recipient |-> recipient, key |-> <<>>]
NoTask == Request("none", "", "")

StoreCall == {"commit", "submit", "validate", "find", "save", "receipt", "notify"}

\* What a handler returns: no error, ErrNotFound, the policy's error, the error
\* of a transition that is not admitted, ErrConflict, the context's error.
Answer == {"ok", "not_found", "unsatisfied", "invalid_state", "conflict",
           "cancelled"}

AuditEvent == [batch : BatchId \cup {""},
               action : {AuditActionFor[op] : op \in Operation},
               at : Instant]

Init ==
  /\ now = 0
  /\ evidence = {}
  /\ batches = [id \in BatchId |-> NoBatch]
  /\ receipts = [id \in BatchId |-> <<>>]
  /\ audits = [key \in {Key(scope) : scope \in Scope} |-> <<>>]
  /\ notices = <<>>
  /\ pc = [w \in Worker |-> "idle"]
  /\ task = [w \in Worker |-> NoTask]
  /\ seen = [w \in Worker |-> NoBatch]
  /\ since = [w \in Worker |-> 0]
  /\ gone = [w \in Worker |-> FALSE]
---------------------------------------------------------------------------
\* Variant: a reading from before the worker's previous call.
ClockAnyTime(w) == 0 .. now

\* The instants the worker may have read since its previous store call.
Clock(w) == since[w] .. now

\* The worker's call returned b and its next one is at next.
Proceed(w, next, b) ==
  /\ pc' = [pc EXCEPT ![w] = next]
  /\ seen' = [seen EXCEPT ![w] = b]
  /\ since' = [since EXCEPT ![w] = now]
  /\ UNCHANGED <<now, gone>>

\* The handler returns an error, and with it an empty batch.
Fail(w, answer) == Proceed(w, answer, NoBatch) /\ UNCHANGED store

\* resolveEvidence and then ReviewPolicy.Validate, on count identifiers.
Verdict(scope, ids, count) ==
  LET found(id) == FindEvidence(evidence, scope, id)
  IN IF \E id \in ids : found(id) = {} THEN "not_found"
     ELSE IF SatisfiesPolicy(UNION {found(id) : id \in ids}, count) THEN "ok"
     ELSE "unsatisfied"

\* Variant: the transition is not judged.
LoadUnjudged(w, t) ==
  /\ task' = [task EXCEPT ![w] = t]
  /\ Proceed(w, IF batches[t.batch] = NoBatch THEN "not_found" ELSE "save",
             batches[t.batch])
  /\ UNCHANGED store

\* FindBatch, and Transition of the copy: the copy is kept as it was found,
\* because the instant of its transition is read later.
Load(w, t) ==
  /\ task' = [task EXCEPT ![w] = t]
  /\ LET b == batches[t.batch]
     IN IF b = NoBatch THEN Fail(w, "not_found")
        ELSE IF ~CanTransition(b, t.op) THEN Fail(w, "invalid_state")
        ELSE Proceed(w, "save", b) /\ UNCHANGED store
---------------------------------------------------------------------------
\* RegisterEvidence: NewEvidence, which reads the clock, and SaveEvidence; the
\* audit event is next.
Register(w, id, scope, kind, expiresAt) ==
  /\ pc[w] = "idle"
  /\ \A item \in evidence : item.id # id
  /\ \E t \in Clock(w) :
       evidence' = SaveEvidence(evidence,
                     [id |-> id, scope |-> scope, kind |-> kind,
                      expiresAt |-> expiresAt, createdAt |-> t])
  /\ task' = [task EXCEPT ![w] =
                [op |-> "registered", batch |-> "", recipient |-> "",
                 key |-> Key(scope)]]
  /\ Proceed(w, "audit", NoBatch)
  /\ UNCHANGED <<batches, receipts, audits, notices>>

\* An identifier no stored batch and no request has.
FreshBatch(id) ==
  /\ batches[id] = NoBatch
  /\ \A w \in Worker : task[w].op = "submitted" => task[w].batch # id

\* Variant: evidence is neither resolved nor judged.
CreateBatchUnjudged(w, id, scope, list) ==
  /\ pc[w] = "idle"
  /\ FreshBatch(id)
  /\ task' = [task EXCEPT ![w] = Request("submitted", id, "")]
  /\ Proceed(w, "commit", Transition(NewBatch(id, scope, NormalizeIDs(list), now),
                                     "submitted", now))
  /\ UNCHANGED store

\* CreateBatch until it commits.  Evidence is never removed or replaced, so
\* reading the items one after another finds what reading them at the last
\* instant finds.
CreateBatch(w, id, scope, list) ==
  /\ pc[w] = "idle"
  /\ FreshBatch(id)
  /\ task' = [task EXCEPT ![w] = Request("submitted", id, "")]
  /\ LET ids == NormalizeIDs(list)
         verdict == Verdict(scope, ids, Len(list))
         batch == Transition(NewBatch(id, scope, ids, now), "submitted", now)
     IN IF verdict = "ok"
        THEN /\ Proceed(w, IF HasCommitter THEN "commit" ELSE "submit", batch)
             /\ UNCHANGED store
        ELSE Fail(w, verdict)

\* Variant: the batch is committed without its receipt.
CommitSubmissionBare(w) ==
  /\ pc[w] = "commit" /\ ~gone[w]
  /\ batches' = [batches EXCEPT ![seen[w].id] = seen[w]]
  /\ Proceed(w, "audit", seen[w])
  /\ UNCHANGED <<task, evidence, receipts, audits, notices>>

\* CommitSubmission: the batch and its first receipt under one lock.
CommitSubmission(w) ==
  /\ pc[w] = "commit" /\ ~gone[w]
  /\ LET batch == seen[w]
         receipt == [kind |-> ReceiptFor["submitted"], at |-> batch.createdAt]
     IN IF SubmissionAccepts(batches[batch.id])
        THEN /\ batches' = [batches EXCEPT ![batch.id] = batch]
             /\ receipts' = AppendAt(receipts, batch.id, receipt)
             /\ Proceed(w, "audit", batch)
             /\ UNCHANGED <<evidence, audits, notices>>
        ELSE Fail(w, "conflict")
  /\ UNCHANGED task

\* Variant: the receipt is forgotten.
SubmitBatchUnreceipted(w) ==
  /\ pc[w] = "submit" /\ ~gone[w]
  /\ batches' = [batches EXCEPT ![seen[w].id] = seen[w]]
  /\ Proceed(w, "audit", seen[w])
  /\ UNCHANGED <<task, evidence, receipts, audits, notices>>

\* The other way of CreateBatch, for a store without CommitSubmission: SaveBatch,
\* and the first receipt in a call of its own (AppendReceipt).
SubmitBatch(w) ==
  /\ pc[w] = "submit" /\ ~gone[w]
  /\ LET batch == seen[w]
     IN IF SaveAccepts(batches[batch.id], batch)
        THEN /\ batches' = [batches EXCEPT ![batch.id] = batch]
             /\ Proceed(w, "receipt", batch)
             /\ UNCHANGED <<evidence, receipts, audits, notices>>
        ELSE Fail(w, "conflict")
  /\ UNCHANGED task

\* StartReview begins with the FindBatch of ValidateBatch ...
StartReview(w, id) ==
  /\ pc[w] = "idle"
  /\ task' = [task EXCEPT ![w] = Request("under_review", id, "")]
  /\ IF batches[id] = NoBatch
     THEN Fail(w, "not_found")
     ELSE Proceed(w, "validate", batches[id]) /\ UNCHANGED store

\* ... checks the evidence of that copy ...
ValidateBatch(w) ==
  /\ pc[w] = "validate" /\ ~gone[w]
  /\ LET ids == seen[w].evidence
         verdict == Verdict(seen[w].scope, ids, Cardinality(ids))
     IN IF verdict = "ok"
        THEN Proceed(w, "find", NoBatch) /\ UNCHANGED store
        ELSE Fail(w, verdict)
  /\ UNCHANGED task

\* ... and then finds the batch again.
FindBatch(w) ==
  /\ pc[w] = "find" /\ ~gone[w]
  /\ Load(w, task[w])

\* DecideBatch and CancelBatch begin with FindBatch.
DecideBatch(w, id, to, recipient) ==
  /\ pc[w] = "idle"
  /\ to \in {"approved", "rejected"}
  /\ Load(w, Request(to, id, recipient))

CancelBatch(w, id) ==
  /\ pc[w] = "idle"
  /\ Load(w, Request("cancelled", id, ""))

\* Variant: the receipt is forgotten.
SaveBatchUnreceipted(w) ==
  /\ pc[w] = "save" /\ ~gone[w]
  /\ LET batch == Transition(seen[w], task[w].op, now)
     IN IF SaveAccepts(batches[batch.id], batch)
        THEN /\ batches' = [batches EXCEPT ![batch.id] = batch]
             /\ Proceed(w, "audit", batch)
             /\ UNCHANGED <<evidence, receipts, audits, notices>>
        ELSE Fail(w, "conflict")
  /\ UNCHANGED task

\* Variant: the conflict is ignored.
SaveBatchUnchecked(w) ==
  /\ pc[w] = "save" /\ ~gone[w]
  /\ LET batch == Transition(seen[w], task[w].op, now)
     IN /\ batches' = IF SaveAccepts(batches[batch.id], batch)
                      THEN [batches EXCEPT ![batch.id] = batch] ELSE batches
        /\ Proceed(w, "receipt", batch)
  /\ UNCHANGED <<task, evidence, receipts, audits, notices>>

\* SaveBatch of the transitioned copy.
SaveBatch(w) ==
  /\ pc[w] = "save" /\ ~gone[w]
  /\ \E t \in Clock(w) :
       LET batch == Transition(seen[w], task[w].op, t)
       IN IF SaveAccepts(batches[batch.id], batch)
          THEN /\ batches' = [batches EXCEPT ![batch.id] = batch]
               /\ Proceed(w, "receipt", batch)
               /\ UNCHANGED <<evidence, receipts, audits, notices>>
          ELSE Fail(w, "conflict")
  /\ UNCHANGED task

\* The receipt of a submission was written when the batch was made, the others
\* are dated after the batch has been saved.
AppendReceipt(w) ==
  /\ pc[w] = "receipt" /\ ~gone[w]
  /\ \E t \in IF task[w].op = "submitted" THEN {seen[w].createdAt} ELSE Clock(w) :
       receipts' = AppendAt(receipts, seen[w].id,
                            [kind |-> ReceiptFor[task[w].op], at |-> t])
  /\ Proceed(w, "audit", seen[w])
  /\ UNCHANGED <<task, evidence, batches, audits, notices>>

\* appendAudit drops the store's error: with a cancelled context the event is
\* lost and the request goes on.
AppendAudit(w) ==
  /\ pc[w] = "audit"
  /\ LET op == task[w].op
         key == IF op = "registered" THEN task[w].key ELSE Key(seen[w].scope)
         event(t) == [batch |-> task[w].batch, action |-> AuditActionFor[op],
                      at |-> t]
     IN IF gone[w] THEN UNCHANGED audits
        ELSE \E t \in Clock(w) : audits' = AppendAt(audits, key, event(t))
  /\ Proceed(w, IF task[w].recipient # "" THEN "notify" ELSE "ok", seen[w])
  /\ UNCHANGED <<task, evidence, batches, receipts, notices>>

\* queueNotification
QueueNotification(w) ==
  /\ pc[w] = "notify" /\ ~gone[w]
  /\ \E t \in Clock(w) :
       notices' = QueueNotice(notices,
                    [batch |-> seen[w].id, recipient |-> task[w].recipient,
                     event |-> AuditActionFor[task[w].op],
                     state |-> "pending", attempts |-> 0, createdAt |-> t])
  /\ Proceed(w, "ok", seen[w])
  /\ UNCHANGED <<task, evidence, batches, receipts, audits>>

\* Variant: the context's error is swallowed.
AbortQuietly(w) ==
  /\ pc[w] \in StoreCall /\ gone[w]
  /\ Proceed(w, "ok", seen[w])
  /\ UNCHANGED <<task, store>>

\* A store call under a cancelled context returns the context's error.
Abort(w) ==
  /\ pc[w] \in StoreCall /\ gone[w]
  /\ Fail(w, "cancelled")
  /\ UNCHANGED task

\* The HTTP status writeError gives an answer: it maps ErrNotFound, ErrConflict,
\* ErrInvalidState and ErrCancelled, the last two of which no handler returns -
\* Transition reports its error as a text, a store call the context's own.
Status(answer) ==
  CASE answer = "ok"        -> 200
    [] answer = "not_found" -> 404
    [] answer = "conflict"  -> 409
    [] OTHER                -> 500

\* The answer is sent and the worker is free.
Reply(w) ==
  /\ pc[w] \in Answer
  /\ pc' = [pc EXCEPT ![w] = "idle"]
  /\ task' = [task EXCEPT ![w] = NoTask]
  /\ seen' = [seen EXCEPT ![w] = NoBatch]
  /\ since' = [since EXCEPT ![w] = 0]
  /\ gone' = [gone EXCEPT ![w] = FALSE]
  /\ UNCHANGED <<now, store>>

\* The client goes away during the request.
Disconnect(w) ==
  /\ MayDisconnect
  /\ pc[w] \in StoreCall \cup {"audit"} /\ ~gone[w]
  /\ gone' = [gone EXCEPT ![w] = TRUE]
  /\ UNCHANGED <<now, store, pc, task, seen, since>>

Tick ==
  /\ now < MaxTime
  /\ now' = now + 1
  /\ UNCHANGED <<store, request>>
---------------------------------------------------------------------------
\* What a client may ask of an idle worker.
Arrive(w) ==
  \/ \E id \in EvidenceId, scope \in Scope, kind \in OfferedKinds,
        expiresAt \in OfferedExpiries : Register(w, id, scope, kind, expiresAt)
  \/ \E id \in BatchId, scope \in Scope, list \in OfferedLists :
        CreateBatch(w, id, scope, list)
  \/ \E id \in BatchId : StartReview(w, id)
  \/ \E id \in BatchId, to \in BatchState, recipient \in Recipient \cup {""} :
        DecideBatch(w, id, to, recipient)
  \/ \E id \in BatchId : CancelBatch(w, id)

\* The steps of a request that has arrived; the worker never blocks in one.
Serve(w) ==
  \/ CommitSubmission(w) \/ SubmitBatch(w) \/ ValidateBatch(w) \/ FindBatch(w)
  \/ SaveBatch(w) \/ AppendReceipt(w) \/ AppendAudit(w)
  \/ QueueNotification(w) \/ Abort(w) \/ Reply(w)

Next ==
  \/ \E w \in Worker : Arrive(w) \/ Serve(w) \/ Disconnect(w)
  \/ Tick

Spec == Init /\ [][Next]_vars

\* A goroutine that can run is eventually scheduled.  Nothing makes clients
\* come, go away, or the clock show another instant.
Fairness == \A w \in Worker : WF_vars(Serve(w))

FairSpec == Spec /\ Fairness
---------------------------------------------------------------------------
\* Vocabulary of the properties.

\* The states a stored batch has been through, told from its state and
\* revision: submission is revision 2 and every step adds one.
History(b) ==
  IF b = NoBatch THEN {}
  ELSE CASE b.state = "submitted"    -> {"submitted"}
         [] b.state = "under_review" -> {"submitted", "under_review"}
         [] b.state = "cancelled" /\ b.revision = 3 -> {"submitted", "cancelled"}
         [] OTHER                    -> {"submitted", "under_review", b.state}

Reached(id) == History(batches[id])

HasReceipt(id, state) ==
  \E k \in DOMAIN receipts[id] : receipts[id][k].kind = ReceiptFor[state]

IsAudited(id, state) ==
  /\ batches[id] # NoBatch
  /\ LET trail == audits[Key(batches[id].scope)]
     IN \E k \in DOMAIN trail :
          trail[k].batch = id /\ trail[k].action = AuditActionFor[state]

\* A request that has moved batch id to state and still has to file it.
Filing(w, id, state, calls) ==
  pc[w] \in calls /\ task[w].batch = id /\ task[w].op = state

\* The state a receipt tells, and the ledger the store amounts to.
StateOf(kind) == CHOOSE state \in DOMAIN ReceiptFor : ReceiptFor[state] = kind

Ledger == INSTANCE ReviewLedger WITH
  phase <- [id \in BatchId |->
              IF batches[id] = NoBatch THEN "none" ELSE batches[id].state],
  reached <- [id \in BatchId |-> Reached(id)],
  published <- [id \in BatchId |->
                  [k \in DOMAIN receipts[id] |-> StateOf(receipts[id][k].kind)]]
---------------------------------------------------------------------------
(***************************************************************************)
(* Properties.                                                             *)
(***************************************************************************)

\* The store holds values of the domain.
StoreTypeOK ==
  /\ evidence \subseteq Evidence
  /\ batches \in [BatchId -> Batch \cup {NoBatch}]
  /\ receipts \in [BatchId -> Seq(Receipt)]
  /\ audits \in [{Key(scope) : scope \in Scope} -> Seq(AuditEvent)]
  /\ notices \in Seq(Notification)

\* So do the handlers, and none has read a clock that is still to come.
RequestTypeOK ==
  /\ now \in 0 .. MaxTime
  /\ pc \in [Worker -> StoreCall \cup Answer \cup {"idle", "audit"}]
  /\ task \in [Worker -> Task]
  /\ seen \in [Worker -> Batch \cup {NoBatch}]
  /\ since \in [Worker -> 0 .. now]
  /\ gone \in [Worker -> BOOLEAN]

\* Every variable has a value of its kind.
TypeOK == StoreTypeOK /\ RequestTypeOK

\* What may happen to one stored batch in one step: it appears as submitted,
\* or it takes one transition the domain admits, from exactly the version
\* that is replaced.
OneLegalStep(old, new) ==
  IF old = NoBatch
  THEN new.state = "submitted" /\ new.revision = 2
  ELSE /\ CanTransition(old, new.state)
       /\ new = Transition(old, new.state, new.updatedAt)
       /\ old.updatedAt <= new.updatedAt

\* However the requests interleave, no step loses another request's update:
\* a handler that transitioned a stale copy (batch.go:62-69, 79-94) is turned
\* away by the revision check of SaveBatch (store.go:64-67).
NoLostUpdate ==
  [][\A id \in BatchId : batches'[id] # batches[id] =>
       OneLegalStep(batches[id], batches'[id])]_vars

\* The receipts of a batch tell states it has really been in, each at most
\* once: no batch is ever certified both approved and rejected.
ReceiptsTellHistory ==
  \A id \in BatchId :
    LET log == receipts[id]
    IN /\ \A k \in DOMAIN log :
            \E state \in Reached(id) : log[k].kind = ReceiptFor[state]
       /\ \A i, k \in DOMAIN log : log[i].kind = log[k].kind => i = k

\* With a committer they do so from the first moment: a batch is visible
\* exactly when its first receipt is, and that receipt is of its submission
\* (commit.go:8).
ReceiptsMatchHistory ==
  /\ ReceiptsTellHistory
  /\ \A id \in BatchId :
       /\ batches[id] # NoBatch <=> receipts[id] # <<>>
       /\ receipts[id] # <<>> => receipts[id][1].kind = "submitted"

\* The service implements the ledger: whatever requests do to each other, and
\* whenever clients leave, the store moves as ReviewLedger may.
ImplementsLedger == Ledger!Spec

\* While clients stay, every state a batch reaches gets its receipt, however
\* many requests are turned away in between.
EveryStateIsReceipted ==
  [](\A w \in Worker : ~gone[w]) => Ledger!EventuallyPublished

\* A receipt is never dated before the batch, and the receipt of the batch's
\* present state never before the batch entered it, although the handler
\* reads the clock once for the one and again for the other.
ReceiptsAreDatedAfterTheirState ==
  \A id \in BatchId : \A k \in DOMAIN receipts[id] :
    LET receipt == receipts[id][k]
    IN /\ receipt.at >= batches[id].createdAt
       /\ receipt.kind = ReceiptFor[batches[id].state] =>
            receipt.at >= batches[id].updatedAt

\* The audit trail of a scope has an event about a batch only if the batch is
\* of that scope, went through the state the event names, and has the
\* receipt for it; and it has it once.
AuditFollowsReceipt ==
  \A key \in DOMAIN audits : \A i \in DOMAIN audits[key] :
    LET event == audits[key][i]
    IN event.batch # "" =>
         /\ batches[event.batch] # NoBatch
         /\ key = Key(batches[event.batch].scope)
         /\ \E state \in Reached(event.batch) :
              /\ event.action = AuditActionFor[state]
              /\ HasReceipt(event.batch, state)
         /\ \A k \in DOMAIN audits[key] :
              /\ audits[key][k].batch = event.batch
              /\ audits[key][k].action = event.action
              => k = i

\* Nobody is told of a decision that does not stand: a notice names the
\* decision its batch has, that decision is receipted and audited, and there
\* is one notice of it.
NoticesTellTheDecision ==
  \A i \in DOMAIN notices :
    LET id == notices[i].batch
    IN /\ batches[id] # NoBatch
       /\ batches[id].state \in {"approved", "rejected"}
       /\ notices[i].event = AuditActionFor[batches[id].state]
       /\ HasReceipt(id, batches[id].state)
       /\ IsAudited(id, batches[id].state)
       /\ \A k \in DOMAIN notices : notices[k].batch = id => k = i

\* A client that is answered without an error and is still there finds
\* everything its request stands for in the store, whatever other requests
\* did since: the state reached, its receipt, the audit event, and the notice
\* it asked for.  (The event alone may be missing when the client left.)
AnsweredIsRecorded ==
  \A w \in Worker : pc[w] = "ok" /\ task[w].op # "registered" =>
    LET id == task[w].batch
    IN /\ task[w].op \in Reached(id)
       /\ seen[w].revision <= batches[id].revision
       /\ HasReceipt(id, task[w].op)
       /\ ~gone[w] => IsAudited(id, task[w].op)
       /\ task[w].recipient # "" =>
            \E i \in DOMAIN notices : /\ notices[i].batch = id
                                      /\ notices[i].recipient = task[w].recipient

\* While clients stay, a record is missing only as long as the one request
\* that owes it is still at work: nobody else files it and nobody forgets it.
MissingRecordsAreOwed ==
  \A id \in BatchId : \A state \in Reached(id) :
    /\ ~HasReceipt(id, state) <=>
         \E w \in Worker : Filing(w, id, state, {"receipt"})
    /\ ~IsAudited(id, state) <=>
         \E w \in Worker : Filing(w, id, state, {"receipt", "audit"})

\* When no request is at work, every state a batch went through has its
\* receipt (README.md:3, service_test.go:37).
ReceiptsAreComplete ==
  (\A w \in Worker : pc[w] \in Answer \cup {"idle"}) =>
    \A id \in BatchId : \A state \in Reached(id) : HasReceipt(id, state)

\* Nor is it then without its audit event: what a receipt certifies can be traced
\* in the trail of the scope.  It holds while clients stay (audit.go:13 drops the
\* error of one that leaves), and the proofs show it of every such service.
ReceiptsAreAudited ==
  (\A w \in Worker : pc[w] \in Answer \cup {"idle"}) =>
    \A id \in BatchId : \A state \in Reached(id) :
      HasReceipt(id, state) => IsAudited(id, state)

\* A conflict is never spurious: a request that is answered 409 has lost to
\* another one that moved its batch on after it was found, and to try again
\* does not help - but for a cancellation, which may have lost to the start of
\* the review and is admitted after it (store.go:64-67, handler.go:158).
ConflictsAreReal ==
  \A w \in Worker : Status(pc[w]) = 409 =>
    LET b == batches[task[w].batch]
    IN /\ b # NoBatch /\ b.revision > 2
       /\ CanTransition(b, task[w].op) =>
            task[w].op = "cancelled" /\ b.state = "under_review"

\* A stored batch satisfies the review policy at every later time: starting
\* its review never ends in "no longer satisfies review policy"
\* (validation.go:18-20), because evidence is never replaced and its expiry
\* is judged at its registration.
PolicyIsStable ==
  \A id \in BatchId : batches[id] # NoBatch =>
    LET b == batches[id]
    IN Verdict(b.scope, b.evidence, Cardinality(b.evidence)) = "ok"

\* The evidence of a batch was registered for the batch's own project and
\* material (store_test.go:10, "evidence is scoped by project and material").
EvidenceIsOfTheScope ==
  \A id \in BatchId : batches[id] # NoBatch =>
    \A item \in evidence :
      item.id \in batches[id].evidence => item.scope = batches[id].scope

\* Where the policy asks for current evidence (policy.go:23-25, the check
\* validation.go:18-20 repeats when a review starts), no review starts on
\* evidence that had expired already when the batch was created: any judgement
\* of the request as it is made would have refused it.
ReviewStartsOnCurrentEvidence ==
  [][\A id \in BatchId :
       /\ batches'[id] # batches[id]
       /\ batches'[id].state = "under_review"
       /\ Policy.requireCurrent
       => \A item \in evidence :
            item.id \in batches[id].evidence =>
              ~IsExpired(item, batches[id].createdAt)]_vars
===========================================================================
