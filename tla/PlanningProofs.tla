--------------------------- MODULE PlanningProofs ---------------------------
(***************************************************************************)
(* What plans, reports and retention make of a scope, for any number of    *)
(* items and batches, any windows and any clock.                           *)
(***************************************************************************)
EXTENDS Planning, FiniteSetTheorems, SequenceTheorems, WellFoundedInduction, TLAPS

Item == [id : EvidenceId, kind : EvidenceKind, expiresAt : Expiry]

HeldBatch == [id : BatchId, evidence : SUBSET EvidenceId,
              state : BatchState \ {"draft"}, revision : Nat \ {0},
              createdAt : Nat, updatedAt : Nat]

HeldIds == {id \in BatchId : held[id] # NoBatch}

ItemsOK ==
  /\ items \subseteq Item /\ IsFiniteSet(items)
  /\ \A i, k \in items : i.id = k.id => i = k

\* A batch is what its evidence was when it was submitted, and evidence stays.
BatchesOK ==
  /\ DOMAIN held = BatchId
  /\ IsFiniteSet(HeldIds)
  /\ \A id \in HeldIds :
       /\ held[id] \in HeldBatch /\ held[id].id = id /\ held[id].updatedAt <= now
       /\ \E item \in items : item.kind = "certificate" /\ item.id \in held[id].evidence

ScopeOK == now \in Nat /\ ItemsOK /\ BatchesOK

\* Constants are what the windows and durations need.
LEMMA Constants ==
  /\ RenewWindow \in Nat /\ StartWithin \in Nat /\ DecideWithin \in Nat
  /\ InvestigateWithin \in Nat
  /\ Never \notin Nat
  /\ \A id \in BatchId \cup EvidenceId : id \in Nat /\ id > 0
<1>1. RenewWindow \in Nat /\ StartWithin \in Nat /\ DecideWithin \in Nat
      /\ InvestigateWithin \in Nat
  BY WorkPlanAssumption
<1>2. \A id \in BatchId \cup EvidenceId : id \in Nat /\ id > 0
  <2> SUFFICES ASSUME NEW id \in BatchId \cup EvidenceId PROVE id \in Nat /\ id > 0
    OBVIOUS
  <2>1. id \in Nat \ {0}
    BY WorkPlanAssumption
  <2>2. QED  BY <2>1
<1>3. Never \notin Nat
  BY DomainAssumption DEF Instant
<1>4. QED  BY <1>1, <1>2, <1>3

\* A scope begins with nothing.
LEMMA ScopeInit == Init => ScopeOK
<1> SUFFICES ASSUME Init PROVE ScopeOK
  OBVIOUS
<1>1. HeldIds = {}
  BY DEF Init, HeldIds
<1>2. QED  BY <1>1, FS_EmptySet DEF Init, ScopeOK, ItemsOK, BatchesOK

\* A new item has a new identifier; the others stay.
LEMMA ItemsStep ==
  ASSUME ItemsOK, NEW id \in EvidenceId, NEW kind \in OfferedKinds,
         NEW expiresAt \in OfferedExpiries, Register(id, kind, expiresAt)
  PROVE  ItemsOK' /\ items \subseteq items'
<1> PICK item : item = [id |-> id, kind |-> kind, expiresAt |-> expiresAt]
  OBVIOUS
<1>1. items' = items \cup {item} /\ \A i \in items : i.id # id
  BY DEF Register
<1>2. item \in Item /\ item.id = id
  BY PlanningAssumption DEF Item
<1>3. IsFiniteSet(items')
  BY <1>1, FS_AddElement DEF ItemsOK
<1>4. QED  BY <1>1, <1>2, <1>3 DEF ItemsOK

\* A new batch rests on items that are there, a certificate among them.
LEMMA SubmitStep ==
  ASSUME ScopeOK, NEW id \in BatchId, NEW own \in SUBSET items, Submit(id, own)
  PROVE  BatchesOK'
<1> PICK b : b = [id |-> id, evidence |-> {item.id : item \in own},
                  state |-> "submitted", revision |-> 2,
                  createdAt |-> now, updatedAt |-> now]
  OBVIOUS
<1>1. /\ held' = [held EXCEPT ![id] = b] /\ now' = now /\ items' = items
      /\ \E item \in own : item.kind = "certificate"
  BY DEF Submit
<1>2. /\ b \in HeldBatch /\ b.id = id /\ b.updatedAt <= now
      /\ \E item \in items : item.kind = "certificate" /\ item.id \in b.evidence
  BY <1>1 DEF ScopeOK, ItemsOK, Item, HeldBatch, BatchState
<1>3. DOMAIN held' = BatchId /\ held'[id] = b
  BY <1>1 DEF ScopeOK, BatchesOK
<1>4. \A k \in BatchId : k # id => held'[k] = held[k]
  BY <1>1 DEF ScopeOK, BatchesOK
<1>5. HeldIds' \subseteq HeldIds \cup {id}
  BY <1>4 DEF HeldIds
<1>6. IsFiniteSet(HeldIds')
  BY <1>5, FS_AddElement, FS_Subset DEF ScopeOK, BatchesOK
<1>7. ASSUME NEW k \in HeldIds'
      PROVE  /\ held'[k] \in HeldBatch /\ held'[k].id = k /\ held'[k].updatedAt <= now'
             /\ \E item \in items' : item.kind = "certificate"
                                     /\ item.id \in held'[k].evidence
  <2>1. CASE k = id
    BY <1>1, <1>2, <1>3, <2>1
  <2>2. CASE k # id
    <3>1. k \in HeldIds /\ held'[k] = held[k]
      BY <1>4, <2>2 DEF HeldIds
    <3>2. QED  BY <1>1, <3>1 DEF ScopeOK, BatchesOK
  <2>3. QED  BY <2>1, <2>2
<1>8. QED  BY <1>3, <1>6, <1>7 DEF BatchesOK

\* What a batch may become: another state of the life of a batch, one revision
\* later; and a terminal one nothing at all.
LEMMA Moved ==
  ASSUME NEW b \in HeldBatch, NEW to \in BatchState, CanTransition(b, to), now \in Nat
  PROVE  /\ Transition(b, to, now) \in HeldBatch
         /\ Transition(b, to, now).id = b.id
         /\ Transition(b, to, now).evidence = b.evidence
         /\ Transition(b, to, now).updatedAt = now
         /\ Transition(b, to, now) # b
         /\ ~IsTerminal(b)
<1>1. to # "draft" /\ ~IsTerminal(b)
  BY DEF CanTransition, HeldBatch, BatchState, IsTerminal
<1>2. PICK c : c = [b EXCEPT !.state = to, !.revision = b.revision + 1, !.updatedAt = now]
  OBVIOUS
<1>3. c = Transition(b, to, now)
  BY <1>2 DEF Transition
<1>4. /\ c.id = b.id /\ c.evidence = b.evidence /\ c.state = to
      /\ c.revision = b.revision + 1 /\ c.createdAt = b.createdAt /\ c.updatedAt = now
  BY <1>2 DEF HeldBatch
<1>5. b.revision + 1 \in Nat \ {0} /\ b.revision + 1 # b.revision
  BY DEF HeldBatch
<1>6. c \in HeldBatch
  BY <1>1, <1>2, <1>5 DEF HeldBatch
<1>7. c # b
  BY <1>4, <1>5
<1>8. QED  BY <1>1, <1>3, <1>4, <1>6, <1>7

\* A batch that moves on was open, and no other batch changes.
LEMMA MoveStep ==
  ASSUME ScopeOK, NEW id \in BatchId, NEW to \in BatchState, Move(id, to)
  PROVE  /\ BatchesOK'
         /\ id \in HeldIds /\ ~IsTerminal(held[id]) /\ held'[id] # held[id]
         /\ \A k \in BatchId : k # id => held'[k] = held[k]
<1> PICK b : b = held[id]
  OBVIOUS
<1>1. /\ b # NoBatch /\ CanTransition(b, to)
      /\ held' = [held EXCEPT ![id] = Transition(b, to, now)]
      /\ now' = now /\ items' = items
  BY DEF Move
<1>2. id \in HeldIds
  BY <1>1 DEF HeldIds
<1>3. /\ b \in HeldBatch /\ b.id = id /\ now \in Nat
      /\ \E item \in items : item.kind = "certificate" /\ item.id \in b.evidence
  BY <1>2 DEF ScopeOK, BatchesOK
<1>4. PICK c : c = Transition(b, to, now)
  OBVIOUS
<1>5. /\ c \in HeldBatch /\ c.id = id /\ c.evidence = b.evidence
      /\ c.updatedAt = now /\ c # b /\ ~IsTerminal(b)
  BY <1>1, <1>3, <1>4, Moved
<1>6. DOMAIN held' = BatchId /\ held'[id] = c
  BY <1>1, <1>4 DEF ScopeOK, BatchesOK
<1>7. \A k \in BatchId : k # id => held'[k] = held[k]
  BY <1>1 DEF ScopeOK, BatchesOK
<1>8. HeldIds' \subseteq HeldIds
  BY <1>2, <1>7 DEF HeldIds
<1>9. IsFiniteSet(HeldIds')
  BY <1>8, FS_Subset DEF ScopeOK, BatchesOK
<1>10. ASSUME NEW k \in HeldIds'
       PROVE  /\ held'[k] \in HeldBatch /\ held'[k].id = k /\ held'[k].updatedAt <= now'
              /\ \E item \in items' : item.kind = "certificate"
                                      /\ item.id \in held'[k].evidence
  <2>1. CASE k = id
    BY <1>1, <1>3, <1>5, <1>6, <2>1
  <2>2. CASE k # id
    <3>1. k \in HeldIds /\ held'[k] = held[k]
      BY <1>7, <2>2 DEF HeldIds
    <3>2. QED  BY <1>1, <3>1 DEF ScopeOK, BatchesOK
  <2>3. QED  BY <2>1, <2>2
<1>11. BatchesOK'
  BY <1>6, <1>9, <1>10 DEF BatchesOK
<1>12. QED  BY <1>2, <1>5, <1>6, <1>7, <1>11

\* One step per change of the scope.
LEMMA ScopeStep == ScopeOK /\ [Next]_vars => ScopeOK'
<1> SUFFICES ASSUME ScopeOK, [Next]_vars PROVE ScopeOK'
  OBVIOUS
<1>1. ASSUME NEW id \in EvidenceId, NEW kind \in OfferedKinds,
             NEW expiresAt \in OfferedExpiries, Register(id, kind, expiresAt)
      PROVE  ScopeOK'
  <2>1. now' = now /\ held' = held
    BY <1>1 DEF Register
  <2>2. ItemsOK' /\ items \subseteq items'
    BY <1>1, ItemsStep DEF ScopeOK
  <2>3. QED  BY <2>1, <2>2 DEF ScopeOK, BatchesOK, HeldIds
<1>2. ASSUME NEW id \in BatchId, NEW own \in SUBSET items, Submit(id, own)
      PROVE  ScopeOK'
  <2>1. now' = now /\ items' = items
    BY <1>2 DEF Submit
  <2>2. QED  BY <1>2, <2>1, SubmitStep DEF ScopeOK, ItemsOK
<1>3. ASSUME NEW id \in BatchId, NEW to \in BatchState, Move(id, to)
      PROVE  ScopeOK'
  <2>1. now' = now /\ items' = items
    BY <1>3 DEF Move
  <2>2. QED  BY <1>3, <2>1, MoveStep DEF ScopeOK, ItemsOK
<1>4. CASE Tick
  <2>1. now' \in Nat /\ now <= now' /\ items' = items /\ held' = held
    BY <1>4 DEF Tick, ScopeOK
  <2>2. \A id \in HeldIds : held[id].updatedAt <= now'
    BY <2>1 DEF ScopeOK, BatchesOK, HeldBatch
  <2>3. QED  BY <2>1, <2>2 DEF ScopeOK, ItemsOK, BatchesOK, HeldIds
<1>5. CASE UNCHANGED vars
  BY <1>5 DEF vars, ScopeOK, ItemsOK, BatchesOK, HeldIds
<1>6. QED  BY <1>1, <1>2, <1>3, <1>4, <1>5 DEF Next

\* Evidence is unique and well-formed, and a batch contains a certificate, which
\* stays when other evidence is added.
THEOREM ScopeInvariant == Spec => []ScopeOK
<1>1. QED  BY ScopeInit, ScopeStep, PTL DEF Spec

\* What is held is held under its own identifier.
LEMMA HeldAre ==
  ASSUME ScopeOK, NEW b \in Held
  PROVE  b \in HeldBatch /\ b.id \in HeldIds /\ b.id \in BatchId /\ held[b.id] = b
BY DEF Held, ScopeOK, BatchesOK, HeldIds

---------------------------------------------------------------------------
(***************************************************************************)
(* Retention.                                                              *)
(***************************************************************************)

\* Time does not run backwards, and only open batches are moved.
LEMMA ClosedBatchesStay ==
  ASSUME ScopeOK, [Next]_vars
  PROVE  /\ now' \in Nat /\ now <= now'
         /\ \A id \in HeldIds : IsTerminal(held[id]) => held'[id] = held[id]
<1>1. CASE \E id \in EvidenceId, kind \in OfferedKinds,
             expiresAt \in OfferedExpiries : Register(id, kind, expiresAt)
  BY <1>1 DEF Register, ScopeOK
<1>2. ASSUME NEW id \in BatchId, NEW own \in SUBSET items, Submit(id, own)
      PROVE  /\ now' = now
             /\ \A k \in HeldIds : held'[k] = held[k]
  BY <1>2 DEF Submit, ScopeOK, BatchesOK, HeldIds
<1>3. ASSUME NEW id \in BatchId, NEW to \in BatchState, Move(id, to)
      PROVE  /\ now' = now
             /\ \A k \in HeldIds : IsTerminal(held[k]) => held'[k] = held[k]
  <2>1. now' = now
    BY <1>3 DEF Move
  <2>2. /\ ~IsTerminal(held[id])
        /\ \A k \in BatchId : k # id => held'[k] = held[k]
    BY <1>3, MoveStep
  <2>3. QED  BY <2>1, <2>2 DEF HeldIds
<1>4. CASE Tick
  BY <1>4 DEF Tick, ScopeOK
<1>5. CASE UNCHANGED vars
  BY <1>5 DEF vars, ScopeOK
<1>6. now \in Nat
  BY DEF ScopeOK
<1>7. QED  BY <1>1, <1>2, <1>3, <1>4, <1>5, <1>6 DEF Next

\* A closed batch is not moved, and its retention ends when it did before.
LEMMA RetentionStep ==
  ScopeOK /\ [Next]_vars
    => \A b \in Held : IsPastRetention(Retention, b, now)
         => held'[b.id] = b /\ IsPastRetention(Retention, b, now')
<1> SUFFICES ASSUME ScopeOK, [Next]_vars,
                    NEW b \in Held, IsPastRetention(Retention, b, now)
             PROVE  held'[b.id] = b /\ IsPastRetention(Retention, b, now')
  OBVIOUS
<1>1. b \in HeldBatch /\ b.id \in HeldIds /\ held[b.id] = b
  BY HeldAre
<1>2. IsTerminal(b) /\ DeleteAfter(Retention, b) <= now
  BY DEF IsPastRetention
<1>3. held'[b.id] = b /\ now \in Nat /\ now' \in Nat /\ now <= now'
  BY <1>1, <1>2, ClosedBatchesStay DEF ScopeOK
<1>4. DeleteAfter(Retention, b) \in Nat
  <2>1. /\ Retention.keepApprovedFor \in Nat /\ Retention.keepRejectedFor \in Nat
        /\ Retention.keepCancelledFor \in Nat
    BY PlanningAssumption
  <2>2. b.updatedAt \in Nat
    BY <1>1 DEF HeldBatch
  <2>3. CASE b.state = "approved"
    BY <2>1, <2>2, <2>3 DEF DeleteAfter
  <2>4. CASE b.state = "rejected"
    BY <2>1, <2>2, <2>4 DEF DeleteAfter
  <2>5. CASE b.state # "approved" /\ b.state # "rejected"
    BY <2>1, <2>2, <2>5 DEF DeleteAfter
  <2>6. QED  BY <2>3, <2>4, <2>5
<1>5. DeleteAfter(Retention, b) <= now'
  BY <1>2, <1>3, <1>4
<1>6. QED  BY <1>2, <1>3, <1>5 DEF IsPastRetention

\* What is past its retention is closed, stays as it is and stays past it, for
\* any durations (retention.go:12-26).
THEOREM RetentionStaysFinal == Spec => RetentionIsFinal
<1>1. ScopeOK /\ [Next]_vars
        => [\A b \in Held : IsPastRetention(Retention, b, now) =>
              /\ held'[b.id] = b
              /\ IsPastRetention(Retention, b, now')]_vars
  BY RetentionStep
<1>2. QED  BY <1>1, ScopeInvariant, PTL DEF Spec, RetentionIsFinal
---------------------------------------------------------------------------
(***************************************************************************)
(* The actions of a plan.                                                  *)
(***************************************************************************)

\* A due time is an instant.
LEMMA DueIs ==
  ASSUME NEW updatedAt \in Nat, NEW at \in Nat, NEW target \in Nat
  PROVE  DueFrom(updatedAt, at, target) \in Nat
<1>1. PICK sum \in Nat : sum = updatedAt + target
  OBVIOUS
<1>2. \E x \in {sum, at} : \A y \in {sum, at} : x >= y
  OBVIOUS
<1>3. Max({sum, at}) \in {sum, at}
  BY <1>2 DEF Max
<1>4. QED  BY <1>1, <1>3 DEF DueFrom

\* Work on an item has its identifier and no batch's; the other way round for
\* work on a batch.
LEMMA ActionsAre ==
  ASSUME ScopeOK, NEW a \in Actions
  PROVE  /\ a.priority \in Priority /\ a.dueAt \in Nat
         /\ \/ /\ a \in EvidenceActions(items, now) /\ a.batch = 0
               /\ \E item \in items :
                    /\ a.evidence = item.id /\ a.dueAt = item.expiresAt
                    /\ \/ IsExpired(item, now) /\ a.priority = Urgent
                          /\ a.kind = "replace_expired_evidence"
                       \/ ~IsExpired(item, now) /\ Expiring(item, now)
                          /\ a.priority = High /\ a.kind = "renew_expiring_evidence"
            \/ /\ a \in BatchActions(Held, now) /\ a.evidence = 0
               /\ \E b \in Held :
                    /\ a.batch = b.id /\ b.state \in DOMAIN WorkFor
                    /\ a.priority = WorkFor[b.state].priority
                    /\ a.kind = WorkFor[b.state].kind
                    /\ a.dueAt = DueFrom(b.updatedAt, now, WorkFor[b.state].within)
                    /\ a.priority # Urgent
<1>0. now \in Nat /\ Never \notin Nat
  BY Constants DEF ScopeOK
<1>1. ASSUME NEW item \in items, IsExpired(item, now),
             a = WorkAction("replace_expired_evidence", Urgent, item.id, 0, item.expiresAt)
      PROVE  /\ a.priority = Urgent /\ a.dueAt = item.expiresAt /\ a.dueAt \in Nat
             /\ a.batch = 0 /\ a.evidence = item.id /\ a.kind = "replace_expired_evidence"
  BY <1>1 DEF WorkAction, IsExpired, ScopeOK, ItemsOK, Item, Expiry, Instant
<1>2. ASSUME NEW item \in items, Expiring(item, now),
             a = WorkAction("renew_expiring_evidence", High, item.id, 0, item.expiresAt)
      PROVE  /\ a.priority = High /\ a.dueAt = item.expiresAt /\ a.dueAt \in Nat
             /\ a.batch = 0 /\ a.evidence = item.id /\ a.kind = "renew_expiring_evidence"
             /\ ~IsExpired(item, now)
  <2>1. item.expiresAt \in Nat
    BY <1>2 DEF Expiring, ScopeOK, ItemsOK, Item, Expiry, Instant
  <2>2. QED  BY <1>0, <1>2, <2>1 DEF WorkAction, Expiring, IsExpired
<1>3. ASSUME NEW b \in Held, b.state \in DOMAIN WorkFor,
             a = WorkAction(WorkFor[b.state].kind, WorkFor[b.state].priority, 0, b.id,
                            DueFrom(b.updatedAt, now, WorkFor[b.state].within))
      PROVE  /\ a.batch = b.id /\ a.evidence = 0
             /\ a.priority = WorkFor[b.state].priority
             /\ a.kind = WorkFor[b.state].kind
             /\ a.dueAt = DueFrom(b.updatedAt, now, WorkFor[b.state].within)
             /\ a.dueAt \in Nat /\ a.priority \in {High, Normal}
  <2>1. /\ WorkFor[b.state].priority \in {High, Normal}
        /\ WorkFor[b.state].within \in Nat
    BY <1>3, Constants DEF WorkFor
  <2>2. b.updatedAt \in Nat
    BY HeldAre DEF HeldBatch
  <2>3. DueFrom(b.updatedAt, now, WorkFor[b.state].within) \in Nat
    BY <1>0, <2>1, <2>2, DueIs
  <2>4. QED  BY <1>3, <2>1, <2>3 DEF WorkAction
<1>4. Urgent \in Priority /\ High \in Priority /\ Normal \in Priority
      /\ Urgent # High /\ Urgent # Normal
  BY DEF Urgent, High, Normal, Priority
<1>5. CASE a \in EvidenceActions(items, now)
  <2>1. \/ \E item \in items : IsExpired(item, now) /\ a =
            WorkAction("replace_expired_evidence", Urgent, item.id, 0, item.expiresAt)
        \/ \E item \in items : Expiring(item, now) /\ a =
            WorkAction("renew_expiring_evidence", High, item.id, 0, item.expiresAt)
    BY <1>5 DEF EvidenceActions
  <2>2. QED  BY <1>1, <1>2, <1>4, <1>5, <2>1
<1>6. CASE a \in BatchActions(Held, now)
  <2>1. PICK b \in Held : b.state \in DOMAIN WorkFor /\ a =
            WorkAction(WorkFor[b.state].kind, WorkFor[b.state].priority, 0, b.id,
                       DueFrom(b.updatedAt, now, WorkFor[b.state].within))
    BY <1>6 DEF BatchActions
  <2>2. QED  BY <1>3, <1>4, <1>6, <2>1
<1>7. QED  BY <1>5, <1>6 DEF Actions

\* No step takes an item away.
LEMMA EvidenceStays == [Next]_vars => items \subseteq items'
<1> SUFFICES ASSUME [Next]_vars PROVE items \subseteq items'
  OBVIOUS
<1>1. CASE \E id \in EvidenceId, kind \in OfferedKinds,
             expiresAt \in OfferedExpiries : Register(id, kind, expiresAt)
  BY <1>1 DEF Register
<1>2. CASE \E id \in BatchId, own \in SUBSET items : Submit(id, own)
  BY <1>2 DEF Submit
<1>3. CASE \E id \in BatchId, to \in BatchState : Move(id, to)
  BY <1>3 DEF Move
<1>4. CASE Tick
  BY <1>4 DEF Tick
<1>5. QED  BY <1>1, <1>2, <1>3, <1>4 DEF Next, vars

\* Evidence that is to be renewed or replaced stays so, more urgently at most.
LEMMA EvidenceWorkStays ==
  ASSUME NEW item \in Item, NEW at \in Nat, NEW later \in Nat, at <= later,
         NEW list, item \in list
  PROVE  /\ IsExpired(item, at) => WorkAction("replace_expired_evidence", Urgent,
              item.id, 0, item.expiresAt) \in EvidenceActions(list, later)
         /\ Expiring(item, at) =>
              \/ WorkAction("replace_expired_evidence", Urgent, item.id, 0,
                   item.expiresAt) \in EvidenceActions(list, later)
              \/ WorkAction("renew_expiring_evidence", High, item.id, 0,
                   item.expiresAt) \in EvidenceActions(list, later)
<1>1. item.expiresAt # Never => item.expiresAt \in Nat
  BY DEF Item, Expiry, Instant
<1>2. IsExpired(item, at) => IsExpired(item, later)
  BY <1>1 DEF IsExpired
<1>3. Expiring(item, at) => IsExpired(item, later) \/ Expiring(item, later)
  BY <1>1, Constants DEF Expiring, IsExpired
<1>4. IsExpired(item, later) => WorkAction("replace_expired_evidence", Urgent,
        item.id, 0, item.expiresAt) \in EvidenceActions(list, later)
  BY DEF EvidenceActions
<1>5. Expiring(item, later) => WorkAction("renew_expiring_evidence", High,
        item.id, 0, item.expiresAt) \in EvidenceActions(list, later)
  BY DEF EvidenceActions
<1>6. QED  BY <1>2, <1>3, <1>4, <1>5

\* An item passes from one window to the next without a gap, and a batch leaves
\* its work only by being moved.
LEMMA WorkStep ==
  ScopeOK /\ [Next]_vars =>
    \A a \in Actions :
       \/ \E c \in Actions' : Subject(c) = Subject(a) /\ c.priority >= a.priority
       \/ a.batch # 0 /\ held'[a.batch] # held[a.batch]
<1> SUFFICES ASSUME ScopeOK, [Next]_vars, NEW a \in Actions
             PROVE  \/ \E c \in Actions' : /\ Subject(c) = Subject(a)
                                            /\ c.priority >= a.priority
                    \/ a.batch # 0 /\ held'[a.batch] # held[a.batch]
  OBVIOUS
<1>1. /\ now \in Nat /\ now' \in Nat /\ now <= now' /\ items \subseteq items'
      /\ items \subseteq Item
  BY ClosedBatchesStay, EvidenceStays DEF ScopeOK, ItemsOK
<1>2. a.priority \in Nat /\ a.priority <= Urgent
  BY ActionsAre DEF Priority, Urgent
<1>3. ASSUME NEW item \in items, a.evidence = item.id, a.batch = 0,
             \/ IsExpired(item, now) /\ a.priority = Urgent
             \/ Expiring(item, now) /\ a.priority = High
      PROVE  \E c \in Actions' : Subject(c) = Subject(a) /\ c.priority >= a.priority
  <2> PICK replace : replace =
        WorkAction("replace_expired_evidence", Urgent, item.id, 0, item.expiresAt)
    OBVIOUS
  <2> PICK renew : renew =
        WorkAction("renew_expiring_evidence", High, item.id, 0, item.expiresAt)
    OBVIOUS
  <2>1. EvidenceActions(items', now') \subseteq Actions'
    BY DEF Actions
  <2>2. item \in items' /\ item \in Item
    BY <1>1
  <2>3. /\ IsExpired(item, now) => replace \in Actions'
        /\ Expiring(item, now) => replace \in Actions' \/ renew \in Actions'
    BY <1>1, <2>1, <2>2, EvidenceWorkStays
  <2>4. /\ Subject(replace) = Subject(a) /\ replace.priority = Urgent
        /\ Subject(renew) = Subject(a) /\ renew.priority = High
    BY <1>3 DEF WorkAction, Subject
  <2>5. Urgent >= Urgent /\ Urgent >= High /\ High >= High
    BY DEF Urgent, High
  <2>6. QED  BY <1>3, <2>3, <2>4, <2>5
<1>4. ASSUME NEW b \in Held, a.batch = b.id, a.evidence = 0, b.state \in DOMAIN WorkFor,
             a.priority = WorkFor[b.state].priority, held'[b.id] = b
      PROVE  \E c \in Actions' : Subject(c) = Subject(a) /\ c.priority >= a.priority
  <2> PICK c : c = WorkAction(WorkFor[b.state].kind, WorkFor[b.state].priority, 0, b.id,
                              DueFrom(b.updatedAt, now', WorkFor[b.state].within))
    OBVIOUS
  <2>1. b.id \in BatchId /\ held[b.id] = b /\ b # NoBatch
    BY HeldAre DEF Held
  <2>2. b \in Held'
    BY <1>4, <2>1 DEF Held
  <2>3. c \in BatchActions(Held', now')
    BY <1>4, <2>2 DEF BatchActions
  <2>4. c \in Actions'
    BY <2>3 DEF Actions
  <2>5. Subject(c) = Subject(a) /\ c.priority = a.priority
    BY <1>4 DEF WorkAction, Subject
  <2>6. QED  BY <1>2, <2>4, <2>5
<1>5. ASSUME NEW b \in Held, a.batch = b.id, held'[b.id] # b
      PROVE  a.batch # 0 /\ held'[a.batch] # held[a.batch]
  BY <1>5, HeldAre, Constants
<1>6. \/ \E item \in items :
            /\ a.evidence = item.id /\ a.batch = 0
            /\ \/ IsExpired(item, now) /\ a.priority = Urgent
               \/ Expiring(item, now) /\ a.priority = High
      \/ \E b \in Held :
            /\ a.batch = b.id /\ a.evidence = 0 /\ b.state \in DOMAIN WorkFor
            /\ a.priority = WorkFor[b.state].priority
  BY ActionsAre
<1>7. QED  BY <1>3, <1>4, <1>5, <1>6

\* Work on an item is asked for until the end of time, and work on a batch until
\* it is moved on, for any windows (workplan.go:158-180).
THEOREM WorkStaysPlanned == Spec => WorkIsNotForgotten
<1>1. ScopeOK /\ [Next]_vars
        => [\A a \in Actions :
              \/ \E c \in Actions' : Subject(c) = Subject(a) /\ c.priority >= a.priority
              \/ a.batch # 0 /\ held'[a.batch] # held[a.batch]]_vars
  BY WorkStep
<1>2. QED  BY <1>1, ScopeInvariant, PTL DEF Spec, WorkIsNotForgotten
---------------------------------------------------------------------------
(***************************************************************************)
(* The order of a plan.                                                    *)
(***************************************************************************)

Ordered(a) ==
  a.priority \in Int /\ a.dueAt \in Int /\ a.batch \in Int /\ a.evidence \in Int

\* ComesBefore written out.
LEMMA ComesBeforeIs ==
  ASSUME NEW a, NEW c, Ordered(a), Ordered(c)
  PROVE  ComesBefore(a, c) <=>
           \/ a.priority > c.priority
           \/ /\ a.priority = c.priority
              /\ \/ a.dueAt < c.dueAt
                 \/ /\ a.dueAt = c.dueAt
                    /\ \/ a.batch < c.batch
                       \/ a.batch = c.batch /\ a.evidence < c.evidence
<1> PICK s : s = <<0 - a.priority, a.dueAt, a.batch, a.evidence>>
  OBVIOUS
<1> PICK t : t = <<0 - c.priority, c.dueAt, c.batch, c.evidence>>
  OBVIOUS
<1>1. ComesBefore(a, c) <=>
        \E i \in 1 .. 4 : s[i] < t[i] /\ \A k \in 1 .. i - 1 : s[k] = t[k]
  BY DEF ComesBefore
<1>2. /\ s[1] = 0 - a.priority /\ s[2] = a.dueAt /\ s[3] = a.batch /\ s[4] = a.evidence
      /\ t[1] = 0 - c.priority /\ t[2] = c.dueAt /\ t[3] = c.batch /\ t[4] = c.evidence
  OBVIOUS
<1>3. /\ a.priority = c.priority <=> s[1] = t[1]
      /\ a.priority > c.priority <=> s[1] < t[1]
  BY <1>2 DEF Ordered
<1>4. (\E i \in 1 .. 4 : s[i] < t[i] /\ \A k \in 1 .. i - 1 : s[k] = t[k]) <=>
        \/ s[1] < t[1]
        \/ s[1] = t[1] /\ s[2] < t[2]
        \/ s[1] = t[1] /\ s[2] = t[2] /\ s[3] < t[3]
        \/ s[1] = t[1] /\ s[2] = t[2] /\ s[3] = t[3] /\ s[4] < t[4]
  <2>1. 1 .. 4 = {1, 2, 3, 4} /\ 1 .. 1 - 1 = {} /\ 1 .. 2 - 1 = {1}
        /\ 1 .. 3 - 1 = {1, 2} /\ 1 .. 4 - 1 = {1, 2, 3}
    OBVIOUS
  <2>2. QED  BY <2>1, ZenonT(60)
<1>5. QED  BY <1>1, <1>2, <1>3, <1>4

Comparable(actions) ==
  /\ \A a \in actions : Ordered(a)
  /\ \A a, c \in actions : a # c => ComesBefore(a, c) \/ ComesBefore(c, a)

\* The order of actions as a sort needs it.
LEMMA OrderIsStrict ==
  ASSUME NEW a, NEW b, NEW c, Ordered(a), Ordered(b), Ordered(c)
  PROVE  /\ ~ComesBefore(a, a)
         /\ ComesBefore(a, b) /\ ComesBefore(b, c) => ComesBefore(a, c)
<1>1. ~ComesBefore(a, a)
  BY ComesBeforeIs DEF Ordered
<1>2. ASSUME ComesBefore(a, b), ComesBefore(b, c) PROVE ComesBefore(a, c)
  BY <1>2, ComesBeforeIs DEF Ordered
<1>3. QED  BY <1>1, <1>2

\* There is one action on an item at most, and one on a batch.
LEMMA OneActionPerItem ==
  ASSUME ScopeOK, NEW a \in EvidenceActions(items, now),
         NEW c \in EvidenceActions(items, now), a.evidence = c.evidence
  PROVE  a = c
<1> DEFINE Replace(item) ==
             WorkAction("replace_expired_evidence", Urgent, item.id, 0, item.expiresAt)
           Renew(item) ==
             WorkAction("renew_expiring_evidence", High, item.id, 0, item.expiresAt)
<1>1. ASSUME NEW d \in EvidenceActions(items, now)
      PROVE  \E item \in items : /\ d.evidence = item.id
                                 /\ \/ IsExpired(item, now) /\ d = Replace(item)
                                    \/ ~IsExpired(item, now) /\ d = Renew(item)
  <2>1. CASE \E item \in items : IsExpired(item, now) /\ d = Replace(item)
    <3>1. PICK item \in items : IsExpired(item, now) /\ d = Replace(item)
      BY <2>1
    <3>2. d.evidence = item.id
      BY <3>1 DEF WorkAction
    <3>3. QED  BY <3>1, <3>2
  <2>2. CASE \E item \in items : Expiring(item, now) /\ d = Renew(item)
    <3>1. PICK item \in items : Expiring(item, now) /\ d = Renew(item)
      BY <2>2
    <3>2. ~IsExpired(item, now)
      BY <3>1 DEF Expiring, IsExpired, ScopeOK, ItemsOK, Item, Expiry, Instant
    <3>3. d.evidence = item.id
      BY <3>1 DEF WorkAction
    <3>4. QED  BY <3>1, <3>2, <3>3
  <2>3. QED  BY <1>1, <2>1, <2>2 DEF EvidenceActions
<1> HIDE DEF Replace, Renew
<1>2. \A i, k \in items : i.id = k.id => i = k
  BY DEF ScopeOK, ItemsOK
<1>3. QED  BY <1>1, <1>2

\* Batches give one action at most, which names them.
LEMMA OneActionPerBatch ==
  ASSUME ScopeOK, NEW a \in BatchActions(Held, now),
         NEW c \in BatchActions(Held, now), a.batch = c.batch
  PROVE  a = c
<1> DEFINE Work(b) ==
      WorkAction(WorkFor[b.state].kind, WorkFor[b.state].priority, 0, b.id,
                 DueFrom(b.updatedAt, now, WorkFor[b.state].within))
<1>1. ASSUME NEW d \in BatchActions(Held, now)
      PROVE  \E b \in Held : d = Work(b) /\ d.batch = b.id
  <2>1. PICK b \in Held : d = Work(b)
    BY <1>1 DEF BatchActions
  <2>2. d.batch = b.id
    BY <2>1 DEF WorkAction
  <2>3. QED  BY <2>1, <2>2
<1> HIDE DEF Work
<1>2. \A b, x \in Held : b.id = x.id => b = x
  BY HeldAre
<1>3. QED  BY <1>1, <1>2

\* Actions that nothing tells apart are the same.
LEMMA ActionsCompare == ScopeOK => Comparable(Actions)
<1> SUFFICES ASSUME ScopeOK PROVE Comparable(Actions)
  OBVIOUS
<1>1. ASSUME NEW a \in Actions PROVE Ordered(a)
  <2>1. a.priority \in Int /\ a.dueAt \in Int
    BY <1>1, ActionsAre DEF Priority
  <2>2. CASE \E item \in items : a.evidence = item.id /\ a.batch = 0
    BY <2>1, <2>2, Constants DEF Ordered, ScopeOK, ItemsOK, Item
  <2>3. CASE \E b \in Held : a.batch = b.id /\ a.evidence = 0
    BY <2>1, <2>3, HeldAre, Constants DEF Ordered
  <2>4. QED  BY <1>1, <2>2, <2>3, ActionsAre
<1>2. ASSUME NEW a \in Actions, NEW c \in Actions,
             a.batch = c.batch, a.evidence = c.evidence
      PROVE  a = c
  <2>1. \A item \in items : item.id # 0
    BY Constants DEF ScopeOK, ItemsOK, Item
  <2>2. \A b \in Held : b.id # 0
    BY HeldAre, Constants
  <2>3. CASE a.batch = 0
    <3>1. /\ a \in EvidenceActions(items, now)
          /\ \E item \in items : a.evidence = item.id
      BY <1>2, <2>2, <2>3, ActionsAre
    <3>2. /\ c \in EvidenceActions(items, now)
      BY <1>2, <2>2, <2>3, ActionsAre
    <3>3. QED  BY <1>2, <3>1, <3>2, OneActionPerItem
  <2>4. CASE a.batch # 0
    <3>1. a \in BatchActions(Held, now) /\ c \in BatchActions(Held, now)
      BY <1>2, <2>4, ActionsAre
    <3>2. QED  BY <1>2, <3>1, OneActionPerBatch
  <2>5. QED  BY <2>3, <2>4
<1>3. ASSUME NEW a \in Actions, NEW c \in Actions, a # c
      PROVE  ComesBefore(a, c) \/ ComesBefore(c, a)
  <2>1. Ordered(a) /\ Ordered(c)
    BY <1>1
  <2>2. a.batch # c.batch \/ a.evidence # c.evidence
    BY <1>2, <1>3
  <2>3. QED  BY <2>1, <2>2, ComesBeforeIs DEF Ordered
<1>4. QED  BY <1>1, <1>3 DEF Comparable

\* However many items and batches there are, a plan has one order
\* (workplan.go:230-243).
THEOREM PlanOrderStaysTotal == Spec => []PlanOrderIsTotal
<1>1. ScopeOK => PlanOrderIsTotal
  BY ActionsCompare DEF Comparable, PlanOrderIsTotal
<1>2. QED  BY <1>1, ScopeInvariant, PTL

\* How many actions come before one: its place in the sorted list, from 0.
Rank(actions, a) == Cardinality({c \in actions : ComesBefore(c, a)})

\* Who comes later has more before it.
LEMMA RanksGrow ==
  ASSUME NEW S, IsFiniteSet(S), Comparable(S), NEW a \in S, NEW c \in S,
         ComesBefore(a, c)
  PROVE  Rank(S, a) < Rank(S, c)
<1> DEFINE Before(x) == {y \in S : ComesBefore(y, x)}
<1>1. \A x \in S : Before(x) \subseteq S
  OBVIOUS
<1>2. Before(a) \subseteq Before(c)
  BY OrderIsStrict DEF Comparable
<1>3. a \in Before(c) /\ a \notin Before(a)
  BY OrderIsStrict DEF Comparable
<1>4. IsFiniteSet(Before(c)) /\ IsFiniteSet(Before(a))
  BY <1>1, FS_Subset
<1>5. Cardinality(Before(a)) <= Cardinality(Before(c))
      /\ Cardinality(Before(a)) # Cardinality(Before(c))
  BY <1>2, <1>3, <1>4, FS_Subset
<1>6. Cardinality(Before(a)) \in Nat /\ Cardinality(Before(c)) \in Nat
  BY <1>4, FS_CardinalityType
<1>7. Rank(S, a) = Cardinality(Before(a)) /\ Rank(S, c) = Cardinality(Before(c))
  BY DEF Rank
<1>8. QED  BY <1>5, <1>6, <1>7

\* Ranks count from 0 without a gap.
LEMMA RanksAre ==
  ASSUME NEW S, IsFiniteSet(S), Comparable(S)
  PROVE  /\ Cardinality(S) \in Nat
         /\ \A a \in S : Rank(S, a) \in 0 .. Cardinality(S) - 1
         /\ \A a, c \in S : Rank(S, a) = Rank(S, c) => a = c
         /\ \A k \in 0 .. Cardinality(S) - 1 : \E a \in S : Rank(S, a) = k
<1> DEFINE n == Cardinality(S)
           places == 0 .. n - 1
<1>1. n \in Nat
  BY FS_CardinalityType
<1>2. ASSUME NEW a \in S PROVE Rank(S, a) \in places
  <2> DEFINE before == {y \in S : ComesBefore(y, a)}
  <2>1. before \subseteq S /\ a \notin before
    BY OrderIsStrict DEF Comparable
  <2>2. IsFiniteSet(before) /\ Cardinality(before) <= n /\ Cardinality(before) # n
    BY <2>1, FS_Subset
  <2>3. Cardinality(before) \in Nat
    BY <2>2, FS_CardinalityType
  <2>4. Rank(S, a) = Cardinality(before)
    BY DEF Rank
  <2> HIDE DEF before, n
  <2>5. QED  BY <1>1, <2>2, <2>3, <2>4
<1>3. ASSUME NEW a \in S, NEW c \in S, a # c PROVE Rank(S, a) # Rank(S, c)
  <2> HIDE DEF n
  <2>1. Rank(S, a) \in Int /\ Rank(S, c) \in Int
    BY <1>1, <1>2
  <2>2. Rank(S, a) < Rank(S, c) \/ Rank(S, c) < Rank(S, a)
    BY <1>3, RanksGrow DEF Comparable
  <2>3. QED  BY <2>1, <2>2
<1>4. PICK f : f = [a \in S |-> Rank(S, a)]
  OBVIOUS
<1>5. f \in Injection(S, places)
  BY <1>2, <1>3, <1>4 DEF Injection, IsInjective
<1>6. IsFiniteSet(places) /\ Cardinality(places) = n
  <2> HIDE DEF n
  <2>1. QED  BY <1>1, FS_Interval
<1>7. f \in Surjection(S, places)
  BY <1>5, <1>6, FS_Injection
<1>8. \A k \in places : \E a \in S : f[a] = k
  BY <1>7 DEF Surjection
<1>9. \A k \in places : \E a \in S : Rank(S, a) = k
  BY <1>4, <1>8
<1>10. QED  BY <1>1, <1>2, <1>3, <1>9

\* Ranks are the positions 1 .. n, so that the list by rank is the sorted set.
LEMMA ActionsAreSorted ==
  ASSUME NEW S, IsFiniteSet(S), Comparable(S)
  PROVE  LET list == SortWorkActions(S)
         IN /\ list \in Seq(S) /\ Len(list) = Cardinality(S)
            /\ DOMAIN list = 1 .. Cardinality(S)
            /\ \A a \in S : \E k \in DOMAIN list : list[k] = a
            /\ \A i, k \in DOMAIN list : i < k => ComesBefore(list[i], list[k])
<1> PICK n \in Nat : n = Cardinality(S)
  BY FS_CardinalityType
<1> PICK list : list = SortWorkActions(S)
  OBVIOUS
<1>1. list = [k \in 1 .. n |-> CHOOSE a \in S : Rank(S, a) = k - 1]
  <2> PICK R : R = {p \in S \X S : ComesBefore(p[1], p[2])}
    OBVIOUS
  <2>1. ASSUME NEW a \in S
        PROVE  Cardinality({c \in S : <<c, a>> \in R}) = Rank(S, a)
    <3>1. {c \in S : <<c, a>> \in R} = {c \in S : ComesBefore(c, a)}
      OBVIOUS
    <3>2. QED  BY <3>1 DEF Rank
  <2>2. \A k : (CHOOSE a \in S : Cardinality({c \in S : <<c, a>> \in R}) = k - 1)
                 = CHOOSE a \in S : Rank(S, a) = k - 1
    BY <2>1
  <2>3. list = [k \in 1 .. n |->
                  CHOOSE a \in S : Cardinality({c \in S : <<c, a>> \in R}) = k - 1]
    BY DEF SortWorkActions, InOrder
  <2>4. QED  BY <2>2, <2>3
<1>2. ASSUME NEW k \in 1 .. n PROVE list[k] \in S /\ Rank(S, list[k]) = k - 1
  <2>1. k - 1 \in 0 .. n - 1
    OBVIOUS
  <2>2. \E a \in S : Rank(S, a) = k - 1
    BY <2>1, RanksAre
  <2>3. list[k] = CHOOSE a \in S : Rank(S, a) = k - 1
    BY <1>1
  <2>4. QED  BY <2>2, <2>3
<1>3. DOMAIN list = 1 .. n /\ list \in [1 .. n -> S]
  BY <1>1, <1>2
<1>4. list \in Seq(S) /\ Len(list) = n
  BY <1>3
<1>5. ASSUME NEW a \in S PROVE \E k \in 1 .. n : list[k] = a
  <2>1. Rank(S, a) \in 0 .. n - 1
    BY RanksAre
  <2>2. PICK k \in 1 .. n : k - 1 = Rank(S, a)
    BY <2>1
  <2>3. list[k] \in S /\ Rank(S, list[k]) = Rank(S, a)
    BY <1>2, <2>2
  <2>4. QED  BY <2>3, RanksAre
<1>6. ASSUME NEW i \in 1 .. n, NEW k \in 1 .. n, i < k
      PROVE  ComesBefore(list[i], list[k])
  <2>1. /\ list[i] \in S /\ Rank(S, list[i]) = i - 1
        /\ list[k] \in S /\ Rank(S, list[k]) = k - 1
    BY <1>2
  <2>2. list[i] # list[k] /\ ~(k - 1 < i - 1)
    BY <1>6, <2>1
  <2>3. ~ComesBefore(list[k], list[i])
    BY <2>1, <2>2, RanksGrow
  <2>4. QED  BY <2>1, <2>2, <2>3 DEF Comparable
<1>7. QED  BY <1>3, <1>4, <1>5, <1>6

\* There are no more actions than items and batches.
LEMMA FiniteActions == ScopeOK => IsFiniteSet(Actions)
<1> SUFFICES ASSUME ScopeOK PROVE IsFiniteSet(Actions)
  OBVIOUS
<1>1. IsFiniteSet(EvidenceActions(items, now))
  <2> PICK f : f = [a \in EvidenceActions(items, now) |->
                      CHOOSE item \in items : item.id = a.evidence]
    OBVIOUS
  <2>1. ASSUME NEW a \in EvidenceActions(items, now)
        PROVE  f[a] \in items /\ f[a].id = a.evidence
    <3>1. \E item \in items : item.id = a.evidence
      BY DEF EvidenceActions, WorkAction
    <3>2. QED  BY <3>1
  <2>2. f \in Injection(EvidenceActions(items, now), items)
    <3>1. f \in [EvidenceActions(items, now) -> items]
      BY <2>1
    <3>2. \A a, c \in EvidenceActions(items, now) : f[a] = f[c] => a = c
      BY <2>1, OneActionPerItem
    <3>3. QED  BY <3>1, <3>2 DEF Injection, IsInjective
  <2>3. QED  BY <2>2, FS_Injection DEF ScopeOK, ItemsOK
<1>2. IsFiniteSet(BatchActions(Held, now))
  <2> PICK f : f = [a \in BatchActions(Held, now) |-> a.batch]
    OBVIOUS
  <2>1. ASSUME NEW a \in BatchActions(Held, now) PROVE f[a] \in HeldIds
    <3>1. PICK b \in Held : a =
            WorkAction(WorkFor[b.state].kind, WorkFor[b.state].priority, 0, b.id,
                       DueFrom(b.updatedAt, now, WorkFor[b.state].within))
      BY <2>1 DEF BatchActions
    <3>2. a.batch = b.id
      BY <3>1 DEF WorkAction
    <3>3. QED  BY <3>2, HeldAre
  <2>2. \A a, c \in BatchActions(Held, now) : f[a] = f[c] => a = c
    BY OneActionPerBatch
  <2>3. f \in Injection(BatchActions(Held, now), HeldIds)
    BY <2>1, <2>2 DEF Injection, IsInjective
  <2>4. QED  BY <2>3, FS_Injection DEF ScopeOK, BatchesOK
<1>3. QED  BY <1>1, <1>2, FS_Union DEF Actions

\* Batches that are left out of a plan ask for no work.
LEMMA ClosedAskForNothing ==
  BatchActions(ActionableBatches(Held), now) = BatchActions(Held, now)
<1>1. \A s \in DOMAIN WorkFor : s \notin {"approved", "cancelled"}
  BY DEF WorkFor
<1>2. {x \in ActionableBatches(Held) : x.state \in DOMAIN WorkFor}
        = {x \in Held : x.state \in DOMAIN WorkFor}
  BY <1>1 DEF ActionableBatches
<1>3. QED  BY <1>2 DEF BatchActions

\* The plan of open batches and that of all batches have the same actions.
LEMMA PlansAre ==
  /\ Plan = BuildWorkPlan(items, ActionableBatches(Held), now)
  /\ WholePlan = BuildWorkPlan(items, Held, now)
  /\ Plan.actions = SortWorkActions(Actions)
  /\ WholePlan.actions = SortWorkActions(Actions)
<1>1. Plan = BuildWorkPlan(items, ActionableBatches(Held), now)
  BY DEF Plan, PlanFor
<1>2. WholePlan = BuildWorkPlan(items, Held, now)
  BY DEF WholePlan, PlanFor
<1>3. EvidenceActions(items, now) \cup BatchActions(ActionableBatches(Held), now) = Actions
  BY ClosedAskForNothing DEF Actions
<1>4. Plan.actions = SortWorkActions(Actions)
  BY <1>1, <1>3 DEF BuildWorkPlan
<1>5. WholePlan.actions = SortWorkActions(Actions)
  BY <1>2 DEF BuildWorkPlan, Actions
<1>6. QED  BY <1>1, <1>2, <1>4, <1>5

\* Urgent actions come first in a sorted plan.
LEMMA UrgencyIsShown == ScopeOK => UrgencyShowsFirst
<1> SUFFICES ASSUME ScopeOK PROVE UrgencyShowsFirst
  OBVIOUS
<1> PICK list : list = Plan.actions
  OBVIOUS
<1> PICK n : n = Cardinality(Actions)
  OBVIOUS
<1>1. /\ list \in Seq(Actions) /\ Len(list) = n /\ DOMAIN list = 1 .. n /\ n \in Nat
      /\ \A a \in Actions : \E k \in 1 .. n : list[k] = a
      /\ \A i, k \in 1 .. n : i < k => ComesBefore(list[i], list[k])
  BY PlansAre, FiniteActions, ActionsCompare, ActionsAreSorted, FS_CardinalityType
<1>2. \A a \in Actions : Ordered(a) /\ a.priority <= Urgent
  BY ActionsCompare, ActionsAre DEF Comparable, Priority, Urgent
<1>3. (\E a \in Actions : a.priority = Urgent) <=> \E item \in items : IsExpired(item, now)
  <2>1. ASSUME NEW item \in items, IsExpired(item, now)
        PROVE  \E a \in Actions : a.priority = Urgent
    <3> PICK a : a =
          WorkAction("replace_expired_evidence", Urgent, item.id, 0, item.expiresAt)
      OBVIOUS
    <3>1. a \in EvidenceActions(items, now)
      BY <2>1 DEF EvidenceActions
    <3>2. a \in Actions /\ a.priority = Urgent
      BY <3>1 DEF Actions, WorkAction
    <3>3. QED  BY <3>2
  <2>2. ASSUME NEW a \in Actions, a.priority = Urgent
        PROVE  \E item \in items : IsExpired(item, now)
    BY <2>2, ActionsAre DEF Urgent, High
  <2>3. QED  BY <2>1, <2>2
<1>4. HasUrgentAction(Plan) <=> n > 0 /\ list[1].priority = Urgent
  <2>1. list # <<>> <=> n > 0
    BY <1>1
  <2>2. QED  BY <2>1 DEF HasUrgentAction
<1>5. (\E a \in Actions : a.priority = Urgent) <=> n > 0 /\ list[1].priority = Urgent
  <2>1. ASSUME NEW a \in Actions, a.priority = Urgent
        PROVE  n > 0 /\ list[1].priority = Urgent
    <3>1. PICK k \in 1 .. n : list[k] = a
      BY <1>1, <2>1
    <3>2. n > 0 /\ 1 \in 1 .. n /\ list[1] \in Actions
      BY <1>1, <3>1
    <3>3. CASE k = 1
      BY <2>1, <3>1, <3>2, <3>3
    <3>4. CASE k # 1
      <4>1. ComesBefore(list[1], a)
        BY <1>1, <3>1, <3>2, <3>4
      <4>2. list[1].priority >= a.priority /\ list[1].priority <= Urgent
            /\ list[1].priority \in Int
        BY <1>2, <3>2, <4>1, ComesBeforeIs DEF Ordered
      <4>3. QED  BY <2>1, <3>2, <4>2 DEF Urgent
    <3>5. QED  BY <3>3, <3>4
  <2>2. ASSUME n > 0, list[1].priority = Urgent
        PROVE  \E a \in Actions : a.priority = Urgent
    <3>1. list[1] \in Actions
      BY <1>1, <2>2
    <3>2. QED  BY <2>2, <3>1
  <2>3. QED  BY <2>1, <2>2
<1>6. CountByPriority(Plan)[Urgent] > 0 <=> \E a \in Actions : a.priority = Urgent
  <2> PICK places : places = {k \in DOMAIN list : list[k].priority = Urgent}
    OBVIOUS
  <2>1. CountByPriority(Plan)[Urgent] = Cardinality(places)
    BY DEF CountByPriority, Priority, Urgent
  <2>2. IsFiniteSet(places)
    <3>1. IsFiniteSet(1 .. n)
      BY <1>1, FS_Interval
    <3>2. places \subseteq 1 .. n
      BY <1>1
    <3>3. QED  BY <3>1, <3>2, FS_Subset
  <2>3. Cardinality(places) > 0 <=> places # {}
    BY <2>2, FS_EmptySet, FS_CardinalityType
  <2>4. places # {} <=> \E a \in Actions : a.priority = Urgent
    <3>1. ASSUME NEW k \in places PROVE \E a \in Actions : a.priority = Urgent
      <4>1. list[k] \in Actions /\ list[k].priority = Urgent
        BY <1>1
      <4>2. QED  BY <4>1
    <3>2. ASSUME NEW a \in Actions, a.priority = Urgent PROVE places # {}
      BY <1>1, <3>2
    <3>3. QED  BY <3>1, <3>2
  <2>5. QED  BY <2>1, <2>3, <2>4
<1>7. NextWorkAction(items, Held, now) = SubSeq(list, 1, Min({1, Len(list)}))
  <2> PICK plan : plan = Plan
    OBVIOUS
  <2>1. /\ Plan = BuildWorkPlan(items, ActionableBatches(Held), now)
        /\ plan.actions = list
    BY PlansAre
  <2>2. NextWorkAction(items, Held, now) =
          IF 1 > 0 /\ Len(list) > 1 THEN SubSeq(list, 1, 1) ELSE list
    <3>1. NextWorkAction(items, Held, now) =
            (IF 1 > 0 /\ Len(plan.actions) > 1
             THEN [plan EXCEPT !.actions = SubSeq(plan.actions, 1, 1)] ELSE plan).actions
      BY <2>1 DEF NextWorkAction, PlanFor
    <3>2. "actions" \in DOMAIN plan
      BY <2>1 DEF BuildWorkPlan
    <3>3. [plan EXCEPT !.actions = SubSeq(plan.actions, 1, 1)].actions = SubSeq(list, 1, 1)
      BY <2>1, <3>2
    <3>4. QED  BY <2>1, <3>1, <3>3
  <2>3. CASE n = 0
    <3>1. Min({1, 0}) = 0
      BY DEF Min
    <3>2. list = <<>> /\ SubSeq(list, 1, 0) = <<>>
      BY <1>1, <2>3, SubSeqEmpty
    <3>3. QED  BY <1>1, <2>2, <2>3, <3>1, <3>2
  <2>4. CASE n = 1
    <3>1. Min({1, 1}) = 1
      BY DEF Min
    <3>2. SubSeq(list, 1, 1) = list
      BY <1>1, <2>4, SubSeqFull
    <3>3. QED  BY <1>1, <2>2, <2>4, <3>1, <3>2
  <2>5. CASE n > 1
    <3>1. Min({1, n}) = 1
      <4>1. 1 \in {1, n} /\ \A y \in {1, n} : 1 =< y
        BY <1>1, <2>5
      <4>2. \A x \in {1, n} : (\A y \in {1, n} : x =< y) => x = 1
        BY <1>1, <2>5
      <4>3. QED  BY <4>1, <4>2 DEF Min
    <3>2. Len(list) = n /\ Len(list) > 1
      BY <1>1, <2>5
    <3>3. NextWorkAction(items, Held, now) = SubSeq(list, 1, 1)
      BY <2>2, <3>2
    <3>4. QED  BY <3>1, <3>2, <3>3
  <2>6. n \in Nat
    BY <1>1
  <2>7. n = 0 \/ n = 1 \/ n > 1
    BY <2>6
  <2>8. QED  BY <2>3, <2>4, <2>5, <2>7
<1>8. QED  BY <1>3, <1>4, <1>5, <1>6, <1>7 DEF UrgencyShowsFirst

\* The first action of a plan tells whether anything is urgent, and the next
\* action is the first of the whole plan (workplan.go:88-97).
THEOREM UrgencyStaysFirst == Spec => []UrgencyShowsFirst
<1>1. QED  BY UrgencyIsShown, ScopeInvariant, PTL
---------------------------------------------------------------------------
(***************************************************************************)
(* What is counted.                                                        *)
(***************************************************************************)

\* There are no more batches than identifiers in use.
LEMMA FiniteHeld == ScopeOK => IsFiniteSet(Held)
<1> SUFFICES ASSUME ScopeOK PROVE IsFiniteSet(Held)
  OBVIOUS
<1> PICK f : f = [id \in HeldIds |-> held[id]]
  OBVIOUS
<1>1. f \in Surjection(HeldIds, Held)
  BY DEF Surjection, Held, HeldIds
<1>2. QED  BY <1>1, FS_Surjection DEF ScopeOK, BatchesOK

\* Where a list has elements of a set.
Places(list, T) == {k \in DOMAIN list : list[k] \in T}

IsListOf(list, S) ==
  /\ list \in [1 .. Cardinality(S) -> S]
  /\ \A i, k \in 1 .. Cardinality(S) : list[i] = list[k] => i = k

\* A list of a set has each of its elements in one place.
LEMMA CountedInList ==
  ASSUME NEW S, IsFiniteSet(S), NEW list, IsListOf(list, S), NEW T \in SUBSET S
  PROVE  /\ Len(list) = Cardinality(S) /\ DOMAIN list = 1 .. Cardinality(S)
         /\ \A x \in S : \E k \in DOMAIN list : list[k] = x
         /\ Cardinality(Places(list, T)) = Cardinality(T)
<1> PICK n \in Nat : n = Cardinality(S)
  BY FS_CardinalityType
<1> PICK places : places = {k \in 1 .. n : list[k] \in T}
  OBVIOUS
<1>1. DOMAIN list = 1 .. n /\ Len(list) = n
  BY DEF IsListOf
<1>2. list \in Injection(1 .. n, S)
  BY DEF IsListOf, Injection, IsInjective
<1>3. IsFiniteSet(1 .. n) /\ Cardinality(1 .. n) = n
  BY FS_Interval
<1>4. list \in Surjection(1 .. n, S)
  BY <1>2, <1>3, FS_Injection
<1>5. \A x \in S : \E k \in 1 .. n : list[k] = x
  BY <1>4 DEF Surjection
<1>6. PICK f : f = [k \in places |-> list[k]]
  OBVIOUS
<1>7. f \in Injection(places, T)
  <2>1. f \in [places -> T]
    BY <1>6
  <2>2. \A i, k \in places : f[i] = f[k] => i = k
    BY <1>6 DEF IsListOf
  <2>3. QED  BY <2>1, <2>2 DEF Injection, IsInjective
<1>8. f \in Surjection(places, T)
  <2>1. f \in [places -> T]
    BY <1>6
  <2>2. \A x \in T : \E k \in places : f[k] = x
    BY <1>5, <1>6
  <2>3. QED  BY <2>1, <2>2 DEF Surjection
<1>9. IsFiniteSet(T)
  BY FS_Subset
<1>10. Cardinality(places) = Cardinality(T)
  BY <1>7, <1>8, <1>9, FS_Injection
<1>11. Places(list, T) = places
  BY <1>1 DEF Places
<1>12. QED  BY <1>1, <1>5, <1>10, <1>11

\* SetToSeq lists every element once.
LEMMA ListOfSet ==
  ASSUME NEW S, IsFiniteSet(S)
  PROVE  IsListOf(SetToSeq(S), S)
<1> PICK n \in Nat : n = Cardinality(S)
  BY FS_CardinalityType
<1>1. PICK f \in Bijection(1 .. n, S) : TRUE
  BY FS_CardinalityType DEF ExistsBijection
<1>2. f \in [1 .. n -> S] /\ IsInjective(f)
  BY <1>1 DEF Bijection, Injection
<1>3. SetToSeq(S) \in [1 .. n -> S] /\ IsInjective(SetToSeq(S))
  BY <1>2 DEF SetToSeq
<1>4. QED  BY <1>3 DEF IsInjective, IsListOf

\* Parts that share nothing add up.
LEMMA DisjointSum ==
  ASSUME NEW S, NEW T, IsFiniteSet(S), IsFiniteSet(T), S \cap T = {}
  PROVE  /\ IsFiniteSet(S \cup T)
         /\ Cardinality(S \cup T) = Cardinality(S) + Cardinality(T)
<1>1. Cardinality(S \cap T) = 0 /\ Cardinality(S) \in Nat /\ Cardinality(T) \in Nat
  BY FS_EmptySet, FS_CardinalityType
<1>2. IsFiniteSet(S \cup T)
  BY FS_Union
<1>3. Cardinality(S \cup T) = Cardinality(S) + Cardinality(T) - Cardinality(S \cap T)
  BY FS_Union
<1>4. QED  BY <1>1, <1>2, <1>3

\* Each of the three counts is a sum over the same states.
LEMMA CountsAreEqual == ScopeOK => CountsAgree
<1> SUFFICES ASSUME ScopeOK PROVE CountsAgree
  OBVIOUS
<1> PICK all : all = Held
  OBVIOUS
<1> PICK open : open = {b \in all : ~IsTerminal(b)}
  OBVIOUS
<1> PICK submitted : submitted = {b \in all : b.state = "submitted"}
  OBVIOUS
<1> PICK reviewed : reviewed = {b \in all : b.state = "under_review"}
  OBVIOUS
<1> PICK approved : approved = {b \in all : b.state = "approved"}
  OBVIOUS
<1> PICK rejected : rejected = {b \in all : b.state = "rejected"}
  OBVIOUS
<1> PICK cancelled : cancelled = {b \in all : b.state = "cancelled"}
  OBVIOUS
<1>1. IsFiniteSet(all) /\ \A b \in all : b.state \in BatchState \ {"draft"}
  BY FiniteHeld, HeldAre DEF HeldBatch
<1>2. /\ open \subseteq all /\ IsFiniteSet(open)
      /\ approved \subseteq all /\ IsFiniteSet(approved)
      /\ IsFiniteSet(submitted) /\ IsFiniteSet(reviewed)
      /\ IsFiniteSet(rejected) /\ IsFiniteSet(cancelled)
  BY <1>1, FS_Subset
<1>3. /\ InState(all, "submitted") = Cardinality(submitted)
      /\ InState(all, "under_review") = Cardinality(reviewed)
      /\ InState(all, "approved") = Cardinality(approved)
      /\ InState(all, "rejected") = Cardinality(rejected)
      /\ InState(all, "cancelled") = Cardinality(cancelled)
  BY DEF InState
<1>4. /\ Cardinality(submitted) \in Nat /\ Cardinality(reviewed) \in Nat
      /\ Cardinality(approved) \in Nat /\ Cardinality(rejected) \in Nat
      /\ Cardinality(cancelled) \in Nat /\ Cardinality(open) \in Nat
  BY <1>2, FS_CardinalityType
<1> PICK closed : closed = approved \cup cancelled
  OBVIOUS
<1>5. Cardinality(open) = Cardinality(submitted) + Cardinality(reviewed)
  <2>1. open = submitted \cup reviewed /\ submitted \cap reviewed = {}
    BY <1>1 DEF IsTerminal, BatchState
  <2>2. QED  BY <1>2, <2>1, DisjointSum
<1>6. /\ Cardinality(closed) = Cardinality(approved) + Cardinality(cancelled)
      /\ IsFiniteSet(closed)
  <2>1. approved \cap cancelled = {}
    OBVIOUS
  <2>2. QED  BY <1>2, <2>1, DisjointSum
<1>7. Cardinality(all) = Cardinality(open) + (Cardinality(closed) + Cardinality(rejected))
  <2> PICK rest : rest = closed \cup rejected
    OBVIOUS
  <2>1. closed \cap rejected = {}
    OBVIOUS
  <2>2. Cardinality(rest) = Cardinality(closed) + Cardinality(rejected)
        /\ IsFiniteSet(rest)
    BY <1>2, <1>6, <2>1, DisjointSum
  <2>3. open \cup rest = all /\ open \cap rest = {}
    BY <1>1 DEF IsTerminal, BatchState
  <2>4. Cardinality(open \cup rest) = Cardinality(open) + Cardinality(rest)
    <3>1. IsFiniteSet(open) /\ IsFiniteSet(rest) /\ open \cap rest = {}
      BY <1>2, <2>2, <2>3
    <3>2. QED  BY <3>1, DisjointSum
  <2>5. QED  BY <2>2, <2>3, <2>4
<1> PICK s : s = SummarizeScope(items, all)
  OBVIOUS
<1>9. /\ s.open = Cardinality(open) /\ s.approved = InState(all, "approved")
      /\ s.rejected = InState(all, "rejected") /\ s.cancelled = InState(all, "cancelled")
  BY DEF SummarizeScope
<1> PICK p : p = WholePlan
  OBVIOUS
<1> PICK plan : plan = Plan
  OBVIOUS
<1>10. /\ p.batches = [submitted |-> InState(all, "submitted"),
                       underReview |-> InState(all, "under_review"),
                       rejected |-> InState(all, "rejected"),
                       completed |-> InState(all, "approved") + InState(all, "cancelled")]
       /\ p.actions = plan.actions
  BY PlansAre DEF BuildWorkPlan
<1>11. plan.batches = [p.batches EXCEPT !.completed = 0]
  <2> PICK few : few = ActionableBatches(all)
    OBVIOUS
  <2>1. /\ InState(few, "submitted") = InState(all, "submitted")
        /\ InState(few, "under_review") = InState(all, "under_review")
        /\ InState(few, "rejected") = InState(all, "rejected")
    <3>1. \A state : state \notin {"approved", "cancelled"} =>
            {b \in few : b.state = state} = {b \in all : b.state = state}
      BY DEF ActionableBatches
    <3>2. QED  BY <3>1 DEF InState
  <2>2. InState(few, "approved") = 0 /\ InState(few, "cancelled") = 0
    <3>1. {b \in few : b.state = "approved"} = {} /\ {b \in few : b.state = "cancelled"} = {}
      BY DEF ActionableBatches
    <3>2. QED  BY <3>1, FS_EmptySet DEF InState
  <2>3. plan.batches = [submitted |-> InState(few, "submitted"),
                        underReview |-> InState(few, "under_review"),
                        rejected |-> InState(few, "rejected"),
                        completed |-> InState(few, "approved") + InState(few, "cancelled")]
    BY PlansAre DEF BuildWorkPlan
  <2>4. QED  BY <1>10, <2>1, <2>2, <2>3
<1> PICK list : list = SetToSeq(all)
  OBVIOUS
<1>12. IsListOf(list, all)
  BY <1>1, ListOfSet
<1>13. /\ Len(list) = Cardinality(all) /\ DOMAIN list = 1 .. Cardinality(all)
       /\ Cardinality(Places(list, open)) = Cardinality(open)
       /\ Cardinality(Places(list, approved)) = Cardinality(approved)
       /\ \A k \in DOMAIN list : list[k] \in all
  <2>1. open \in SUBSET all /\ approved \in SUBSET all
    BY <1>2
  <2>2. Len(list) = Cardinality(all)
    BY <1>1, <1>12, <2>1, CountedInList
  <2>3. DOMAIN list = 1 .. Cardinality(all)
    BY <1>12 DEF IsListOf
  <2>4. Cardinality(Places(list, open)) = Cardinality(open)
    BY <1>1, <1>12, <2>1, CountedInList
  <2>5. Cardinality(Places(list, approved)) = Cardinality(approved)
    BY <1>1, <1>12, <2>1, CountedInList
  <2>6. \A k \in DOMAIN list : list[k] \in all
    BY <1>12, <2>3 DEF IsListOf
  <2>7. QED  BY <2>2, <2>3, <2>4, <2>5, <2>6
<1>14. Open(list) = Cardinality(open)
  <2>1. Places(list, open) = {k \in DOMAIN list : ~IsTerminal(list[k])}
    BY <1>13 DEF Places
  <2>2. QED  BY <1>13, <2>1 DEF Open
<1>15. Approved(list) = InState(all, "approved")
  <2>1. Places(list, approved) = {k \in DOMAIN list : list[k].state = "approved"}
    BY <1>13 DEF Places
  <2>2. QED  BY <1>3, <1>13, <2>1 DEF Approved
<1>16. s.open + CompletedBatches(s) = Len(list)
  BY <1>3, <1>4, <1>6, <1>7, <1>9, <1>13 DEF CompletedBatches
<1>17. /\ p.batches.submitted = InState(all, "submitted")
       /\ p.batches.underReview = InState(all, "under_review")
       /\ p.batches.rejected = InState(all, "rejected")
       /\ p.batches.completed = InState(all, "approved") + InState(all, "cancelled")
  BY <1>10
<1>18. QED
  BY <1>3, <1>5, <1>9, <1>10, <1>11, <1>14, <1>15, <1>16, <1>17 DEF CountsAgree

\* Plan, summary and report count the same batches, however many there are
\* (workplan.go:184-220, summary.go:17-27, report.go:47-64).
THEOREM CountsStayEqual == Spec => []CountsAgree
<1>1. QED  BY CountsAreEqual, ScopeInvariant, PTL
---------------------------------------------------------------------------
(***************************************************************************)
(* Risk.                                                                   *)
(***************************************************************************)

\* A set of numbers that is not empty has a least element, and a greatest one if
\* it is bounded.
LEMMA LeastNumber ==
  ASSUME NEW T \in SUBSET Nat, T # {}
  PROVE  \E m \in T : \A n \in T : m <= n
<1>1. PICK m \in T : \A n \in T : ~(<<n, m>> \in OpToRel(<, Nat))
  BY NatLessThanWellFounded, WFMin
<1>2. \A n \in T : ~(n < m)
  BY <1>1 DEF OpToRel
<1>3. QED  BY <1>2

\* Max is an element of a set of integers with a bound.
LEMMA MaxIsElement ==
  ASSUME NEW S \in SUBSET Int, S # {}, NEW top \in Int, \A s \in S : s <= top
  PROVE  Max(S) \in S /\ \A s \in S : s <= Max(S)
<1> DEFINE T == {n \in Nat : \E s \in S : n = top - s}
<1>1. T \in SUBSET Nat /\ T # {}
  <2>1. PICK s \in S : TRUE
    OBVIOUS
  <2>2. top - s \in Nat
    BY <2>1
  <2>3. QED  BY <2>2
<1>2. PICK m \in T : \A n \in T : m <= n
  <2> HIDE DEF T
  <2>1. QED  BY <1>1, LeastNumber
<1>3. PICK g \in S : m = top - g
  OBVIOUS
<1>4. ASSUME NEW s \in S PROVE g >= s
  <2>1. top - s \in T
    OBVIOUS
  <2>2. m <= top - s
    BY <1>2, <2>1
  <2>3. QED  BY <1>3, <2>2
<1>5. \E x \in S : \A y \in S : x >= y
  BY <1>4
<1>6. Max(S) \in S /\ \A y \in S : Max(S) >= y
  BY <1>5 DEF Max
<1>7. QED  BY <1>6

\* The maximum is what no element exceeds.
LEMMA MaxIs ==
  ASSUME NEW S \in SUBSET Int, NEW m \in S, \A s \in S : s <= m
  PROVE  Max(S) = m
<1>1. \E x \in S : \A y \in S : x >= y
  OBVIOUS
<1>2. Max(S) \in S /\ \A y \in S : Max(S) >= y
  BY <1>1 DEF Max
<1>3. PICK x \in Int : x = Max(S)
  BY <1>2
<1>4. x <= m /\ x >= m /\ m \in Int
  BY <1>2, <1>3
<1>5. x = m
  BY <1>4
<1>6. QED  BY <1>3, <1>5

\* How severe the risk of a batch is, by the number of reasons.
LEMMA RiskIs ==
  ASSUME NEW list, IsFiniteSet(list), NEW b, NEW n \in Nat,
         n = Cardinality({item \in list : IsExpired(item, b.updatedAt)})
  PROVE  LET reasons == n + IF \A item \in list : item.kind # "certificate" THEN 1 ELSE 0
         IN /\ AssessRisk(list, b).level \in RiskLevel
            /\ AssessRisk(list, b).level = "high" <=> reasons > 1 \/ b.state = "rejected"
            /\ AssessRisk(list, b).level = "medium" <=> reasons = 1 /\ b.state # "rejected"
<1> PICK bare \in {0, 1} :
      bare = IF \A item \in list : item.kind # "certificate" THEN 1 ELSE 0
  OBVIOUS
<1>1. AssessRisk(list, b).level =
        CASE n + bare > 1 \/ b.state = "rejected" -> "high"
          [] n + bare = 1 /\ b.state # "rejected" -> "medium"
          [] OTHER -> "low"
  BY DEF AssessRisk
<1>2. QED  BY <1>1 DEF RiskLevel

\* All the evidence of a scope makes no batch look better than its own does.
LEMMA OwnRiskIsMilder ==
  ASSUME ScopeOK, NEW b \in Held
  PROVE  /\ AssessRisk(items, b).level \in RiskLevel
         /\ AssessRisk(OwnEvidence(b), b).level \in RiskLevel
         /\ Severity[AssessRisk(OwnEvidence(b), b).level]
              <= Severity[AssessRisk(items, b).level]
<1> PICK own : own = OwnEvidence(b)
  OBVIOUS
<1> PICK expired : expired = {item \in items : IsExpired(item, b.updatedAt)}
  OBVIOUS
<1> PICK mine : mine = {item \in own : IsExpired(item, b.updatedAt)}
  OBVIOUS
<1>1. own \subseteq items /\ IsFiniteSet(items) /\ IsFiniteSet(own)
  <2>1. own \subseteq items
    BY DEF OwnEvidence
  <2>2. QED  BY <2>1, FS_Subset DEF ScopeOK, ItemsOK
<1>2. mine \subseteq expired /\ expired \subseteq items
  BY <1>1
<1>3. /\ Cardinality(expired) \in Nat /\ Cardinality(mine) \in Nat
      /\ Cardinality(mine) <= Cardinality(expired)
  <2>1. IsFiniteSet(expired)
    BY <1>1, <1>2, FS_Subset
  <2>2. IsFiniteSet(mine) /\ Cardinality(mine) <= Cardinality(expired)
    BY <1>2, <2>1, FS_Subset
  <2>3. QED  BY <2>1, <2>2, FS_CardinalityType
<1>4. \E item \in own : item.kind = "certificate"
  <2>1. b.id \in HeldIds /\ held[b.id] = b
    BY HeldAre
  <2>2. \E item \in items : item.kind = "certificate" /\ item.id \in b.evidence
    BY <2>1 DEF ScopeOK, BatchesOK
  <2>3. QED  BY <2>2 DEF OwnEvidence
<1>5. \E item \in items : item.kind = "certificate"
  BY <1>1, <1>4
<1>6. /\ AssessRisk(items, b).level \in RiskLevel
      /\ AssessRisk(items, b).level = "high"
           <=> Cardinality(expired) > 1 \/ b.state = "rejected"
      /\ AssessRisk(items, b).level = "medium"
           <=> Cardinality(expired) = 1 /\ b.state # "rejected"
  BY <1>1, <1>3, <1>5, RiskIs
<1>7. /\ AssessRisk(own, b).level \in RiskLevel
      /\ AssessRisk(own, b).level = "high"
           <=> Cardinality(mine) > 1 \/ b.state = "rejected"
      /\ AssessRisk(own, b).level = "medium"
           <=> Cardinality(mine) = 1 /\ b.state # "rejected"
  BY <1>1, <1>3, <1>4, RiskIs
<1>8. Severity["low"] = 1 /\ Severity["medium"] = 2 /\ Severity["high"] = 3
  BY DEF Severity
<1>9. QED  BY <1>3, <1>6, <1>7, <1>8 DEF RiskLevel

\* The level a report chooses from its list.
LEMMA ReportLevelIs ==
  ASSUME NEW list, NEW n \in Nat, DOMAIN list = 1 .. n,
         \A k \in 1 .. n : AssessRisk(items, list[k]).level \in RiskLevel
  PROVE  LET level == ReportRisk(items, list).level
         IN /\ level \in RiskLevel
            /\ level # "low" => \E k \in 1 .. n : AssessRisk(items, list[k]).level = level
            /\ \A k \in 1 .. n :
                 Severity[AssessRisk(items, list[k]).level] <= Severity[level]
<1> PICK high : high = {k \in 1 .. n : AssessRisk(items, list[k]).level = "high"}
  OBVIOUS
<1> PICK medium : medium = {k \in 1 .. n : AssessRisk(items, list[k]).level = "medium"}
  OBVIOUS
<1>1. ReportRisk(items, list) =
        CASE high # {} -> AssessRisk(items, list[Min(high)])
          [] high = {} /\ medium # {} -> AssessRisk(items, list[Max(medium)])
          [] OTHER -> NoRisk
  BY DEF ReportRisk
<1>2. Severity["low"] = 1 /\ Severity["medium"] = 2 /\ Severity["high"] = 3
  BY DEF Severity
<1>3. CASE high # {}
  <2>1. high \in SUBSET Nat
    OBVIOUS
  <2>2. \E m \in high : \A k \in high : m <= k
    BY <1>3, <2>1, LeastNumber
  <2>3. Min(high) \in high
    BY <2>2 DEF Min
  <2>4. ReportRisk(items, list).level = "high"
    BY <1>1, <1>3, <2>3
  <2>5. QED  BY <1>2, <2>3, <2>4 DEF RiskLevel
<1>4. CASE high = {} /\ medium # {}
  <2>1. Max(medium) \in medium
    <3>1. medium \in SUBSET Int /\ \A k \in medium : k <= n
      OBVIOUS
    <3>2. n \in Int /\ medium # {}
      BY <1>4
    <3>3. QED  BY <3>1, <3>2, MaxIsElement
  <2>2. ReportRisk(items, list).level = "medium"
    BY <1>1, <1>4, <2>1
  <2>3. \A k \in 1 .. n : AssessRisk(items, list[k]).level \in {"low", "medium"}
    BY <1>4 DEF RiskLevel
  <2>4. QED  BY <1>2, <2>1, <2>2, <2>3 DEF RiskLevel
<1>5. CASE high = {} /\ medium = {}
  <2>1. ReportRisk(items, list).level = "low"
    BY <1>1, <1>5 DEF NoRisk
  <2>2. \A k \in 1 .. n : AssessRisk(items, list[k]).level = "low"
    BY <1>5 DEF RiskLevel
  <2>3. QED  BY <1>2, <2>1, <2>2 DEF RiskLevel
<1>6. QED  BY <1>3, <1>4, <1>5

\* The level of a report is that of its worst batch, wherever it is in the list.
LEMMA ReportIsSevere == ScopeOK => ReportIsNotMilder
<1> SUFFICES ASSUME ScopeOK, NEW list \in SortedByCreation(Held)
             PROVE  LET level == ReportRisk(items, list).level
                    IN /\ Severity[level] =
                            Max({Severity[AssessRisk(items, b).level] : b \in Held} \cup {1})
                       /\ \A b \in Held :
                            Severity[AssessRisk(OwnEvidence(b), b).level] <= Severity[level]
  BY DEF ReportIsNotMilder
<1> PICK n \in Nat : n = Cardinality(Held)
  BY FiniteHeld, FS_CardinalityType
<1> PICK level : level = ReportRisk(items, list).level
  OBVIOUS
<1> PICK all : all = {Severity[AssessRisk(items, b).level] : b \in Held} \cup {1}
  OBVIOUS
<1>1. IsListOf(list, Held)
  BY DEF SortedByCreation, SetToSeqs, IsListOf
<1>2. /\ DOMAIN list = 1 .. n /\ \A k \in 1 .. n : list[k] \in Held
      /\ \A b \in Held : \E k \in 1 .. n : list[k] = b
  <2>1. DOMAIN list = 1 .. n /\ \A k \in 1 .. n : list[k] \in Held
    BY <1>1 DEF IsListOf
  <2>2. \A b \in Held : \E k \in DOMAIN list : list[k] = b
    BY <1>1, FiniteHeld, CountedInList
  <2>3. QED  BY <2>1, <2>2
<1>3. \A b \in Held : /\ AssessRisk(items, b).level \in RiskLevel
                      /\ Severity[AssessRisk(OwnEvidence(b), b).level]
                           <= Severity[AssessRisk(items, b).level]
  BY OwnRiskIsMilder
<1>4. /\ level \in RiskLevel
      /\ level # "low" => \E k \in 1 .. n : AssessRisk(items, list[k]).level = level
      /\ \A k \in 1 .. n : Severity[AssessRisk(items, list[k]).level] <= Severity[level]
  BY <1>2, <1>3, ReportLevelIs
<1>5. \A b \in Held : Severity[AssessRisk(items, b).level] <= Severity[level]
  BY <1>2, <1>4
<1>6. \A x \in RiskLevel : Severity[x] \in 1 .. 3 /\ (x = "low" => Severity[x] = 1)
  BY DEF RiskLevel, Severity
<1>7. Max(all) = Severity[level]
  <2>1. all \in SUBSET Int
    BY <1>3, <1>6
  <2>2. Severity[level] \in all
    <3>1. CASE level = "low"
      BY <1>4, <1>6, <3>1
    <3>2. CASE level # "low"
      BY <1>2, <1>4, <3>2
    <3>3. QED  BY <3>1, <3>2
  <2>3. \A s \in all : s <= Severity[level]
    BY <1>4, <1>5, <1>6
  <2>4. QED  BY <2>1, <2>2, <2>3, MaxIs
<1>8. \A b \in Held : AssessRisk(OwnEvidence(b), b).level \in RiskLevel
  BY OwnRiskIsMilder
<1>9. \A b \in Held : Severity[AssessRisk(OwnEvidence(b), b).level] <= Severity[level]
  BY <1>3, <1>4, <1>5, <1>6, <1>8
<1>10. QED  BY <1>7, <1>9

\* A report is as severe as its worst batch, in whatever order the batches come,
\* and never milder than a batch judged by its own evidence (report.go:33-43).
THEOREM ReportsStaySevere == Spec => []ReportIsNotMilder
<1>1. QED  BY ReportIsSevere, ScopeInvariant, PTL
=============================================================================
