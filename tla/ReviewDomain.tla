--------------------------- MODULE ReviewDomain ---------------------------
(***************************************************************************)
(* The values of the compliance review domain and the rules on them: the   *)
(* package internal/domain without its presentation helpers.  Everything   *)
(* here is pure: ReviewService calls these operators inside its steps.     *)
(*                                                                         *)
(* Abstracted: references, suppliers, reasons, actors and message texts.   *)
(* A name (of a project or a material) is a non-empty sequence of          *)
(* characters, because Scope.Key glues names together; instants are        *)
(* naturals.                                                               *)
(***************************************************************************)
EXTENDS Integers, Sequences, FiniteSets

CONSTANTS
  BatchId,      \* identifiers IDGenerator.New("batch") may return
  EvidenceId,   \* identifiers IDGenerator.New("ev") may return
  Name,         \* names of projects and of materials, each a sequence
  Recipient,    \* who can be told of a decision; "" is no recipient
  Policy,       \* the ReviewPolicy the service runs with
  NoBatch,      \* the absence of a batch
  Never         \* the expiry of evidence that has none (a nil ExpiresAt)

Instant == Nat
Expiry == Instant \cup {Never}
Scope == [project : Name, material : Name]

BatchState == {"draft", "submitted", "under_review",
               "approved", "rejected", "cancelled"}
EvidenceKind == {"certificate", "test_report", "declaration"}

Evidence == [id : EvidenceId, scope : Scope, kind : EvidenceKind,
             expiresAt : Expiry, createdAt : Instant]

\* EvidenceIDs is duplicate-free and sorted after normalizeIDs: a set.
Batch == [id : BatchId, scope : Scope, evidence : SUBSET EvidenceId,
          state : BatchState, revision : Nat \ {0},
          createdAt : Instant, updatedAt : Instant]

ReceiptKind == {"submitted", "review_started", "approved", "rejected",
                "cancelled"}
Receipt == [kind : ReceiptKind, at : Instant]

\* Only decisions queue notifications.
NoticeEvent == {"review_approved", "review_rejected"}
Notification == [batch : BatchId, recipient : Recipient, event : NoticeEvent,
                 state : {"pending", "delivered", "failed"},
                 attempts : Nat, createdAt : Instant]

ReviewPolicy == [requireCurrent : BOOLEAN, requireCertificate : BOOLEAN,
                 maxEvidence : Int]

ASSUME DomainAssumption ==
  /\ NoBatch \notin Batch
  /\ Never \notin Instant
  /\ "" \notin Recipient
  /\ Policy \in ReviewPolicy

\* A name is a Go string: a sequence of characters.
ASSUME NameAssumption == Name \subseteq Seq(STRING)
---------------------------------------------------------------------------
\* Batches.

CanTransition(b, to) ==
  CASE b.state = "draft"        -> to \in {"submitted", "cancelled"}
    [] b.state = "submitted"    -> to \in {"under_review", "cancelled"}
    [] b.state = "under_review" -> to \in {"approved", "rejected", "cancelled"}
    [] OTHER                    -> FALSE

\* The batch after a transition that CanTransition admits.
Transition(b, to, now) ==
  [b EXCEPT !.state = to, !.revision = @ + 1, !.updatedAt = now]

NewBatch(id, scope, ids, now) ==
  [id |-> id, scope |-> scope, evidence |-> ids, state |-> "draft",
   revision |-> 1, createdAt |-> now, updatedAt |-> now]

\* A list of identifiers as a batch keeps it: no duplicates, no order.
NormalizeIDs(ids) == {ids[i] : i \in DOMAIN ids}

\* Variant: the receipt is named after the state.
ReceiptNamedByState == [state \in BatchState |-> state]

\* The receipt and the audit action that go with the state a batch enters.
ReceiptFor == [submitted |-> "submitted", under_review |-> "review_started",
               approved |-> "approved", rejected |-> "rejected",
               cancelled |-> "cancelled"]

AuditActionFor == [registered |-> "evidence_registered",
                   submitted |-> "batch_submitted",
                   under_review |-> "review_started",
                   approved |-> "review_approved",
                   rejected |-> "review_rejected",
                   cancelled |-> "batch_cancelled"]
---------------------------------------------------------------------------
\* Evidence and the policy a batch of evidence must satisfy.

IsExpired(item, at) == item.expiresAt # Never /\ item.expiresAt <= at

\* ReviewPolicy.Validate on a list of evidence items: count is the length of
\* the list, items the evidence that occurs in it.  Expiry is judged at the
\* instant the item was registered.
SatisfiesPolicy(items, count) ==
  /\ count > 0
  /\ Policy.maxEvidence > 0 => count <= Policy.maxEvidence
  /\ Policy.requireCurrent =>
       \A item \in items : ~IsExpired(item, item.createdAt)
  /\ Policy.requireCertificate =>
       \E item \in items : item.kind = "certificate"
---------------------------------------------------------------------------
\* Scope.Key: the project and the material joined by a colon.
Key(scope) == scope.project \o <<":">> \o scope.material

\* The key of an evidence item in the store.
EvidenceKey(scope, id) == Key(scope) \o <<":", id>>
===========================================================================
