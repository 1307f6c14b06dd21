------------------------------ MODULE Overview ------------------------------
(***************************************************************************)
(* What one look at the store shows: the lists every query starts from,    *)
(* and the queries that amount to a single look.  Queries models those     *)
(* that look several times.                                                *)
(***************************************************************************)
EXTENDS ReviewService, Reports

\* The store's lists, as sets: nothing below depends on their order.
ListEvidence(scope) == {item \in evidence : item.scope = scope}

ListBatches(scope) ==
  {batches[id] : id \in {i \in BatchId :
                           batches[i] # NoBatch /\ batches[i].scope = scope}}

CountByState(scope) ==
  [state \in BatchState |-> InState(ListBatches(scope), state)]

\* resolveEvidence of a batch.
EvidenceOf(b) == UNION {FindEvidence(evidence, b.scope, id) : id \in b.evidence}

AllFound(b) == \A id \in b.evidence : FindEvidence(evidence, b.scope, id) # {}

\* RiskForBatch: the evidence of a batch is fixed before the batch is stored,
\* so that reading the two one after the other is reading them together.
RiskForBatch(b) == AssessRisk(EvidenceOf(b), b)

IsVisibleToReviewer(b) == b.state \in {"submitted", "under_review"}

\* ReviewQueue: each open batch with its risk, resolved like RiskForBatch does.
ReviewQueue(scope) ==
  {[batch |-> b, risk |-> RiskForBatch(b), evidenceCount |-> Cardinality(b.evidence)] :
     b \in {x \in ListBatches(scope) : IsVisibleToReviewer(x)}}

\* The places of the entries in the lists of a log.
Entries(log) == UNION {{key} \X DOMAIN log[key] : key \in DOMAIN log}

\* What Store.Metrics counts under one lock: the lengths of lists add up to the
\* number of their entries.
Metrics ==
  [evidence |-> Cardinality(evidence),
   batches |-> Cardinality({id \in BatchId : batches[id] # NoBatch}),
   receipts |-> Cardinality(Entries(receipts)), notices |-> Len(notices),
   audits |-> Cardinality(Entries(audits))]
---------------------------------------------------------------------------
(***************************************************************************)
(* Properties.                                                             *)
(***************************************************************************)

\* What awaits a reviewer passed the policy when it was submitted: at any later
\* time it has no more evidence than the policy admits, its certificate is
\* there, and only expiry makes it a risk (report.go:27-44, risk.go:25-41).
QueuedRiskIsExpiry ==
  \A scope \in Scope : \A item \in ReviewQueue(scope) :
    /\ item.evidenceCount \in 1 .. Policy.maxEvidence
    /\ ~item.risk.uncertified
    /\ item.risk.level # "low" <=> item.risk.expired > 0

\* While clients stay the metrics balance: every audit event is of a receipt or
\* of evidence, and those without one are being filed.
MetricsBalance ==
  Metrics.receipts + Metrics.evidence
    = Metrics.audits + Cardinality({w \in Worker : pc[w] = "audit"})
=============================================================================
