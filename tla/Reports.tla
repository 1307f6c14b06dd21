------------------------------ MODULE Reports ------------------------------
(***************************************************************************)
(* What the queries make of the values they have read: risk, scope         *)
(* summary, compliance report, timeline and retention.  Everything here is *)
(* pure: Queries says when the values are read, WorkPlan how they age.     *)
(*                                                                         *)
(* Abstracted: texts, and the supplier AssessRisk asks for: NewEvidence    *)
(* refuses evidence without one (evidence.go:50), so that reason never     *)
(* arises.                                                                 *)
(***************************************************************************)
EXTENDS ReviewDomain, FiniteSetsExt, SequencesExt

IsTerminal(b) == b.state \in {"approved", "rejected", "cancelled"}

\* The lists sort.Slice may make of a report's batches: by their creation, those
\* of one instant in any order.
SortedByCreation(bs) ==
  {list \in SetToSeqs(bs) :
     \A i, k \in DOMAIN list : i < k => list[i].createdAt <= list[k].createdAt}
---------------------------------------------------------------------------
RiskLevel == {"low", "medium", "high"}

\* Levels in order of severity.
Severity == [low |-> 1, medium |-> 2, high |-> 3]

\* AssessRisk: one reason for every expired item, one for a missing
\* certificate.
AssessRisk(items, b) ==
  LET expired == {item \in items : IsExpired(item, b.updatedAt)}
      uncertified == \A item \in items : item.kind # "certificate"
      reasons == Cardinality(expired) + IF uncertified THEN 1 ELSE 0
  IN [level |-> CASE reasons > 1 \/ b.state = "rejected" -> "high"
                  [] reasons = 1 /\ b.state # "rejected" -> "medium"
                  [] OTHER -> "low",
      expired |-> Cardinality(expired), uncertified |-> uncertified]

NoRisk == [level |-> "low", expired |-> 0, uncertified |-> FALSE]

\* Variant: the loop does not stop at a high risk.
ReportRiskLast(items, list) ==
  LET at(level) == {k \in DOMAIN list : AssessRisk(items, list[k]).level = level}
      notLow == at("medium") \cup at("high")
  IN IF notLow = {} THEN NoRisk ELSE AssessRisk(items, list[Max(notLow)])

\* The risk NewComplianceReport chooses, all the evidence of the scope held
\* against every batch: the first high one, or the last medium one.
ReportRisk(items, list) ==
  LET at(level) == {k \in DOMAIN list : AssessRisk(items, list[k]).level = level}
  IN CASE at("high") # {} -> AssessRisk(items, list[Min(at("high"))])
       [] at("high") = {} /\ at("medium") # {} ->
            AssessRisk(items, list[Max(at("medium"))])
       [] OTHER -> NoRisk

\* ComplianceReport.Approved and Open.
Approved(list) == Cardinality({k \in DOMAIN list : list[k].state = "approved"})
Open(list) == Cardinality({k \in DOMAIN list : ~IsTerminal(list[k])})
---------------------------------------------------------------------------
InState(bs, state) == Cardinality({b \in bs : b.state = state})

\* SummarizeScope; an instant of -1 stands for the zero time.
SummarizeScope(items, bs) ==
  [evidence |-> Cardinality(items),
   open |-> Cardinality({b \in bs : ~IsTerminal(b)}),
   approved |-> InState(bs, "approved"),
   rejected |-> InState(bs, "rejected"),
   cancelled |-> InState(bs, "cancelled"),
   lastActivityAt |-> Max({b.updatedAt : b \in bs} \cup {-1})]

CompletedBatches(s) == s.approved + s.rejected + s.cancelled
---------------------------------------------------------------------------
\* The elements of S one after another, before being the pairs of them that are
\* in order: each comes after as many as come before it.
InOrder(S, before) ==
  [k \in 1 .. Cardinality(S) |->
     CHOOSE x \in S : Cardinality({y \in S : <<y, x>> \in before}) = k - 1]

\* Entries with their place in the list that is sorted.
ReceiptEntries(log, first) ==
  {[at |-> log[k].at, kind |-> log[k].kind, from |-> "receipt", place |-> first + k] :
     k \in DOMAIN log}

\* A trail is of a whole scope; a timeline takes the events about its batch.
AuditEntries(b, trail, first) ==
  {[at |-> trail[k].at, kind |-> trail[k].action, from |-> "audit", place |-> first + k] :
     k \in {i \in DOMAIN trail : trail[i].batch = b.id}}

\* A stable sort by instant: the entries of one instant keep their places.
IsEarlier(e, f) == e.at < f.at \/ (e.at = f.at /\ e.place < f.place)

StableByTime(entries) ==
  InOrder(entries, {p \in entries \X entries : IsEarlier(p[1], p[2])})

Created(b) ==
  [at |-> b.createdAt, kind |-> "batch_created", from |-> "batch", place |-> 0]

\* Variant: the trail is listed before the receipts.
BuildTimelineTrailFirst(b, log, trail) ==
  StableByTime({Created(b)} \cup AuditEntries(b, trail, 0)
                 \cup ReceiptEntries(log, Len(trail)))

BuildTimeline(b, log, trail) ==
  StableByTime({Created(b)} \cup ReceiptEntries(log, 0)
                 \cup AuditEntries(b, trail, Len(log)))

TimelineSince(entries, at) ==
  LET kept == {k \in DOMAIN entries : entries[k].at >= at}
      places == InOrder(kept, {p \in kept \X kept : p[1] < p[2]})
  IN [k \in DOMAIN places |-> entries[places[k]]]
---------------------------------------------------------------------------
\* RetentionRule, a rule being the durations to keep each kind of batch.
DeleteAfter(rule, b) ==
  b.updatedAt + CASE b.state = "approved" -> rule.keepApprovedFor
                  [] b.state = "rejected" -> rule.keepRejectedFor
                  [] OTHER                -> rule.keepCancelledFor

\* Variant: open batches are swept as well.
IsPastRetentionAny(rule, b, at) == DeleteAfter(rule, b) <= at

IsPastRetention(rule, b, at) == IsTerminal(b) /\ DeleteAfter(rule, b) <= at
===========================================================================
