------------------------------ MODULE Planning ------------------------------
(***************************************************************************)
(* One scope as its evidence ages and its batches are reviewed, and what   *)
(* plans, reports, summaries and retention make of it at each moment.  A   *)
(* step is one change of the store as ReviewService makes it; the steps    *)
(* between them change neither evidence nor batches.                       *)
(***************************************************************************)
EXTENDS WorkPlan

CONSTANTS
  OfferedKinds,     \* kinds and
  OfferedExpiries,  \* expiries of the evidence registered
  Retention,        \* the durations of RetentionRule
  MaxTime           \* the last instant the clock shows

ASSUME PlanningAssumption ==
  /\ OfferedKinds \subseteq EvidenceKind
  /\ OfferedExpiries \subseteq Expiry
  /\ Retention \in [keepApprovedFor : Nat, keepRejectedFor : Nat,
                    keepCancelledFor : Nat]
  /\ MaxTime \in Nat

VARIABLES
  now,    \* the wall clock
  items,  \* the evidence of the scope
  held    \* the batches of the scope

vars == <<now, items, held>>

\* Batches of the one scope, as far as plans and reports look at them.
Held == {held[id] : id \in {i \in BatchId : held[i] # NoBatch}}

Init ==
  /\ now = 0
  /\ items = {}
  /\ held = [id \in BatchId |-> NoBatch]

\* SaveEvidence of RegisterEvidence.
Register(id, kind, expiresAt) ==
  /\ \A item \in items : item.id # id
  /\ items' = items \cup {[id |-> id, kind |-> kind, expiresAt |-> expiresAt]}
  /\ UNCHANGED <<now, held>>

\* CommitSubmission of CreateBatch, whose policy asks for a certificate.
Submit(id, own) ==
  /\ held[id] = NoBatch
  /\ \E item \in own : item.kind = "certificate"
  /\ held' = [held EXCEPT ![id] =
                [id |-> id, evidence |-> {item.id : item \in own},
                 state |-> "submitted", revision |-> 2,
                 createdAt |-> now, updatedAt |-> now]]
  /\ UNCHANGED <<now, items>>

\* SaveBatch of StartReview, DecideBatch and CancelBatch.
Move(id, to) ==
  /\ held[id] # NoBatch /\ CanTransition(held[id], to)
  /\ held' = [held EXCEPT ![id] = Transition(@, to, now)]
  /\ UNCHANGED <<now, items>>

Tick ==
  /\ now < MaxTime
  /\ now' = now + 1
  /\ UNCHANGED <<items, held>>

Next ==
  \/ \E id \in EvidenceId, kind \in OfferedKinds,
        expiresAt \in OfferedExpiries : Register(id, kind, expiresAt)
  \/ \E id \in BatchId, own \in SUBSET items : Submit(id, own)
  \/ \E id \in BatchId, to \in BatchState : Move(id, to)
  \/ Tick

Spec == Init /\ [][Next]_vars
---------------------------------------------------------------------------
(***************************************************************************)
(* Properties.                                                             *)
(***************************************************************************)

Plan == PlanFor(items, Held, now, FALSE, 0)
WholePlan == PlanFor(items, Held, now, TRUE, 0)
Actions == EvidenceActions(items, now) \cup BatchActions(Held, now)

\* A plan does not depend on the order its lists come in, though ListBatches
\* leaves batches of one instant in any order: no two of its actions compare
\* as equal (workplan.go:230-243).
PlanOrderIsTotal ==
  \A a, c \in Actions : a # c => ComesBefore(a, c) \/ ComesBefore(c, a)

\* Looking at the first action tells whether anything is urgent
\* (workplan.go:88-90): exactly when evidence has expired, whatever else is
\* to be done; and the next action alone is the first one of the whole plan.
UrgencyShowsFirst ==
  LET plan == Plan
  IN /\ HasUrgentAction(plan) <=> \E item \in items : IsExpired(item, now)
     /\ HasUrgentAction(plan) <=> CountByPriority(plan)[Urgent] > 0
     /\ NextWorkAction(items, Held, now)
          = SubSeq(plan.actions, 1, Min({1, Len(plan.actions)}))

\* The three places that sort batches by state agree (workplan.go:184-220,
\* summary.go:17-27, report.go:47-64): what a plan counts and asks for, what
\* the summary counts and what the report counts are the same batches, and
\* asking for the closed ones changes no action.
CountsAgree ==
  LET s == SummarizeScope(items, Held)
      plan == Plan
      p == WholePlan
      list == SetToSeq(Held)
  IN /\ s.open = p.batches.submitted + p.batches.underReview
     /\ s.rejected = p.batches.rejected
     /\ s.approved + s.cancelled = p.batches.completed
     /\ s.open = Open(list) /\ s.approved = Approved(list)
     /\ s.open + CompletedBatches(s) = Len(list)
     /\ p.actions = plan.actions
     /\ plan.batches = [p.batches EXCEPT !.completed = 0]

Subject(a) == <<a.evidence, a.batch>>

\* Work is not forgotten: an action of the plan is in every later one, never
\* less urgent, until its batch is moved on.  In particular evidence passes
\* from renewal to replacement without a gap (workplan.go:158-180).
WorkIsNotForgotten ==
  [][\A a \in Actions :
       \/ \E c \in Actions' : Subject(c) = Subject(a) /\ c.priority >= a.priority
       \/ a.batch # 0 /\ held'[a.batch] # held[a.batch]]_vars

OwnEvidence(b) == {item \in items : item.id \in b.evidence}

\* The report of a scope is as severe as its worst batch judged against the
\* whole scope, in whatever order they come, and never milder than the risk
\* of a single batch judged against its own evidence (report.go:33-43,
\* dashboard.go:35-45).
ReportIsNotMilder ==
  \A list \in SortedByCreation(Held) :
    LET level == ReportRisk(items, list).level
        of(b) == AssessRisk(items, b).level
    IN /\ Severity[level] = Max({Severity[of(b)] : b \in Held} \cup {1})
       /\ \A b \in Held :
            Severity[AssessRisk(OwnEvidence(b), b).level] <= Severity[level]

\* A batch that is past its retention stays so, and no open batch is: nothing
\* that could still be decided is swept (retention.go:24-26).
RetentionIsFinal ==
  [][\A b \in Held : IsPastRetention(Retention, b, now) =>
       /\ held'[b.id] = b
       /\ IsPastRetention(Retention, b, now')]_vars
=============================================================================
