------------------------------ MODULE WorkPlan ------------------------------
(***************************************************************************)
(* The operator's queue of a scope: domain.BuildWorkPlan and the options   *)
(* application.WorkPlan adds to it.  Everything here is pure; Planning     *)
(* says what it is applied to.                                             *)
(*                                                                         *)
(* Identifiers are compared as texts when nothing else decides.  Here they *)
(* are positive numbers in the order of their texts, and 0, the empty      *)
(* text, comes before them.  Both lists a plan is built from are of its    *)
(* scope (store.go:39, store.go:91), so the errors for foreign data        *)
(* (workplan.go:136, 144) do not arise.                                    *)
(***************************************************************************)
EXTENDS Reports

CONSTANTS
  RenewWindow,        \* evidence is to be renewed in its last 30 days
  StartWithin,        \* a review is to be started within 24 hours,
  DecideWithin,       \* decided within 48 hours,
  InvestigateWithin   \* and a rejection looked into within 7 days

ASSUME WorkPlanAssumption ==
  /\ BatchId \cup EvidenceId \subseteq Nat \ {0}
  /\ {RenewWindow, StartWithin, DecideWithin, InvestigateWithin} \subseteq Nat

\* WorkPriorityNormal, -High and -Urgent; nothing has the lowest.
Priority == 1 .. 4
Normal == 2
High == 3
Urgent == 4

WorkAction(kind, priority, item, batch, dueAt) ==
  [kind |-> kind, priority |-> priority, evidence |-> item, batch |-> batch,
   dueAt |-> dueAt]
---------------------------------------------------------------------------
\* Variant: evidence is to be renewed only until the instant before it expires.
ExpiringEarly(item, now) ==
  /\ item.expiresAt # Never
  /\ item.expiresAt > now + 1 /\ item.expiresAt - now <= RenewWindow

Expiring(item, now) ==
  /\ item.expiresAt # Never
  /\ item.expiresAt > now /\ item.expiresAt - now <= RenewWindow

\* evidenceActions, of all the items.
EvidenceActions(items, now) ==
  {WorkAction("replace_expired_evidence", Urgent, item.id, 0, item.expiresAt) :
     item \in {i \in items : IsExpired(i, now)}}
  \cup
  {WorkAction("renew_expiring_evidence", High, item.id, 0, item.expiresAt) :
     item \in {i \in items : Expiring(i, now)}}

\* The work a batch in a state asks for.
WorkFor ==
  [submitted    |-> [kind |-> "start_review", priority |-> High,
                     within |-> StartWithin],
   under_review |-> [kind |-> "complete_review", priority |-> High,
                     within |-> DecideWithin],
   rejected     |-> [kind |-> "investigate_rejection", priority |-> Normal,
                     within |-> InvestigateWithin]]

\* What is overdue is due now.
DueFrom(updatedAt, now, target) == Max({updatedAt + target, now})

\* batchActions, of all the batches.
BatchActions(bs, now) ==
  {LET work == WorkFor[b.state]
   IN WorkAction(work.kind, work.priority, 0, b.id,
                 DueFrom(b.updatedAt, now, work.within)) :
     b \in {x \in bs : x.state \in DOMAIN WorkFor}}

\* Variant: priorities in ascending order.
ComesBeforeAscending(a, c) ==
  LET key(x) == <<x.priority, x.dueAt, x.batch, x.evidence>>
  IN \E i \in 1 .. 4 : /\ key(a)[i] < key(c)[i]
                       /\ \A k \in 1 .. i - 1 : key(a)[k] = key(c)[k]

\* Variant: nothing but priority and due time decides.
ComesBeforeByDue(a, c) ==
  \/ a.priority > c.priority
  \/ a.priority = c.priority /\ a.dueAt < c.dueAt

\* The order of sortWorkActions.
ComesBefore(a, c) ==
  LET key(x) == <<0 - x.priority, x.dueAt, x.batch, x.evidence>>
  IN \E i \in 1 .. 4 : /\ key(a)[i] < key(c)[i]
                       /\ \A k \in 1 .. i - 1 : key(a)[k] = key(c)[k]

SortWorkActions(actions) ==
  InOrder(actions, {p \in actions \X actions : ComesBefore(p[1], p[2])})

BuildWorkPlan(items, bs, now) ==
  [actions |-> SortWorkActions(EvidenceActions(items, now) \cup BatchActions(bs, now)),
   evidence |-> [total |-> Cardinality(items),
                 expired |-> Cardinality({i \in items : IsExpired(i, now)}),
                 expiring |-> Cardinality({i \in items : Expiring(i, now)}),
                 withoutTTL |-> Cardinality({i \in items : i.expiresAt = Never})],
   batches |-> [submitted |-> InState(bs, "submitted"),
                underReview |-> InState(bs, "under_review"),
                rejected |-> InState(bs, "rejected"),
                completed |-> InState(bs, "approved") + InState(bs, "cancelled")]]
---------------------------------------------------------------------------
HasUrgentAction(plan) ==
  plan.actions # <<>> /\ plan.actions[1].priority = Urgent

ActionsForBatch(plan, id) == SelectSeq(plan.actions, LAMBDA a : a.batch = id)

CountByPriority(plan) ==
  [p \in Priority |->
     Cardinality({k \in DOMAIN plan.actions : plan.actions[k].priority = p})]

\* Variant: every closed batch is left out.
ActionableBatchesOpen(bs) == {b \in bs : ~IsTerminal(b)}

\* A rejected batch is closed and still asks for work.
ActionableBatches(bs) == {b \in bs : b.state \notin {"approved", "cancelled"}}

\* WorkPlan and its options; a limit of 0 is none.
PlanFor(items, bs, now, includeClosed, limit) ==
  LET plan == BuildWorkPlan(items,
                IF includeClosed THEN bs ELSE ActionableBatches(bs), now)
  IN IF limit > 0 /\ Len(plan.actions) > limit
     THEN [plan EXCEPT !.actions = SubSeq(@, 1, limit)] ELSE plan

\* NextWorkAction: the first action of a plan of one, or none.
NextWorkAction(items, bs, now) == PlanFor(items, bs, now, FALSE, 1).actions
=============================================================================
