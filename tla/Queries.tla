------------------------------ MODULE Queries ------------------------------
(***************************************************************************)
(* The requests that only read, next to those of ReviewService.  A query   *)
(* makes several store calls, each atomic, none under a common lock, and   *)
(* the store changes in between: what it returns is put together from      *)
(* several states of the store.                                            *)
(*                                                                         *)
(* One reader is enough, because readers do not affect one another.        *)
(* reading names its next store call, or the answer it has put together:   *)
(*   resolve, receipts, trail   the later calls of BatchDetail             *)
(*   detail                     BatchDetail has returned                   *)
(*   batches                    the second call of ScopeSummary, of Report *)
(*                              and of WorkPlan                            *)
(*   scope                      they have returned, and Dashboard lists    *)
(*                              the batches once more                      *)
(*   dashboard                  Dashboard has returned                     *)
(*   missing                    evidence of a batch that was found was not *)
(*   timeline                   Timeline has arranged a detail             *)
(***************************************************************************)
EXTENDS Overview

VARIABLES
  reading,  \* the reader's next store call, or its answer
  view      \* what it has read

readVars == <<vars, reading, view>>

NoView == [query |-> "none"]

Begin ==
  /\ Init
  /\ reading = "idle"
  /\ view = NoView
---------------------------------------------------------------------------
\* What has been read, with more.
With(v, more) ==
  [field \in DOMAIN v \cup DOMAIN more |->
     IF field \in DOMAIN v THEN v[field] ELSE more[field]]

Advance(next, v) == reading' = next /\ view' = v /\ UNCHANGED vars

\* BatchDetail begins with FindBatch; a batch that is not there ends it.
BatchDetail(id) ==
  /\ reading = "idle"
  /\ batches[id] # NoBatch
  /\ Advance("resolve", [query |-> "detail", batch |-> batches[id]])

ResolveEvidence ==
  /\ reading = "resolve"
  /\ Advance(IF AllFound(view.batch) THEN "receipts" ELSE "missing",
             With(view, [evidence |-> EvidenceOf(view.batch)]))

ListReceipts ==
  /\ reading = "receipts"
  /\ Advance("trail", With(view, [receipts |-> receipts[view.batch.id]]))

ListAudit ==
  /\ reading = "trail"
  /\ Advance("detail", With(view, [audit |-> audits[Key(view.batch.scope)]]))

\* Timeline is BatchDetail, arranged.
Timeline ==
  /\ reading = "detail"
  /\ Advance("timeline",
       With(view, [timeline |-> BuildTimeline(view.batch, view.receipts, view.audit)]))

\* ScopeSummary, Report, WorkPlan and Dashboard begin with ListEvidence.  (known
\* is no part of what they read: it tells the properties when they began.)
ReadScope(scope) ==
  /\ reading = "idle"
  /\ Advance("batches", [query |-> "scope", scope |-> scope,
                         items |-> ListEvidence(scope),
                         known |-> ListBatches(scope)])

ReadBatches ==
  /\ reading = "batches"
  /\ Advance("scope", With(view, [batches |-> ListBatches(view.scope)]))

\* Variant: the counts are of the batches known when the query began.
DashboardStale ==
  /\ reading = "scope"
  /\ Advance("dashboard",
       [query |-> "dashboard",
        summary |-> SummarizeScope(view.items, view.batches),
        counts |-> [state \in BatchState |-> InState(view.known, state)],
        recent |-> ListBatches(view.scope)])

\* Dashboard goes on to list the batches again, for the counts and the recent
\* ones, which are all of them up to ten.
Dashboard ==
  /\ reading = "scope"
  /\ Advance("dashboard",
       [query |-> "dashboard",
        summary |-> SummarizeScope(view.items, view.batches),
        counts |-> CountByState(view.scope),
        recent |-> ListBatches(view.scope)])

\* The answer is sent; BatchDetail and the like keep nothing.
Answered ==
  /\ reading \in {"detail", "timeline", "scope", "dashboard", "missing"}
  /\ Advance("idle", NoView)

Read ==
  \/ \E id \in BatchId : BatchDetail(id)
  \/ \E scope \in Scope : ReadScope(scope)
  \/ ResolveEvidence \/ ListReceipts \/ ListAudit \/ Timeline
  \/ ReadBatches \/ Dashboard \/ Answered

\* What has been put together depends on nothing that comes after it, so no step
\* is taken between that and the answer.
Write ==
  /\ reading \notin {"detail", "timeline", "dashboard", "missing"}
  /\ Next /\ UNCHANGED <<reading, view>>

QuerySpec == Begin /\ [][Read \/ Write]_readVars
---------------------------------------------------------------------------
(***************************************************************************)
(* Properties.                                                             *)
(***************************************************************************)

Outcome == {"approved", "rejected", "cancelled"}

\* The states the three parts of a detail tell of its batch.
ToldByBatch == {view.batch.state}
ToldByReceipts == {StateOf(view.receipts[k].kind) : k \in DOMAIN view.receipts}
ToldByTrail ==
  {state \in DOMAIN ReceiptFor :
     \E k \in DOMAIN view.audit :
       /\ view.audit[k].batch = view.batch.id
       /\ view.audit[k].action = AuditActionFor[state]}

\* The parts of a detail, read one after another (query.go:16-33), may be of
\* different ages and still never contradict one another: together they tell
\* of the submission and of one outcome at most, and a batch shown with its
\* outcome comes with nothing from beyond it.
DetailTellsOneStory ==
  reading = "detail" =>
    LET told == ToldByBatch \cup ToldByReceipts \cup ToldByTrail
    IN /\ "submitted" \in ToldByReceipts
       /\ Cardinality(told \cap Outcome) <= 1
       /\ IsTerminal(view.batch) => told \subseteq History(view.batch)

\* A timeline begins with the creation of its batch, and tells of a receipt
\* before it tells of the audit event about the same state, although only
\* their instants, which may be equal, and a stable sort put them in order
\* (timeline.go:15-28); what it tells since an instant is its end.
TimelineIsInOrder ==
  reading = "timeline" =>
    LET entries == view.timeline
        tells(k, from, kind) == entries[k].from = from /\ entries[k].kind = kind
    IN /\ entries[1].kind = "batch_created"
       /\ \A i, k \in DOMAIN entries, state \in DOMAIN ReceiptFor :
            /\ tells(i, "audit", AuditActionFor[state])
            /\ tells(k, "receipt", ReceiptFor[state])
            => k < i
       /\ \A t \in 0 .. now : IsSuffix(TimelineSince(entries, t), entries)

\* The counts of a dashboard are read after its summary (dashboard.go:17-25)
\* and may be ahead of it, never behind: no outcome the summary counts is
\* missing from the counts, and the recent batches reach at least as far as
\* the last activity.
DashboardNeverGoesBack ==
  reading = "dashboard" =>
    LET s == view.summary
    IN /\ s.approved <= view.counts["approved"]
       /\ s.rejected <= view.counts["rejected"]
       /\ s.cancelled <= view.counts["cancelled"]
       /\ s.lastActivityAt >= 0 =>
            \E b \in view.recent : b.updatedAt >= s.lastActivityAt

\* Evidence is listed before the batches (report.go:10-14): a report or a plan
\* lacks evidence of a batch it lists only if the batch was created after the
\* query began.
ReportLagsOnNewBatchesOnly ==
  reading = "scope" =>
    \A b \in view.batches :
      \/ \A id \in b.evidence : \E item \in view.items : item.id = id
      \/ \A old \in view.known : old.id # b.id
=============================================================================
