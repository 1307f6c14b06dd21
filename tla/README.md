# Verification of the compliance evidence orchestrator

The service keeps evidence about materials, groups it into review batches, and leads each batch through
submission, review and decision, leaving receipts, audit events and notices behind. The modules here model
that workflow and the delivery of notices from the Go source, check them with TLC on small instances, and
prove the central facts with TLAPS for every value of the constants.

## Inventory of the system

| Component | State | Operations | Interactions |
|---|---|---|---|
| Review domain (`domain/batch, evidence, policy, scope, receipt, notification, event`) | none: values | `CanTransition`, `Transition`, `NewBatch`, `Policy.Validate`, `Scope.Key`, `MarkDelivered`, `MarkFailed` | called by the workflow and the dispatcher |
| Store (`repository/store, commit, transaction, search, metrics`) | five maps and one mutex | find, list, `SaveBatch` with a revision check, `CommitSubmission`, append, `PendingNotifications`, `DeleteBatch`, `Snapshot`, `Restore` | every method is atomic; nothing spans two calls |
| Review workflow (`application/batch, evidence, validation, audit, ids`) | none of its own | `RegisterEvidence`, `CreateBatch`, `StartReview`, `DecideBatch`, `CancelBatch` | one goroutine per HTTP request, several store calls each, one context |
| Notification dispatch (`application/notifications, notifier`, `worker/dispatcher`) | the items of a round | `Run`, `DispatchPending`, `Deliver` | shares the store with the workflow; stopped by a signal |
| Queries (`application/query, dashboard, report, timeline, summary, operations`, `repository/metrics, search`) | none | several reads each | read between the steps of the workflow |
| Work plan, report, risk, summary, timeline (`domain/...`) | none | pure functions of lists | fed by the queries |
| Checklist, attachment, review note, retention, backoff, reaper, health | records | pure functions, two small loops | not reached from `cmd/server` |
| Transport (`transport/...`) | none | decode, call, map the error to a status | one worker of the workflow per request |
| Lifecycle (`cmd/server`) | one context | start, signal, `Shutdown` with five seconds | stops dispatcher and server |

Hard behaviours:

- Requests interleave between their store calls. The protection is optimistic: `SaveBatch` refuses a
  revision that is not newer than the stored one, and looks at nothing else.
- A request is several store calls and each fails once the request's context is cancelled, so a client that
  leaves can stop a request half done. The error of `appendAudit` is dropped; the others are returned.
- The clock is read several times in a request, between the store calls.
- The dispatcher saves copies it listed earlier, while new notices are queued; failed notices stay in the
  queue for ever, and rounds are limited.
- At shutdown the dispatcher stops at once and requests go on.
- Everything is in memory: a crash loses all of it, and a restart is `Init`. There is no recovery to model.

What makes each part correct: a stored batch only takes transitions the domain admits, from the version
that is replaced; receipts tell exactly the states reached; audit events and notices follow their
receipts; an answered request is recorded; a batch has evidence of its own scope that satisfies the policy;
a notice is delivered at most once, its outcome is not lost, and it is delivered in the end.

## Modules

| Module | Models | How it corresponds to the code |
|---|---|---|
| `ReviewDomain` | `internal/domain`: batches, evidence, policy, scopes, receipts, notices | Records and operators. Names are sequences of characters, because `Scope.Key` joins two of them with a colon. |
| `Repository` | `repository.Store` | One operator on the contents per method. A map is a function, the evidence map the set of its values, the notifications a sequence in the order of their identifiers. |
| `ReviewService` | the five requests that change the store | A worker is a goroutine; its `pc` is the store call it is about to make or the answer it is about to give; `task`, `seen` and `since` are the request, the handler's copy of the batch and the instant of its previous call; `gone` is the cancelled context. One action per store call. `HasCommitter` tells which of the two paths of `CreateBatch` the store offers. |
| `ReviewLedger` | what the service promises | Batches with a state, the states they reached and the receipts published; no handlers, copies or revisions. `ReviewService` implements it (`ImplementsLedger`). |
| `Dispatch` | `Dispatcher.Run`, `DispatchPending`, the notifier | `dpc` is the next call; `round` the copies still to be delivered. Queueing of notices, failures of the notifier and the signal are the environment. |
| `Lifecycle` | the process of `cmd/server` | `ReviewService` and `Dispatch` (by `INSTANCE`) over one store; `phase` is how far `main` has come: serving, signalled, draining, and its ends. The environment of `Dispatch` is replaced by the real handlers, and `ImplementsDelivery` shows they are an instance of it. |
| `Reports` | `domain/risk, report, summary, timeline, retention` | Pure operators on sets and lists of batches and evidence. |
| `Overview` | the store's lists, `RiskForBatch`, `ReviewQueue`, `repository/metrics` | What one look at the store shows; no variables of its own. |
| `Queries` | `application/query, dashboard, report, timeline, summary` | A reader next to the workers of `ReviewService`; `reading` is its next store call or the answer it holds, `view` what it has put together. `Timeline` arranges a detail once it is complete. |
| `Administration` | `repository/transaction`, `DeleteBatch` | `Snapshot`, `Restore` and `DeleteBatch` at any moment of the requests. `calm`, `used` and `versions` are history, read by properties and by the choice of fresh identifiers only. |
| `WorkPlan` | `domain/workplan`, `application/workplan` | Pure operators: actions, due times, order, counts, options. |
| `Planning` | one scope as it ages | One step per change of the store that plans and reports can tell; the state space `WorkPlan` and `Reports` are evaluated over. |
| `Checklist` | `domain/checklist` | Items and `Mark`. |
| `Backoff` | `worker/backoff` | `Delay` as the loop it is, on a signed integer of fixed width. |
| `MC...` | | Values for the constants. `MCUnwired` puts `Checklist` and `Backoff` side by side, one of them moving at a time. |
| `ReviewServiceProofs` | | Theorems about types, versions, workers and evidence of `ReviewService`. |
| `ReviewRecordsProofs` | | Receipts, audit events, notices, conflicts and dates; the refinement of `ReviewLedger`. |
| `DispatchProofs`, `LifecycleProofs` | | The dispatcher alone, and the process with the refinement of `Dispatch`. |
| `AdministrationProofs`, `QueriesProofs` | | Snapshots and deletions; readers, timelines, queue and metrics. |
| `PlanningProofs`, `UnwiredProofs` | | Plans, reports, retention; delays and checklists. |

    ReviewDomain <- Repository <- ReviewService <- Overview (with Reports) <- Queries
                         ^              ^ ^----- Administration
                         |              +------- Lifecycle (an INSTANCE of Dispatch)
                         +------- Dispatch
    ReviewDomain <- Reports <- WorkPlan <- Planning

    ReviewServiceProofs <- ReviewRecordsProofs <- LifecycleProofs, AdministrationProofs, QueriesProofs

An operator marked *Variant* is a defect somebody could plausibly introduce in the operator that follows it. No
specification uses one; the variants of `PROJECT.json` show that each property notices at least one of them.

### Points where steps are merged

Each store call is a step. What is merged with it, and why no behaviour is lost:

- `resolveEvidence` reads the items of a batch one by one. Evidence is only ever added under new
  identifiers, so the reads amount to one read at the last of them, except that an item registered in
  between may be found missing; requests name evidence their client already knows of.
- `CreateBatch` reads the clock before it prepares the batch; the transition of a copy in `StartReview`,
  `DecideBatch` and `CancelBatch` happens in the step that saves it, at any instant since the previous call.
- `RegisterEvidence` reads the clock before its only call so far, at any instant: an idle worker's `since` is 0,
  because a request may have arrived at any time before the step that begins it.
- `Planning` makes one step of a request and dates what it stores in that step. A batch stored later than it is
  dated looks the same as one stored at its date and found later; evidence has no date of its own there.
- A request whose context is cancelled before its first call stores nothing; it is not told apart from one
  that never came.
- `RiskForBatch` and `ReviewQueue` read a batch and then its evidence. The evidence is stored before the batch that
  names it and never changes, so reading the two one after the other is reading them together;
  `PolicyIsStable` checks the premise.
- Lists from the store come in the order of a Go map. They are sets where nothing depends on the order, and every
  order the following sort admits where something might (`ReportIsNotMilder`, `PlanOrderIsTotal`).
- The reader's answer is looked at before anything else moves; it is a value that no later step can change.
- A dashboard cuts its recent batches at ten. The instances have fewer, and the cut is not considered.
- `WorkPlan` compares identifiers as texts. They are numbers there, in the order of the texts.

### The clock

`now` never goes back, and a handler reads it without stepping back either: a reading lies between the call before and
`now`. That is an assumption on the machine, not a guarantee of the code. `time.Now().UTC()` drops the monotonic
reading Go takes along, so a wall clock that is set back shows in the records. Everything that speaks of dates rests on the
assumption: `ReceiptsAreDatedAfterTheirState`, the instants in `NoLostUpdate` and `StoredVersionsDescend`, `TimelineIsInOrder` and
`DashboardNeverGoesBack`, and the theorems `ReceiptsAreDated`, `EventsAreDated`, `UpdatesAreNotLost`, `VersionsDescend`,
`TimelinesStayInOrder` and `DashboardsNeverGoBack`. States, receipts, events and notices do not: no guard of the workflow compares two
readings of the clock.

## What the runs check

Bounds are in the configurations. One batch is where requests collide, because `SaveBatch`, receipts and
audit events of different batches touch different keys. Three workers are what it takes to have two decide
while a third moves between its calls; two suffice where the question is one request against another. The life of a batch
has at most three transitions after its creation.

| Run | Shows |
|---|---|
| `review_race` | Three requests at a time on one batch, evidence in any of four scopes, no client leaves: `TypeOK`; receipts tell states really reached, each once (`ReceiptsMatchHistory`); a missing receipt or audit event is owed by one request still at work (`MissingRecordsAreOwed`); a request that is told of a conflict has met one (`ConflictsAreReal`); a batch holds evidence of its own scope (`EvidenceIsOfTheScope`). |
| `review_disconnect` | Two requests whose clients may leave between any two calls: audit events follow receipts (`AuditFollowsReceipt`), notices tell standing decisions (`NoticesTellTheDecision`), an answered request is recorded (`AnsweredIsRecorded`), and the store moves as the ledger may (`ImplementsLedger`). With clients that stay, every state gets its receipt (`EveryStateIsReceipted`). |
| `evidence` | A store without `CommitSubmission`, items of two kinds that expire, lists with duplicates at and past what the policy admits, a moving clock: an accepted batch satisfies the policy ever after (`PolicyIsStable`); receipts tell states really reached, each once, although the first is no longer stored together with its batch (`ReceiptsTellHistory`), and are dated after the state they tell; only admitted transitions of the current version are stored, and never with an earlier time (`NoLostUpdate`); what awaits a reviewer is a risk only by expiry (`QueuedRiskIsExpiry`), and the metrics balance (`MetricsBalance`). |
| `queries` | A reader next to two requests and a moving clock: what it has put together from several reads is consistent as far as it can be. |
| `dispatch` | Three notices, two recipients, rounds of two, failures that come and go, and the signal at any time: no duplicate, no lost outcome, copies never stale; notices to reachable recipients are delivered as long as undeliverable ones do not fill a round; after the signal the dispatcher stops. |
| `lifecycle` | Two handlers, whose clients stay, and the dispatcher over one store until the end of `main`: the process is an instance of `Dispatch` (`ImplementsDelivery`); a shutdown that runs to its end leaves no record owed (`DrainedIsFiled`); an answered decision reaches its recipient unless the process is stopped. |
| `administration` | Up to two operations on the whole store at any moment of two requests: stored versions descend from versions that were stored; administered between requests only, the store keeps its receipts and evidence. |
| `planning` | Two batches and two items through every window and past it: the order of a plan is total, urgency shows first, the three counts of batches agree, the report is as severe as its worst batch, no work is dropped between two windows, and retention is final. |
| `unwired` | Every base and ceiling of five bits and more attempts than bits: no delay passes the ceiling, and with sane values it lies between base and ceiling and grows; a complete checklist is valid exactly when every item is waived or rests on evidence, also when callers mark items with a string that is no state. |

Three runs show disagreements between the code and what the repository says of it:

- `review_receipts`: README.md promises a traceable record through receipts. A client that leaves between
  `SaveBatch` and `AppendReceipt` leaves a state that has no receipt; a retry is refused, because the batch has left
  the state the retry starts from.
- `review_stale`: evidence is judged at the instant of its registration (`policy.go:23`). The check that a
  batch "no longer satisfies review policy" therefore never fails for evidence that has expired since.
- `review_colon`: a name that holds a colon makes two scopes share their key, and evidence of one is found
  for the other. `review_race` checks the same property with plain names.

Three more are visible in the source and need no run. `appendAudit` drops its error (`audit.go:13`): a client that leaves
between `AppendReceipt` and `AppendAudit` leaves a receipt the trail never tells of, and the request goes on;
`AnsweredIsRecorded` allows for it, and `CompleteWhileClientsStay` proves that it takes a client that leaves. `handler.go:158` maps `ErrInvalidState` to 409, but `Transition` makes its
error on the spot (`batch.go:67-69`), so a request the state does not admit is answered 500; `Status` models it.
`Mark` stores any string as a state, which only `Validate` refuses afterwards (`CompleteIsSettled` says it does). And two hold
by what callers have to observe: a request that read a batch before `DeleteBatch` saves it back without its earlier
receipts, and one that read it before `Restore` saves over the restored version. No property excludes the two, because the code does
both; `StoredVersionsDescend` holds with them, and `CalmStoreIsWhole` for callers that keep the rule.

Some properties hold under a condition that leaves part of a hazard out. `MissingRecordsAreOwed`, `MetricsBalance`, `DrainedIsFiled` and
`EveryStateIsReceipted` are about clients that stay; what leaving clients do is in `review_receipts` and
`review_disconnect`. `PolicyIsStable` takes the judgement at registration as it is; `review_stale` is about the judgement itself.
The lower bound of a delay and its growth are about sane values (`Sane`): with others a doubling overflows and the delay
becomes small or negative.

### Bounds

| Bound | Stands for |
|---|---|
| `Worker`, `BatchId`, `EvidenceId`, `Recipient` | Requests at a time and identifiers `IDGenerator` gives out. A worker serves one request after another. |
| `MaxTime` | Bounds the clock. 0 where nothing depends on time (notices of one instant are listed in any order, which is every order there could be), 1 where before and after matter, 3 in `planning`, where evidence and batches pass through every window and out of it. |
| `AttemptCap` | Bounds the counter of attempts, which nothing reads. |
| `Limit` | The notices of a round; less than the notices there are, so that a round is cut. |
| `MaxAdministrations` | How often the store is administered. Two are a snapshot and its restoration, or two deletions. |
| `RenewWindow`, `StartWithin`, `DecideWithin`, `InvestigateWithin`, `Retention` | Durations of the code in units of the clock, in the same order as there. |
| `MaxDuration`, `MaxAttempt` | The width of a `time.Duration`; more attempts than it has bits. |

Revisions are not bounded: a batch has at most three after its creation. `planning`, `lifecycle` and `unwired` do not check
deadlock: the first and the last end with the clock and the attempts, the other with the process.

### Fairness

`ReviewService`: weak fairness of each worker's `Serve`, the steps of a request that has arrived. A handler never
blocks in one (the mutex is held only inside a store call), so a goroutine that can run is enabled until it
runs, which is what the Go scheduler provides. Clients and the clock have none.

`Dispatch`: weak fairness of each of the dispatcher's calls and of the tick that wakes it, and strong
fairness of `Return`. When ticker and cancelled context are both ready, `select` chooses at random, so `Return` is enabled
again and again but not continuously; it is not passed over for ever.

`Lifecycle`: weak fairness of each worker's `Handle` and of the dispatcher as a whole. Nothing is assumed of clients, of the
notifier or of `main`: `DecisionsReachTheirRecipient` speaks of behaviours in which no signal comes.

`EventuallyDelivered` also assumes that the set of unreachable recipients settles, that fewer than a
round's worth of undelivered notices wait for them, and that there is no shutdown. The second assumption is needed by the
code: nothing gives a failed notice up, and the oldest come first, so a full round of undeliverable ones
keeps all younger ones waiting.

## What is proved

Every theorem listed in `PROJECT.json` holds for any values of the constants that satisfy the named assumptions of
the modules: any number of workers, batches, items, names and recipients, any policy, any last instant. Where a theorem assumes
more, its `ASSUME` says so:

| Assumed | By | Why |
|---|---|---|
| `HasCommitter` | `CommittedReceiptsMatch`, `LedgerIsImplemented`, `CalmStoresAreWhole`, `DetailsTellOneStory` | The store of `cmd/server` is one. Without it a batch is visible before its first receipt. |
| `~MayDisconnect` | `MissingIsOwed`, `CompleteWhileClientsStay`, `DrainedMeansFiled`, `MetricsStayBalanced` | A client that leaves does lose records (`review_receipts`). |
| no name holds a colon | `EvidenceStaysInScope`, `ReportsLagOnNewBatchesOnly` | A colon does mix scopes (`review_colon`). |
| a policy that asks for a certificate and has a limit | `QueuedRisksAreExpiries` | `DefaultReviewPolicy` does; a policy without the one or the other queues batches without it. |

### The argument

*The service.* `TypeOK` is not inductive: `CommitSubmission` stores whatever its worker holds. `TypeInv` adds what a
worker holds at each call (`Holds`). `Versions` adds that the copy about to be saved is the stored version or an older
revision of it, read before the worker's clock; then the revision check leaves only the stored version, and
`NoLostUpdate` follows. `WorkersOK` adds that identifiers are used once and that each state of a stored batch has at most
one worker that moved it there and has still to file it: a second one would have needed the state to lie ahead of the batch
after it lay behind it. `Base` is the three together. Over `Base`, a step of `ReviewService` is one of four kinds:
`Quiet`, `Stores`, `Files` or `Idles`; what follows argues by kind, not by action.

*Records.* `ReceiptsOK`, `AuditsOK` and `NoticesOK` each pair the property of a run with what the workers on their way owe: a
worker about to append a receipt is the one that moved the batch, and no receipt tells that state yet. So a record is
written once, is true, and stays so because `Reached` only grows. Answers, conflicts, dates and missing records follow from the same
facts.

*Evidence.* Identifiers are fresh, keys of different identifiers differ in any scope, so a registration replaces nothing; what satisfied the
policy goes on doing so.

*The ledger.* Under `HasCommitter` each kind of step is a step of `ReviewLedger` or a stutter: what moves a batch is its `Submit`
or `Move`, a receipt its `Publish`, and everything else is invisible.

*The process.* `Dispatch` has an invariant of its own (`DispatchOK`: a round lists a notice once and none that is marked delivered).
In `Lifecycle` the handlers only add a notice about a batch that has none, and the dispatcher changes no more of a notice than its state and
attempts; with `CopiesOK` (a copy says what the stored notice says) each side keeps the other's invariant, and every
step of the process is one of `Dispatch` or a stutter. `ProcessKeepsRecords` and `ProcessLosesNoUpdate`
say what that means for the requests, `ProcessDeliversOnce` for the dispatcher: `DispatchProofs` is instantiated
like `Dispatch` (`Alone`), the two instances take the same steps (`AloneSteps`), and so the invariants of a dispatcher alone hold of the
one in the process.

*Administration.* `versions` is all that was ever stored. `LineageOK`: what is stored, in a snapshot or about to be saved is among
them. `CalmOK`: with administration between requests only, snapshots are whole, and the invariants of the service survive being put back.

*Readers.* Every step of a reader leaves the service as it is (the lemma `ReadersChangeNothing`), so all theorems about `Spec` can be cited next to it. What it has read of
a batch is an ancestor of the stored one (`IsAncestor`): same scope and evidence, an older or equal instant, a shorter
history, and equal to it once closed. That carries details, dashboards and reports over the steps in between. The
metrics balance because a step that adds a receipt or an item has its worker append an event next.

*Timelines.* Dates come from clocks read between store calls, and the order of a timeline rests on them.
`EventDatesOK`: the event of a state is not dated before its receipt (`EventsFollowReceipts`), and a worker on its way from the receipt to
the event keeps an instant (`since`) not before the receipt; a state has one such worker, so nobody else can date its
event. With `DatesOK`, of which `ReceiptsAreDated` follows, this makes the records of a batch `InTime`. They are read one after another: what is
read of the batch keeps its date, what is read of the receipts stays in the log (`RecordsInTime`), so they are `InTime` together with a
trail that is read later. `InOrderSorts` shows that `InOrder` lists a finite set by a strict total order, every element
once; entries of equal instants go by place, receipts before events, and so the timeline `IsArranged`.

*Plans.* `ScopeOK`: items are unique, and a batch rests on a certificate that stays. Two actions of a scope differ in what they are about, so
`ComesBefore` is total on them; ranks then are the positions `1 .. n`, and the list by rank is the sorted set (`ActionsAreSorted`). The
counts are sums over the same disjoint states; the loop of a report ends at the first high risk or after the last
medium one, which is the maximum in any order.

*Delays.* `BackoffIsBounded`: below a ceiling that leaves room for one doubling, twice a duration is what the hardware
computes. `BackoffGrows` relates two calls: both go through one run of doublings, and the later one stops where the
earlier did or one doubling later. Its induction on the attempts uses the least element of a set of numbers
(`WFMin`), because the library's induction theorems take an operator.

### Only model-checked

- All that happens in the end: `EveryStateIsReceipted`, `EventuallyDelivered`, `EventuallyStops`,
  `DecisionsReachTheirRecipient`. Liveness under fairness is beyond the provers used here.

### What the proofs asked of the model

`InOrder` puts each element of a set after as many as come before it, in place of a library sort the provers know nothing of.
`SortWorkActions` uses it because the order of actions is total on a scope; `BuildTimeline` gives every entry its place in
the list to be sorted and orders by instant, then place, which is what a stable sort does. The reader's `Timeline` is a step with the
list in `view`, so that the invariant can speak of it. `Metrics` counts the places of the entries of a log (`Entries`), in place of a fold over
lengths. `NameAssumption` says that names are sequences of characters, and
`LifecycleAssumption` that a round has a limit and attempts a bound. The runs check the changed definitions.

## Not modelled

- Texts: references, suppliers, actors, reasons, messages and their validation; JSON, the HTML console, logging.
- The error of a store other than the context's: the in-memory store has no other.
- Searches and texts of queries: `SearchBatches`, `FindEvidenceByReference`, `DescribeBatch` filter or format one list.
- `ParseWorkPlanOptions` and the errors for data of another scope, which the store's lists cannot produce.
- Attachments, review notes and the health record, which are plain records; the reaper, which `main` does not start
  and which is the loop of the dispatcher around a function it is given.
- A crash: everything is in memory, and what a restart finds is `Init`.

## Plan

Components and runs are complete, and every invariant and action property the passing runs check is proved. What could
be added is either beyond the provers (the four liveness properties) or listed above as not modelled.
