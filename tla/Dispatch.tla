------------------------------ MODULE Dispatch ------------------------------
(***************************************************************************)
(* Delivery of decision notices: worker.Dispatcher.Run, which calls        *)
(* EvidenceService.DispatchPending in a loop until its context is          *)
(* cancelled at shutdown.  main starts one dispatcher.                     *)
(*                                                                         *)
(* dpc names the call the dispatcher is about to make:                     *)
(*   list     PendingNotifications      check   the context, for each item *)
(*   deliver  Notifier.Deliver          save    SaveNotification           *)
(*   select   the select of Run         stopped Run has returned           *)
(* The items of a round are copies; the service queues new notices between *)
(* any two steps, and the shutdown signal comes between any two.           *)
(*                                                                         *)
(* The notifier is an interface.  It either delivers or returns an error;  *)
(* failing is the set of recipients it returns one for (MemoryNotifier:    *)
(* none or all, set by SetFailure).                                        *)
(***************************************************************************)
EXTENDS Repository

CONSTANTS
  OfferedEvents, \* the events decisions queue notices of
  Limit,        \* the most notices of one round (20 in Run)
  MaxTime,      \* the last instant a notice is dated at
  AttemptCap    \* Attempts is counted up to here

ASSUME DispatchAssumption ==
  /\ OfferedEvents \subseteq NoticeEvent
  /\ Limit \in Nat
  /\ MaxTime \in Nat
  /\ AttemptCap \in Nat \ {0}

VARIABLES
  notices,      \* Store.notifications
  dpc,          \* the call the dispatcher is about to make
  round,        \* the items of the round not saved yet, as listed: <<i, copy>>
  deliveries,   \* MemoryNotifier.deliveries, as indexes of notices
  failing,      \* the recipients the notifier fails for
  stopping      \* the dispatcher's context is cancelled

vars == <<notices, dpc, round, deliveries, failing, stopping>>

Init ==
  /\ notices = <<>>
  /\ dpc = "list"
  /\ round = <<>>
  /\ deliveries = <<>>
  /\ failing = {}
  /\ stopping = FALSE
---------------------------------------------------------------------------
CountUp(n) == IF n < AttemptCap THEN n + 1 ELSE n

\* Variant: a delivered notice keeps its state.
MarkDeliveredNot(n) == [n EXCEPT !.attempts = CountUp(@)]

MarkDelivered(n) == [n EXCEPT !.state = "delivered", !.attempts = CountUp(@)]
MarkFailed(n) == [n EXCEPT !.state = "failed", !.attempts = CountUp(@)]

\* A decision queues a notice (queueNotification): one for each batch.  It bears
\* the instant its handler read, which need not be later than those of the notices
\* queued before.
Queue(batch, recipient, event) ==
  /\ \A i \in DOMAIN notices : notices[i].batch # batch
  /\ \E t \in 0 .. MaxTime :
       notices' = QueueNotice(notices,
         [batch |-> batch, recipient |-> recipient, event |-> event,
          state |-> "pending", attempts |-> 0, createdAt |-> t])
  /\ UNCHANGED <<dpc, round, deliveries, failing, stopping>>

\* Variant: the rest of the round is kept.
EndRoundLeaving ==
  /\ dpc' = "select"
  /\ UNCHANGED round

\* DispatchPending ends; Run goes on to its select.
EndRound ==
  /\ dpc' = "select"
  /\ round' = <<>>

List ==
  /\ dpc = "list"
  /\ IF stopping
     THEN EndRound
     ELSE \E ids \in PendingNotifications(notices, Limit) :
            /\ dpc' = IF ids = <<>> THEN "select" ELSE "check"
            /\ round' = [k \in DOMAIN ids |-> <<ids[k], notices[ids[k]]>>]
  /\ UNCHANGED <<notices, deliveries, failing, stopping>>

Check ==
  /\ dpc = "check"
  /\ IF stopping THEN EndRound ELSE dpc' = "deliver" /\ UNCHANGED round
  /\ UNCHANGED <<notices, deliveries, failing, stopping>>

\* A context cancelled since the check makes Deliver fail like any error.
Deliver ==
  /\ dpc = "deliver"
  /\ LET i == Head(round)[1]
         item == Head(round)[2]
     IN IF stopping \/ item.recipient \in failing
        THEN /\ round' = [round EXCEPT ![1] = <<i, MarkFailed(item)>>]
             /\ UNCHANGED deliveries
        ELSE /\ round' = [round EXCEPT ![1] = <<i, MarkDelivered(item)>>]
             /\ deliveries' = Append(deliveries, i)
  /\ dpc' = "save"
  /\ UNCHANGED <<notices, failing, stopping>>

\* Variant: the outcome is saved under the dispatcher's own context.
SaveIfRunning ==
  /\ dpc = "save"
  /\ IF stopping
     THEN UNCHANGED notices /\ EndRound
     ELSE /\ notices' = SaveNotice(notices, Head(round)[1], Head(round)[2])
          /\ round' = Tail(round)
          /\ dpc' = IF Tail(round) = <<>> THEN "select" ELSE "check"
  /\ UNCHANGED <<deliveries, failing, stopping>>

\* The outcome is saved under a context that cannot be cancelled.
Save ==
  /\ dpc = "save"
  /\ notices' = SaveNotice(notices, Head(round)[1], Head(round)[2])
  /\ round' = Tail(round)
  /\ dpc' = IF Tail(round) = <<>> THEN "select" ELSE "check"
  /\ UNCHANGED <<deliveries, failing, stopping>>

\* The two cases of the select in Run.
Wake ==
  /\ dpc = "select"
  /\ dpc' = "list"
  /\ UNCHANGED <<notices, round, deliveries, failing, stopping>>

\* Variant: the loop does not look at its context.
ReturnNever == FALSE

Return ==
  /\ dpc = "select" /\ stopping
  /\ dpc' = "stopped"
  /\ UNCHANGED <<notices, round, deliveries, failing, stopping>>

\* SIGINT or SIGTERM.
StopSignal ==
  /\ ~stopping
  /\ stopping' = TRUE
  /\ UNCHANGED <<notices, dpc, round, deliveries, failing>>

\* The notifier begins to fail, or works again.
SetFailure(recipients) ==
  /\ failing # recipients
  /\ failing' = recipients
  /\ UNCHANGED <<notices, dpc, round, deliveries, stopping>>
---------------------------------------------------------------------------
Dispatcher == List \/ Check \/ Deliver \/ Save \/ Wake \/ Return

Environment ==
  \/ \E batch \in BatchId, recipient \in Recipient, event \in OfferedEvents :
       Queue(batch, recipient, event)
  \/ \E recipients \in SUBSET Recipient : SetFailure(recipients)
  \/ StopSignal

Next == Dispatcher \/ Environment

Spec == Init /\ [][Next]_vars

\* The dispatcher's goroutine is scheduled and the ticker ticks.  When the
\* ticker and the cancelled context are both ready, select picks one of them
\* at random: it does not pick the ticker for ever.
Fairness ==
  /\ WF_vars(List) /\ WF_vars(Check) /\ WF_vars(Deliver) /\ WF_vars(Save)
  /\ WF_vars(Wake)
  /\ SF_vars(Return)

FairSpec == Spec /\ Fairness
---------------------------------------------------------------------------
(***************************************************************************)
(* Properties.                                                             *)
(***************************************************************************)

\* Every variable has a value of its kind; a round is a list of copies of
\* known notices, empty outside of a round.
TypeOK ==
  /\ notices \in Seq(Notification)
  /\ dpc \in {"list", "check", "deliver", "save", "select", "stopped"}
  /\ round \in Seq((DOMAIN notices) \X Notification)
  /\ round = <<>> <=> dpc \in {"list", "select", "stopped"}
  /\ deliveries \in Seq(DOMAIN notices)
  /\ failing \subseteq Recipient
  /\ stopping \in BOOLEAN

IsDelivered(i) == \E k \in DOMAIN deliveries : deliveries[k] = i

\* No recipient gets a notice twice, though every round lists the failed
\* notices again and works on copies.
NoDuplicateDelivery ==
  \A j, k \in DOMAIN deliveries : deliveries[j] = deliveries[k] => j = k

\* The outcome of a delivery is preserved even when the dispatcher is
\* cancelled meanwhile (notifications.go:34-35): a notice is marked delivered
\* exactly when it was, except in the moment before the outcome is saved.
OutcomeIsPreserved ==
  \A i \in DOMAIN notices :
    IF dpc = "save" /\ Head(round)[1] = i
    THEN Head(round)[2].state = "delivered" <=> IsDelivered(i)
    ELSE notices[i].state = "delivered" <=> IsDelivered(i)

\* The copies of a round are never stale: what the dispatcher saves differs
\* from the stored notice by the one attempt it has just made.
CopiesAreCurrent ==
  \A k \in DOMAIN round :
    LET stored == notices[round[k][1]]
        item == round[k][2]
    IN IF dpc = "save" /\ k = 1
       THEN item \in {MarkDelivered(stored), MarkFailed(stored)}
       ELSE item = stored

\* Undelivered notices to recipients the notifier fails for.
Blocking == {i \in Undelivered(notices) : notices[i].recipient \in failing}

\* A notice to a recipient the notifier does not fail for is delivered in the
\* end, unless the service is shut down - provided the notices that cannot be
\* delivered never fill a round: Limit older ones would be listed again and
\* again, as nothing gives a failed notice up (store.go:133-138).
EventuallyDelivered ==
  \A unreachable \in SUBSET Recipient :
    /\ <>[](failing = unreachable)
    /\ <>[](Limit > 0 => Cardinality(Blocking) < Limit)
    /\ []~stopping
    => \A i \in 1 .. Cardinality(BatchId) :
         (i \in DOMAIN notices /\ notices[i].recipient \notin unreachable)
           ~> (i \in DOMAIN notices /\ notices[i].state = "delivered")

\* After the shutdown signal the dispatcher stops.
EventuallyStops == stopping ~> dpc = "stopped"
=============================================================================
