----------------------------- MODULE Lifecycle -----------------------------
(***************************************************************************)
(* The process of cmd/server: the HTTP server whose requests ReviewService *)
(* models and the dispatcher of Dispatch, over one store, from the first   *)
(* request to the end of main.                                             *)
(*                                                                         *)
(* phase tells how far main has come:                                      *)
(*   serving    it waits for the signal                                    *)
(*   signalled  the signal has cancelled the dispatcher's context; the     *)
(*              server still takes requests until main calls Shutdown      *)
(*   draining   Shutdown: no new requests, those under way have five       *)
(*              seconds; nothing waits for the dispatcher                  *)
(*   drained    every request was answered and main has returned           *)
(*   cut        main has returned, or the process was ended, in the midst  *)
(*              of requests                                                *)
(* The store is in memory: with the process everything in it is gone, so   *)
(* the last two are the end of a behaviour.                                *)
(***************************************************************************)
EXTENDS ReviewService

CONSTANTS
  Limit,        \* the most notices of one round
  AttemptCap    \* Attempts is counted up to here

ASSUME LifecycleAssumption == Limit \in Nat /\ AttemptCap \in Nat \ {0}

VARIABLES
  phase,        \* how far main has come
  dpc,          \* the dispatcher's next call
  round,        \* the notices the dispatcher has listed and not saved yet
  deliveries,   \* what the notifier has delivered
  failing       \* the recipients the notifier fails for

dispatch == <<dpc, round, deliveries, failing>>
lifeVars == <<vars, phase, dispatch>>

\* The dispatcher of this process: its context is cancelled by the signal.
Delivery == INSTANCE Dispatch WITH
  stopping <- phase # "serving",
  OfferedEvents <- NoticeEvent

Boot ==
  /\ Init
  /\ phase = "serving"
  /\ dpc = "list"
  /\ round = <<>>
  /\ deliveries = <<>>
  /\ failing = {}
---------------------------------------------------------------------------
Running == phase \in {"serving", "signalled", "draining"}

\* The listeners are open until Shutdown closes them.
Accepting == phase \in {"serving", "signalled"}

Handle(w) == Running /\ Serve(w) /\ UNCHANGED <<phase, dispatch>>

\* What ReviewService does: requests come while the server takes them and are
\* handled, clients leave, time passes.
Requests ==
  /\ Running
  /\ \/ \E w \in Worker : (Accepting /\ Arrive(w)) \/ Serve(w) \/ Disconnect(w)
     \/ Tick
  /\ UNCHANGED <<phase, dispatch>>

Dispatching ==
  /\ Running
  /\ UNCHANGED <<phase, now, evidence, batches, receipts, audits, request>>
  /\ Delivery!Dispatcher

Notifying ==
  /\ Running
  /\ UNCHANGED <<phase, vars>>
  /\ \E recipients \in SUBSET Recipient : Delivery!SetFailure(recipients)

Turn(from, to) == phase = from /\ phase' = to /\ UNCHANGED <<vars, dispatch>>

\* SIGINT or SIGTERM; a second signal changes nothing.
Signal == Turn("serving", "signalled")

\* <-ctx.Done() returns and main calls Shutdown.
Shutdown == Turn("signalled", "draining")

Idle == \A w \in Worker : pc[w] = "idle"

\* Variant: main does not wait for the requests under way.
CloseAtOnce == Turn("draining", "drained")

\* Shutdown returns because no request is under way any more.
Drain == Idle /\ Turn("draining", "drained")

\* Its five seconds have passed.
TimeOut == ~Idle /\ Turn("draining", "cut")

\* ListenAndServe fails: log.Fatal.
ListenerFails == Turn("serving", "cut")

Life ==
  \/ Requests
  \/ Dispatching
  \/ Notifying
  \/ Signal \/ Shutdown \/ Drain \/ TimeOut \/ ListenerFails

LifeSpec == Boot /\ [][Life]_lifeVars

\* The goroutines of the process are scheduled: its handlers, and the dispatcher
\* with its ticker (Wake).  Nothing is assumed of clients, of the notifier or
\* of main.
LifeFairness ==
  /\ \A w \in Worker : WF_lifeVars(Handle(w))
  /\ WF_lifeVars(Dispatching)

FairLifeSpec == LifeSpec /\ LifeFairness
---------------------------------------------------------------------------
(***************************************************************************)
(* Properties.                                                             *)
(***************************************************************************)

\* The handlers and the dispatcher share the store as Dispatch takes for
\* granted: one notice about a batch, dated in the past, and nobody but the
\* dispatcher touches it afterwards.  What holds of Dispatch holds of the
\* process.
ImplementsDelivery == Delivery!Spec

DeliveredNotice(k) == notices[deliveries[k]]

\* A shutdown that runs to its end cuts nobody off: as long as clients stay,
\* every state reached has its receipt and its audit event when main returns,
\* and no answer is owed (main.go:34-36).
DrainedIsFiled ==
  phase = "drained" =>
    /\ Idle
    /\ \A id \in BatchId : \A state \in Reached(id) :
         HasReceipt(id, state) /\ IsAudited(id, state)

Accepted(id, recipient) ==
  \E w \in Worker : /\ pc[w] = "ok"
                    /\ task[w].batch = id
                    /\ task[w].recipient = recipient

DeliveredTo(id, recipient) ==
  \E k \in DOMAIN deliveries : /\ DeliveredNotice(k).batch = id
                               /\ DeliveredNotice(k).recipient = recipient

\* From the request to the recipient: a decision answered without an error
\* reaches the recipient it names, if the notifier works in the end and the
\* process is not stopped.  After the signal there is no such promise: the
\* dispatcher stops while requests are still answered (main.go:33-36).
DecisionsReachTheirRecipient ==
  [](phase = "serving") /\ <>[](failing = {}) =>
    \A id \in BatchId, recipient \in Recipient :
      Accepted(id, recipient) ~> DeliveredTo(id, recipient)
=============================================================================
