---------------------------- MODULE ReviewLedger ----------------------------
(***************************************************************************)
(* What the review service promises of the batches it keeps, without       *)
(* handlers, copies, revisions or clocks: a batch passes through the       *)
(* states of domain.ReviewBatch, its submission and the first receipt are  *)
(* one event (commit.go:8), and each later state is published by one       *)
(* receipt, some time after it was reached and in any order.               *)
(*                                                                         *)
(* ReviewService implements this specification (Ledger in ReviewService).  *)
(***************************************************************************)
EXTENDS Sequences

CONSTANTS BatchId

VARIABLES
  phase,     \* the state of each batch, "none" before its submission
  reached,   \* the states each batch has been through
  published  \* the states each batch has receipts for, in order

vars == <<phase, reached, published>>

Successors ==
  [none         |-> {"submitted"},
   submitted    |-> {"under_review", "cancelled"},
   under_review |-> {"approved", "rejected", "cancelled"},
   approved     |-> {},
   rejected     |-> {},
   cancelled    |-> {}]

Init ==
  /\ phase = [b \in BatchId |-> "none"]
  /\ reached = [b \in BatchId |-> {}]
  /\ published = [b \in BatchId |-> <<>>]

Enter(b, state) ==
  /\ state \in Successors[phase[b]]
  /\ phase' = [phase EXCEPT ![b] = state]
  /\ reached' = [reached EXCEPT ![b] = @ \cup {state}]

Submit(b) ==
  /\ phase[b] = "none"
  /\ Enter(b, "submitted")
  /\ published' = [published EXCEPT ![b] = <<"submitted">>]

Move(b, state) ==
  /\ phase[b] # "none"
  /\ Enter(b, state)
  /\ UNCHANGED published

IsPublished(b, state) == \E k \in DOMAIN published[b] : published[b][k] = state

Publish(b, state) ==
  /\ state \in reached[b]
  /\ ~IsPublished(b, state)
  /\ published' = [published EXCEPT ![b] = Append(@, state)]
  /\ UNCHANGED <<phase, reached>>

Next == \E b \in BatchId :
  \/ Submit(b)
  \/ \E state \in DOMAIN Successors : Move(b, state) \/ Publish(b, state)

Spec == Init /\ [][Next]_vars

\* Every state a batch reaches is published in the end.
EventuallyPublished ==
  \A b \in BatchId, state \in DOMAIN Successors :
    state \in reached[b] ~> IsPublished(b, state)
=============================================================================
