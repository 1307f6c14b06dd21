----------------------------- MODULE Checklist -----------------------------
(***************************************************************************)
(* domain.Checklist: the items of a batch's review that are to be          *)
(* satisfied or waived.  Nothing stores a checklist; whoever holds one     *)
(* calls Mark.  Labels, notes and instants are left out.                   *)
(***************************************************************************)
EXTENDS Sequences, Naturals

CONSTANTS
  Evidence,      \* identifiers of evidence
  OfferedStates  \* the states callers pass to Mark; the type is a string

ChecklistItemState == {"pending", "satisfied", "waived"}

ASSUME ChecklistAssumption == "" \notin Evidence

VARIABLE items  \* Checklist.Items

\* NewChecklist.
Codes == <<"identity", "currency", "certificate">>

NewChecklist ==
  [k \in DOMAIN Codes |-> [code |-> Codes[k], state |-> "pending", evidence |-> ""]]

\* What Validate asks of the items.
Valid(list) ==
  /\ list # <<>>
  /\ \A i, k \in DOMAIN list : list[i].code = list[k].code => i = k
  /\ \A k \in DOMAIN list : list[k].state \in ChecklistItemState

Pending(list) == {k \in DOMAIN list : list[k].state = "pending"}

\* Complete; PendingCodes are the codes of what Pending holds.
Complete(list) == Pending(list) = {}
PendingCodes(list) == {list[k].code : k \in Pending(list)}
---------------------------------------------------------------------------
Blank == items = NewChecklist

\* Variant: only an item that is satisfied already must keep its evidence.
MarkUnevidenced(code, state, id) ==
  \E k \in DOMAIN items :
    /\ items[k].code = code
    /\ items[k].state = "satisfied" /\ state = "satisfied" => id # ""
    /\ items' = [items EXCEPT ![k] = [@ EXCEPT !.state = state, !.evidence = id]]

\* Mark, of the first item with the code: no item, or no evidence for
\* "satisfied", is an error and changes nothing.  Every other state is stored.
Mark(code, state, id) ==
  \E k \in DOMAIN items :
    /\ items[k].code = code
    /\ \A i \in 1 .. k - 1 : items[i].code # code
    /\ state = "satisfied" => id # ""
    /\ items' = [items EXCEPT ![k] = [@ EXCEPT !.state = state, !.evidence = id]]

Marking ==
  \E k \in DOMAIN Codes, state \in OfferedStates, id \in Evidence \cup {""} :
    Mark(Codes[k], state, id)

ChecklistSpec == Blank /\ [][Marking]_items
---------------------------------------------------------------------------
\* A checklist that has no item pending any more passes its own validation exactly
\* when it is settled: every item is waived, or satisfied by evidence.  So the two
\* checks together tell, whatever callers mark and mark again, although Mark stores
\* any string and Complete takes every string but one for done (checklist.go:42-92).
CompleteIsSettled ==
  Complete(items) =>
    (Valid(items) <=>
       \A k \in DOMAIN items :
         \/ items[k].state = "waived"
         \/ items[k].state = "satisfied" /\ items[k].evidence # "")
=============================================================================
