----------------------------- MODULE MCUnwired -----------------------------
(***************************************************************************)
(* Instances of Backoff and Checklist, which nothing in cmd/server calls.  *)
(* They share no variable and are checked side by side.                    *)
(***************************************************************************)
EXTENDS Backoff, Checklist

\* The declared states, and a string that is none.
MCStates == ChecklistItemState \cup {"done"}

UnwiredInit == Init /\ Blank

\* As they share nothing, delays are computed next to a new checklist only, and
\* items are marked before the first delay only.
UnwiredNext ==
  \/ items = NewChecklist /\ Next /\ UNCHANGED items
  \/ attempt = 1 /\ index = 1 /\ Marking /\ UNCHANGED vars

UnwiredSpec == UnwiredInit /\ [][UnwiredNext]_<<vars, items>>
=============================================================================
