----------------------------- MODULE MCDispatch -----------------------------
(***************************************************************************)
(* Instances of Dispatch small enough for TLC.                             *)
(***************************************************************************)
EXTENDS Dispatch, TLC

MCName == {<<"a">>}
MCPolicy == [requireCurrent |-> TRUE, requireCertificate |-> TRUE,
             maxEvidence |-> 2]
MCEvents == {"review_approved"}
=============================================================================
