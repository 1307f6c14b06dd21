----------------------------- MODULE MCPlanning -----------------------------
(***************************************************************************)
(* Instances of Planning small enough for TLC.                             *)
(***************************************************************************)
EXTENDS Planning, TLC

MCName == {<<"a">>}
MCPolicy == [requireCurrent |-> TRUE, requireCertificate |-> TRUE,
             maxEvidence |-> 2]
MCKinds == {"certificate", "test_report"}
MCExpiries == {1, 3, Never}

\* Longest for approvals, shortest for cancellations, as by default.
MCRetention == [keepApprovedFor |-> 2, keepRejectedFor |-> 1,
                keepCancelledFor |-> 0]
=============================================================================
