---------------------------- MODULE MCLifecycle ----------------------------
(***************************************************************************)
(* Instances of Lifecycle small enough for TLC.                            *)
(***************************************************************************)
EXTENDS Lifecycle, TLC

MCName == {<<"a">>}
MCPolicy == [requireCurrent |-> TRUE, requireCertificate |-> TRUE,
             maxEvidence |-> 2]
MCSingletons == {<<i>> : i \in EvidenceId}
MCNever == {Never}
MCCertificates == {"certificate"}
=============================================================================
