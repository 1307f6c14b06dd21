-------------------------- MODULE MCAdministration --------------------------
(***************************************************************************)
(* Instances of Administration small enough for TLC.                       *)
(***************************************************************************)
EXTENDS Administration, TLC

MCName == {<<"a">>}
MCPolicy == [requireCurrent |-> TRUE, requireCertificate |-> TRUE,
             maxEvidence |-> 2]
MCSingletons == {<<i>> : i \in EvidenceId}
MCNever == {Never}
MCCertificates == {"certificate"}

MCSymmetry == Permutations(Worker)
=============================================================================
