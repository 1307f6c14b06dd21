----------------------------- MODULE MCQueries -----------------------------
(***************************************************************************)
(* Instances of Queries small enough for TLC.                              *)
(***************************************************************************)
EXTENDS Queries

MCName == {<<"a">>}
MCPolicy == [requireCurrent |-> TRUE, requireCertificate |-> TRUE,
             maxEvidence |-> 2]
MCSingletons == {<<i>> : i \in EvidenceId}
MCNever == {Never}
MCCertificates == {"certificate"}

MCSymmetry == Permutations(Worker)
=============================================================================
