------------------------------ MODULE MCReview ------------------------------
(***************************************************************************)
(* Instances of ReviewService small enough for TLC.                        *)
(***************************************************************************)
EXTENDS ReviewService, TLC

\* One project and one material, or names that hold a colon themselves.
MCOneName == {<<"a">>}
MCTwoNames == {<<"a">>, <<"b">>}
MCColonNames == {<<"a">>, <<"a", ":", "a">>}

MCPolicy == [requireCurrent |-> TRUE, requireCertificate |-> TRUE,
             maxEvidence |-> 2]

MCSingletons == {<<i>> : i \in EvidenceId}

MCExpiries == 0 .. MaxTime \cup {Never}
MCNever == {Never}
MCCertificates == {"certificate"}

MCSymmetry == Permutations(Worker)
=============================================================================
