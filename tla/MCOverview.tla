----------------------------- MODULE MCOverview -----------------------------
(***************************************************************************)
(* Instances of Overview small enough for TLC.                             *)
(***************************************************************************)
EXTENDS Overview

MCName == {<<"a">>}
MCPolicy == [requireCurrent |-> TRUE, requireCertificate |-> TRUE,
             maxEvidence |-> 2]

\* Pairs, and one identifier more than the policy admits; a pair of twice the
\* same stands for a single one.
MCLists == UNION {[1 .. n -> EvidenceId] : n \in 2 .. 3}

\* Evidence registered before expires at the last instant, evidence registered
\* then has expired already.
MCDated == {MaxTime}

MCKinds == {"certificate", "test_report"}

MCSymmetry == Permutations(Worker) \cup Permutations(EvidenceId)
=============================================================================
