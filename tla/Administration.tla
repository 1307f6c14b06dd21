--------------------------- MODULE Administration ---------------------------
(***************************************************************************)
(* The store's operations on the whole of it, next to the requests of      *)
(* ReviewService: Snapshot, Restore and DeleteBatch.  Each is atomic like  *)
(* every other store call, and none knows of the requests under way, whose *)
(* copies outlive what they were read from.  Nothing in cmd/server calls   *)
(* these operations; whoever does decides when.                            *)
(*                                                                         *)
(* Restore does not set back IDGenerator: an identifier is never given out *)
(* twice, though what it named may be gone.                                *)
(***************************************************************************)
EXTENDS ReviewService

CONSTANT
  MaxAdministrations  \* how often the store is administered, a bound

ASSUME AdministrationAssumption == MaxAdministrations \in Nat

VARIABLES
  left,      \* how often the store is still administered
  calm,      \* whether it was administered only between requests so far
  saved,     \* the snapshots taken: none, or the last
  used,      \* the identifiers given out
  versions   \* every batch ever stored, for the properties

adminVars == <<vars, left, calm, saved, used, versions>>

Open ==
  /\ Init
  /\ left = MaxAdministrations
  /\ calm = TRUE
  /\ saved = {}
  /\ used = {}
  /\ versions = {}
---------------------------------------------------------------------------
MayAdminister ==
  /\ left > 0 /\ left' = left - 1
  /\ calm' = (calm /\ \A w \in Worker : pc[w] = "idle")

Snapshot ==
  /\ MayAdminister
  /\ saved' = {[evidence |-> evidence, batches |-> batches,
                receipts |-> receipts, audits |-> audits, notices |-> notices]}
  /\ UNCHANGED vars

\* Every map is replaced; requests under way keep their copies.
Restore ==
  /\ MayAdminister
  /\ \E s \in saved :
       /\ evidence' = s.evidence /\ batches' = s.batches
       /\ receipts' = s.receipts /\ audits' = s.audits /\ notices' = s.notices
  /\ UNCHANGED <<now, request, saved>>

\* Variant: the receipts stay behind.
DeleteBatchOnly(id) ==
  /\ MayAdminister
  /\ batches[id] # NoBatch
  /\ batches' = [batches EXCEPT ![id] = NoBatch]
  /\ UNCHANGED <<now, evidence, receipts, audits, notices, request, saved>>

\* The batch and its receipts go, its audit events and notices stay.
DeleteBatch(id) ==
  /\ MayAdminister
  /\ batches[id] # NoBatch
  /\ batches' = [batches EXCEPT ![id] = NoBatch]
  /\ receipts' = [receipts EXCEPT ![id] = <<>>]
  /\ UNCHANGED <<now, evidence, audits, notices, request, saved>>

Administer == Snapshot \/ Restore \/ \E id \in BatchId : DeleteBatch(id)

\* The identifiers in the store and in requests that are to store them.
Named == {item.id : item \in evidence} \cup
         {id \in BatchId :
            \/ batches[id] # NoBatch
            \/ \E w \in Worker : task[w].op = "submitted" /\ task[w].batch = id}

\* A request that makes a batch or registers evidence gets a new identifier.
Ask(w) ==
  /\ Arrive(w)
  /\ task'[w].op \in {"registered", "submitted"} =>
       (Named' \ Named) \cap used = {}

Work ==
  /\ \/ \E w \in Worker : Ask(w) \/ Serve(w) \/ Disconnect(w)
     \/ Tick
  /\ UNCHANGED <<left, calm, saved>>

AdminNext ==
  /\ Work \/ Administer
  /\ used' = used \cup Named'
  /\ versions' = versions \cup ({batches'[id] : id \in BatchId} \ {NoBatch})

AdminSpec == Open /\ [][AdminNext]_adminVars
---------------------------------------------------------------------------
(***************************************************************************)
(* Properties.                                                             *)
(***************************************************************************)

\* However the store is administered, no batch is ever stored in a version its
\* review does not lead to: it is new, or put back as it once was, or one
\* admitted step from a version that was stored - not always from the version
\* it replaces, because the copy may be from before a Restore
\* (transaction.go:40) or a DeleteBatch (commit.go:38).
StoredVersionsDescend ==
  [][\A id \in BatchId :
       batches'[id] \notin {batches[id], NoBatch} =>
         \/ batches'[id] \in versions
         \/ OneLegalStep(NoBatch, batches'[id])
         \/ \E old \in versions : /\ old.id = id
                                  /\ OneLegalStep(old, batches'[id])]_adminVars

\* Administered between requests, the store is like one that requests alone
\* have made: its batches come with their receipts (commit.go:8, 38-39), and a
\* batch of before the last Restore still finds the evidence it names.
CalmStoreIsWhole == calm => ReceiptsMatchHistory /\ PolicyIsStable
=============================================================================
