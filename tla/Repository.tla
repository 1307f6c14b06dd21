---------------------------- MODULE Repository ----------------------------
(***************************************************************************)
(* The in-memory store, repository.Store, as operators on its contents.    *)
(* Every method runs under the store's mutex, so one method is one atomic  *)
(* operator; the context check each method starts with belongs to the      *)
(* caller's step (see ReviewService and Dispatch).                         *)
(*                                                                         *)
(* A Go map from identifiers is a function with NoBatch where a key is     *)
(* missing; the evidence map is the set of its values, whose keys are      *)
(* computed from them; notifications are a sequence in the order their     *)
(* identifiers were generated (IDGenerator counts them), so the index of a *)
(* notification stands for its identifier.                                 *)
(***************************************************************************)
EXTENDS ReviewDomain, SequencesExt

\* Evidence saved under a key replaces whatever the key held.
SaveEvidence(evidence, item) ==
  {e \in evidence :
     EvidenceKey(e.scope, e.id) # EvidenceKey(item.scope, item.id)}
    \cup {item}

\* Variant: evidence looked up by its identifier alone.
FindEvidenceAnywhere(evidence, scope, id) == {e \in evidence : e.id = id}

\* What FindEvidence finds: the items whose key is the one asked for, none
\* (ErrNotFound) or one.  The item's own scope is not compared.
FindEvidence(evidence, scope, id) ==
  {e \in evidence : EvidenceKey(e.scope, e.id) = EvidenceKey(scope, id)}

\* Variant: an equal revision may replace the stored one.
SaveAcceptsEqual(current, b) ==
  current = NoBatch \/ ~(current.revision > b.revision)

\* Variant: the stored revision is taken for the one the copy had to be.
SaveAcceptsLater(current, b) ==
  current = NoBatch \/ current.revision + 1 < b.revision

\* SaveBatch is refused with ErrConflict unless it brings a newer revision.
SaveAccepts(current, b) ==
  current = NoBatch \/ ~(current.revision >= b.revision)

\* CommitSubmission never replaces a batch.
SubmissionAccepts(current) == current = NoBatch

\* AppendReceipt and AppendAudit: append at a key.
AppendAt(log, key, entry) == [log EXCEPT ![key] = Append(@, entry)]

\* Variant: a notice gets the identifier of one that failed.
QueueNoticeReusing(notices, n) ==
  LET failed == {i \in DOMAIN notices : notices[i].state = "failed"}
  IN IF failed = {} THEN Append(notices, n)
     ELSE [notices EXCEPT ![CHOOSE i \in failed : TRUE] = n]

\* SaveNotification under a new identifier, and under a known one.
QueueNotice(notices, n) == Append(notices, n)
SaveNotice(notices, i, n) == [notices EXCEPT ![i] = n]

\* Variant: a failed notice is not tried again.
UndeliveredNew(notices) ==
  {i \in DOMAIN notices : notices[i].state = "pending"}

\* The notifications PendingNotifications selects.
Undelivered(notices) ==
  {i \in DOMAIN notices : notices[i].state \in {"pending", "failed"}}

\* The lists PendingNotifications may return: oldest first, equal instants in
\* any order (a map is ranged over and sort.Slice is not stable), at most
\* limit of them when limit is positive.
PendingNotifications(notices, limit) ==
  LET oldestFirst(s) ==
        \A i, j \in DOMAIN s :
          i < j => notices[s[i]].createdAt <= notices[s[j]].createdAt
      cut(s) == IF limit > 0 /\ Len(s) > limit THEN SubSeq(s, 1, limit) ELSE s
      lists == SetToSeqs(Undelivered(notices))
  IN {cut(s) : s \in {t \in lists : oldestFirst(t)}}
===========================================================================
