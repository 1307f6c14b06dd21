------------------------ MODULE AdministrationProofs ------------------------
(***************************************************************************)
(* Theorems about Administration, for any number of snapshots, restores    *)
(* and deletions at any moment of the requests.                            *)
(*                                                                         *)
(* The invariants of the service do not survive a Restore or a DeleteBatch *)
(* in the midst of requests: a copy about to be saved may be newer than    *)
(* the version that is stored, or of a batch that is gone.  What survives  *)
(* is that every copy was stored once.  Between requests nobody has a      *)
(* copy, and the invariants hold of the contents put back as they held     *)
(* when they were saved.                                                   *)
(***************************************************************************)
EXTENDS Administration, ReviewRecordsProofs

-----------------------------------------------------------------------------
(***************************************************************************)
(* Types.                                                                  *)
(***************************************************************************)

\* A snapshot holds values of the store's kinds.
Typed(s) ==
  /\ s.evidence \subseteq Evidence
  /\ s.batches \in [BatchId -> Batch \cup {NoBatch}]
  /\ s.receipts \in [BatchId -> Seq(Receipt)]
  /\ s.audits \in [{Key(scope) : scope \in Scope} -> Seq(AuditEvent)]
  /\ s.notices \in Seq(Notification)
  /\ \A id \in BatchId : s.batches[id] # NoBatch => s.batches[id].id = id

\* The contents of the store as a snapshot takes them.
Contents == [evidence |-> evidence, batches |-> batches, receipts |-> receipts,
             audits |-> audits, notices |-> notices]

AdminTypes ==
  /\ TypeInv
  /\ \A s \in saved : Typed(s)

\* What requests do next to the administration is what they do without it.
LEMMA WorkIsNext ==
  ASSUME Work
  PROVE  [Next]_vars /\ UNCHANGED <<left, calm, saved>>
BY DEF Work, Ask, Next

\* A snapshot of typed contents is typed.
LEMMA ContentsAreTyped ==
  ASSUME TypeInv
  PROVE  /\ Typed(Contents)
         /\ Contents.evidence = evidence /\ Contents.batches = batches
         /\ Contents.receipts = receipts
BY DEF TypeInv, StoreOK, StoreTypeOK, Typed, Contents

\* An operation on the store leaves the requests, the clock, and the snapshots
\* but for a new one.
LEMMA AdministerEffect ==
  ASSUME Administer
  PROVE  /\ UNCHANGED <<now, request>>
         /\ calm' => calm /\ \A w \in Worker : pc[w] = "idle"
         /\ \/ UNCHANGED store /\ saved' = {Contents}
            \/ /\ UNCHANGED saved
               /\ \E s \in saved :
                    /\ evidence' = s.evidence /\ batches' = s.batches
                    /\ receipts' = s.receipts /\ audits' = s.audits
                    /\ notices' = s.notices
            \/ /\ UNCHANGED <<saved, evidence, audits, notices>>
               /\ \E id \in BatchId :
                    /\ batches' = [batches EXCEPT ![id] = NoBatch]
                    /\ receipts' = [receipts EXCEPT ![id] = <<>>]
<1>1. CASE Snapshot
  BY <1>1 DEF Snapshot, MayAdminister, Contents, vars
<1>2. CASE Restore
  BY <1>2 DEF Restore, MayAdminister
<1>3. ASSUME NEW id \in BatchId, DeleteBatch(id)
      PROVE  /\ UNCHANGED <<now, request, saved, evidence, audits, notices>>
             /\ calm' => calm /\ \A w \in Worker : pc[w] = "idle"
             /\ batches' = [batches EXCEPT ![id] = NoBatch]
             /\ receipts' = [receipts EXCEPT ![id] = <<>>]
  BY <1>3 DEF DeleteBatch, MayAdminister
<1>4. QED  BY <1>1, <1>2, <1>3 DEF Administer

\* What the constants and the empty store give.
LEMMA AdminTypesInit == Open => AdminTypes
BY TypeInvInit DEF Open, AdminTypes

\* Requests keep the types as before; administration puts back what was there.
LEMMA AdminTypesStep ==
  ASSUME AdminTypes, [AdminNext]_adminVars
  PROVE  AdminTypes'
<1>1. CASE Work
  BY <1>1, WorkIsNext, TypeInvStep DEF AdminTypes
<1>2. CASE Administer
  <2>1. UNCHANGED <<now, request>>
    BY <1>2, AdministerEffect
  <2>2. RequestTypeOK' /\ HandlersOK'
    BY <2>1 DEF AdminTypes, TypeInv, RequestTypeOK, HandlersOK, request
  <2>3. CASE UNCHANGED store /\ saved' = {Contents}
    <3>1. StoreOK'
      BY <2>3, StoreUnchanged DEF AdminTypes, TypeInv
    <3>2. QED  BY <2>2, <2>3, <3>1, ContentsAreTyped DEF AdminTypes, TypeInv
  <2>4. ASSUME UNCHANGED saved, NEW s \in saved,
               /\ evidence' = s.evidence /\ batches' = s.batches
               /\ receipts' = s.receipts /\ audits' = s.audits
               /\ notices' = s.notices
        PROVE  AdminTypes'
    <3>1. StoreOK'
      BY <2>4 DEF AdminTypes, Typed, StoreOK, StoreTypeOK
    <3>2. QED  BY <2>2, <2>4, <3>1 DEF AdminTypes, TypeInv
  <2>5. ASSUME UNCHANGED <<saved, evidence, audits, notices>>, NEW id \in BatchId,
               batches' = [batches EXCEPT ![id] = NoBatch],
               receipts' = [receipts EXCEPT ![id] = <<>>]
        PROVE  AdminTypes'
    <3>1. StoreOK'
      BY <2>5 DEF AdminTypes, TypeInv, StoreOK, StoreTypeOK
    <3>2. QED  BY <2>2, <2>5, <3>1 DEF AdminTypes, TypeInv
  <2>6. QED  BY <1>2, <2>3, <2>4, <2>5, AdministerEffect
<1>3. CASE UNCHANGED adminVars
  <2>1. UNCHANGED vars /\ UNCHANGED saved
    BY <1>3 DEF adminVars
  <2>2. QED  BY <2>1, TypeInvStep DEF AdminTypes
<1>4. QED  BY <1>1, <1>2, <1>3 DEF AdminNext

-----------------------------------------------------------------------------
(***************************************************************************)
(* Versions.                                                               *)
(***************************************************************************)

\* Whatever is stored, saved or about to be saved was stored once; what is
\* about to be committed is a new batch.
LineageOK ==
  /\ \A b \in versions : b \in Batch /\ b.updatedAt <= now
  /\ \A id \in BatchId : batches[id] # NoBatch => batches[id] \in versions
  /\ \A s \in saved : \A id \in BatchId :
       s.batches[id] # NoBatch => s.batches[id] \in versions
  /\ \A w \in Worker : pc[w] = "save" =>
       seen[w] \in versions /\ seen[w].updatedAt <= since[w]
  /\ \A w \in Worker : pc[w] \in {"commit", "submit"} =>
       seen[w].revision = 2 /\ seen[w].updatedAt <= now

\* The version is new, or one admitted step from a version there was.
Follows(b) ==
  \/ OneLegalStep(NoBatch, b)
  \/ \E old \in versions : old.id = b.id /\ OneLegalStep(old, b)

\* A step of w that stores a version.
Puts(w) ==
  /\ Others(w) /\ UNCHANGED now
  /\ pc'[w] \notin {"commit", "submit", "save"}
  /\ \E b \in Batch : /\ batches' = [batches EXCEPT ![b.id] = b]
                      /\ b.updatedAt <= now /\ Follows(b)

\* What all three ways of storing a batch come to.
LEMMA AcceptedIsPut ==
  ASSUME TypeInv, NEW w \in Worker, NEW next, NEW b \in Batch,
         next \notin {"commit", "submit", "save"}, Proceed(w, next, b),
         batches' = [batches EXCEPT ![b.id] = b], UNCHANGED task,
         b.updatedAt <= now, Follows(b)
  PROVE  Puts(w)
<1>1. Others(w) /\ UNCHANGED now /\ pc'[w] = next
  BY ProceedEffectSame DEF TypeInv
<1>2. QED  BY <1>1 DEF Puts

\* The three calls that store a batch: each puts one version where none or an
\* older one was.
LEMMA CommitPuts ==
  ASSUME AdminTypes, LineageOK, NEW w \in Worker, CommitSubmission(w)
  PROVE  Quiet(w) \/ Puts(w)
<1> DEFINE b == seen[w]
<1>1. /\ b \in Batch /\ b.id = task[w].batch /\ b.state = "submitted"
      /\ b.revision = 2 /\ b.updatedAt <= now /\ TypeInv
      /\ pc[w] = "commit" /\ UNCHANGED task
  BY DEF CommitSubmission, AdminTypes, TypeInv, HandlersOK, Holds, LineageOK
<1>2. CASE batches[b.id] = NoBatch
  <2>1. Proceed(w, "audit", b) /\ batches' = [batches EXCEPT ![b.id] = b]
    BY <1>2 DEF CommitSubmission, SubmissionAccepts
  <2>2. Follows(b)
    BY <1>1 DEF Follows, OneLegalStep
  <2>3. QED  BY <1>1, <2>1, <2>2, AcceptedIsPut
<1>3. CASE batches[b.id] # NoBatch
  <2>1. Fail(w, "conflict")
    BY <1>3 DEF CommitSubmission, SubmissionAccepts
  <2>2. Refused(w)
    BY <1>1, <1>3 DEF Refused
  <2>3. QED  BY <1>1, <2>1, <2>2, FailIsQuietSame DEF Answer
<1>4. QED  BY <1>2, <1>3

LEMMA SubmitPuts ==
  ASSUME AdminTypes, LineageOK, NEW w \in Worker, SubmitBatch(w)
  PROVE  Quiet(w) \/ Puts(w)
<1> DEFINE b == seen[w]
<1>1. /\ b \in Batch /\ b.id = task[w].batch /\ b.state = "submitted"
      /\ b.revision = 2 /\ b.updatedAt <= now /\ TypeInv
      /\ pc[w] = "submit" /\ UNCHANGED task
  BY DEF SubmitBatch, AdminTypes, TypeInv, HandlersOK, Holds, LineageOK
<1>2. CASE SaveAccepts(batches[b.id], b)
  <2>1. Proceed(w, "receipt", b) /\ batches' = [batches EXCEPT ![b.id] = b]
    BY <1>2 DEF SubmitBatch
  <2>2. Follows(b)
    BY <1>1 DEF Follows, OneLegalStep
  <2>3. QED  BY <1>1, <2>1, <2>2, AcceptedIsPut
<1>3. CASE ~SaveAccepts(batches[b.id], b)
  <2>1. Fail(w, "conflict")
    BY <1>3 DEF SubmitBatch
  <2>2. Refused(w)
    BY <1>1, <1>3 DEF Refused, SaveAccepts
  <2>3. QED  BY <1>1, <2>1, <2>2, FailIsQuietSame DEF Answer
<1>4. QED  BY <1>2, <1>3

LEMMA SavePuts ==
  ASSUME AdminTypes, LineageOK, NEW w \in Worker, SaveBatch(w)
  PROVE  Quiet(w) \/ Puts(w)
<1> DEFINE c == seen[w]
           op == task[w].op
<1>1. /\ c \in Batch /\ c.id = task[w].batch /\ c.id \in BatchId
      /\ op \in BatchState /\ CanTransition(c, op)
      /\ c \in versions /\ c.updatedAt <= since[w] /\ TypeInv
      /\ pc[w] = "save" /\ UNCHANGED task
  BY DEF SaveBatch, AdminTypes, TypeInv, HandlersOK, Holds, LineageOK, Batch,
         Moves, BatchState
<1>2. PICK t \in Clock(w) :
        LET b == Transition(c, op, t)
        IN IF SaveAccepts(batches[b.id], b)
           THEN /\ batches' = [batches EXCEPT ![b.id] = b]
                /\ Proceed(w, "receipt", b)
                /\ UNCHANGED <<evidence, receipts, audits, notices>>
           ELSE Fail(w, "conflict")
  BY DEF SaveBatch
<1> DEFINE b == Transition(c, op, t)
<1>3. t \in Instant /\ since[w] <= t /\ t <= now
  BY <1>1, ClockIsInstant DEF TypeInv
<1>4. /\ b \in Batch /\ b.id = c.id /\ b.state = op
      /\ b.revision = c.revision + 1 /\ b.updatedAt = t
  BY <1>1, <1>3, TransitionIsBatch
<1>5. CASE SaveAccepts(batches[b.id], b)
  <2>1. Proceed(w, "receipt", b) /\ batches' = [batches EXCEPT ![b.id] = b]
    BY <1>2, <1>5
  <2> HIDE DEF b
  <2>2. c.updatedAt <= t
    <3>1. c.updatedAt \in Int /\ since[w] \in Int /\ t \in Int
      BY <1>1, <1>3 DEF Batch, Instant, TypeInv, RequestTypeOK
    <3>2. QED  BY <1>1, <1>3, <3>1
  <2>3. OneLegalStep(c, b)
    BY <1>1, <1>4, <2>2, BatchIsNotNone DEF OneLegalStep, b
  <2>4. Follows(b) /\ b.updatedAt <= now
    BY <1>1, <1>3, <1>4, <2>3 DEF Follows
  <2>5. QED  BY <1>1, <1>4, <2>1, <2>4, AcceptedIsPut
<1>6. CASE ~SaveAccepts(batches[b.id], b)
  <2>1. Fail(w, "conflict")
    BY <1>2, <1>6
  <2>2. Refused(w)
    <3>1. batches[c.id] # NoBatch /\ batches[c.id].revision >= c.revision + 1
      BY <1>4, <1>6 DEF SaveAccepts
    <3>2. batches[c.id].revision \in Nat /\ c.revision \in Nat
      BY <1>1, <3>1 DEF TypeInv, StoreOK, StoreTypeOK, Batch
    <3>3. QED  BY <1>1, <3>1, <3>2 DEF Refused
  <2>3. QED  BY <1>1, <2>1, <2>2, FailIsQuietSame DEF Answer
<1>7. QED  BY <1>5, <1>6

\* The requests' side of the invariant, whatever became of the store.
LEMMA LineageIsKept ==
  ASSUME AdminTypes, LineageOK, RequestTypeOK', now <= now',
         versions' = versions \cup ({batches'[id] : id \in BatchId} \ {NoBatch}),
         \A id \in BatchId : batches'[id] # NoBatch =>
           batches'[id] \in Batch /\ batches'[id].updatedAt <= now',
         \A s \in saved' : \A id \in BatchId :
           s.batches[id] # NoBatch => s.batches[id] \in versions',
         \A w \in Worker : pc'[w] = "save" =>
           \/ pc[w] = "save" /\ seen'[w] = seen[w] /\ since'[w] = since[w]
           \/ /\ seen'[w] \in Batch /\ seen'[w] = batches[seen'[w].id]
              /\ since'[w] = now,
         \A w \in Worker : pc'[w] \in {"commit", "submit"} =>
           \/ pc[w] \in {"commit", "submit"} /\ seen'[w] = seen[w]
           \/ seen'[w].revision = 2 /\ seen'[w].updatedAt <= now,
         \A w \in Worker : pc'[w] \in {"commit", "submit"} => seen'[w] \in Batch
  PROVE  LineageOK'
<1>1. now \in Nat /\ now' \in Nat
  BY MaxTimeIsInstant DEF AdminTypes, TypeInv, RequestTypeOK
<1>2. ASSUME NEW b \in versions'
      PROVE  b \in Batch /\ b.updatedAt <= now'
  <2>1. CASE b \in versions
    <3>1. b \in Batch /\ b.updatedAt <= now /\ b.updatedAt \in Nat
      BY <2>1 DEF LineageOK, Batch, Instant
    <3>2. QED  BY <1>1, <3>1
  <2>2. CASE b \notin versions
    BY <2>2
  <2>3. QED  BY <2>1, <2>2
<1>3. ASSUME NEW id \in BatchId, batches'[id] # NoBatch
      PROVE  batches'[id] \in versions'
  BY <1>3
<1>4. ASSUME NEW w \in Worker, pc'[w] = "save"
      PROVE  seen'[w] \in versions' /\ seen'[w].updatedAt <= since'[w]
  <2>1. CASE pc[w] = "save" /\ seen'[w] = seen[w] /\ since'[w] = since[w]
    BY <2>1 DEF LineageOK
  <2>2. CASE seen'[w] \in Batch /\ seen'[w] = batches[seen'[w].id] /\ since'[w] = now
    <3>1. seen'[w].id \in BatchId /\ seen'[w] # NoBatch
      BY <2>2, BatchIsNotNone DEF Batch
    <3>2. seen'[w] \in versions
      BY <2>2, <3>1 DEF LineageOK
    <3>3. QED  BY <2>2, <3>2 DEF LineageOK
  <2>3. QED  BY <1>4, <2>1, <2>2
<1>5. ASSUME NEW w \in Worker, pc'[w] \in {"commit", "submit"}
      PROVE  seen'[w].revision = 2 /\ seen'[w].updatedAt <= now'
  <2>1. seen'[w].revision = 2 /\ seen'[w].updatedAt <= now
    BY <1>5 DEF LineageOK
  <2>2. seen'[w].updatedAt \in Nat
    BY <1>5 DEF Batch, Instant
  <2>3. QED  BY <1>1, <2>1, <2>2
<1>6. QED  BY <1>2, <1>3, <1>4, <1>5 DEF LineageOK

\* What one step does to the stored batches.
Descends ==
  \A id \in BatchId :
    batches'[id] \notin {batches[id], NoBatch} =>
      \/ batches'[id] \in versions
      \/ Follows(batches'[id]) /\ batches'[id].id = id

\* A step of the requests.
LEMMA WorkEffect ==
  ASSUME AdminTypes, LineageOK, Work
  PROVE  \/ \E w \in Worker : Quiet(w) \/ Files(w) \/ Puts(w)
         \/ Idles /\ (UNCHANGED now \/ Tick)
<1>1. CASE \E w \in Worker : Ask(w)
  BY <1>1, ArriveIsQuiet DEF Ask, AdminTypes
<1>2. CASE \E w \in Worker : Serve(w)
  BY <1>2, OtherEffect, CommitPuts, SubmitPuts, SavePuts DEF AdminTypes
<1>3. CASE \E w \in Worker : Disconnect(w)
  BY <1>3 DEF Disconnect, Idles, store, AdminTypes, TypeInv, RequestTypeOK
<1>4. CASE Tick
  BY <1>4 DEF Tick, Idles, store, request
<1>5. QED  BY <1>1, <1>2, <1>3, <1>4 DEF Work

\* Every step keeps the lineage, and stores what descends from it.
LEMMA LineageStep ==
  ASSUME AdminTypes, LineageOK, AdminNext
  PROVE  LineageOK' /\ Descends
<1>1. /\ AdminTypes' /\ TypeInv' /\ RequestTypeOK'
      /\ versions' = versions \cup ({batches'[id] : id \in BatchId} \ {NoBatch})
  BY AdminTypesStep DEF AdminNext, AdminTypes, TypeInv
<1>2. \A w \in Worker : pc'[w] \in {"commit", "submit"} =>
        seen'[w] \in Batch /\ seen'[w].state = "submitted"
  BY <1>1 DEF TypeInv, HandlersOK, Holds
<1>3. \A id \in BatchId : batches[id] # NoBatch =>
        batches[id] \in Batch /\ batches[id].updatedAt <= now /\ batches[id] \in versions
  BY DEF LineageOK
<1>4. now \in Nat /\ \A b \in Batch : b.updatedAt \in Nat
  BY DEF AdminTypes, TypeInv, RequestTypeOK, Batch, Instant
<1>5. ASSUME NEW w \in Worker, Quiet(w), UNCHANGED saved
      PROVE  LineageOK' /\ Descends
  <2>1. UNCHANGED <<now, batches>> /\ Others(w)
    BY <1>5 DEF Quiet
  <2>2. \A v \in Worker : pc'[v] = "save" =>
          \/ pc[v] = "save" /\ seen'[v] = seen[v] /\ since'[v] = since[v]
          \/ /\ seen'[v] \in Batch /\ seen'[v] = batches[seen'[v].id]
             /\ since'[v] = now
    BY <1>5 DEF Quiet, Others
  <2>3. \A v \in Worker : pc'[v] \in {"commit", "submit"} =>
          \/ pc[v] \in {"commit", "submit"} /\ seen'[v] = seen[v]
          \/ seen'[v].revision = 2 /\ seen'[v].updatedAt <= now
    <3>1. pc'[w] \in {"commit", "submit"} =>
            Shaped(seen'[w]) /\ seen'[w].updatedAt <= now
      BY <1>5 DEF Quiet
    <3>2. pc'[w] \in {"commit", "submit"} => seen'[w].revision = 2
      BY <1>2, <3>1 DEF Shaped
    <3>3. QED  BY <2>1, <3>1, <3>2 DEF Others
  <2>4. \A s \in saved' : \A id \in BatchId :
          s.batches[id] # NoBatch => s.batches[id] \in versions'
    BY <1>1, <1>5 DEF LineageOK
  <2>5. now <= now'
    BY <1>4, <2>1
  <2>6. \A id \in BatchId : batches'[id] # NoBatch =>
          batches'[id] \in Batch /\ batches'[id].updatedAt <= now'
    BY <1>3, <2>1
  <2>7. LineageOK'
    BY <1>1, <1>2, <2>2, <2>3, <2>4, <2>5, <2>6, LineageIsKept
  <2>8. Descends
    BY <2>1 DEF Descends
  <2>9. QED  BY <2>7, <2>8
<1>6. ASSUME NEW w \in Worker, Files(w) \/ Puts(w), UNCHANGED saved
      PROVE  LineageOK' /\ Descends
  <2>1. /\ now' = now /\ Others(w) /\ pc'[w] \notin {"commit", "submit", "save"}
        /\ \/ UNCHANGED batches
           \/ \E b \in Batch : /\ batches' = [batches EXCEPT ![b.id] = b]
                              /\ b.updatedAt <= now /\ Follows(b)
    <3>1. CASE Files(w)
      BY <3>1, FilesKeeps DEF Files, AdminTypes
    <3>2. CASE Puts(w)
      BY <3>2 DEF Puts
    <3>3. QED  BY <1>6, <3>1, <3>2
  <2>2. \A v \in Worker : pc'[v] = "save" =>
          pc[v] = "save" /\ seen'[v] = seen[v] /\ since'[v] = since[v]
    BY <2>1 DEF Others
  <2>3. \A v \in Worker : pc'[v] \in {"commit", "submit"} =>
          pc[v] \in {"commit", "submit"} /\ seen'[v] = seen[v]
    BY <2>1 DEF Others
  <2>4. \A s \in saved' : \A id \in BatchId :
          s.batches[id] # NoBatch => s.batches[id] \in versions'
    BY <1>1, <1>6 DEF LineageOK
  <2>5. now <= now'
    BY <1>4, <2>1
  <2>6. ASSUME NEW id \in BatchId
        PROVE  \/ batches'[id] = batches[id]
               \/ /\ batches'[id] \in Batch /\ batches'[id].updatedAt <= now
                  /\ Follows(batches'[id]) /\ batches'[id].id = id
    BY <2>1 DEF Batch, AdminTypes, TypeInv, StoreOK, StoreTypeOK
  <2>7. \A id \in BatchId : batches'[id] # NoBatch =>
          batches'[id] \in Batch /\ batches'[id].updatedAt <= now'
    BY <1>3, <2>1, <2>6
  <2>8. LineageOK'
    BY <1>1, <1>2, <2>2, <2>3, <2>4, <2>5, <2>7, LineageIsKept
  <2>9. Descends
    BY <2>6 DEF Descends
  <2>10. QED  BY <2>8, <2>9
<1>7. ASSUME Idles, UNCHANGED now \/ Tick, UNCHANGED saved
      PROVE  LineageOK' /\ Descends
  <2>1. UNCHANGED <<batches, pc, seen, since>>
    BY <1>7 DEF Idles
  <2>2. now <= now' /\ now' \in Nat
    BY <1>4, <1>7 DEF Tick
  <2>3. \A s \in saved' : \A id \in BatchId :
          s.batches[id] # NoBatch => s.batches[id] \in versions'
    BY <1>1, <1>7 DEF LineageOK
  <2>4. \A id \in BatchId : batches'[id] # NoBatch =>
          batches'[id] \in Batch /\ batches'[id].updatedAt <= now'
    BY <1>3, <1>4, <2>1, <2>2
  <2>5. LineageOK'
    BY <1>1, <1>2, <2>1, <2>2, <2>3, <2>4, LineageIsKept
  <2>6. Descends
    BY <2>1 DEF Descends
  <2>7. QED  BY <2>5, <2>6
<1>8. CASE Work
  <2>1. UNCHANGED saved
    BY <1>8, WorkIsNext
  <2>2. QED  BY <1>5, <1>6, <1>7, <1>8, <2>1, WorkEffect
<1>9. CASE Administer
  <2>1. UNCHANGED <<now, pc, seen, since>>
    BY <1>9, AdministerEffect DEF request
  <2>2. \A id \in BatchId : batches'[id] \in {batches[id], NoBatch} \cup versions
    BY <1>9, AdministerEffect DEF LineageOK, store, AdminTypes, TypeInv, StoreOK,
       StoreTypeOK
  <2>3. \A s \in saved' : \A id \in BatchId :
          s.batches[id] # NoBatch => s.batches[id] \in versions'
    <3>1. CASE saved' = {Contents}
      BY <1>1, <1>3, <3>1, ContentsAreTyped DEF AdminTypes
    <3>2. CASE UNCHANGED saved
      BY <1>1, <3>2 DEF LineageOK
    <3>3. QED  BY <1>9, <3>1, <3>2, AdministerEffect
  <2>4. \A id \in BatchId : batches'[id] # NoBatch =>
          batches'[id] \in Batch /\ batches'[id].updatedAt <= now'
    BY <1>3, <2>1, <2>2 DEF LineageOK
  <2>5. now <= now'
    BY <1>4, <2>1
  <2>6. LineageOK'
    BY <1>1, <1>2, <2>1, <2>3, <2>4, <2>5, LineageIsKept
  <2>7. Descends
    BY <2>2 DEF Descends
  <2>8. QED  BY <2>6, <2>7
<1>10. QED  BY <1>8, <1>9 DEF AdminNext

\* Nothing is stored, in a snapshot or about to be saved.
LEMMA LineageInit == Open => LineageOK
BY DEF Open, Init, LineageOK

\* Every copy about to be saved, and every batch stored or in a snapshot, is a
\* version that was stored once, whatever was restored or deleted since.
THEOREM LineageInvariant == AdminSpec => [](AdminTypes /\ LineageOK)
<1>1. AdminTypes /\ LineageOK /\ [AdminNext]_adminVars => (AdminTypes /\ LineageOK)'
  <2>1. CASE UNCHANGED adminVars
    BY <2>1 DEF adminVars, vars, store, request, LineageOK, AdminTypes, TypeInv,
       StoreOK, StoreTypeOK, RequestTypeOK, HandlersOK
  <2>2. QED  BY <2>1, LineageStep, AdminTypesStep
<1>2. QED  BY <1>1, LineageInit, AdminTypesInit, PTL DEF AdminSpec

\* However the store is administered, a version that is stored is new, was
\* stored before, or is one admitted step from one that was
\* (transaction.go:40, commit.go:38).
THEOREM VersionsDescend == AdminSpec => StoredVersionsDescend
<1>1. AdminTypes /\ LineageOK /\ [AdminNext]_adminVars =>
        [Descends]_adminVars
  BY LineageStep
<1>2. Descends =>
        \A id \in BatchId :
          batches'[id] \notin {batches[id], NoBatch} =>
            \/ batches'[id] \in versions
            \/ OneLegalStep(NoBatch, batches'[id])
            \/ \E old \in versions : /\ old.id = id
                                     /\ OneLegalStep(old, batches'[id])
  BY DEF Descends, Follows
<1>3. QED  BY <1>1, <1>2, LineageInvariant, PTL DEF AdminSpec, StoredVersionsDescend

-----------------------------------------------------------------------------
(***************************************************************************)
(* Administration between requests.  When no request is at work the        *)
(* invariants of the service come down to one about the contents of the    *)
(* store, which a snapshot keeps and a Restore puts back.                  *)
(***************************************************************************)

\* The evidence the batch names is among the items and satisfies the policy.
GoodIn(items, b) ==
  LET found(id) == FindEvidence(items, b.scope, id)
  IN /\ \A id \in b.evidence : found(id) # {}
     /\ SatisfiesPolicy(UNION {found(id) : id \in b.evidence},
                        Cardinality(b.evidence))

\* Contents as requests leave them.
Whole(items, stored, logs) ==
  /\ \A e, f \in items : e.id = f.id => e = f
  /\ \A id \in BatchId :
       /\ stored[id] # NoBatch => Shaped(stored[id]) /\ GoodIn(items, stored[id])
       /\ stored[id] # NoBatch <=> logs[id] # <<>>
       /\ logs[id] # <<>> => logs[id][1].kind = "submitted"
       /\ \A k \in DOMAIN logs[id] :
            \E state \in History(stored[id]) : logs[id][k].kind = ReceiptFor[state]
       /\ \A i, k \in DOMAIN logs[id] : logs[id][i].kind = logs[id][k].kind => i = k

\* The invariants of the service that administration between requests keeps.
ServiceOK == Base /\ ReceiptsOK /\ FirstReceipts /\ EvidenceOK

CalmOK ==
  calm => /\ ServiceOK
          /\ \A s \in saved : Whole(s.evidence, s.batches, s.receipts)

\* Each request for a new batch has an identifier to itself.
RequestsApart ==
  /\ \A v, w \in Worker :
       v # w /\ task[v].op = "submitted" /\ task[w].op = "submitted"
         => task[v].batch # task[w].batch
  /\ \A w \in Worker : task[w].op = "registered" => task[w].batch = ""

\* Good speaks of the store, GoodIn of any contents.
LEMMA GoodIsGoodIn ==
  ASSUME NEW b
  PROVE  Good(b) <=> GoodIn(evidence, b)
BY GoodVerdict DEF Good, GoodIn, Found

\* The invariants of the service say so of its contents ...
LEMMA ServiceIsWhole ==
  ServiceOK => Whole(evidence, batches, receipts) /\ RequestsApart
<1> SUFFICES ASSUME ServiceOK
             PROVE  Whole(evidence, batches, receipts) /\ RequestsApart
  OBVIOUS
<1>1. \A id \in BatchId : batches[id] # NoBatch =>
        Shaped(batches[id]) /\ GoodIn(evidence, batches[id])
  BY GoodIsGoodIn DEF ServiceOK, Base, WorkersOK, ShapesOK, EvidenceOK
<1>2. \A e, f \in evidence : e.id = f.id => e = f
  BY DEF ServiceOK, EvidenceOK, Unique
<1>3. ASSUME NEW id \in BatchId
      PROVE  /\ \A k \in DOMAIN receipts[id] :
                  \E state \in History(batches[id]) :
                    receipts[id][k].kind = ReceiptFor[state]
             /\ \A i, k \in DOMAIN receipts[id] :
                  receipts[id][i].kind = receipts[id][k].kind => i = k
  BY DEF ServiceOK, ReceiptsOK, ReceiptsTellHistory, Reached
<1>4. \A id \in BatchId :
        /\ batches[id] # NoBatch <=> receipts[id] # <<>>
        /\ receipts[id] # <<>> => receipts[id][1].kind = "submitted"
  BY DEF ServiceOK, FirstReceipts
<1>5. RequestsApart
  BY DEF ServiceOK, Base, WorkersOK, RequestsOK, RequestsApart
<1>6. QED  BY <1>1, <1>2, <1>3, <1>4, <1>5 DEF Whole

\* ... and when no request is at work, nothing else.
LEMMA WholeIsService ==
  /\ TypeInv /\ RequestsApart /\ Whole(evidence, batches, receipts)
  /\ \A w \in Worker : pc[w] = "idle"
  /\ \A id \in BatchId : batches[id] # NoBatch => batches[id].updatedAt <= now
  => ServiceOK
<1> SUFFICES ASSUME TypeInv, RequestsApart, Whole(evidence, batches, receipts),
                    \A w \in Worker : pc[w] = "idle",
                    \A id \in BatchId : batches[id] # NoBatch =>
                      batches[id].updatedAt <= now
             PROVE  ServiceOK
  OBVIOUS
<1>1. \A w \in Worker : ~Moved(w)
  BY DEF Moved
<1>2. \A id \in BatchId : batches[id] # NoBatch =>
        Shaped(batches[id]) /\ Good(batches[id])
  BY GoodIsGoodIn DEF Whole
<1>3. Versions
  BY <1>2 DEF Versions, Shaped
<1>4. WorkersOK
  BY <1>1, <1>2 DEF WorkersOK, ShapesOK, RequestsOK, RequestsApart, MoversOK
<1>5. ReceiptsTellHistory
  BY DEF Whole, ReceiptsTellHistory, Reached
<1>6. FirstReceipts
  BY DEF Whole, FirstReceipts
<1>7. EvidenceOK
  BY <1>2 DEF EvidenceOK, Whole, Unique
<1>8. QED  BY <1>1, <1>3, <1>4, <1>5, <1>6, <1>7 DEF ServiceOK, Base, ReceiptsOK

\* Whole contents stay whole when a batch goes with its receipts.
LEMMA DeletionLeavesWhole ==
  ASSUME NEW items, NEW stored, NEW logs, Whole(items, stored, logs),
         DOMAIN stored = BatchId, DOMAIN logs = BatchId, NEW id \in BatchId
  PROVE  Whole(items, [stored EXCEPT ![id] = NoBatch], [logs EXCEPT ![id] = <<>>])
<1> DEFINE left1 == [stored EXCEPT ![id] = NoBatch]
           logs1 == [logs EXCEPT ![id] = <<>>]
<1>1. left1[id] = NoBatch /\ logs1[id] = <<>> /\ DOMAIN logs1[id] = {}
  OBVIOUS
<1>2. \A i \in BatchId \ {id} : left1[i] = stored[i] /\ logs1[i] = logs[i]
  OBVIOUS
<1> HIDE DEF left1, logs1
<1>3. Whole(items, left1, logs1)
  BY <1>1, <1>2 DEF Whole
<1>4. QED  BY <1>3 DEF left1, logs1

\* What the requests do keeps the invariants of the service.
LEMMA ServiceStep ==
  ASSUME HasCommitter, ServiceOK, [Next]_vars
  PROVE  ServiceOK'
<1>1. TypeInv' /\ Versions'
  BY TypeInvStep, VersionsStep DEF ServiceOK, Base
<1>2. WorkersOK' /\ ReceiptsOK' /\ FirstReceipts' /\ EvidenceOK'
  BY WorkersStep, ReceiptsStep, FirstReceiptsStep, EvidenceStep DEF ServiceOK
<1>3. QED  BY <1>1, <1>2 DEF ServiceOK, Base

\* Between requests nothing is about to be saved, so the store may be replaced.
LEMMA CalmStep ==
  ASSUME HasCommitter, AdminTypes, LineageOK, CalmOK, AdminNext
  PROVE  CalmOK'
<1>1. CASE Work
  <2>1. [Next]_vars /\ UNCHANGED <<calm, saved>>
    BY <1>1, WorkIsNext
  <2>2. QED  BY <2>1, ServiceStep DEF CalmOK
<1>2. CASE Administer
  <2> SUFFICES ASSUME calm'
               PROVE  ServiceOK' /\ \A s \in saved' :
                                     Whole(s.evidence, s.batches, s.receipts)
    BY DEF CalmOK
  <2>1. /\ ServiceOK /\ \A s \in saved : Whole(s.evidence, s.batches, s.receipts)
        /\ UNCHANGED <<now, request>> /\ \A w \in Worker : pc[w] = "idle"
    BY <1>2, AdministerEffect DEF CalmOK
  <2>2. Whole(evidence, batches, receipts) /\ RequestsApart
    BY <2>1, ServiceIsWhole
  <2>3. \/ UNCHANGED <<evidence, batches, receipts>> /\ saved' = {Contents}
        \/ /\ UNCHANGED saved
           /\ \E s \in saved : /\ evidence' = s.evidence /\ batches' = s.batches
                              /\ receipts' = s.receipts
        \/ /\ UNCHANGED <<saved, evidence>>
           /\ \E id \in BatchId : /\ batches' = [batches EXCEPT ![id] = NoBatch]
                                 /\ receipts' = [receipts EXCEPT ![id] = <<>>]
    BY <1>2, AdministerEffect DEF store
  <2>4. Whole(evidence', batches', receipts')
    <3>1. DOMAIN batches = BatchId /\ DOMAIN receipts = BatchId
      BY DEF AdminTypes, TypeInv, StoreOK, StoreTypeOK
    <3>2. QED  BY <2>1, <2>2, <2>3, <3>1, DeletionLeavesWhole
  <2>5. \A s \in saved' : Whole(s.evidence, s.batches, s.receipts)
    <3>1. Whole(Contents.evidence, Contents.batches, Contents.receipts)
      BY <2>2, ContentsAreTyped DEF AdminTypes
    <3>2. QED  BY <2>1, <2>3, <3>1
  <2>6. TypeInv' /\ LineageOK' /\ RequestsApart'
    BY <2>1, <2>2, LineageStep, AdminTypesStep DEF AdminTypes, RequestsApart, request
  <2>7. \A id \in BatchId : batches'[id] # NoBatch => batches'[id].updatedAt <= now'
    BY <2>6 DEF LineageOK
  <2>8. \A w \in Worker : pc'[w] = "idle"
    BY <2>1 DEF request
  <2>9. (/\ TypeInv /\ RequestsApart /\ Whole(evidence, batches, receipts)
         /\ \A w \in Worker : pc[w] = "idle"
         /\ \A id \in BatchId : batches[id] # NoBatch => batches[id].updatedAt <= now
         => ServiceOK)'
    BY WholeIsService, PTL
  <2>10. ServiceOK'
    BY <2>4, <2>6, <2>7, <2>8, <2>9
  <2>11. QED  BY <2>5, <2>10
<1>3. QED  BY <1>1, <1>2 DEF AdminNext

\* An empty store is whole.
LEMMA CalmInit == Open => CalmOK
<1>1. Init => ReceiptsOK /\ FirstReceipts /\ EvidenceOK /\ Base
  BY TypeInvInit, VersionsInit, WorkersInit, ReceiptsInit, EvidenceInit
     DEF Base, Init, FirstReceipts
<1>2. QED  BY <1>1 DEF Open, CalmOK, ServiceOK

\* Administered between requests only, the store keeps every batch with its
\* receipts and with evidence that satisfies the policy (commit.go:8, 38-39,
\* transaction.go:40).
THEOREM CalmStoresAreWhole ==
  ASSUME HasCommitter
  PROVE  AdminSpec => []CalmStoreIsWhole
<1>1. AdminTypes /\ LineageOK /\ CalmOK /\ [AdminNext]_adminVars => CalmOK'
  <2>1. CASE UNCHANGED adminVars
    <3>1. UNCHANGED vars /\ UNCHANGED <<calm, saved>>
      BY <2>1 DEF adminVars
    <3>2. QED  BY <3>1, ServiceStep DEF CalmOK
  <2>2. QED  BY <2>1, CalmStep
<1>2. CalmOK => CalmStoreIsWhole
  BY DEF CalmOK, ServiceOK, CalmStoreIsWhole, ReceiptsOK, FirstReceipts,
         ReceiptsMatchHistory, EvidenceOK, PolicyIsStable, Good
<1>3. QED  BY <1>1, <1>2, CalmInit, LineageInvariant, PTL DEF AdminSpec
=============================================================================
