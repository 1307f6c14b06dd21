-------------------------- MODULE LifecycleProofs --------------------------
(***************************************************************************)
(* Theorems about the process: what the requests do to the store while the *)
(* dispatcher works on the same notices, and what is left when main ends.  *)
(*                                                                         *)
(* ReviewService does not know of the dispatcher, and Dispatch does not    *)
(* know of the handlers.  What each promises holds of the process because  *)
(* the dispatcher touches no more of a notice than its state and attempts, *)
(* and the handlers do no more to the notices than add one about a batch   *)
(* that has none.                                                          *)
(***************************************************************************)
EXTENDS Lifecycle, ReviewRecordsProofs

\* Two notices that say the same.
SaysTheSame(m, n) ==
  m.batch = n.batch /\ m.recipient = n.recipient /\ m.event = n.event

\* The dispatcher's copies say what the stored notices say.
CopiesOK ==
  /\ round \in Seq((DOMAIN notices) \X Notification)
  /\ dpc \in {"check", "deliver", "save"} => round # <<>>
  /\ \A k \in DOMAIN round : SaysTheSame(round[k][2], notices[round[k][1]])

\* The invariants of the service and of the round, together.
ProcessOK == Records /\ NoticesOK /\ CopiesOK

\* The notices stay but for their states and attempts.
Remarked(old, new) ==
  /\ new \in Seq(Notification) /\ DOMAIN new = DOMAIN old
  /\ \A i \in DOMAIN old : SaysTheSame(new[i], old[i])

-----------------------------------------------------------------------------
(***************************************************************************)
(* The steps of the process.                                               *)
(***************************************************************************)

\* A step of the process is a step of the service, or the dispatcher's.
LEMMA LifeSteps ==
  ASSUME [Life]_lifeVars
  PROVE  \/ [Next]_vars /\ UNCHANGED <<dpc, round, deliveries>>
         \/ Dispatching
<1>1. CASE Requests
  BY <1>1 DEF Requests, Next, dispatch
<1>2. CASE Notifying
  BY <1>2 DEF Notifying, Delivery!SetFailure
<1>3. CASE Signal \/ Shutdown \/ Drain \/ TimeOut \/ ListenerFails
  BY <1>3 DEF Signal, Shutdown, Drain, TimeOut, ListenerFails, Turn, dispatch
<1>4. CASE UNCHANGED lifeVars
  BY <1>4 DEF lifeVars, dispatch
<1>5. QED  BY <1>1, <1>2, <1>3, <1>4 DEF Life

\* The lists PendingNotifications may return are of stored notices.
LEMMA ListedAreStored ==
  ASSUME NEW list \in Seq(Notification),
         NEW ids \in Delivery!PendingNotifications(list, Limit)
  PROVE  ids \in Seq(DOMAIN list)
<1> DEFINE S == Delivery!Undelivered(list)
           n == Delivery!Cardinality(S)
<1>1. n \in Nat
  <2>1. DOMAIN list = 1 .. Len(list) /\ Len(list) \in Nat
    OBVIOUS
  <2>2. IsFiniteSet(1 .. Len(list))
    BY <2>1, FS_Interval
  <2>3. S \subseteq 1 .. Len(list)
    BY <2>1 DEF Delivery!Undelivered
  <2>4. IsFiniteSet(S)
    BY <2>2, <2>3, FS_Subset
  <2>5. Cardinality(S) \in Nat
    BY <2>4, FS_CardinalityType
  <2>6. n = Cardinality(S)
    BY DEF Cardinality, Delivery!Cardinality
  <2>7. QED  BY <2>5, <2>6
<1>2. PICK s \in Delivery!SetToSeqs(S) :
        ids = IF Limit > 0 /\ Len(s) > Limit THEN SubSeq(s, 1, Limit) ELSE s
  BY DEF Delivery!PendingNotifications
<1>3. s \in [1 .. n -> S]
  BY DEF Delivery!SetToSeqs
<1>4. S \subseteq DOMAIN list
  BY DEF Delivery!Undelivered
<1> HIDE DEF S, n
<1>5. s \in Seq(DOMAIN list) /\ Len(s) = n
  BY <1>1, <1>3, <1>4
<1>6. Limit \in Nat
  BY LifecycleAssumption DEF LifecycleAssumption
<1>7. CASE Limit > 0 /\ Len(s) > Limit
  <2>1. ids = SubSeq(s, 1, Limit)
    BY <1>2, <1>7
  <2>2. QED  BY <1>5, <1>6, <1>7, <2>1
<1>8. CASE ~(Limit > 0 /\ Len(s) > Limit)
  BY <1>2, <1>5, <1>8
<1>9. QED  BY <1>7, <1>8

-----------------------------------------------------------------------------
(***************************************************************************)
(* The dispatcher leaves what the service relies on as it is.              *)
(***************************************************************************)

\* What an attempt does to a notice.
LEMMA AttemptsSayTheSame ==
  ASSUME NEW n \in Notification
  PROVE  /\ Delivery!MarkDelivered(n) \in Notification
         /\ SaysTheSame(Delivery!MarkDelivered(n), n)
         /\ Delivery!MarkFailed(n) \in Notification
         /\ SaysTheSame(Delivery!MarkFailed(n), n)
<1>1. Delivery!CountUp(n.attempts) \in Nat
  BY DEF Delivery!CountUp, Notification
<1>2. QED
  BY <1>1 DEF Delivery!MarkDelivered, Delivery!MarkFailed, Notification, SaysTheSame

\* The first entry of a round.
LEMMA FirstCopy ==
  ASSUME CopiesOK, dpc \in {"check", "deliver", "save"}
  PROVE  /\ round \in Seq((DOMAIN notices) \X Notification) /\ round # <<>>
         /\ 1 \in DOMAIN round /\ Head(round) = round[1]
         /\ round[1][1] \in DOMAIN notices /\ round[1][2] \in Notification
         /\ round[1] = <<round[1][1], round[1][2]>>
         /\ SaysTheSame(round[1][2], notices[round[1][1]])
<1>1. round \in Seq((DOMAIN notices) \X Notification) /\ round # <<>>
  BY DEF CopiesOK
<1>2. 1 \in DOMAIN round /\ Head(round) = round[1]
  BY <1>1
<1>3. round[1] \in (DOMAIN notices) \X Notification
  BY <1>1, <1>2
<1>4. QED  BY <1>1, <1>2, <1>3 DEF CopiesOK

\* List: the copies are fresh.
LEMMA ListCopies ==
  ASSUME notices \in Seq(Notification), CopiesOK, Delivery!List
  PROVE  CopiesOK' /\ UNCHANGED notices
<1>1. UNCHANGED notices
  BY DEF Delivery!List
<1>2. CASE Delivery!EndRound
  <2>1. dpc' = "select" /\ round' = <<>>
    BY <1>2 DEF Delivery!EndRound
  <2>2. QED  BY <1>1, <2>1 DEF CopiesOK
<1>3. CASE ~Delivery!EndRound
  <2>1. PICK ids \in Delivery!PendingNotifications(notices, Limit) :
          /\ dpc' = IF ids = <<>> THEN "select" ELSE "check"
          /\ round' = [k \in DOMAIN ids |-> <<ids[k], notices[ids[k]]>>]
    BY <1>3 DEF Delivery!List
  <2>2. ids \in Seq(DOMAIN notices)
    BY <2>1, ListedAreStored
  <2>3. DOMAIN ids = 1 .. Len(ids) /\ Len(ids) \in Nat
    BY <2>2
  <2>4. \A k \in DOMAIN ids : ids[k] \in DOMAIN notices /\ notices[ids[k]] \in Notification
    BY <2>2
  <2>5. round' \in Seq((DOMAIN notices) \X Notification) /\ DOMAIN round' = DOMAIN ids
    BY <2>1, <2>3, <2>4
  <2>6. dpc' = "check" => round' # <<>>
    <3>1. ids # <<>> => 1 \in DOMAIN ids
      BY <2>2, <2>3
    <3>2. round' = <<>> => DOMAIN round' = {}
      OBVIOUS
    <3>3. QED  BY <2>1, <2>5, <3>1, <3>2
  <2>7. dpc' \notin {"deliver", "save"}
    BY <2>1
  <2>8. \A k \in DOMAIN round' : SaysTheSame(round'[k][2], notices[round'[k][1]])
    BY <2>1, <2>5 DEF SaysTheSame
  <2>9. QED  BY <1>1, <2>5, <2>6, <2>7, <2>8 DEF CopiesOK
<1>4. QED  BY <1>1, <1>2, <1>3

\* Deliver: the copy is marked.
LEMMA DeliverCopies ==
  ASSUME CopiesOK, Delivery!Deliver
  PROVE  CopiesOK' /\ UNCHANGED notices
<1>1. /\ round \in Seq((DOMAIN notices) \X Notification) /\ round # <<>>
      /\ 1 \in DOMAIN round /\ Head(round) = round[1]
      /\ dpc' = "save" /\ UNCHANGED notices
  BY FirstCopy DEF Delivery!Deliver
<1>2. PICK i \in DOMAIN notices, item \in Notification :
        i = round[1][1] /\ item = round[1][2] /\ SaysTheSame(item, notices[i])
  BY FirstCopy DEF Delivery!Deliver
<1>3. PICK done \in Notification :
        round' = [round EXCEPT ![1] = <<i, done>>] /\ SaysTheSame(done, item)
  BY <1>1, <1>2, AttemptsSayTheSame DEF Delivery!Deliver
<1>4. /\ DOMAIN round' = DOMAIN round /\ round'[1] = <<i, done>>
      /\ \A k \in DOMAIN round : k # 1 => round'[k] = round[k]
  BY <1>1, <1>3
<1>5. round' \in Seq((DOMAIN notices) \X Notification) /\ round' # <<>>
  <2>1. <<i, done>> \in (DOMAIN notices) \X Notification
    OBVIOUS
  <2>2. round' \in Seq((DOMAIN notices) \X Notification)
    BY <1>1, <1>3, <2>1
  <2>3. QED  BY <1>1, <1>4, <2>2
<1>6. \A k \in DOMAIN round' : SaysTheSame(round'[k][2], notices[round'[k][1]])
  BY <1>2, <1>3, <1>4 DEF CopiesOK, SaysTheSame
<1>7. QED  BY <1>1, <1>5, <1>6 DEF CopiesOK

\* Save: the copy takes the place of the notice, and says the same.
LEMMA SaveCopies ==
  ASSUME notices \in Seq(Notification), CopiesOK, Delivery!Save
  PROVE  CopiesOK' /\ Remarked(notices, notices')
<1>1. /\ round \in Seq((DOMAIN notices) \X Notification) /\ round # <<>>
      /\ Head(round) = round[1] /\ round' = Tail(round)
      /\ dpc' = IF Tail(round) = <<>> THEN "select" ELSE "check"
  BY FirstCopy DEF Delivery!Save
<1>2. PICK i \in DOMAIN notices, item \in Notification :
        i = round[1][1] /\ item = round[1][2] /\ SaysTheSame(item, notices[i])
  BY FirstCopy DEF Delivery!Save
<1>3. notices' = [notices EXCEPT ![i] = item]
  BY <1>1, <1>2 DEF Delivery!Save, Delivery!SaveNotice
<1>4. Remarked(notices, notices')
  BY <1>2, <1>3 DEF Remarked, SaysTheSame
<1>5. /\ round' \in Seq((DOMAIN notices) \X Notification)
      /\ \A k \in DOMAIN round' : /\ k + 1 \in DOMAIN round
                                  /\ round'[k] = round[k + 1]
                                  /\ round'[k][1] \in DOMAIN notices
  BY <1>1
<1>6. ASSUME NEW k \in DOMAIN round'
      PROVE  SaysTheSame(round'[k][2], notices'[round'[k][1]])
  <2> PICK copy : copy = round'[k][2]
    OBVIOUS
  <2>1. PICK j \in DOMAIN notices : j = round'[k][1]
    BY <1>5
  <2>2. SaysTheSame(copy, notices[j])
    BY <1>5, <2>1 DEF CopiesOK
  <2>3. SaysTheSame(notices'[j], notices[j])
    BY <1>4 DEF Remarked
  <2>4. SaysTheSame(copy, notices'[j])
    BY <2>2, <2>3 DEF SaysTheSame
  <2>5. QED  BY <2>1, <2>4
<1>7. QED  BY <1>1, <1>4, <1>5, <1>6 DEF CopiesOK, Remarked

\* A step of the dispatcher changes the notices in their states and attempts
\* only, and keeps its copies in step with them.
LEMMA DispatchingStep ==
  ASSUME notices \in Seq(Notification), CopiesOK, Dispatching
  PROVE  CopiesOK' /\ Remarked(notices, notices')
<1>1. CASE Delivery!Save
  BY <1>1, SaveCopies
<1>2. CASE Delivery!List
  BY <1>2, ListCopies DEF Remarked, SaysTheSame
<1>3. CASE Delivery!Deliver
  BY <1>3, DeliverCopies DEF Remarked, SaysTheSame
<1>4. CASE Delivery!Check \/ Delivery!Wake \/ Delivery!Return
  <2>1. /\ UNCHANGED notices
        /\ \/ round' = <<>> /\ dpc' = "select"
           \/ UNCHANGED round /\ (round # <<>> \/ dpc' \in {"list", "stopped"})
    BY <1>4 DEF Delivery!Check, Delivery!Wake, Delivery!Return, Delivery!EndRound,
                CopiesOK
  <2>2. round' = <<>> \/ UNCHANGED round
    BY <2>1
  <2>3. round' \in Seq((DOMAIN notices') \X Notification)
    <3>1. CASE round' = <<>>
      BY <3>1
    <3>2. CASE UNCHANGED round
      BY <2>1, <3>2 DEF CopiesOK
    <3>3. QED  BY <2>2, <3>1, <3>2
  <2>4. dpc' \in {"check", "deliver", "save"} => round' # <<>>
    BY <2>1 DEF CopiesOK
  <2>5. QED  BY <2>1, <2>2, <2>3, <2>4 DEF CopiesOK, Remarked, SaysTheSame
<1>5. QED
  BY <1>1, <1>2, <1>3, <1>4 DEF Dispatching, Delivery!Dispatcher

-----------------------------------------------------------------------------
(***************************************************************************)
(* The handlers leave what the dispatcher relies on as it is.              *)
(***************************************************************************)

\* Of all the steps of the service only one touches the notices.
LEMMA OnlyQueueing ==
  ASSUME TypeInv, Versions, [Next]_vars
  PROVE  UNCHANGED notices \/ \E w \in Worker : QueueNotification(w)
<1>1. (\E w \in Worker : Quiet(w) \/ Stores(w) \/ Files(w)) \/ Idles
  BY StepEffect
<1>2. ASSUME NEW w \in Worker, Files(w), ~QueueNotification(w)
      PROVE  UNCHANGED notices
  BY <1>2 DEF Files, AppendReceipt, AppendAudit
<1>3. QED  BY <1>1, <1>2 DEF Quiet, Stores, Idles

\* A handler adds a notice about a batch that has none, dated in the past.
LEMMA QueueingQueues ==
  ASSUME Records, NoticesOK, NEW w \in Worker, QueueNotification(w)
  PROVE  \E recipient \in Recipient, event \in NoticeEvent, t \in 0 .. MaxTime :
           /\ task[w].batch \in BatchId
           /\ \A i \in DOMAIN notices : notices[i].batch # task[w].batch
           /\ notices' = Append(notices,
                [batch |-> task[w].batch, recipient |-> recipient, event |-> event,
                 state |-> "pending", attempts |-> 0, createdAt |-> t])
<1>1. pc[w] = "notify"
  BY DEF QueueNotification
<1>2. Moved(w) /\ task[w].recipient # "" /\ task[w].op \in Decisions
  BY <1>1 DEF Moved, Records, Base, TypeInv, HandlersOK, Holds, Decisions
<1>3. task[w].batch \in BatchId /\ seen[w].id = task[w].batch
  BY <1>2, MoverFacts DEF Records
<1>4. \A i \in DOMAIN notices : notices[i].batch # task[w].batch
  BY <1>1, <1>2 DEF NoticesOK, NoticeIsOwed
<1>5. PICK t \in Clock(w) :
        notices' = Append(notices,
          [batch |-> seen[w].id, recipient |-> task[w].recipient,
           event |-> AuditActionFor[task[w].op],
           state |-> "pending", attempts |-> 0, createdAt |-> t])
  BY DEF QueueNotification, QueueNotice
<1>6. t \in 0 .. MaxTime
  BY MaxTimeIsInstant DEF Clock, Records, Base, TypeInv, RequestTypeOK
<1>7. task[w].recipient \in Recipient /\ AuditActionFor[task[w].op] \in NoticeEvent
  BY <1>2, Tables DEF Records, Base, TypeInv, RequestTypeOK, Task, Decisions
<1>8. QED  BY <1>3, <1>4, <1>5, <1>6, <1>7

\* The copies of the round are not disturbed.
LEMMA ServiceCopies ==
  ASSUME Records, NoticesOK, CopiesOK, [Next]_vars, UNCHANGED <<dpc, round>>
  PROVE  CopiesOK'
<1>1. CASE UNCHANGED notices
  BY <1>1 DEF CopiesOK
<1>2. ASSUME NEW w \in Worker, QueueNotification(w)
      PROVE  CopiesOK'
  <2>1. PICK n : notices' = Append(notices, n)
    BY <1>2, QueueingQueues
  <2>2. notices \in Seq(Notification)
    BY DEF Records, Base, TypeInv, StoreOK, StoreTypeOK
  <2>3. /\ DOMAIN notices \subseteq DOMAIN notices'
        /\ \A i \in DOMAIN notices : notices'[i] = notices[i]
    BY <2>1, <2>2, AppendElements
  <2>4. round \in Seq((DOMAIN notices') \X Notification)
    <3>1. (DOMAIN notices) \X Notification \subseteq (DOMAIN notices') \X Notification
      BY <2>3
    <3>2. QED  BY <3>1 DEF CopiesOK
  <2>5. ASSUME NEW k \in DOMAIN round
        PROVE  SaysTheSame(round[k][2], notices'[round[k][1]])
    <3>1. round[k][1] \in DOMAIN notices
      BY DEF CopiesOK
    <3>2. QED  BY <2>3, <3>1 DEF CopiesOK
  <2>6. QED  BY <2>4, <2>5 DEF CopiesOK
<1>3. QED  BY <1>1, <1>2, OnlyQueueing DEF Records, Base

-----------------------------------------------------------------------------
(***************************************************************************)
(* The invariants of the service hold of the process.                      *)
(***************************************************************************)

\* A step of the dispatcher changes nothing they depend on.
LEMMA DispatchingKeeps ==
  ASSUME Records, NoticesOK, UNCHANGED <<now, evidence, batches, receipts, audits, request>>,
         Remarked(notices, notices')
  PROVE  Records' /\ NoticesOK' /\ (Owed => Owed')
<1>1. UNCHANGED <<now, evidence, batches, receipts, audits, pc, task, seen, since, gone>>
  BY DEF request
<1>2. TypeInv'
  <2>1. notices' \in Seq(Notification)
    BY DEF Remarked
  <2>2. QED
    BY <1>1, <2>1 DEF Records, Base, TypeInv, StoreOK, StoreTypeOK, RequestTypeOK,
       HandlersOK
<1>3. Versions' /\ WorkersOK'
  <2>1. Versions'
    BY <1>1 DEF Records, Base, Versions
  <2>2. ShapesOK' /\ RequestsOK'
    BY <1>1 DEF Records, Base, WorkersOK, ShapesOK, RequestsOK
  <2>3. ASSUME NEW w \in Worker
        PROVE  (Moved(w)' <=> Moved(w)) /\ (MoverOK(w)' <=> MoverOK(w))
    BY <1>1 DEF Moved, MoverOK, Reached
  <2>4. MoversOK'
    BY <1>1, <2>3 DEF Records, Base, WorkersOK, MoversOK
  <2>5. QED  BY <2>1, <2>2, <2>4 DEF WorkersOK
<1>4. ReceiptsOK'
  BY <1>1 DEF Records, ReceiptsOK, ReceiptsTellHistory, HasReceipt, Reached, Moved
<1>5. AuditsOK'
  <2>1. TrailOK'
    <3>1. ASSUME NEW key, NEW event
          PROVE  Told(key, event)' <=> Told(key, event)
      BY <1>1 DEF Told, HasReceipt, Reached
    <3>2. ASSUME NEW key, NEW i
          PROVE  Once(key, i)' <=> Once(key, i)
      BY <1>1 DEF Once
    <3>3. ASSUME NEW key \in DOMAIN audits, NEW i \in DOMAIN audits[key]
          PROVE  (Told(key, audits[key][i]) /\ Once(key, i))'
      <4>1. PICK event : event = audits[key][i]
        OBVIOUS
      <4>2. Told(key, event) /\ Once(key, i) /\ event = audits'[key][i]
        BY <1>1, <4>1 DEF Records, AuditsOK, TrailOK
      <4>3. QED  BY <3>1, <3>2, <4>2
    <3>4. QED  BY <1>1, <3>3 DEF TrailOK
  <2>2. ASSUME NEW w \in Worker
        PROVE  /\ Moved(w)' <=> Moved(w)
               /\ HasEvent(task[w].batch, task[w].op)'
                    <=> HasEvent(task[w].batch, task[w].op)
               /\ IsAudited(task[w].batch, task[w].op)'
                    <=> IsAudited(task[w].batch, task[w].op)
    BY <1>1 DEF Moved, HasEvent, IsAudited
  <2>3. QED  BY <1>1, <2>1, <2>2 DEF Records, AuditsOK
<1>6. NoticesOK'
  <2>1. DOMAIN notices' = DOMAIN notices
    BY DEF Remarked
  <2>2. ASSUME NEW i \in DOMAIN notices
        PROVE  /\ notices'[i].batch = notices[i].batch
               /\ notices'[i].recipient = notices[i].recipient
               /\ notices'[i].event = notices[i].event
    BY DEF Remarked, SaysTheSame
  <2>3. NoticeListOK'
    <3>1. ASSUME NEW i \in DOMAIN notices
          PROVE  NoticeIsTrue(notices[i])'
      <4>1. PICK old, new : old = notices[i] /\ new = notices'[i]
        OBVIOUS
      <4>2. /\ batches[old.batch] # NoBatch /\ batches[old.batch].state \in Decisions
            /\ old.event = AuditActionFor[batches[old.batch].state]
            /\ HasReceipt(old.batch, batches[old.batch].state)
            /\ IsAudited(old.batch, batches[old.batch].state)
        BY <4>1 DEF NoticesOK, NoticeListOK, NoticeIsTrue
      <4>3. new.batch = old.batch /\ new.event = old.event
        BY <2>2, <4>1
      <4>4. NoticeIsTrue(new)'
        BY <1>1, <4>2, <4>3 DEF NoticeIsTrue, HasReceipt, IsAudited
      <4>5. QED  BY <4>1, <4>4
    <3>2. ASSUME NEW i \in DOMAIN notices, NEW k \in DOMAIN notices,
                 notices'[k].batch = notices'[i].batch
          PROVE  k = i
      BY <2>2, <3>2 DEF NoticesOK, NoticeListOK
    <3>3. QED  BY <2>1, <3>1, <3>2 DEF NoticeListOK
  <2>4. ASSUME NEW w \in Worker
        PROVE  /\ NoticeIsQueued(w)' <=> NoticeIsQueued(w)
               /\ NoticeIsOwed(w)' <=> NoticeIsOwed(w)
               /\ Moved(w)' <=> Moved(w)
    BY <1>1, <2>1, <2>2 DEF NoticeIsQueued, NoticeIsOwed, Moved
  <2>5. QED  BY <1>1, <2>3, <2>4 DEF NoticesOK
<1>7. Owed => Owed'
  BY <1>1 DEF Owed, Reached, HasReceipt, IsAudited, Filing
<1>8. QED  BY <1>2, <1>3, <1>4, <1>5, <1>6, <1>7 DEF Records, Base

\* Every step of the process keeps its invariant.
LEMMA ProcessStep ==
  ASSUME ProcessOK, [Life]_lifeVars
  PROVE  ProcessOK'
<1>1. CASE [Next]_vars /\ UNCHANGED <<dpc, round>>
  <2>1. Records'
    BY <1>1, TypeInvStep, VersionsStep, WorkersStep, ReceiptsStep, AuditsStep
       DEF ProcessOK, Records, Base
  <2>2. NoticesOK'
    BY <1>1, NoticesStep DEF ProcessOK
  <2>3. CopiesOK'
    BY <1>1, ServiceCopies DEF ProcessOK
  <2>4. QED  BY <2>1, <2>2, <2>3 DEF ProcessOK
<1>2. CASE Dispatching
  <2>1. notices \in Seq(Notification)
    BY DEF ProcessOK, Records, Base, TypeInv, StoreOK, StoreTypeOK
  <2>2. CopiesOK' /\ Remarked(notices, notices')
    BY <1>2, <2>1, DispatchingStep DEF ProcessOK
  <2>3. UNCHANGED <<now, evidence, batches, receipts, audits, request>>
    BY <1>2 DEF Dispatching
  <2>4. QED  BY <2>2, <2>3, DispatchingKeeps DEF ProcessOK
<1>3. QED  BY <1>1, <1>2, LifeSteps

\* The process starts with nothing stored, at work or listed.
LEMMA ProcessInit == Boot => ProcessOK
<1> SUFFICES ASSUME Boot PROVE ProcessOK
  OBVIOUS
<1>1. Records /\ NoticesOK
  BY TypeInvInit, VersionsInit, WorkersInit, ReceiptsInit, AuditsInit, NoticesInit
     DEF Boot, Records, Base
<1>2. CopiesOK
  <2>1. round = <<>> /\ dpc = "list"
    BY DEF Boot
  <2>2. QED  BY <2>1 DEF CopiesOK
<1>3. QED  BY <1>1, <1>2 DEF ProcessOK

-----------------------------------------------------------------------------
(***************************************************************************)
(* Theorems.                                                               *)
(***************************************************************************)

\* Handlers and dispatcher keep each other's invariants.
THEOREM ProcessInvariant == LifeSpec => []ProcessOK
<1>1. ProcessOK /\ [Life]_lifeVars => ProcessOK'
  BY ProcessStep
<1>2. QED  BY ProcessInit, <1>1, PTL DEF LifeSpec

\* While the dispatcher marks notices, they keep telling decisions that stand
\* (notifications.go:25-39 next to batch.go:101-104).
THEOREM ProcessTellsTheDecision == LifeSpec => []NoticesTellTheDecision
<1>1. ProcessOK => NoticesTellTheDecision
  BY DEF ProcessOK, NoticesOK, NoticeListOK, NoticeIsTrue, Decisions,
     NoticesTellTheDecision
<1>2. QED  BY <1>1, ProcessInvariant, PTL

\* What the service makes sure of holds while the dispatcher works on the store:
\* receipts and trails tell what has happened, an answered request is recorded.
THEOREM ProcessKeepsRecords ==
  LifeSpec => [](ReceiptsTellHistory /\ AuditFollowsReceipt /\ AnsweredIsRecorded)
<1>1. ProcessOK => ReceiptsTellHistory /\ AuditFollowsReceipt /\ AnsweredIsRecorded
  BY TrailsFollow, AnswersHold DEF ProcessOK, Records, ReceiptsOK
<1>2. QED  BY <1>1, ProcessInvariant, PTL

\* Nor does the dispatcher, or the end of main, lose an update of a request.
THEOREM ProcessLosesNoUpdate == LifeSpec => NoLostUpdate
<1>1. ASSUME ProcessOK, [Life]_lifeVars
      PROVE  [\A id \in BatchId : batches'[id] # batches[id] =>
                OneLegalStep(batches[id], batches'[id])]_vars
  <2>1. CASE [Next]_vars
    BY <1>1, <2>1, VersionsStep DEF ProcessOK, Records, Base, LegalStep
  <2>2. CASE Dispatching
    BY <2>2 DEF Dispatching
  <2>3. QED  BY <1>1, <2>1, <2>2, LifeSteps
<1>2. QED  BY <1>1, ProcessInvariant, PTL DEF LifeSpec, NoLostUpdate

-----------------------------------------------------------------------------
(***************************************************************************)
(* The process is an instance of Dispatch.                                 *)
(***************************************************************************)

\* queueNotification is what Dispatch takes a decision to do.
LEMMA QueueingIsQueue ==
  ASSUME Records, NoticesOK, NEW w \in Worker, QueueNotification(w),
         UNCHANGED <<phase, dispatch>>
  PROVE  Delivery!Next
<1>1. PICK recipient \in Recipient, event \in NoticeEvent, t \in 0 .. MaxTime :
        /\ task[w].batch \in BatchId
        /\ \A i \in DOMAIN notices : notices[i].batch # task[w].batch
        /\ notices' = Append(notices,
             [batch |-> task[w].batch, recipient |-> recipient, event |-> event,
              state |-> "pending", attempts |-> 0, createdAt |-> t])
  BY QueueingQueues
<1>2. UNCHANGED <<dpc, round, deliveries, failing>> /\ UNCHANGED phase
  BY DEF dispatch
<1>3. Delivery!Queue(task[w].batch, recipient, event)
  BY <1>1, <1>2 DEF Delivery!Queue, Delivery!QueueNotice
<1>4. QED  BY <1>1, <1>3 DEF Delivery!Next, Delivery!Environment

\* Every step of the process is one of Dispatch, or nothing to it.
LEMMA DeliveryStep ==
  ASSUME ProcessOK, [Life]_lifeVars
  PROVE  [Delivery!Next]_(Delivery!vars)
<1>1. ASSUME UNCHANGED <<notices, dpc, round, deliveries, failing>>,
             (phase' # "serving") <=> (phase # "serving")
      PROVE  UNCHANGED Delivery!vars
  BY <1>1 DEF Delivery!vars
<1>2. CASE Requests
  <2>1. [Next]_vars /\ UNCHANGED <<phase, dispatch>>
    BY <1>2 DEF Requests, Next
  <2>2. UNCHANGED <<dpc, round, deliveries, failing>> /\ UNCHANGED phase
    BY <2>1 DEF dispatch
  <2>3. CASE UNCHANGED notices
    BY <1>1, <2>2, <2>3
  <2>4. ASSUME NEW w \in Worker, QueueNotification(w)
        PROVE  Delivery!Next
    BY <2>1, <2>4, QueueingIsQueue DEF ProcessOK
  <2>5. QED  BY <2>1, <2>3, <2>4, OnlyQueueing DEF ProcessOK, Records, Base
<1>3. CASE Dispatching
  BY <1>3 DEF Dispatching, Delivery!Next
<1>4. CASE Notifying
  BY <1>4 DEF Notifying, Delivery!Next, Delivery!Environment
<1>5. CASE Signal \/ ListenerFails
  <2>1. /\ phase = "serving" /\ phase' # "serving"
        /\ UNCHANGED <<notices, dpc, round, deliveries, failing>>
    BY <1>5 DEF Signal, ListenerFails, Turn, vars, store, dispatch
  <2>2. Delivery!StopSignal
    BY <2>1 DEF Delivery!StopSignal
  <2>3. QED  BY <2>2 DEF Delivery!Next, Delivery!Environment
<1>6. CASE Shutdown \/ Drain \/ TimeOut \/ UNCHANGED lifeVars
  <2>1. /\ UNCHANGED <<notices, dpc, round, deliveries, failing>>
        /\ phase' # "serving" <=> phase # "serving"
    BY <1>6 DEF Shutdown, Drain, TimeOut, Turn, lifeVars, vars, store, dispatch
  <2>2. QED  BY <1>1, <2>1
<1>7. QED  BY <1>2, <1>3, <1>4, <1>5, <1>6 DEF Life

\* The store the handlers and the dispatcher share is used as Dispatch takes for
\* granted: what holds of Dispatch holds of the process.
THEOREM DeliveryIsImplemented == LifeSpec => ImplementsDelivery
<1>1. Boot => Delivery!Init
  BY DEF Boot, Init, Delivery!Init
<1>2. ProcessOK /\ [Life]_lifeVars => [Delivery!Next]_(Delivery!vars)
  BY DeliveryStep
<1>3. QED
  BY <1>1, <1>2, ProcessInvariant, PTL DEF LifeSpec, ImplementsDelivery, Delivery!Spec

\* The process as a dispatcher alone, and what is proved of one.
Alone == INSTANCE DispatchProofs WITH
  stopping <- phase # "serving",
  OfferedEvents <- NoticeEvent

\* The process assumes of its constants what a dispatcher alone assumes.
LEMMA AloneAssumptions ==
  /\ Name \subseteq Seq(STRING)
  /\ NoBatch \notin Alone!Batch /\ Never \notin Alone!Instant
  /\ "" \notin Recipient /\ Policy \in Alone!ReviewPolicy
  /\ NoticeEvent \subseteq Alone!NoticeEvent
  /\ Limit \in Nat /\ MaxTime \in Nat /\ AttemptCap \in Nat \ {0}
<1>1. Alone!Instant = Instant /\ Alone!NoticeEvent = NoticeEvent
  BY DEF Alone!Instant, Instant, Alone!NoticeEvent, NoticeEvent
<1>2. Alone!ReviewPolicy = ReviewPolicy
  BY DEF Alone!ReviewPolicy, ReviewPolicy
<1>3. Alone!Batch = Batch
  BY <1>1 DEF Alone!Batch, Batch, Alone!Scope, Scope, Alone!BatchState, BatchState
<1>4. QED
  BY <1>1, <1>2, <1>3, DomainAssumption, NameAssumption, ServiceAssumption,
     LifecycleAssumption

\* Either way it takes the same steps.
LEMMA AloneSteps ==
  [Delivery!Next]_(Delivery!vars) => [Alone!Next]_(Alone!vars)
<1>1. ASSUME NEW list, NEW limit
      PROVE  Delivery!PendingNotifications(list, limit)
               = Alone!PendingNotifications(list, limit)
  <2>1. Delivery!Undelivered(list) = Alone!Undelivered(list)
    BY DEF Delivery!Undelivered, Alone!Undelivered
  <2>2. \A S : Delivery!Cardinality(S) = Alone!Cardinality(S)
    BY DEF Delivery!Cardinality, Alone!Cardinality
  <2>3. \A S : Delivery!SetToSeqs(S) = Alone!SetToSeqs(S)
    BY <2>2 DEF Delivery!SetToSeqs, Alone!SetToSeqs
  <2>4. QED
    BY <2>1, <2>3 DEF Delivery!PendingNotifications, Alone!PendingNotifications
<1>2. ASSUME NEW n
      PROVE  /\ Delivery!MarkDelivered(n) = Alone!MarkDelivered(n)
             /\ Delivery!MarkFailed(n) = Alone!MarkFailed(n)
  BY DEF Delivery!MarkDelivered, Alone!MarkDelivered, Delivery!MarkFailed, Alone!MarkFailed,
     Delivery!CountUp, Alone!CountUp
<1>3. Delivery!List => Alone!List
  BY <1>1 DEF Delivery!List, Alone!List, Delivery!EndRound, Alone!EndRound
<1>4. Delivery!Check => Alone!Check
  BY DEF Delivery!Check, Alone!Check, Delivery!EndRound, Alone!EndRound
<1>5. Delivery!Deliver => Alone!Deliver
  BY <1>2 DEF Delivery!Deliver, Alone!Deliver
<1>6. Delivery!Save => Alone!Save
  BY DEF Delivery!Save, Alone!Save, Delivery!SaveNotice, Alone!SaveNotice
<1>7. Delivery!Wake \/ Delivery!Return => Alone!Wake \/ Alone!Return
  BY DEF Delivery!Wake, Alone!Wake, Delivery!Return, Alone!Return
<1>8. Delivery!Environment => Alone!Environment
  BY DEF Delivery!Environment, Alone!Environment, Delivery!Queue, Alone!Queue,
     Delivery!QueueNotice, Alone!QueueNotice, Delivery!SetFailure, Alone!SetFailure,
     Delivery!StopSignal, Alone!StopSignal
<1>9. UNCHANGED Delivery!vars => UNCHANGED Alone!vars
  BY DEF Delivery!vars, Alone!vars
<1>10. QED
  BY <1>3, <1>4, <1>5, <1>6, <1>7, <1>8, <1>9
     DEF Delivery!Next, Alone!Next, Delivery!Dispatcher, Alone!Dispatcher

\* In the process too no recipient gets a notice twice, the outcome of a delivery
\* is kept whatever requests and the signal do, and a copy of a round is never
\* stale (notifications.go:25-39 next to batch.go:101-104 and main.go:22-36).
THEOREM ProcessDeliversOnce ==
  LifeSpec => [](/\ Delivery!NoDuplicateDelivery
                 /\ Delivery!OutcomeIsPreserved
                 /\ Delivery!CopiesAreCurrent)
<1>1. Boot => Alone!DispatchOK
  <2>1. Boot => Alone!Init
    BY DEF Boot, Init, Alone!Init
  <2>2. QED  BY <2>1, AloneAssumptions, Alone!DispatchInit
<1>2. Alone!DispatchOK /\ [Alone!Next]_(Alone!vars) => Alone!DispatchOK'
  BY AloneAssumptions, Alone!DispatchStep
<1>3. ProcessOK /\ [Life]_lifeVars /\ Alone!DispatchOK => Alone!DispatchOK'
  BY <1>2, AloneSteps, DeliveryStep
<1>4. Alone!DispatchOK => /\ Delivery!NoDuplicateDelivery
                          /\ Delivery!OutcomeIsPreserved
                          /\ Delivery!CopiesAreCurrent
  BY DEF Alone!DispatchOK, Alone!NoDuplicateDelivery, Delivery!NoDuplicateDelivery,
     Alone!OutcomeIsPreserved, Delivery!OutcomeIsPreserved, Alone!IsDelivered,
     Delivery!IsDelivered, Alone!CopiesAreCurrent, Delivery!CopiesAreCurrent,
     Alone!MarkDelivered, Delivery!MarkDelivered, Alone!MarkFailed, Delivery!MarkFailed,
     Alone!CountUp, Delivery!CountUp
<1>5. QED  BY <1>1, <1>3, <1>4, ProcessInvariant, PTL DEF LifeSpec

-----------------------------------------------------------------------------
(***************************************************************************)
(* The end of main.                                                        *)
(***************************************************************************)

\* Main returns from Shutdown when nothing is under way, and that is the end.
DrainedIsIdle == phase = "drained" => Idle

\* A server that has drained takes no request: what is filed stays filed.
LEMMA DrainedStep ==
  ASSUME DrainedIsIdle, [Life]_lifeVars
  PROVE  DrainedIsIdle'
<1>1. CASE Requests \/ Dispatching \/ Notifying
  BY <1>1 DEF Requests, Dispatching, Notifying, Running, DrainedIsIdle
<1>2. CASE Drain
  BY <1>2 DEF Drain, Turn, vars, request, Idle, DrainedIsIdle
<1>3. CASE Signal \/ Shutdown \/ TimeOut \/ ListenerFails
  BY <1>3 DEF Signal, Shutdown, TimeOut, ListenerFails, Turn, DrainedIsIdle
<1>4. CASE UNCHANGED lifeVars
  BY <1>4 DEF lifeVars, vars, request, Idle, DrainedIsIdle
<1>5. QED  BY <1>1, <1>2, <1>3, <1>4 DEF Life

\* As long as clients stay, every step keeps missing records owed.
LEMMA ProcessOwes ==
  ASSUME ~MayDisconnect, ProcessOK, Owed, [Life]_lifeVars
  PROVE  Owed'
<1>1. CASE [Next]_vars
  BY <1>1, OwedStep DEF ProcessOK
<1>2. CASE Dispatching
  <2>1. Remarked(notices, notices')
    BY <1>2, DispatchingStep DEF ProcessOK, Records, Base, TypeInv, StoreOK, StoreTypeOK
  <2>2. UNCHANGED <<now, evidence, batches, receipts, audits, request>>
    BY <1>2 DEF Dispatching
  <2>3. QED  BY <2>1, <2>2, DispatchingKeeps DEF ProcessOK
<1>3. QED  BY <1>1, <1>2, LifeSteps

\* As long as clients stay, a shutdown that runs to its end leaves no record
\* owed (main.go:34-36).
THEOREM DrainedMeansFiled ==
  ASSUME ~MayDisconnect
  PROVE  LifeSpec => []DrainedIsFiled
<1>1. Boot => Owed /\ DrainedIsIdle
  BY DEF Boot, Init, Owed, Reached, History, DrainedIsIdle
<1>2. ProcessOK /\ Owed /\ [Life]_lifeVars => Owed'
  BY ProcessOwes
<1>3. DrainedIsIdle /\ [Life]_lifeVars => DrainedIsIdle'
  BY DrainedStep
<1>4. Owed /\ DrainedIsIdle => DrainedIsFiled
  BY DEF Owed, DrainedIsIdle, DrainedIsFiled, Idle, Filing
<1>5. QED  BY <1>1, <1>2, <1>3, <1>4, ProcessInvariant, PTL DEF LifeSpec
=============================================================================
