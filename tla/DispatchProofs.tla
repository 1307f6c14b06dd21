--------------------------- MODULE DispatchProofs ---------------------------
(***************************************************************************)
(* Theorems about Dispatch.                                                *)
(***************************************************************************)
EXTENDS Dispatch, SequenceTheorems, FiniteSetTheorems, TLAPS

\* No value occurs twice in a sequence.
Injective(s) == \A j, k \in DOMAIN s : s[j] = s[k] => j = k

\* The lists PendingNotifications may return hold undelivered notices, each
\* once.
LEMMA ListedOnce ==
  ASSUME NEW list \in Seq(Notification), NEW limit \in Nat,
         NEW ids \in PendingNotifications(list, limit)
  PROVE  ids \in Seq(Undelivered(list)) /\ Injective(ids)
<1> DEFINE S == Undelivered(list)
           n == Cardinality(S)
<1>1. n \in Nat
  <2>1. DOMAIN list = 1 .. Len(list) /\ Len(list) \in Nat
    OBVIOUS
  <2>2. IsFiniteSet(1 .. Len(list))
    BY <2>1, FS_Interval
  <2>3. S \subseteq 1 .. Len(list)
    BY <2>1 DEF Undelivered
  <2>4. IsFiniteSet(S)
    BY <2>2, <2>3, FS_Subset
  <2>5. QED  BY <2>4, FS_CardinalityType
<1>2. PICK s \in SetToSeqs(S) :
        ids = IF limit > 0 /\ Len(s) > limit THEN SubSeq(s, 1, limit) ELSE s
  BY DEF PendingNotifications
<1>3. /\ s \in [1 .. n -> S]
      /\ \A i, j \in 1 .. n : i # j => s[i] # s[j]
  BY DEF SetToSeqs
<1> HIDE DEF S, n
<1>4. s \in Seq(S) /\ Len(s) = n /\ DOMAIN s = 1 .. n
  BY <1>1, <1>3
<1>5. Injective(s)
  BY <1>3, <1>4 DEF Injective
<1>6. CASE limit > 0 /\ Len(s) > limit
  <2>1. ids = SubSeq(s, 1, limit)
    BY <1>2, <1>6
  <2>2. /\ ids \in Seq(S) /\ Len(ids) = limit /\ limit <= n
        /\ \A i \in 1 .. limit : ids[i] = s[i]
    BY <1>1, <1>4, <1>6, <2>1
  <2>3. DOMAIN ids = 1 .. limit
    BY <2>2
  <2>4. Injective(ids)
    BY <1>1, <1>4, <1>5, <2>2, <2>3 DEF Injective
  <2>5. QED  BY <2>2, <2>4 DEF S
<1>7. CASE ~(limit > 0 /\ Len(s) > limit)
  BY <1>2, <1>4, <1>5, <1>7 DEF S
<1>8. QED  BY <1>6, <1>7


\* The outcome of a delivery is a notice, marked.
LEMMA Marks ==
  ASSUME NEW n \in Notification
  PROVE  /\ MarkDelivered(n) \in Notification
         /\ MarkDelivered(n).state = "delivered"
         /\ MarkFailed(n) \in Notification
         /\ MarkFailed(n).state = "failed"
<1>1. CountUp(n.attempts) \in Nat
  BY DEF CountUp, Notification
<1>2. QED  BY <1>1 DEF MarkDelivered, MarkFailed, Notification

-----------------------------------------------------------------------------
(***************************************************************************)
(* The invariant.  The properties of the runs need each other - a notice   *)
(* is delivered once because its copy is current, and the copy is current  *)
(* because the outcome of the last delivery was saved - and they need the  *)
(* round: it lists a notice once, and none that is marked delivered.       *)
(***************************************************************************)
RoundOK ==
  /\ \A j, k \in DOMAIN round : round[j][1] = round[k][1] => j = k
  /\ \A k \in DOMAIN round : notices[round[k][1]].state # "delivered"

DispatchOK ==
  /\ TypeOK /\ RoundOK
  /\ NoDuplicateDelivery /\ OutcomeIsPreserved /\ CopiesAreCurrent

\* The entries of a round.
LEMMA Entries ==
  ASSUME TypeOK
  PROVE  /\ \A k \in DOMAIN round :
              /\ round[k][1] \in DOMAIN notices /\ round[k][2] \in Notification
              /\ round[k] = <<round[k][1], round[k][2]>>
         /\ \A k \in DOMAIN deliveries : deliveries[k] \in DOMAIN notices
         /\ \A i \in DOMAIN notices : notices[i] \in Notification
BY DEF TypeOK

\* The entry a call is about.
LEMMA FirstEntry ==
  ASSUME TypeOK, dpc \in {"check", "deliver", "save"}
  PROVE  round # <<>> /\ 1 \in DOMAIN round /\ Head(round) = round[1]
<1>1. round # <<>> /\ round \in Seq((DOMAIN notices) \X Notification)
  BY DEF TypeOK
<1>2. QED  BY <1>1

\* Steps between two calls that change nothing: the round stays or is given up.
LEMMA TurnStep ==
  ASSUME DispatchOK, UNCHANGED <<notices, deliveries>>,
         dpc # "save", dpc' \in {"list", "check", "deliver", "select", "stopped"},
         failing' \subseteq Recipient, stopping' \in BOOLEAN,
         \/ round' = <<>> /\ dpc' \in {"list", "select", "stopped"}
         \/ /\ round' = round
            /\ round = <<>> <=> dpc' \in {"list", "select", "stopped"}
  PROVE  DispatchOK'
<1>1. TypeOK'
  <2>1. round' \in Seq((DOMAIN notices) \X Notification)
    <3>1. round \in Seq((DOMAIN notices) \X Notification)
      BY DEF DispatchOK, TypeOK
    <3>2. <<>> \in Seq((DOMAIN notices) \X Notification)
      OBVIOUS
    <3>3. QED  BY <3>1, <3>2
  <2>2. round' = <<>> <=> dpc' \in {"list", "select", "stopped"}
    OBVIOUS
  <2>3. QED  BY <2>1, <2>2 DEF DispatchOK, TypeOK
<1>2. RoundOK'
  BY DEF DispatchOK, RoundOK
<1>3. NoDuplicateDelivery'
  BY DEF DispatchOK, NoDuplicateDelivery
<1>4. OutcomeIsPreserved'
  BY DEF DispatchOK, OutcomeIsPreserved, IsDelivered
<1>5. CopiesAreCurrent'
  BY DEF DispatchOK, CopiesAreCurrent
<1>6. QED  BY <1>1, <1>2, <1>3, <1>4, <1>5 DEF DispatchOK

\* PendingNotifications: the copies are fresh.
LEMMA ListStep == ASSUME DispatchOK, List PROVE DispatchOK'
<1>1. CASE stopping
  BY <1>1, TurnStep DEF List, EndRound, DispatchOK, TypeOK
<1>2. CASE ~stopping
  <2>1. PICK ids \in PendingNotifications(notices, Limit) :
          /\ dpc' = IF ids = <<>> THEN "select" ELSE "check"
          /\ round' = [k \in DOMAIN ids |-> <<ids[k], notices[ids[k]]>>]
    BY <1>2 DEF List
  <2>2. ids \in Seq(Undelivered(notices)) /\ Injective(ids)
    BY <2>1, ListedOnce, DispatchAssumption
       DEF DispatchOK, TypeOK, DispatchAssumption
  <2>3. \A k \in DOMAIN ids : /\ ids[k] \in DOMAIN notices
                              /\ notices[ids[k]] \in Notification
                              /\ notices[ids[k]].state # "delivered"
    <3>1. \A k \in DOMAIN ids : ids[k] \in Undelivered(notices)
      BY <2>2
    <3>2. \A i \in DOMAIN notices : notices[i] \in Notification
      BY Entries DEF DispatchOK
    <3>3. QED  BY <3>1, <3>2 DEF Undelivered
  <2>4. /\ UNCHANGED <<notices, deliveries, failing, stopping>>
        /\ dpc # "save" /\ dpc' # "save"
    BY <2>1 DEF List
  <2>5. /\ DOMAIN round' = DOMAIN ids
        /\ \A k \in DOMAIN ids : /\ round'[k][1] = ids[k]
                                 /\ round'[k][2] = notices[ids[k]]
    BY <2>1
  <2>6. TypeOK'
    <3>1. DOMAIN ids = 1 .. Len(ids) /\ Len(ids) \in Nat
      BY <2>2
    <3>2. round' \in Seq((DOMAIN notices) \X Notification)
      BY <2>1, <2>3, <3>1
    <3>3. round' = <<>> <=> ids = <<>>
      BY <2>1, <2>2, <3>1, <3>2
    <3>4. QED  BY <2>1, <2>4, <3>2, <3>3 DEF DispatchOK, TypeOK
  <2>7. RoundOK'
    BY <2>2, <2>3, <2>4, <2>5 DEF RoundOK, Injective
  <2>8. NoDuplicateDelivery'
    BY <2>4 DEF DispatchOK, NoDuplicateDelivery
  <2>9. OutcomeIsPreserved'
    BY <2>4 DEF DispatchOK, OutcomeIsPreserved, IsDelivered
  <2>10. CopiesAreCurrent'
    BY <2>4, <2>5 DEF CopiesAreCurrent
  <2>11. QED  BY <2>6, <2>7, <2>8, <2>9, <2>10 DEF DispatchOK
<1>3. QED  BY <1>1, <1>2

\* The context is looked at, the loop goes round or returns, the world changes.
LEMMA OtherSteps ==
  ASSUME DispatchOK,
         \/ Check \/ Wake \/ Return \/ StopSignal
         \/ \E recipients \in SUBSET Recipient : SetFailure(recipients)
         \/ UNCHANGED vars
  PROVE  DispatchOK'
<1>1. CASE Check
  BY <1>1, TurnStep DEF Check, EndRound, DispatchOK, TypeOK
<1>2. CASE Wake \/ Return
  BY <1>2, TurnStep DEF Wake, Return, DispatchOK, TypeOK
<1>3. CASE \/ StopSignal \/ UNCHANGED vars
           \/ \E recipients \in SUBSET Recipient : SetFailure(recipients)
  <2>1. UNCHANGED <<notices, dpc, round, deliveries>>
    BY <1>3 DEF StopSignal, SetFailure, vars
  <2>2. failing' \subseteq Recipient /\ stopping' \in BOOLEAN
    BY <1>3 DEF StopSignal, SetFailure, vars, DispatchOK, TypeOK
  <2>3. QED
    BY <2>1, <2>2 DEF DispatchOK, TypeOK, RoundOK, NoDuplicateDelivery,
       OutcomeIsPreserved, CopiesAreCurrent, IsDelivered
<1>4. QED  BY <1>1, <1>2, <1>3


\* queueNotification: the new notice has no delivery and no entry.
LEMMA QueueStep ==
  ASSUME DispatchOK, NEW batch \in BatchId, NEW recipient \in Recipient,
         NEW event \in OfferedEvents, Queue(batch, recipient, event)
  PROVE  DispatchOK'
<1>1. PICK t \in 0 .. MaxTime :
        notices' = QueueNotice(notices,
          [batch |-> batch, recipient |-> recipient, event |-> event,
           state |-> "pending", attempts |-> 0, createdAt |-> t])
  BY DEF Queue
<1> DEFINE n == [batch |-> batch, recipient |-> recipient, event |-> event,
                 state |-> "pending", attempts |-> 0, createdAt |-> t]
<1>2. n \in Notification /\ n.state = "pending"
  BY DispatchAssumption DEF DispatchAssumption, Notification, Instant
<1>3. notices' = Append(notices, n)
  BY <1>1 DEF QueueNotice
<1> HIDE DEF n
<1>4. UNCHANGED <<dpc, round, deliveries, failing, stopping>>
  BY DEF Queue
<1>5. notices \in Seq(Notification)
  BY DEF DispatchOK, TypeOK
<1>6. /\ notices' \in Seq(Notification)
      /\ DOMAIN notices' = DOMAIN notices \cup {Len(notices) + 1}
      /\ Len(notices) + 1 \notin DOMAIN notices
      /\ \A i \in DOMAIN notices : notices'[i] = notices[i]
      /\ notices'[Len(notices) + 1] = n
  BY <1>2, <1>3, <1>5
<1> DEFINE last == Len(notices) + 1
<1> HIDE DEF last
<1>7. /\ \A k \in DOMAIN round : round[k][1] \in DOMAIN notices
      /\ \A k \in DOMAIN deliveries : deliveries[k] \in DOMAIN notices
  BY Entries DEF DispatchOK
<1>8. TypeOK'
  <2>1. round \in Seq((DOMAIN notices') \X Notification)
    <3>1. round \in Seq((DOMAIN notices) \X Notification)
      BY DEF DispatchOK, TypeOK
    <3>2. (DOMAIN notices) \X Notification \subseteq (DOMAIN notices') \X Notification
      BY <1>6
    <3>3. QED  BY <3>1, <3>2
  <2>2. deliveries \in Seq(DOMAIN notices')
    <3>1. deliveries \in Seq(DOMAIN notices)
      BY DEF DispatchOK, TypeOK
    <3>2. QED  BY <1>6, <3>1
  <2>3. QED  BY <1>4, <1>6, <2>1, <2>2 DEF DispatchOK, TypeOK
<1>9. RoundOK'
  BY <1>4, <1>6, <1>7 DEF DispatchOK, RoundOK
<1>10. NoDuplicateDelivery'
  BY <1>4 DEF DispatchOK, NoDuplicateDelivery
<1>11. OutcomeIsPreserved'
  <2>1. ~IsDelivered(last)
    BY <1>6, <1>7 DEF IsDelivered, last
  <2>2. notices'[last] = n /\ n.state # "delivered"
    BY <1>2, <1>6 DEF last
  <2>3. dpc = "save" => Head(round)[1] # last
    BY <1>6, <1>7, FirstEntry DEF DispatchOK, last
  <2>4. DOMAIN notices' = DOMAIN notices \cup {last}
    BY <1>6 DEF last
  <2>5. SUFFICES ASSUME NEW i \in DOMAIN notices'
                 PROVE  IF dpc = "save" /\ Head(round)[1] = i
                        THEN Head(round)[2].state = "delivered" <=> IsDelivered(i)
                        ELSE notices'[i].state = "delivered" <=> IsDelivered(i)
    BY <1>4 DEF OutcomeIsPreserved, IsDelivered
  <2>6. CASE i = last
    BY <2>1, <2>2, <2>3, <2>6
  <2>7. CASE i \in DOMAIN notices
    BY <1>6, <2>7 DEF DispatchOK, OutcomeIsPreserved
  <2>8. QED  BY <2>4, <2>6, <2>7
<1>12. CopiesAreCurrent'
  BY <1>4, <1>6, <1>7 DEF DispatchOK, CopiesAreCurrent
<1>13. QED  BY <1>8, <1>9, <1>10, <1>11, <1>12 DEF DispatchOK


\* Deliver: a notice that was not delivered is, or its delivery fails.
LEMMA DeliverStep == ASSUME DispatchOK, Deliver PROVE DispatchOK'
<1>1. /\ 1 \in DOMAIN round /\ round # <<>> /\ Head(round) = round[1]
      /\ dpc = "deliver" /\ dpc' = "save"
      /\ UNCHANGED <<notices, failing, stopping>>
  BY FirstEntry DEF DispatchOK, Deliver
<1>2. PICK i \in DOMAIN notices : i = round[1][1]
  BY <1>1, Entries DEF DispatchOK
<1>3. PICK item \in Notification : item = round[1][2] /\ item = notices[i]
  <2>1. round[1][2] = notices[i]
    BY <1>1, <1>2 DEF DispatchOK, CopiesAreCurrent
  <2>2. QED  BY <1>1, <2>1, Entries DEF DispatchOK
<1>4. item.state # "delivered" /\ ~IsDelivered(i)
  <2>1. item.state # "delivered"
    BY <1>1, <1>2, <1>3 DEF DispatchOK, RoundOK
  <2>2. QED  BY <1>1, <1>3, <2>1 DEF DispatchOK, OutcomeIsPreserved
<1>5. PICK done \in Notification :
        /\ round' = [round EXCEPT ![1] = <<i, done>>]
        /\ \/ done = MarkFailed(item) /\ UNCHANGED deliveries
           \/ done = MarkDelivered(item) /\ deliveries' = Append(deliveries, i)
  BY <1>1, <1>2, <1>3, Marks DEF Deliver
<1>6. /\ DOMAIN round' = DOMAIN round
      /\ round'[1] = <<i, done>>
      /\ \A k \in DOMAIN round : k # 1 => round'[k] = round[k]
      /\ round' \in Seq((DOMAIN notices) \X Notification) /\ round' # <<>>
  <2>1. round \in Seq((DOMAIN notices) \X Notification)
    BY DEF DispatchOK, TypeOK
  <2>2. <<i, done>> \in (DOMAIN notices) \X Notification
    OBVIOUS
  <2>3. /\ DOMAIN round' = DOMAIN round
        /\ round'[1] = <<i, done>>
        /\ \A k \in DOMAIN round : k # 1 => round'[k] = round[k]
    BY <1>1, <1>5
  <2>4. round' \in Seq((DOMAIN notices) \X Notification)
    BY <1>1, <1>5, <2>1, <2>2
  <2>5. QED  BY <1>1, <2>3, <2>4
<1>7. Head(round') = <<i, done>>
  BY <1>6
<1>8. \A k \in DOMAIN round : round'[k][1] = round[k][1]
  BY <1>2, <1>6
<1>9. /\ deliveries \in Seq(DOMAIN notices) /\ deliveries' \in Seq(DOMAIN notices)
  <2>1. deliveries \in Seq(DOMAIN notices)
    BY DEF DispatchOK, TypeOK
  <2>2. Append(deliveries, i) \in Seq(DOMAIN notices)
    BY <2>1
  <2>3. QED  BY <1>5, <2>1, <2>2
<1>10. /\ \A j \in DOMAIN notices : j # i => (IsDelivered(j)' <=> IsDelivered(j))
       /\ IsDelivered(i)' <=> done = MarkDelivered(item)
  <2>1. CASE done = MarkFailed(item) /\ UNCHANGED deliveries
    BY <1>4, <2>1, Marks DEF IsDelivered
  <2>2. CASE done = MarkDelivered(item) /\ deliveries' = Append(deliveries, i)
    <3>1. /\ DOMAIN deliveries' = DOMAIN deliveries \cup {Len(deliveries) + 1}
          /\ \A k \in DOMAIN deliveries : deliveries'[k] = deliveries[k]
          /\ deliveries'[Len(deliveries) + 1] = i
      BY <1>9, <2>2
    <3>2. QED  BY <2>2, <3>1 DEF IsDelivered
  <2>3. QED  BY <1>5, <2>1, <2>2
<1>11. TypeOK'
  BY <1>1, <1>6, <1>9 DEF DispatchOK, TypeOK
<1>12. RoundOK'
  BY <1>1, <1>6, <1>8 DEF DispatchOK, RoundOK
<1>13. NoDuplicateDelivery'
  <2>1. CASE UNCHANGED deliveries
    BY <2>1 DEF DispatchOK, NoDuplicateDelivery
  <2>2. CASE deliveries' = Append(deliveries, i)
    <3>1. /\ DOMAIN deliveries' = DOMAIN deliveries \cup {Len(deliveries) + 1}
          /\ \A k \in DOMAIN deliveries : deliveries'[k] = deliveries[k]
          /\ deliveries'[Len(deliveries) + 1] = i
      BY <1>9, <2>2
    <3>2. \A k \in DOMAIN deliveries : deliveries[k] # i
      BY <1>4 DEF IsDelivered
    <3>3. QED  BY <3>1, <3>2 DEF DispatchOK, NoDuplicateDelivery
  <2>3. QED  BY <1>5, <2>1, <2>2
<1>14. OutcomeIsPreserved'
  <2>1. SUFFICES ASSUME NEW j \in DOMAIN notices
                 PROVE  IF i = j
                        THEN done.state = "delivered" <=> IsDelivered(j)'
                        ELSE notices[j].state = "delivered" <=> IsDelivered(j)'
    BY <1>1, <1>7 DEF OutcomeIsPreserved
  <2>2. CASE i = j
    BY <1>5, <1>10, <2>2, Marks
  <2>3. CASE i # j
    BY <1>1, <1>10, <2>3 DEF DispatchOK, OutcomeIsPreserved
  <2>4. QED  BY <2>2, <2>3
<1>15. CopiesAreCurrent'
  BY <1>1, <1>3, <1>5, <1>6 DEF DispatchOK, CopiesAreCurrent
<1>16. QED  BY <1>11, <1>12, <1>13, <1>14, <1>15 DEF DispatchOK

\* SaveNotification: the outcome replaces the notice it was made from.
LEMMA SaveStep == ASSUME DispatchOK, Save PROVE DispatchOK'
<1>1. /\ 1 \in DOMAIN round /\ round # <<>> /\ Head(round) = round[1]
      /\ dpc = "save" /\ UNCHANGED <<deliveries, failing, stopping>>
      /\ round' = Tail(round)
      /\ dpc' = IF Tail(round) = <<>> THEN "select" ELSE "check"
  BY FirstEntry DEF DispatchOK, Save
<1>2. PICK i \in DOMAIN notices : i = round[1][1]
  BY <1>1, Entries DEF DispatchOK
<1>3. PICK item \in Notification : item = round[1][2]
  BY <1>1, Entries DEF DispatchOK
<1>4. notices' = [notices EXCEPT ![i] = item]
  BY <1>1, <1>2, <1>3 DEF Save, SaveNotice
<1>5. /\ notices' \in Seq(Notification) /\ DOMAIN notices' = DOMAIN notices
      /\ notices'[i] = item
      /\ \A j \in DOMAIN notices : j # i => notices'[j] = notices[j]
  <2>1. notices \in Seq(Notification)
    BY DEF DispatchOK, TypeOK
  <2>2. QED  BY <1>4, <2>1
<1>6. /\ round' \in Seq((DOMAIN notices) \X Notification)
      /\ \A k \in DOMAIN round' : /\ k \in Nat \ {0} /\ k + 1 \in DOMAIN round
                                  /\ round'[k] = round[k + 1]
  <2>1. round \in Seq((DOMAIN notices) \X Notification)
    BY DEF DispatchOK, TypeOK
  <2>2. QED  BY <1>1, <2>1
<1>7. \A k \in DOMAIN round' : /\ round'[k][1] \in DOMAIN notices
                               /\ round'[k][1] # i
  BY <1>1, <1>2, <1>6, Entries DEF DispatchOK, RoundOK
<1>8. TypeOK'
  BY <1>1, <1>5, <1>6 DEF DispatchOK, TypeOK
<1>9. RoundOK'
  <2>1. ASSUME NEW j \in DOMAIN round', NEW k \in DOMAIN round',
               round'[j][1] = round'[k][1]
        PROVE  j = k
    <3>1. j + 1 = k + 1
      BY <1>6, <2>1 DEF DispatchOK, RoundOK
    <3>2. QED  BY <1>6, <3>1
  <2>2. ASSUME NEW k \in DOMAIN round'
        PROVE  notices'[round'[k][1]].state # "delivered"
    BY <1>5, <1>6, <1>7 DEF DispatchOK, RoundOK
  <2>3. QED  BY <2>1, <2>2 DEF RoundOK
<1>10. NoDuplicateDelivery'
  BY <1>1 DEF DispatchOK, NoDuplicateDelivery
<1>11. OutcomeIsPreserved'
  <2>1. dpc' # "save" /\ \A j : IsDelivered(j)' <=> IsDelivered(j)
    BY <1>1 DEF IsDelivered
  <2>2. ASSUME NEW j \in DOMAIN notices
        PROVE  notices'[j].state = "delivered" <=> IsDelivered(j)
    BY <1>1, <1>2, <1>3, <1>5 DEF DispatchOK, OutcomeIsPreserved
  <2>3. QED  BY <1>5, <2>1, <2>2 DEF OutcomeIsPreserved
<1>12. CopiesAreCurrent'
  <2>1. ASSUME NEW k \in DOMAIN round'
        PROVE  round'[k][2] = notices'[round'[k][1]]
    <3>1. k + 1 # 1
      BY <1>6
    <3>2. round[k + 1][2] = notices[round[k + 1][1]]
      BY <1>6, <3>1 DEF DispatchOK, CopiesAreCurrent
    <3>3. QED  BY <1>5, <1>6, <1>7, <3>2
  <2>2. dpc' # "save"
    BY <1>1
  <2>3. QED  BY <2>1, <2>2 DEF CopiesAreCurrent
<1>13. QED  BY <1>8, <1>9, <1>10, <1>11, <1>12 DEF DispatchOK

-----------------------------------------------------------------------------
\* At the start nothing is queued, listed or delivered.
LEMMA DispatchInit == Init => DispatchOK
<1> SUFFICES ASSUME Init PROVE DispatchOK
  OBVIOUS
<1>1. /\ notices = <<>> /\ round = <<>> /\ deliveries = <<>>
      /\ dpc = "list" /\ failing = {} /\ stopping = FALSE
  BY DEF Init
<1>2. DOMAIN notices = {} /\ DOMAIN round = {} /\ DOMAIN deliveries = {}
  BY <1>1
<1>3. \A S : <<>> \in Seq(S)
  OBVIOUS
<1>4. TypeOK
  BY <1>1, <1>3 DEF TypeOK
<1>5. QED
  BY <1>2, <1>4 DEF DispatchOK, RoundOK, NoDuplicateDelivery,
     OutcomeIsPreserved, CopiesAreCurrent

\* Every step keeps the invariant.
LEMMA DispatchStep == DispatchOK /\ [Next]_vars => DispatchOK'
<1> SUFFICES ASSUME DispatchOK, [Next]_vars PROVE DispatchOK'
  OBVIOUS
<1>1. CASE List    BY <1>1, ListStep
<1>2. CASE Deliver BY <1>2, DeliverStep
<1>3. CASE Save    BY <1>3, SaveStep
<1>4. CASE \E batch \in BatchId, recipient \in Recipient,
              event \in OfferedEvents : Queue(batch, recipient, event)
  BY <1>4, QueueStep
<1>5. CASE \/ Check \/ Wake \/ Return \/ StopSignal
           \/ \E recipients \in SUBSET Recipient : SetFailure(recipients)
           \/ UNCHANGED vars
  BY <1>5, OtherSteps
<1>6. QED
  BY <1>1, <1>2, <1>3, <1>4, <1>5 DEF Next, Dispatcher, Environment

\* What the dispatcher holds, saved and delivered agree with each other.
THEOREM DispatchInvariant == Spec => []DispatchOK
BY DispatchInit, DispatchStep, PTL DEF Spec

\* Every variable has a value of its kind.
THEOREM DispatchTypes == Spec => []TypeOK
<1>1. DispatchOK => TypeOK
  BY DEF DispatchOK
<1>2. QED  BY <1>1, DispatchInvariant, PTL

\* No recipient gets a notice twice, though every round lists the failed notices
\* again (notifications.go, store.go:133-138).
THEOREM NothingIsDeliveredTwice == Spec => []NoDuplicateDelivery
<1>1. DispatchOK => NoDuplicateDelivery
  BY DEF DispatchOK
<1>2. QED  BY <1>1, DispatchInvariant, PTL

\* The outcome of a delivery is preserved even when the dispatcher is cancelled
\* meanwhile (notifications.go:34-35).
THEOREM OutcomesArePreserved == Spec => []OutcomeIsPreserved
<1>1. DispatchOK => OutcomeIsPreserved
  BY DEF DispatchOK
<1>2. QED  BY <1>1, DispatchInvariant, PTL

\* The copies of a round are never stale.
THEOREM CopiesStayCurrent == Spec => []CopiesAreCurrent
<1>1. DispatchOK => CopiesAreCurrent
  BY DEF DispatchOK
<1>2. QED  BY <1>1, DispatchInvariant, PTL
=============================================================================
