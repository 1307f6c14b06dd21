--------------------------- MODULE UnwiredProofs ---------------------------
(***************************************************************************)
(* Theorems about the modules of what nothing in cmd/server calls: the     *)
(* bounds of the delays of Backoff, for a duration of any width, and what  *)
(* a complete Checklist amounts to, for any evidence.                      *)
(***************************************************************************)
EXTENDS Backoff, Checklist, WellFoundedInduction, TLAPS

-----------------------------------------------------------------------------
\* Backoff.

\* Every variable is a number.
Numbers ==
  /\ base \in Int /\ ceiling \in Int /\ delay \in Int /\ last \in Int
  /\ attempt \in Nat \ {0}

\* The inductive invariant: the bounds need that all values are numbers.
Bounded == Numbers /\ DelaysAreWithinBounds

\* What is below a sane ceiling doubles to a larger number, in any width.
LEMMA DoublingBelowCeiling ==
  ASSUME NEW d \in Int, NEW c \in Int,
         0 < d, d < c, 2 * (c - 1) <= MaxDuration
  PROVE  Doubled(d) = 2 * d /\ d < Doubled(d) /\ Doubled(d) <= MaxDuration
  <1>1. 2 * d <= MaxDuration
    BY BackoffAssumption
  <1>2. ~(2 * d > MaxDuration) /\ ~(2 * d < -MaxDuration - 1)
    BY <1>1, BackoffAssumption
  <1>3. Doubled(d) = 2 * d
    BY <1>2 DEF Doubled
  <1> QED
    BY <1>1, <1>3

\* Doubling an integer gives an integer.
LEMMA DoubledIsNumber ==
  ASSUME NEW d \in Int PROVE Doubled(d) \in Int
  BY BackoffAssumption DEF Doubled

\* The fields are durations, and no delay has been returned.
LEMMA BoundedInit == Init => Bounded
  <1> SUFFICES ASSUME Init PROVE Bounded
    OBVIOUS
  <1>1. Numbers
    BY BackoffAssumption DEF Init, Numbers, Duration
  <1>2. DelaysAreWithinBounds
    BY <1>1, BackoffAssumption DEF Init, Numbers, Duration, Sane, DelaysAreWithinBounds
  <1> QED
    BY <1>1, <1>2 DEF Bounded

\* A step of the loop doubles below the ceiling, a return stops at it.
LEMMA BoundedStep == Bounded /\ [Next]_vars => Bounded'
  <1> SUFFICES ASSUME Bounded, [Next]_vars PROVE Bounded'
    OBVIOUS
  <1> USE DEF Bounded, Numbers
  <1>1. CASE Double
    <2>1. Numbers'
      BY <1>1, DoubledIsNumber DEF Double
    <2>2. ASSUME Sane' PROVE base <= delay' /\ delay' <= MaxDuration
      <3>1. Sane /\ delay < ceiling /\ delay' = Doubled(delay)
        BY <1>1, <2>2 DEF Double, Loops, Sane
      <3>2. 0 < delay /\ base <= delay
        BY <3>1 DEF Sane, DelaysAreWithinBounds
      <3>3. delay < Doubled(delay) /\ Doubled(delay) <= MaxDuration
        BY <3>1, <3>2, DoublingBelowCeiling DEF Sane
      <3> QED
        BY <2>1, <3>1, <3>2, <3>3
    <2>3. ASSUME Sane', attempt' > 1 PROVE base <= last'
      BY <1>1, <2>3 DEF Double, Sane, DelaysAreWithinBounds
    <2>4. attempt' > 1 => last' <= ceiling'
      BY <1>1 DEF Double, DelaysAreWithinBounds
    <2> QED
      BY <1>1, <2>1, <2>2, <2>3, <2>4 DEF Double, DelaysAreWithinBounds
  <1>2. CASE Return
    <2>1. Numbers'
      BY <1>2 DEF Return
    <2>2. ASSUME Sane' PROVE base <= delay' /\ delay' <= MaxDuration
      BY <1>2, <2>2, BackoffAssumption DEF Return, Sane, DelaysAreWithinBounds
    <2>3. ASSUME Sane' PROVE base <= last'
      BY <1>2, <2>3 DEF Return, Sane, DelaysAreWithinBounds
    <2>4. last' <= ceiling'
      BY <1>2 DEF Return
    <2> QED
      BY <1>2, <2>1, <2>2, <2>3, <2>4 DEF Return, DelaysAreWithinBounds
  <1>3. CASE UNCHANGED vars
    BY <1>3 DEF vars, DelaysAreWithinBounds, Sane
  <1> QED
    BY <1>1, <1>2, <1>3 DEF Next

\* For every width and every number of attempts: no delay goes beyond the ceiling,
\* and a sane backoff never overflows nor falls below its base (backoff.go:11-23).
THEOREM BackoffIsBounded == Spec => []DelaysAreWithinBounds
  <1>1. Bounded => DelaysAreWithinBounds
    BY DEF Bounded
  <1> QED
    BY BoundedInit, BoundedStep, <1>1, PTL DEF Spec

-----------------------------------------------------------------------------
(***************************************************************************)
(* Delays grow.  The calls of Delay run through the same doublings, one    *)
(* call further than the other: the invariant names the sequence of them,  *)
(* Run, and tells where in it the last call has stopped and where the      *)
(* present one is.  That there is such a sequence is proved by induction.  *)
(***************************************************************************)

\* A set of numbers that is not empty has a least element.
LEMMA Least ==
  ASSUME NEW T \in SUBSET Nat, T # {}
  PROVE  \E m \in T : \A n \in T : m <= n
<1>1. PICK m \in T : \A n \in T : ~(<<n, m>> \in OpToRel(<, Nat))
  BY NatLessThanWellFounded, WFMin
<1>2. \A n \in T : ~(n < m)
  BY <1>1 DEF OpToRel
<1>3. QED  BY <1>2

\* A set that has 0 and the successor of each of its elements has them all.
LEMMA Induction ==
  ASSUME NEW G \in SUBSET Nat, 0 \in G, \A n \in G : n + 1 \in G
  PROVE  G = Nat
<1> SUFFICES ASSUME Nat \ G # {} PROVE FALSE
  OBVIOUS
<1>1. PICK m \in Nat \ G : \A n \in Nat \ G : m <= n
  BY Least
<1>2. m # 0 /\ m - 1 \in Nat /\ m - 1 \notin Nat \ G
  BY <1>1
<1>3. (m - 1) + 1 \in G
  BY <1>2
<1>4. QED  BY <1>1, <1>3

\* The doublings of b, up to the n-th.
IsRun(f, b, n) ==
  /\ f \in [1 .. n -> Int]
  /\ f[1] = b
  /\ \A i \in 1 .. n - 1 : f[i + 1] = Doubled(f[i])

\* There is a run of any length, by induction on the length.
LEMMA RunExists ==
  ASSUME NEW b \in Int, NEW n \in Nat \ {0}
  PROVE  \E f : IsRun(f, b, n)
<1> DEFINE G == {k \in Nat : \E f : IsRun(f, b, k + 1)}
<1>1. 0 \in G
  <2>1. IsRun([i \in 1 .. 1 |-> b], b, 1)
    BY DEF IsRun
  <2>2. QED  BY <2>1
<1>2. ASSUME NEW k \in G PROVE k + 1 \in G
  <2>1. PICK f : IsRun(f, b, k + 1)
    OBVIOUS
  <2> DEFINE g == [i \in 1 .. k + 2 |->
                     IF i = k + 2 THEN Doubled(f[k + 1]) ELSE f[i]]
  <2>2. g \in [1 .. k + 2 -> Int]
    BY <2>1, DoubledIsNumber DEF IsRun
  <2>3. g[1] = b
    BY <2>1 DEF IsRun
  <2>4. ASSUME NEW i \in 1 .. (k + 2) - 1 PROVE g[i + 1] = Doubled(g[i])
    <3>1. CASE i = k + 1
      BY <3>1
    <3>2. CASE i # k + 1
      <4>1. i \in 1 .. (k + 1) - 1
        BY <3>2
      <4>2. g[i + 1] = f[i + 1] /\ g[i] = f[i]
        BY <4>1
      <4>3. QED  BY <2>1, <4>1, <4>2 DEF IsRun
    <3>3. QED  BY <3>1, <3>2
  <2>5. IsRun(g, b, k + 2)
    BY <2>2, <2>3, <2>4 DEF IsRun
  <2>6. (k + 1) + 1 = k + 2
    OBVIOUS
  <2>7. QED  BY <2>5, <2>6
<1>3. G = Nat
  <2> HIDE DEF G
  <2>1. G \in SUBSET Nat
    BY DEF G
  <2>2. QED  BY <1>1, <1>2, <2>1, Induction
<1>4. n - 1 \in Nat /\ (n - 1) + 1 = n
  OBVIOUS
<1>5. PICK k \in G : k + 1 = n
  <2> HIDE DEF G
  <2>1. QED  BY <1>3, <1>4
<1>6. PICK f : IsRun(f, b, k + 1)
  OBVIOUS
<1>7. QED  BY <1>5, <1>6

\* Where the loop stops for the call with argument a: at the r-th doubling.
StopsAt(f, r, a) ==
  /\ r \in 1 .. a
  /\ \A j \in 1 .. r - 1 : f[j] < ceiling
  /\ r = a \/ f[r] >= ceiling

Returned(d) == IF d > ceiling THEN ceiling ELSE d

\* The present call and the last one go through the run f.
Follows(f) ==
  /\ IsRun(f, base, MaxAttempt)
  /\ attempt \in 1 .. MaxAttempt /\ index \in 1 .. attempt
  /\ delay = f[index]
  /\ \A j \in 1 .. index - 1 : f[j] < ceiling
  /\ attempt > 1 => \E r \in 1 .. attempt - 1 :
       StopsAt(f, r, attempt - 1) /\ last = Returned(f[r])

RunOK == \E f : Follows(f)

\* There is no delay yet.
LEMMA RunInit == Init => RunOK
<1> SUFFICES ASSUME Init PROVE RunOK
  OBVIOUS
<1>1. base \in Int
  BY BackoffAssumption DEF Init, Duration
<1>2. PICK f : IsRun(f, base, MaxAttempt)
  BY <1>1, RunExists, BackoffAssumption
<1>3. Follows(f)
  BY <1>2, BackoffAssumption DEF Init, Follows, IsRun
<1>4. QED  BY <1>3 DEF RunOK

\* Every delay is computed along one and the same run.
LEMMA RunStep == Bounded /\ RunOK /\ [Next]_vars => RunOK'
<1> SUFFICES ASSUME Bounded, RunOK, [Next]_vars PROVE RunOK'
  OBVIOUS
<1>1. PICK f : Follows(f)
  BY DEF RunOK
<1>2. MaxAttempt \in Nat /\ attempt \in Nat /\ index \in Nat
  BY <1>1, BackoffAssumption DEF Follows
<1>3. CASE Double
  <2>1. delay' = f[index + 1] /\ index + 1 \in 1 .. attempt
    BY <1>1, <1>2, <1>3 DEF Follows, IsRun, Double, Loops
  <2>2. \A j \in 1 .. index : f[j] < ceiling
    BY <1>1, <1>2, <1>3 DEF Follows, Double, Loops
  <2>3. Follows(f)'
    BY <1>1, <1>2, <1>3, <2>1, <2>2 DEF Follows, Double, StopsAt, Returned
  <2>4. QED  BY <2>3 DEF RunOK
<1>4. CASE Return
  <2>1. StopsAt(f, index, attempt) /\ last' = Returned(f[index])
    <3>1. delay \in Int /\ ceiling \in Int
      BY DEF Bounded, Numbers
    <3>2. QED
      BY <1>1, <1>2, <1>4, <3>1 DEF Follows, Return, Loops, StopsAt, Returned
  <2>2. /\ base' = base /\ ceiling' = ceiling /\ attempt' = attempt + 1
        /\ index' = 1 /\ delay' = f[1] /\ attempt + 1 \in 1 .. MaxAttempt
    BY <1>1, <1>2, <1>4 DEF Return, Follows, IsRun
  <2>3. attempt' - 1 = attempt /\ index \in 1 .. attempt' - 1
    BY <1>1, <1>2, <2>2 DEF Follows
  <2>4. Follows(f)'
    BY <1>1, <1>2, <2>1, <2>2, <2>3 DEF Follows, StopsAt, Returned
  <2>5. QED  BY <2>4 DEF RunOK
<1>5. CASE UNCHANGED vars
  BY <1>1, <1>5 DEF vars, RunOK, Follows, StopsAt, Returned
<1>6. QED  BY <1>3, <1>4, <1>5 DEF Next

\* A call returns what the one before has, or more, and twice of it at most.
LEMMA GrowStep ==
  ASSUME Bounded, RunOK, [Next]_vars, Sane, attempt > 1, last' # last
  PROVE  last < last' /\ last' <= 2 * last
<1>1. PICK f : Follows(f)
  BY DEF RunOK
<1>2. Return
  BY DEF Next, Double, vars
<1>3. PICK r \in 1 .. attempt - 1 :
        StopsAt(f, r, attempt - 1) /\ last = Returned(f[r])
  BY <1>1 DEF Follows
<1>4. /\ delay \in Int /\ ceiling \in Int /\ base \in Int /\ last \in Int
      /\ attempt \in Nat /\ index \in 1 .. attempt /\ base <= last
      /\ MaxAttempt \in Nat /\ attempt <= MaxAttempt
  BY <1>1, BackoffAssumption DEF Bounded, Numbers, DelaysAreWithinBounds, Follows
<1>5. /\ last' = Returned(f[index]) /\ StopsAt(f, index, attempt)
  BY <1>1, <1>2, <1>4 DEF Follows, Return, Loops, StopsAt, Returned
<1>6. /\ \A j \in 1 .. attempt : f[j] \in Int
      /\ \A j \in 1 .. attempt - 1 : f[j + 1] = Doubled(f[j])
  BY <1>1, <1>4 DEF Follows, IsRun
<1>7. CASE f[r] >= ceiling
  <2>1. ASSUME index > r PROVE FALSE
    <3>1. r \in 1 .. index - 1
      BY <1>3, <1>4, <2>1
    <3>2. f[r] < ceiling
      BY <1>5, <3>1 DEF StopsAt
    <3>3. f[r] \in Int
      BY <1>4, <1>6
    <3>4. QED  BY <1>4, <1>7, <3>2, <3>3
  <2>2. ASSUME index < r PROVE FALSE
    <3>1. index \in 1 .. r - 1 /\ index # attempt
      BY <1>3, <1>4, <2>2
    <3>2. f[index] < ceiling
      BY <1>3, <3>1 DEF StopsAt
    <3>3. f[index] >= ceiling
      BY <1>5, <3>1 DEF StopsAt
    <3>4. f[index] \in Int
      BY <1>4, <1>6
    <3>5. QED  BY <1>4, <3>2, <3>3, <3>4
  <2>3. index = r
    BY <1>4, <2>1, <2>2
  <2>4. QED  BY <1>3, <1>5, <2>3
<1>8. CASE ~(f[r] >= ceiling)
  <2>1. r = attempt - 1 /\ f[r] < ceiling /\ last = f[r]
    BY <1>3, <1>4, <1>6, <1>8 DEF StopsAt, Returned
  <2>2. index = attempt
    <3>1. ASSUME index # attempt PROVE FALSE
      <4>1. f[index] >= ceiling /\ f[index] \in Int
        BY <1>4, <1>5, <1>6, <3>1 DEF StopsAt
      <4>2. index # r
        BY <1>8, <4>1
      <4>3. index \in 1 .. r - 1
        BY <1>4, <2>1, <3>1, <4>2
      <4>4. f[index] < ceiling
        BY <1>3, <4>3 DEF StopsAt
      <4>5. QED  BY <1>4, <4>1, <4>4
    <3>2. QED  BY <3>1
  <2>3. f[attempt] = Doubled(last)
    BY <1>4, <1>6, <2>1
  <2>4. 0 < last /\ last < ceiling /\ 2 * (ceiling - 1) <= MaxDuration
    BY <1>4, <2>1 DEF Sane
  <2>5. Doubled(last) = 2 * last
    BY <1>4, <2>4, DoublingBelowCeiling
  <2>6. last' = IF 2 * last > ceiling THEN ceiling ELSE 2 * last
    BY <1>5, <2>2, <2>3, <2>5 DEF Returned
  <2>7. QED  BY <1>4, <2>4, <2>6
<1>9. QED  BY <1>7, <1>8

\* For every width and every number of attempts: with sane values a later
\* attempt never waits less, and at most twice as long (backoff.go:11-23).
THEOREM BackoffGrows == Spec => DelaysGrow
<1>1. Bounded /\ RunOK /\ [Next]_vars =>
        [Sane /\ attempt > 1 /\ last' # last => last < last' /\ last' <= 2 * last]_vars
  BY GrowStep
<1>2. QED
  BY <1>1, BoundedInit, BoundedStep, RunInit, RunStep, PTL DEF Spec, DelaysGrow

-----------------------------------------------------------------------------
(***************************************************************************)
(* Checklist.  Marking never adds, removes or renames an item, and never   *)
(* makes one satisfied without evidence.  Mark stores any text as a state, *)
(* and so nothing is assumed of the states callers offer.                  *)
(***************************************************************************)
ItemsOK ==
  /\ DOMAIN items = DOMAIN Codes
  /\ \A k \in DOMAIN Codes :
       /\ items[k] \in [code : {Codes[k]}, state : OfferedStates \cup {"pending"},
                        evidence : Evidence \cup {""}]
       /\ items[k].state = "satisfied" => items[k].evidence # ""

\* The codes are three different ones.
LEMMA CodesDiffer ==
  /\ DOMAIN Codes = {1, 2, 3}
  /\ \A i, k \in DOMAIN Codes : Codes[i] = Codes[k] => i = k
BY DEF Codes

\* A new checklist is pending.
LEMMA ItemsInit == Blank => ItemsOK
<1> SUFFICES ASSUME Blank PROVE ItemsOK
  OBVIOUS
<1>1. /\ DOMAIN items = DOMAIN Codes
      /\ \A k \in DOMAIN Codes :
           items[k] = [code |-> Codes[k], state |-> "pending", evidence |-> ""]
  BY DEF Blank, NewChecklist
<1>2. "pending" \in OfferedStates \cup {"pending"} /\ "pending" # "satisfied"
  OBVIOUS
<1>3. ASSUME NEW k \in DOMAIN Codes
      PROVE  /\ items[k] \in [code : {Codes[k]}, state : OfferedStates \cup {"pending"},
                               evidence : Evidence \cup {""}]
             /\ items[k].state # "satisfied"
  <2>1. PICK c : c = Codes[k]
    OBVIOUS
  <2>2. PICK item : item = items[k]
    OBVIOUS
  <2>3. item = [code |-> c, state |-> "pending", evidence |-> ""]
    BY <1>1, <2>1, <2>2, Zenon
  <2>4. /\ item \in [code : {c}, state : OfferedStates \cup {"pending"},
                    evidence : Evidence \cup {""}]
        /\ item.state = "pending"
    BY <1>2, <2>3
  <2>5. QED  BY <1>2, <2>1, <2>2, <2>4, Zenon
<1>4. QED  BY <1>1, <1>3 DEF ItemsOK

\* Marking changes the state and the evidence of one item.
LEMMA ItemsStep ==
  ASSUME ItemsOK, [Marking]_items
  PROVE  ItemsOK'
<1>1. CASE UNCHANGED items
  BY <1>1 DEF ItemsOK
<1>2. ASSUME NEW code, NEW state \in OfferedStates, NEW id \in Evidence \cup {""},
             Mark(code, state, id)
      PROVE  ItemsOK'
  <2>1. PICK k \in DOMAIN items :
          /\ state = "satisfied" => id # ""
          /\ items' = [items EXCEPT ![k] =
                         [@ EXCEPT !.state = state, !.evidence = id]]
    BY <1>2 DEF Mark
  <2>2. /\ DOMAIN items' = DOMAIN Codes
        /\ \A i \in DOMAIN Codes : i # k => items'[i] = items[i]
        /\ items'[k] = [items[k] EXCEPT !.state = state, !.evidence = id]
    BY <2>1 DEF ItemsOK
  <2>3. /\ items'[k] \in [code : {Codes[k]}, state : OfferedStates \cup {"pending"},
                          evidence : Evidence \cup {""}]
        /\ items'[k].state = state /\ items'[k].evidence = id
    <3>1. items[k] \in [code : {Codes[k]}, state : OfferedStates \cup {"pending"},
                        evidence : Evidence \cup {""}]
      BY <2>1 DEF ItemsOK
    <3>2. state \in OfferedStates \cup {"pending"}
      BY <1>2
    <3>3. QED  BY <1>2, <2>2, <3>1, <3>2
  <2>4. ASSUME NEW i \in DOMAIN Codes
        PROVE  /\ items'[i] \in [code : {Codes[i]}, state : OfferedStates \cup {"pending"},
                                 evidence : Evidence \cup {""}]
               /\ items'[i].state = "satisfied" => items'[i].evidence # ""
    <3>1. CASE i = k
      BY <2>1, <2>3, <3>1
    <3>2. CASE i # k
      BY <2>2, <3>2 DEF ItemsOK
    <3>3. QED  BY <3>1, <3>2
  <2>5. QED  BY <2>2, <2>4 DEF ItemsOK
<1>3. QED  BY <1>1, <1>2 DEF Marking

\* Whatever strings items are marked with, a checklist with nothing pending passes
\* its own validation exactly when every item of it is waived or satisfied by
\* evidence (checklist.go:42-92).
THEOREM CompleteChecklistsAreSettled == ChecklistSpec => []CompleteIsSettled
<1>1. ASSUME ItemsOK, Complete(items) PROVE CompleteIsSettled
  <2>1. /\ DOMAIN items = {1, 2, 3}
        /\ \A i, k \in DOMAIN items : Codes[i] = Codes[k] => i = k
    BY <1>1, CodesDiffer DEF ItemsOK
  <2>2. ASSUME NEW k \in DOMAIN items
        PROVE  /\ items[k].code = Codes[k]
               /\ items[k].state # "pending"
               /\ items[k].state = "satisfied" => items[k].evidence # ""
    BY <1>1, <2>2 DEF ItemsOK, Complete, Pending
  <2>3. items # <<>>
    BY <2>1
  <2>4. \A i, k \in DOMAIN items : items[i].code = items[k].code => i = k
    <3>1. ASSUME NEW i \in DOMAIN items, NEW k \in DOMAIN items,
                 items[i].code = items[k].code
          PROVE  i = k
      <4>1. items[i].code = Codes[i] /\ items[k].code = Codes[k]
        BY <2>2
      <4>2. Codes[i] = Codes[k]
        BY <3>1, <4>1, Zenon
      <4>3. QED  BY <2>1, <4>2
    <3>2. QED  BY <3>1
  <2>5. Valid(items) <=>
          \A k \in DOMAIN items : items[k].state \in ChecklistItemState
    BY <2>3, <2>4, Zenon DEF Valid
  <2>6. ASSUME NEW k \in DOMAIN items
        PROVE  items[k].state \in ChecklistItemState <=>
                 \/ items[k].state = "waived"
                 \/ items[k].state = "satisfied" /\ items[k].evidence # ""
    BY <2>2 DEF ChecklistItemState
  <2>7. QED  BY <2>5, <2>6 DEF CompleteIsSettled
<1>2. ItemsOK /\ [Marking]_items => ItemsOK'
  BY ItemsStep
<1>3. ItemsOK => CompleteIsSettled
  BY <1>1 DEF CompleteIsSettled
<1>4. QED  BY ItemsInit, <1>2, <1>3, PTL DEF ChecklistSpec
=============================================================================
