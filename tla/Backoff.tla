------------------------------ MODULE Backoff ------------------------------
(***************************************************************************)
(* worker.Backoff: the delay before an attempt, doubled from Base up to    *)
(* Ceiling in a loop on a signed integer of fixed width.  The model runs   *)
(* the loop for one attempt after another.                                 *)
(***************************************************************************)
EXTENDS Integers

CONSTANTS
  MaxDuration,  \* the largest time.Duration, 2^63 - 1
  MaxAttempt    \* the last attempt

ASSUME BackoffAssumption ==
  /\ MaxDuration \in Nat \ {0}
  /\ MaxAttempt \in Nat \ {0}

Duration == (-MaxDuration - 1) .. MaxDuration

VARIABLES
  base,     \* Backoff.Base
  ceiling,  \* Backoff.Ceiling
  attempt,  \* the argument of Delay
  index,    \* its loop variable
  delay,    \* its local delay
  last      \* what it has returned for the attempt before; 0 at first

vars == <<base, ceiling, attempt, index, delay, last>>

\* Twice a duration, as the hardware computes it.
Doubled(d) ==
  CASE 2 * d > MaxDuration      -> 2 * d - 2 * (MaxDuration + 1)
    [] 2 * d < -MaxDuration - 1 -> 2 * d + 2 * (MaxDuration + 1)
    [] OTHER                    -> 2 * d

Init ==
  /\ base \in Duration
  /\ ceiling \in Duration
  /\ attempt = 1
  /\ index = 1
  /\ delay = base
  /\ last = 0   \* Delay(0)

\* Variant: the delay is doubled once more at the ceiling.
LoopsAtCeiling == index < attempt /\ delay <= ceiling

\* The condition of the loop.
Loops == index < attempt /\ delay < ceiling

Double ==
  /\ Loops
  /\ delay' = Doubled(delay)
  /\ index' = index + 1
  /\ UNCHANGED <<base, ceiling, attempt, last>>

\* Variant: the delay is not set back for the next attempt.
ReturnKeeping ==
  /\ ~Loops
  /\ attempt < MaxAttempt
  /\ last' = IF delay > ceiling THEN ceiling ELSE delay
  /\ attempt' = attempt + 1
  /\ index' = 1
  /\ UNCHANGED <<base, ceiling, delay>>

\* Delay returns, and is called for the next attempt.
Return ==
  /\ ~Loops
  /\ attempt < MaxAttempt
  /\ last' = IF delay > ceiling THEN ceiling ELSE delay
  /\ attempt' = attempt + 1
  /\ index' = 1
  /\ delay' = base
  /\ UNCHANGED <<base, ceiling>>

Next == Double \/ Return

Spec == Init /\ [][Next]_vars
---------------------------------------------------------------------------
\* A base that delays, and a ceiling below which everything can be doubled.
Sane == base > 0 /\ base <= ceiling /\ 2 * (ceiling - 1) <= MaxDuration

\* With such values no doubling overflows, and every attempt is delayed by at
\* least the base.  With any values, those that overflow and those that are not
\* positive among them, no attempt is delayed beyond the ceiling (backoff.go:11-23).
DelaysAreWithinBounds ==
  /\ Sane => /\ base <= delay /\ delay <= MaxDuration
             /\ attempt > 1 => base <= last
  /\ attempt > 1 => last <= ceiling

\* Later attempts never wait less, and at most twice as long.
DelaysGrow ==
  [][Sane /\ attempt > 1 /\ last' # last => last < last' /\ last' <= 2 * last]_vars
=============================================================================
