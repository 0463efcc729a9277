----------------------------- MODULE BreakerOps -----------------------------
(***************************************************************************)
(* The three-state circuit breaker of internal/pool/circuit_breaker.go as  *)
(* operators on a breaker record.  Every method of the Go type takes the   *)
(* breaker's mutex for its whole body, so each one is a single step: an    *)
(* operator from the breaker before the call to the breaker after it.      *)
(*                                                                         *)
(* Time is counted in ticks.  The code only ever asks whether "now" is     *)
(* after openAt + cooldown, so instead of a clock the record carries the   *)
(* age of the last opening, sinceOpen, which stops counting just past the  *)
(* longest cooldown.  consecutiveFails is only compared with the           *)
(* threshold, so fails stops counting there.                               *)
(***************************************************************************)
EXTENDS Integers

CONSTANTS
  FailureThreshold,   \* consecutive failures that open the breaker (5)
  SuccessThreshold,   \* successes in half-open that close it (2)
  HalfOpenMaxReqs,    \* probes counted in half-open (2)
  BaseCooldown,       \* ticks a new breaker stays open (30 s)
  RateLimitCooldown,  \* ticks it stays open after a 429 (15 s)
  MaxCooldown         \* cap of the backoff, and the cooldown of 401/403 (5 min)

ASSUME BreakerAssumption ==
  /\ FailureThreshold \in Nat \ {0}
  /\ SuccessThreshold \in Nat \ {0}
  /\ HalfOpenMaxReqs \in Nat
  /\ BaseCooldown \in Nat \ {0}
  /\ RateLimitCooldown \in Nat \ {0}
  /\ MaxCooldown \in Nat
  /\ BaseCooldown <= MaxCooldown
  /\ RateLimitCooldown <= MaxCooldown

BreakerStates == {"closed", "open", "halfOpen"}

Breaker == [state     : BreakerStates,
            fails     : 0..FailureThreshold,
            succs     : 0..(SuccessThreshold - 1),
            cooldown  : 1..MaxCooldown,
            sinceOpen : 0..(MaxCooldown + 1),
            probes    : 0..HalfOpenMaxReqs]

NewBreaker == [state     |-> "closed",
               fails     |-> 0,
               succs     |-> 0,
               cooldown  |-> BaseCooldown,
               sinceOpen |-> 0,
               probes    |-> 0]

\* The statuses RecordFailure tells apart; 500 stands for every other one.
AuthFailures == {401, 403}
RateLimited == 429
FailureCodes == AuthFailures \union {RateLimited, 500}

AtMost(n, cap) == IF n > cap THEN cap ELSE n

-----------------------------------------------------------------------------
(* Allow *)

CooldownElapsed(b) == b.sinceOpen > b.cooldown

\* Mutant: the half-open limit is tested with <= instead of <.
AdmitsOneTooMany(b) ==
  \/ b.state = "closed"
  \/ b.state = "open" /\ CooldownElapsed(b)
  \/ b.state = "halfOpen" /\ b.probes <= HalfOpenMaxReqs

\* What Allow answers.
Admits(b) ==
  \/ b.state = "closed"
  \/ b.state = "open" /\ CooldownElapsed(b)
  \/ b.state = "halfOpen" /\ b.probes < HalfOpenMaxReqs

\* Half-open begins with no probe counted and no success.
HalfOpened(b, succs) ==
  [state |-> "halfOpen", fails |-> b.fails, succs |-> succs,
   cooldown |-> b.cooldown, sinceOpen |-> b.sinceOpen, probes |-> 0]

\* Mutant: entering half-open leaves consecutiveSuccess as it was.
KeepsOldSuccesses(b) ==
  IF b.state = "open" THEN HalfOpened(b, b.succs)
  ELSE IF b.state = "halfOpen" THEN [b EXCEPT !.probes = @ + 1]
  ELSE b

\* The breaker after a call of Allow that answered TRUE; a refusal changes
\* nothing.  The request that turns open into half-open is not counted.
AfterAllow(b) ==
  IF b.state = "open" THEN HalfOpened(b, 0)
  ELSE IF b.state = "halfOpen" THEN [b EXCEPT !.probes = @ + 1]
  ELSE b

-----------------------------------------------------------------------------
(* RecordSuccess, RecordFailure, Reset *)

Closed(b, ticks) ==
  [state |-> "closed", fails |-> 0, succs |-> 0,
   cooldown |-> ticks, sinceOpen |-> b.sinceOpen, probes |-> 0]

\* consecutiveSuccess counts only in half-open, where it may close the breaker.
AfterSuccess(b) ==
  IF b.state # "halfOpen"
  THEN [b EXCEPT !.fails = 0]
  ELSE IF b.succs + 1 >= SuccessThreshold
       THEN Closed(b, b.cooldown)
       ELSE [[b EXCEPT !.fails = 0] EXCEPT !.succs = @ + 1]

OpenedFor(b, ticks) ==
  [state |-> "open", fails |-> b.fails, succs |-> b.succs,
   cooldown |-> ticks, sinceOpen |-> 0, probes |-> b.probes]

\* Mutant: the backoff has no cap.
DoubledUncapped(ticks) == 2 * ticks

\* Exponential backoff for repeated openings.
Doubled(ticks) == AtMost(2 * ticks, MaxCooldown)

\* Any failure that is not special-cased.
Ordinary(code) == code \notin AuthFailures \union {RateLimited}

Counted(b) == [b EXCEPT !.fails = AtMost(@ + 1, FailureThreshold)]

\* Mutant: the threshold is tested with > on a counter that has just reached it.
OpensOneTooLate(b, code) ==
  LET f == Counted(b) IN
  CASE code \in AuthFailures -> OpenedFor(f, MaxCooldown)
    [] code = RateLimited    -> OpenedFor(f, RateLimitCooldown)
    [] Ordinary(code) /\ b.fails >= FailureThreshold -> OpenedFor(f, Doubled(b.cooldown))
    [] Ordinary(code) /\ b.fails < FailureThreshold  -> f

\* Mutant: once the threshold is passed, an auth failure gets the same backoff
\* as any other failure.
AuthBacksOff(b, code) ==
  LET f == Counted(b) IN
  IF f.fails >= FailureThreshold THEN OpenedFor(f, Doubled(b.cooldown))
  ELSE IF code \in AuthFailures THEN OpenedFor(f, MaxCooldown)
  ELSE IF code = RateLimited THEN OpenedFor(f, RateLimitCooldown)
  ELSE f

\* A 401, 403 or 429 opens at once; anything else at the threshold, with the
\* cooldown doubled up to the cap.  It is the same in every state.
AfterFailure(b, code) ==
  LET f == Counted(b) IN
  CASE code \in AuthFailures -> OpenedFor(f, MaxCooldown)
    [] code = RateLimited    -> OpenedFor(f, RateLimitCooldown)
    [] Ordinary(code) /\ f.fails >= FailureThreshold -> OpenedFor(f, Doubled(b.cooldown))
    [] Ordinary(code) /\ f.fails < FailureThreshold  -> f

\* Reset forces the breaker closed and forgets the backoff.
AfterReset(b) == Closed(b, BaseCooldown)

\* A tick of time, as the breaker sees it.
Aged(b) ==
  IF b.state = "open"
  THEN [b EXCEPT !.sinceOpen = AtMost(@ + 1, MaxCooldown + 1)]
  ELSE b
=============================================================================
