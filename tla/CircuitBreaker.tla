--------------------------- MODULE CircuitBreaker ---------------------------
(***************************************************************************)
(* One circuit breaker used the way its tests use it: concurrent requests  *)
(* ask Allow, and each admitted request records its result some time later *)
(* -- possibly long after the breaker has changed state -- or never, as    *)
(* the streaming path of the proxy does.  Only the number of requests in   *)
(* flight matters to the breaker, so they are counted, not named.          *)
(*                                                                         *)
(* The last four variables are history: nothing reads them but the         *)
(* properties.                                                             *)
(***************************************************************************)
EXTENDS BreakerOps

CONSTANT MaxInFlight   \* bound: requests admitted and not yet finished

ASSUME InFlightAssumption == MaxInFlight \in Nat \ {0}

VARIABLES
  breaker,     \* the CircuitBreaker
  inFlight,    \* requests that Allow admitted and that have not finished
  admitted,    \* requests admitted since the breaker last turned half-open
  recovered,   \* successes recorded in half-open since the breaker last opened
  sinceAuth,   \* ticks since the last 401/403, MaxCooldown + 1 when none counts
  eased        \* a 429 was recorded after that 401/403

breakerVars == <<breaker, inFlight, admitted, recovered, sinceAuth, eased>>

NoAuth == MaxCooldown + 1

BreakerTypeOK ==
  /\ breaker \in Breaker
  /\ inFlight \in 0..MaxInFlight
  /\ admitted \in 0..(HalfOpenMaxReqs + 1)
  /\ recovered \in 0..SuccessThreshold
  /\ sinceAuth \in 0..NoAuth
  /\ eased \in BOOLEAN

\* A breaker that never opened counts as recovered.
BreakerInit ==
  /\ breaker = NewBreaker
  /\ inFlight = 0
  /\ admitted = 0
  /\ recovered = SuccessThreshold
  /\ sinceAuth = NoAuth
  /\ eased = FALSE

-----------------------------------------------------------------------------
(* Actions *)

\* A request passes.
Allow ==
  /\ inFlight < MaxInFlight
  /\ Admits(breaker)
  /\ breaker' = AfterAllow(breaker)
  /\ inFlight' = inFlight + 1
  /\ admitted' = CASE breaker.state = "open"     -> 1
                   [] breaker.state = "halfOpen" -> admitted + 1
                   [] OTHER                      -> admitted
  /\ UNCHANGED <<recovered, sinceAuth, eased>>

\* A request in flight reports a success.
RecordSuccess ==
  /\ inFlight > 0
  /\ inFlight' = inFlight - 1
  /\ breaker' = AfterSuccess(breaker)
  /\ recovered' = IF breaker.state = "halfOpen"
                  THEN AtMost(recovered + 1, SuccessThreshold) ELSE recovered
  /\ admitted' = IF breaker'.state = "closed" THEN 0 ELSE admitted
  /\ UNCHANGED <<sinceAuth, eased>>

\* A request in flight reports a failure.
RecordFailure(code) ==
  /\ inFlight > 0
  /\ inFlight' = inFlight - 1
  /\ breaker' = AfterFailure(breaker, code)
  /\ recovered' = IF breaker'.state = "open" THEN 0 ELSE recovered
  /\ admitted' = IF breaker'.state = "open" THEN 0 ELSE admitted
  /\ sinceAuth' = IF code \in AuthFailures THEN 0 ELSE sinceAuth
  /\ eased' = (code \notin AuthFailures /\ (eased \/ code = RateLimited))

\* A request in flight ends and reports nothing.
Abandon ==
  /\ inFlight > 0
  /\ inFlight' = inFlight - 1
  /\ UNCHANGED <<breaker, admitted, recovered, sinceAuth, eased>>

Reset ==
  /\ breaker' = AfterReset(breaker)
  /\ admitted' = 0
  /\ recovered' = SuccessThreshold
  /\ sinceAuth' = NoAuth
  /\ UNCHANGED <<inFlight, eased>>

\* Time passes, as long as anything still depends on it.
CoolDown ==
  /\ \/ breaker.state = "open" /\ breaker.sinceOpen <= MaxCooldown
     \/ sinceAuth < NoAuth
  /\ breaker' = Aged(breaker)
  /\ sinceAuth' = AtMost(sinceAuth + 1, NoAuth)
  /\ UNCHANGED <<inFlight, admitted, recovered, eased>>

Finish == RecordSuccess \/ (\E code \in FailureCodes : RecordFailure(code)) \/ Abandon

BreakerNext == Allow \/ Finish \/ Reset \/ CoolDown

BreakerSpec == BreakerInit /\ [][BreakerNext]_breakerVars

-----------------------------------------------------------------------------
(* Properties *)

\* A closed breaker, which lets everything through, has not reached the failure
\* threshold, and if it was ever opened then SuccessThreshold successes were
\* recorded after it turned half-open: late results of requests admitted
\* before the opening never close it from open, and successes of an earlier
\* half-open period do not count in a later one (Allow, RecordSuccess).
ClosedIsHealthy ==
  breaker.state = "closed" =>
    /\ breaker.fails < FailureThreshold
    /\ recovered = SuccessThreshold

\* One half-open period admits at most HalfOpenMaxReqs + 1 requests, however
\* the probes and the late results interleave (Allow; the test
\* HalfOpenLimitsProbes fixes the "+ 1").
ProbesAreBounded == breaker.state = "halfOpen" => admitted <= HalfOpenMaxReqs + 1

\* After a 401 or 403 the breaker stays open, and so admits nothing, for the
\* whole five minutes, whatever the requests still in flight report -- as long
\* as none of them reports a 429 and nobody calls Reset (RecordFailure).
AuthQuarantine == sinceAuth < NoAuth /\ ~eased => breaker.state = "open"
=============================================================================
