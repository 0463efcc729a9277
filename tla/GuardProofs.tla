----------------------------- MODULE GuardProofs -----------------------------
(***************************************************************************)
(* The safety properties of what guards the upstream: of the breaker of a  *)
(* channel (CircuitBreaker), for every choice of the thresholds, cooldowns *)
(* and number of requests in flight, and of the limits per minute          *)
(* (RateLimiter), for all clients, limits, sizes and clocks, as long as    *)
(* the delays of calls and the differences of clocks together stay below   *)
(* a minute.                                                               *)
(***************************************************************************)
EXTENDS CircuitBreaker, RateLimiter, FiniteSetTheorems, WellFoundedInduction, TLAPS

-----------------------------------------------------------------------------
(* What the methods of the breaker return.                                 *)

\* Every method leaves a well-formed breaker behind (the whole of
\* circuit_breaker.go).
LEMMA OpsTypes ==
  ASSUME NEW b \in Breaker
  PROVE  /\ Admits(b) => AfterAllow(b) \in Breaker
         /\ AfterSuccess(b) \in Breaker
         /\ \A code \in FailureCodes : AfterFailure(b, code) \in Breaker
         /\ AfterReset(b) \in Breaker
         /\ Aged(b) \in Breaker
<1> USE BreakerAssumption DEF Breaker, BreakerStates
<1>1. Admits(b) => AfterAllow(b) \in Breaker
  BY DEF Admits, AfterAllow, HalfOpened
<1>2. AfterSuccess(b) \in Breaker
  <2>1. CASE b.state # "halfOpen"
    BY <2>1 DEF AfterSuccess
  <2>2. CASE b.state = "halfOpen" /\ b.succs + 1 >= SuccessThreshold
    BY <2>2 DEF AfterSuccess, Closed
  <2>3. CASE b.state = "halfOpen" /\ b.succs + 1 < SuccessThreshold
    <3> DEFINE s == [b EXCEPT !.fails = 0]
    <3>1. s \in Breaker /\ s.succs = b.succs
      OBVIOUS
    <3>2. AfterSuccess(b) = [s EXCEPT !.succs = s.succs + 1]
      BY <2>3 DEF AfterSuccess
    <3> HIDE DEF s
    <3> QED
      BY <2>3, <3>1, <3>2
  <2> QED
    BY <2>1, <2>2, <2>3
<1>3. ASSUME NEW code \in FailureCodes
      PROVE  AfterFailure(b, code) \in Breaker
  <2>1. Counted(b) \in Breaker
    BY DEF Counted, AtMost
  <2>2. \A ticks \in 1..MaxCooldown : OpenedFor(Counted(b), ticks) \in Breaker
    BY <2>1 DEF OpenedFor
  <2>3. Doubled(b.cooldown) \in 1..MaxCooldown
    BY DEF Doubled, AtMost
  <2> QED
    BY <2>1, <2>2, <2>3 DEF AfterFailure, Ordinary
<1>4. AfterReset(b) \in Breaker
  BY DEF AfterReset, Closed
<1>5. Aged(b) \in Breaker
  BY DEF Aged, AtMost
<1> QED
  BY <1>1, <1>2, <1>3, <1>4, <1>5

\* A failure either opens the breaker or only counts, below the threshold; an
\* auth failure always opens it for the longest time, and so does any other but
\* a 429 when the cooldown is already the longest (RecordFailure).
LEMMA FailureEffect ==
  ASSUME NEW b \in Breaker, NEW code \in FailureCodes
  PROVE  LET a == AfterFailure(b, code) IN
         /\ \/ a.state = "open" /\ a.sinceOpen = 0
            \/ /\ code \notin AuthFailures
               /\ b.fails + 1 < FailureThreshold /\ a.fails = b.fails + 1
               /\ a.state = b.state /\ a.probes = b.probes /\ a.succs = b.succs
               /\ a.cooldown = b.cooldown /\ a.sinceOpen = b.sinceOpen
         /\ code \in AuthFailures => a.state = "open" /\ a.cooldown = MaxCooldown
         /\ code # RateLimited /\ b.cooldown = MaxCooldown => a.cooldown = MaxCooldown
<1> DEFINE f == Counted(b)
<1> USE BreakerAssumption
<1>1. /\ f.state = b.state /\ f.probes = b.probes /\ f.succs = b.succs
      /\ f.cooldown = b.cooldown /\ f.sinceOpen = b.sinceOpen
      /\ f.fails = AtMost(b.fails + 1, FailureThreshold)
  BY DEF Counted, Breaker
<1>2. f.fails \in Nat
  BY <1>1 DEF Breaker, AtMost
<1>3. CASE code \in AuthFailures
  BY <1>3 DEF AfterFailure, OpenedFor, AuthFailures, RateLimited, Ordinary
<1>4. CASE code = RateLimited
  BY <1>4 DEF AfterFailure, OpenedFor, AuthFailures, RateLimited, Ordinary
<1>5. CASE Ordinary(code) /\ f.fails >= FailureThreshold
  <2>1. AfterFailure(b, code) = OpenedFor(f, Doubled(b.cooldown))
    BY <1>5, <1>2 DEF AfterFailure, AuthFailures, RateLimited, Ordinary
  <2>2. b.cooldown = MaxCooldown => Doubled(b.cooldown) = MaxCooldown
    BY DEF Doubled, AtMost
  <2> QED
    BY <1>5, <2>1, <2>2 DEF OpenedFor, Ordinary
<1>6. CASE Ordinary(code) /\ f.fails < FailureThreshold
  <2>1. AfterFailure(b, code) = f
    BY <1>6, <1>2 DEF AfterFailure, AuthFailures, RateLimited, Ordinary
  <2>2. b.fails \in Nat
    BY DEF Breaker
  <2>3. b.fails + 1 < FailureThreshold /\ f.fails = b.fails + 1
    BY <1>1, <1>6, <2>2 DEF AtMost
  <2> HIDE DEF f
  <2> QED
    BY <1>1, <1>6, <2>1, <2>3 DEF Ordinary
<1> QED
  BY <1>3, <1>4, <1>5, <1>6, <1>2 DEF Ordinary

-----------------------------------------------------------------------------

(***************************************************************************)
(* The inductive invariant.  In half-open the two counters of the record   *)
(* are tied to the history: every admission but the first is a probe, and  *)
(* every success since the opening is a consecutiveSuccess.  An auth       *)
(* quarantine lasts because the breaker was reopened no earlier than the   *)
(* auth failure and its cooldown is still the longest one.                 *)
(***************************************************************************)
HalfOpenCounts ==
  /\ breaker.state = "open" => recovered = 0
  /\ breaker.state = "halfOpen" => admitted = breaker.probes + 1 /\ recovered = breaker.succs

QuarantineClock ==
  sinceAuth < NoAuth /\ ~eased =>
    /\ breaker.state = "open"
    /\ breaker.cooldown = MaxCooldown
    /\ breaker.sinceOpen <= sinceAuth

BreakerInv == BreakerTypeOK /\ ClosedIsHealthy /\ HalfOpenCounts /\ QuarantineClock

-----------------------------------------------------------------------------
(* The invariant of the breaker is inductive: one lemma per action.       *)

LEMMA BreakerInitInv == BreakerInit => BreakerInv
<1> USE BreakerAssumption, InFlightAssumption
<1>1. NewBreaker \in Breaker
  BY DEF NewBreaker, Breaker, BreakerStates
<1>2. NewBreaker.state = "closed" /\ NewBreaker.fails = 0
  BY DEF NewBreaker
<1>3. BreakerInit => BreakerTypeOK
  <2>1. BreakerInit => breaker \in Breaker /\ eased \in BOOLEAN
    BY <1>1, Zenon DEF BreakerInit
  <2> QED
    BY <2>1 DEF BreakerInit, BreakerTypeOK, NoAuth
<1>4. BreakerInit => ClosedIsHealthy /\ HalfOpenCounts
  BY <1>2 DEF BreakerInit, ClosedIsHealthy, HalfOpenCounts
<1>5. BreakerInit => QuarantineClock
  BY DEF BreakerInit, QuarantineClock, NoAuth
<1> QED
  BY <1>3, <1>4, <1>5 DEF BreakerInv

LEMMA AllowInv == BreakerInv /\ Allow => BreakerInv'
<1> SUFFICES ASSUME BreakerInv, Allow PROVE BreakerInv'
  OBVIOUS
<1> USE BreakerAssumption, InFlightAssumption DEF BreakerInv, Allow
<1>1. breaker \in Breaker /\ breaker' \in Breaker
  BY OpsTypes DEF BreakerTypeOK
<1>2. QuarantineClock'
  BY <1>1 DEF BreakerTypeOK, QuarantineClock, NoAuth, Admits, AfterAllow, HalfOpened,
       CooldownElapsed, Breaker
<1>3. ClosedIsHealthy'
  BY <1>1 DEF ClosedIsHealthy, AfterAllow, HalfOpened, Breaker
<1>4. HalfOpenCounts'
  BY <1>1 DEF HalfOpenCounts, AfterAllow, HalfOpened, Breaker, BreakerStates, BreakerTypeOK
<1>5. BreakerTypeOK'
  BY <1>1 DEF BreakerTypeOK, HalfOpenCounts, Admits, Breaker, BreakerStates
<1> QED
  BY <1>2, <1>3, <1>4, <1>5

LEMMA SuccessInv == BreakerInv /\ RecordSuccess => BreakerInv'
<1> SUFFICES ASSUME BreakerInv, RecordSuccess PROVE BreakerInv'
  OBVIOUS
<1> USE BreakerAssumption, InFlightAssumption DEF BreakerInv, RecordSuccess
<1>1. breaker \in Breaker /\ breaker' \in Breaker
  BY OpsTypes DEF BreakerTypeOK
<1>2. QuarantineClock'
  BY <1>1 DEF BreakerTypeOK, QuarantineClock, NoAuth, AfterSuccess, Closed, Breaker
<1>3. ClosedIsHealthy'
  BY <1>1 DEF ClosedIsHealthy, HalfOpenCounts, AfterSuccess, Closed, AtMost, Breaker, BreakerTypeOK
<1>4. HalfOpenCounts'
  BY <1>1 DEF HalfOpenCounts, AfterSuccess, Closed, AtMost, Breaker, BreakerStates, BreakerTypeOK
<1>5. BreakerTypeOK'
  BY <1>1 DEF BreakerTypeOK, AtMost
<1> QED
  BY <1>2, <1>3, <1>4, <1>5

LEMMA FailureInv ==
  ASSUME BreakerInv, NEW code \in FailureCodes, RecordFailure(code)
  PROVE  BreakerInv'
<1> USE BreakerAssumption, InFlightAssumption DEF BreakerInv, RecordFailure
<1>1. breaker \in Breaker /\ breaker' \in Breaker
  BY OpsTypes DEF BreakerTypeOK
<1>2. QuarantineClock'
  <2>1. CASE code \in AuthFailures
    BY <1>1, <2>1, FailureEffect DEF BreakerTypeOK, QuarantineClock, NoAuth
  <2>2. CASE code \notin AuthFailures
    <3>1. ~eased' => ~eased /\ code # RateLimited
      BY <2>2, Zenon
    <3>2. sinceAuth' = sinceAuth
      BY <2>2
    <3> QED
      BY <1>1, <3>1, <3>2, FailureEffect DEF BreakerTypeOK, QuarantineClock, NoAuth, Breaker
  <2> QED
    BY <2>1, <2>2
<1>3. ClosedIsHealthy'
  BY <1>1, FailureEffect DEF ClosedIsHealthy, Breaker, BreakerTypeOK
<1>4. HalfOpenCounts'
  BY <1>1, FailureEffect DEF HalfOpenCounts, BreakerTypeOK
<1>5. BreakerTypeOK'
  BY <1>1 DEF BreakerTypeOK, NoAuth
<1> QED
  BY <1>2, <1>3, <1>4, <1>5

LEMMA ResetInv == BreakerInv /\ Reset => BreakerInv'
<1> SUFFICES ASSUME BreakerInv, Reset PROVE BreakerInv'
  OBVIOUS
<1> USE BreakerAssumption, InFlightAssumption DEF BreakerInv, Reset
<1>1. breaker \in Breaker /\ breaker' \in Breaker
  BY OpsTypes DEF BreakerTypeOK
<1> QED
  BY <1>1 DEF BreakerTypeOK, ClosedIsHealthy, HalfOpenCounts, QuarantineClock, AfterReset, Closed,
              Breaker, NoAuth

LEMMA CoolDownInv == BreakerInv /\ CoolDown => BreakerInv'
<1> SUFFICES ASSUME BreakerInv, CoolDown PROVE BreakerInv'
  OBVIOUS
<1> USE BreakerAssumption, InFlightAssumption DEF BreakerInv, CoolDown
<1>1. breaker \in Breaker /\ breaker' \in Breaker
  BY OpsTypes DEF BreakerTypeOK
<1>2. QuarantineClock'
  BY <1>1 DEF BreakerTypeOK, QuarantineClock, NoAuth, Aged, AtMost, Breaker
<1>3. ClosedIsHealthy' /\ HalfOpenCounts'
  BY <1>1 DEF ClosedIsHealthy, HalfOpenCounts, Aged, Breaker
<1>4. BreakerTypeOK'
  BY <1>1 DEF BreakerTypeOK, NoAuth, AtMost
<1> QED
  BY <1>2, <1>3, <1>4

LEMMA BreakerNextInv == BreakerInv /\ [BreakerNext]_breakerVars => BreakerInv'
<1> SUFFICES ASSUME BreakerInv, [BreakerNext]_breakerVars PROVE BreakerInv'
  OBVIOUS
<1>1. CASE Allow
  BY <1>1, AllowInv
<1>2. CASE RecordSuccess
  BY <1>2, SuccessInv
<1>3. ASSUME NEW code \in FailureCodes, RecordFailure(code) PROVE BreakerInv'
  BY <1>3, FailureInv
<1>4. CASE Abandon
  BY <1>4, InFlightAssumption DEF Abandon, BreakerInv, BreakerTypeOK, ClosedIsHealthy,
       HalfOpenCounts,
       QuarantineClock, NoAuth
<1>5. CASE Reset
  BY <1>5, ResetInv
<1>6. CASE CoolDown
  BY <1>6, CoolDownInv
<1>7. CASE UNCHANGED breakerVars
  BY <1>7 DEF breakerVars, BreakerInv, BreakerTypeOK, ClosedIsHealthy, HalfOpenCounts,
       QuarantineClock, NoAuth
<1> QED
  BY <1>1, <1>2, <1>3, <1>4, <1>5, <1>6, <1>7 DEF BreakerNext, Finish

-----------------------------------------------------------------------------
(* What the breaker promises.                                              *)

LEMMA BreakerInvariance == BreakerSpec => []BreakerInv
  BY BreakerInitInv, BreakerNextInv, PTL DEF BreakerSpec

\* Whatever results are recorded in whatever order, the breaker stays
\* well-formed: counters within their limits, the cooldown under its cap
\* (circuit_breaker.go).
THEOREM BreakerTypeCorrect == BreakerSpec => []BreakerTypeOK
<1>1. BreakerInv => BreakerTypeOK
  BY DEF BreakerInv
<1> QED
  BY <1>1, BreakerInvariance, PTL

\* A closed breaker has never reached the threshold and, if it was opened, was
\* closed by SuccessThreshold successes recorded in half-open (RecordSuccess,
\* RecordFailure).
THEOREM ClosedHealthy == BreakerSpec => []ClosedIsHealthy
<1>1. BreakerInv => ClosedIsHealthy
  BY DEF BreakerInv
<1> QED
  BY <1>1, BreakerInvariance, PTL

\* A half-open period lets through the request that started it and
\* HalfOpenMaxReqs more, never another one (Allow).
THEOREM ProbesBounded == BreakerSpec => []ProbesAreBounded
<1>1. BreakerInv => ProbesAreBounded
  BY BreakerAssumption DEF BreakerInv, BreakerTypeOK, HalfOpenCounts, ProbesAreBounded, Breaker
<1> QED
  BY <1>1, BreakerInvariance, PTL

\* Until a 429 or a Reset, a 401 or 403 keeps the breaker open for the longest
\* cooldown (RecordFailure, Allow).
THEOREM AuthQuarantined == BreakerSpec => []AuthQuarantine
<1>1. BreakerInv => AuthQuarantine
  BY DEF BreakerInv, QuarantineClock, AuthQuarantine
<1> QED
  BY <1>1, BreakerInvariance, PTL

-----------------------------------------------------------------------------
(* Numbers and sums.                                                       *)

\* A set of numbers has a least one, since there is no endless descent.
LEMMA Least ==
  ASSUME NEW T \in SUBSET Nat, T # {}
  PROVE  \E x \in T : \A y \in T : x <= y
<1>1. IsWellFoundedOn(OpToRel(<, Nat), Nat)
  BY NatLessThanWellFounded
<1>2. PICK x \in T : \A y \in T : ~(<<y, x>> \in OpToRel(<, Nat))
  BY <1>1, WFMin
<1>3. \A y \in T : ~(y < x)
  BY <1>2 DEF OpToRel
<1> QED
  BY <1>3

LEMMA MinIs ==
  ASSUME NEW T \in SUBSET Nat, T # {}
  PROVE  Min(T) \in T /\ \A y \in T : Min(T) <= y
BY Least DEF Min

\* A finite one has a greatest: one that the fewest others exceed.
LEMMA MaxIs ==
  ASSUME NEW T \in SUBSET Nat, T # {}, IsFiniteSet(T)
  PROVE  Max(T) \in T /\ \A y \in T : Max(T) >= y
<1> DEFINE Above(x) == {z \in T : z > x}
           R == {Cardinality(Above(x)) : x \in T}
<1>1. \A x \in T : IsFiniteSet(Above(x)) /\ Cardinality(Above(x)) \in Nat
  BY FS_Subset, FS_CardinalityType
<1>2. PICK x \in T : \A y \in T : Cardinality(Above(x)) <= Cardinality(Above(y))
  <2>1. R \in SUBSET Nat /\ R # {}
    BY <1>1
  <2>2. PICK r \in R : \A s \in R : r <= s
    BY <2>1, Least
  <2> QED
    BY <2>2
<1>3. ASSUME NEW y \in T, y > x PROVE FALSE
  <2>1. Above(y) \subseteq Above(x)
    <3>1. \A z \in T : z > y => z > x
      BY <1>3
    <3> QED
      BY <3>1
  <2>2. y \in Above(x) /\ y \notin Above(y)
    BY <1>3
  <2>3. \A A, B : IsFiniteSet(B) /\ A \subseteq B /\ A # B => Cardinality(A) # Cardinality(B)
                                                          /\ Cardinality(A) <= Cardinality(B)
    BY FS_Subset
  <2>4. Cardinality(Above(y)) < Cardinality(Above(x))
    <3>1. Cardinality(Above(y)) # Cardinality(Above(x)) /\ Cardinality(Above(y)) <= Cardinality(Above(x))
      BY <1>1, <2>1, <2>2, <2>3
    <3> QED
      BY <1>1, <3>1
  <2>5. Cardinality(Above(x)) <= Cardinality(Above(y))
    BY <1>2
  <2>6. Cardinality(Above(x)) \in Nat /\ Cardinality(Above(y)) \in Nat
    BY <1>1
  <2> HIDE DEF Above
  <2> QED
    BY <2>4, <2>5, <2>6
<1>4. \A y \in T : x >= y
  BY <1>3
<1> QED
  BY <1>4 DEF Max

\* The seconds that a time is rounded up to last no shorter.
LEMMA SecondsLast ==
  ASSUME NEW t \in Nat
  PROVE  Seconds(t) \in Nat /\ Seconds(t) * Second \in Nat /\ Seconds(t) * Second >= t
<1>1. Second \in Nat \ {0}
  BY LimiterAssumption
<1>2. \A a \in Nat : /\ a \div Second \in Nat /\ (a \div Second) * Second \in Nat
                     /\ a <= (a \div Second) * Second + (Second - 1)
  BY <1>1
<1>3. t + Second - 1 \in Nat
  BY <1>1
<1> DEFINE q == (t + Second - 1) \div Second
<1>4. q \in Nat /\ q * Second \in Nat /\ t + Second - 1 <= q * Second + (Second - 1)
  BY <1>2, <1>3
<1> HIDE DEF q
<1>5. q * Second >= t
  BY <1>1, <1>4
<1> QED
  BY <1>4, <1>5 DEF Seconds, q

\* Of one thing, n times.
LEMMA Copies ==
  ASSUME NEW x, NEW n \in Nat
  PROVE  IsFiniteSet({x} \X (1..n)) /\ Cardinality({x} \X (1..n)) = n
<1> DEFINE N == 1..n
<1>1. IsFiniteSet({x}) /\ Cardinality({x}) = 1
  BY FS_Singleton
<1>2. IsFiniteSet(N) /\ Cardinality(N) = n
  BY FS_Interval
<1> HIDE DEF N
<1>3. IsFiniteSet({x} \X N) /\ Cardinality({x} \X N) = 1 * Cardinality(N)
  BY <1>1, <1>2, FS_Product
<1> QED
  BY <1>2, <1>3 DEF N

\* The pairs that TokensOf counts.
Pairs(S) == UNION {{x} \X (1..x.size) : x \in S}

LEMMA PairsCount ==
  ASSUME NEW S, IsFiniteSet(S), \A x \in S : x.size \in Nat
  PROVE  /\ TokensOf(S) = Cardinality(Pairs(S)) /\ IsFiniteSet(Pairs(S))
         /\ TokensOf(S) \in Nat
<1> DEFINE f == [x \in S |-> x.size]
           P == {Share(f, x) : x \in DOMAIN f}
           g == [x \in S |-> Share(f, x)]
<1>1. DOMAIN f = S /\ \A x \in S : f[x] = x.size
  OBVIOUS
<1>2. \A x \in S : Share(f, x) = {x} \X (1..x.size)
  BY DEF Share
<1>3. UNION P = Pairs(S)
  BY <1>1, <1>2 DEF Pairs
<1>4. g \in Surjection(S, P)
  BY <1>1 DEF Surjection
<1>5. IsFiniteSet(P)
  BY <1>4, FS_Surjection
<1>6. \A x \in S : IsFiniteSet(Share(f, x))
  <2>1. \A x \in S : IsFiniteSet({x} \X (1..x.size))
    BY Copies
  <2> QED
    BY <1>2, <2>1
<1>7. IsFiniteSet(UNION P)
  BY <1>1, <1>5, <1>6, FS_UNION
<1>8. TokensOf(S) = Cardinality(UNION P)
  BY DEF TokensOf, Total
<1> QED
  BY <1>3, <1>7, <1>8, FS_CardinalityType

\* Some of the requests ask for no more tokens than all of them.
LEMMA FewerTokens ==
  ASSUME NEW S, NEW R, R \subseteq S, IsFiniteSet(S), \A x \in S : x.size \in Nat
  PROVE  TokensOf(R) \in Nat /\ TokensOf(S) \in Nat /\ TokensOf(R) <= TokensOf(S)
<1>1. IsFiniteSet(R)
  BY FS_Subset
<1>2. Pairs(R) \subseteq Pairs(S)
  BY DEF Pairs
<1> QED
  BY <1>1, <1>2, PairsCount, FS_Subset

\* What one request more asks for.
LEMMA TokensOfOneMore ==
  ASSUME NEW S, NEW e, IsFiniteSet(S), \A x \in S : x.size \in Nat, e.size \in Nat, e \notin S
  PROVE  TokensOf(S \cup {e}) = TokensOf(S) + e.size
<1> DEFINE E == {e} \X (1..e.size)
<1>1. IsFiniteSet(S \cup {e})
  BY FS_AddElement
<1>2. IsFiniteSet(E) /\ Cardinality(E) = e.size
  BY Copies
<1>4. Pairs(S \cup {e}) = Pairs(S) \cup E
  BY DEF Pairs
<1>5. Pairs(S) \cap E = {}
  BY DEF Pairs
<1>6. Cardinality(Pairs(S) \cup E) = Cardinality(Pairs(S)) + Cardinality(E) - Cardinality(Pairs(S) \cap E)
  BY <1>2, PairsCount, FS_Union
<1>7. Cardinality(Pairs(S) \cap E) = 0
  BY <1>5, FS_EmptySet
<1>8. TokensOf(S \cup {e}) = Cardinality(Pairs(S \cup {e}))
  BY <1>1, PairsCount
<1>9. TokensOf(S) = Cardinality(Pairs(S)) /\ TokensOf(S) \in Nat
  BY PairsCount
<1>10. TokensOf(S \cup {e}) = Cardinality(Pairs(S) \cup E)
  BY <1>4, <1>8
<1> HIDE DEF E
<1> QED
  BY <1>2, <1>6, <1>7, <1>9, <1>10

\* What two sets of requests ask for that have none in common.
LEMMA TokensOfBoth ==
  ASSUME NEW S, NEW U, IsFiniteSet(S), IsFiniteSet(U), \A x \in S \cup U : x.size \in Nat, S \cap U = {}
  PROVE  TokensOf(S \cup U) = TokensOf(S) + TokensOf(U) /\ TokensOf(U) \in Nat
<1>1. IsFiniteSet(S \cup U)
  BY FS_Union
<1>2. Pairs(S \cup U) = Pairs(S) \cup Pairs(U) /\ Pairs(S) \cap Pairs(U) = {}
  BY DEF Pairs
<1>3. Cardinality(Pairs(S) \cup Pairs(U))
        = Cardinality(Pairs(S)) + Cardinality(Pairs(U)) - Cardinality(Pairs(S) \cap Pairs(U))
  BY PairsCount, FS_Union
<1>4. Cardinality(Pairs(S) \cap Pairs(U)) = 0
  BY <1>2, FS_EmptySet
<1>5. /\ TokensOf(S \cup U) = Cardinality(Pairs(S \cup U))
      /\ TokensOf(S) = Cardinality(Pairs(S)) /\ TokensOf(S) \in Nat
      /\ TokensOf(U) = Cardinality(Pairs(U)) /\ TokensOf(U) \in Nat
  BY <1>1, PairsCount
<1>6. TokensOf(S \cup U) = Cardinality(Pairs(S) \cup Pairs(U))
  BY <1>2, <1>5
<1> QED
  BY <1>3, <1>4, <1>5, <1>6

LEMMA NoTokens == TokensOf({}) = 0
<1>1. Pairs({}) = {}
  BY DEF Pairs
<1> QED
  BY <1>1, FS_EmptySet, PairsCount
-----------------------------------------------------------------------------
(***************************************************************************)
(* The inductive invariant of the limiter.  What entered a window a short  *)
(* time ago is still in it, since every gateway's clock and every call is  *)
(* within bounds; a client that waits for the window has it to itself, or  *)
(* the oldest member will be gone when its time has come.  The tokens of   *)
(* the last minute are tokens of the counter as it is, up to the number    *)
(* that each request was told.                                             *)
(***************************************************************************)
Types ==
  /\ setup \in Setups /\ now \in 0..setup.time
  /\ win \in [Keys -> SUBSET Member] /\ expiry \in [Keys -> Nat]
  /\ tokens \in [n : Nat, expiry : Nat \cup {None}]
  /\ reqs \in [Clients -> Request]
  /\ posts \in 0..setup.posts /\ faults \in 0..MaxFaults
  /\ ghost \in Ghost

Remembered(k, x) ==
  /\ x.t <= now /\ x.t > now - Surely /\ x.member \in win[k]
  /\ x.member.score >= x.t - MaxDelay /\ expiry[k] > x.t + Window

WindowsInv ==
  \A k \in Keys : /\ IsFiniteSet(win[k]) /\ Cardinality(win[k]) <= Greatest(k)
                  /\ \A x \in ghost.entered[k] : Remembered(k, x)

\* The clock that a call brings was read MaxDelay ago or later.
StampsInv ==
  \A c \in Clients : reqs[c].at \in Keys =>
    reqs[c].stamp - Ahead[c] <= now /\ reqs[c].stamp - Ahead[c] >= now - MaxDelay

\* The client was refused by window k, and has not asked it again.
Waits(c, k) == reqs[c].by = k /\ reqs[c].quiet /\ reqs[c].at \in {"idle", "refused", "ip", k}

RoomAt(c, k) ==
  /\ LimitOf(c, k) > 0 /\ Cardinality(win[k]) <= LimitOf(c, k) /\ reqs[c].until \in Nat
  /\ Cardinality(win[k]) = LimitOf(c, k) => \E m \in win[k] : m.score + Window < reqs[c].until

WaitsInv ==
  \A c \in Clients : ~reqs[c].early /\ \A k \in Keys : Waits(c, k) => RoomAt(c, k)

Expiring == \E c \in Clients : At(c, "expire")

SilenceInv ==
  /\ ghost.last <= now
  /\ tokens.expiry \in Nat \ {0} => now < tokens.expiry
  /\ ~ghost.bare /\ Alive /\ ~Expiring => tokens.expiry \in Nat /\ tokens.expiry <= ghost.last + Minute
  /\ \A c \in Clients :
       /\ reqs[c].alone /\ ~ghost.bare => reqs[c].seen = reqs[c].size
       /\ reqs[c].by = "tpm" => At(c, "refused") /\ reqs[c].seen > TokenLimit[c]

\* Requests have numbers of their own, under which their tokens are noted once.
NumbersInv ==
  /\ IsFiniteSet(ghost.asked)
  /\ \A c \in Clients : reqs[c].n <= posts
  /\ \A c, d \in Clients : c # d /\ ~At(c, "idle") /\ ~At(d, "idle") => reqs[c].n # reqs[d].n
  /\ \A x \in ghost.asked : x.n <= posts /\ x.t <= now
  /\ \A x, y \in ghost.asked : x.n = y.n => x = y
  /\ \A c \in Clients, x \in ghost.asked : x.n = reqs[c].n =>
       /\ reqs[c].at \notin {"ip", "rpm", "incr"}
       /\ At(c, "expire") => x.seen = reqs[c].seen
       /\ reqs[c].at \in {"expire", "again"} => x.let = "not"

Counting == {x \in ghost.asked : x.let = "counted" \/ \E c \in Clients : At(c, "expire") /\ reqs[c].n = x.n}
UpTo(S, v) == {x \in S : x.seen <= v}

TokensInv ==
  ~ghost.slipped =>
    /\ Expiring => Alive
    /\ \A x \in ghost.asked : x.let = "counted" =>
         /\ Alive /\ (tokens.expiry = None \/ tokens.expiry >= x.t + Minute)
         /\ \E c \in Clients : x.seen <= TokenLimit[c]
    /\ \A x \in Counting : x.seen <= tokens.n
    /\ \A v \in Nat : TokensOf(UpTo(Counting, v)) <= v

LimiterInv ==
  Types /\ WindowsInv /\ StampsInv /\ WaitsInv /\ SilenceInv /\ NumbersInv /\ TokensInv
-----------------------------------------------------------------------------
(* The windows.                                                            *)

LEMMA Constant ==
  /\ Second \in Nat \ {0} /\ Window \in Nat \ {0} /\ Minute \in Nat \ {0} /\ MaxDelay \in Nat
  /\ MaxAhead \in Nat /\ MaxFaults \in Nat /\ None \notin Nat /\ Surely \in Nat \ {0}
  /\ Surely = Window - MaxDelay - MaxAhead
BY LimiterAssumption DEF Surely

LEMMA GreatestOf ==
  ASSUME NEW f \in [Clients -> Nat]
  PROVE  Max({f[c] : c \in Clients}) \in Nat /\ \A c \in Clients : f[c] <= Max({f[d] : d \in Clients})
<1> DEFINE T == {f[c] : c \in Clients}
<1>1. T \in SUBSET Nat /\ T # {}
  BY LimiterAssumption
<1>2. f \in Surjection(Clients, T)
  BY DEF Surjection
<1>3. IsFiniteSet(T)
  BY <1>2, LimiterAssumption, FS_Surjection
<1>4. Max(T) \in T /\ \A y \in T : Max(T) >= y
  BY <1>1, <1>3, MaxIs
<1>5. \A c \in Clients : f[c] \in T
  OBVIOUS
<1> QED
  BY <1>1, <1>4, <1>5

\* What the setup says of a client.
LEMMA OfSetup ==
  ASSUME Types
  PROVE  /\ setup \in Setup
         /\ \A c \in Clients :
              /\ Ahead[c] \in Nat /\ Ahead[c] <= MaxAhead
              /\ TokenLimit[c] \in Nat
              /\ \A k \in Keys : LimitOf(c, k) \in Nat /\ Greatest(k) \in Nat
                                 /\ LimitOf(c, k) <= Greatest(k)
         /\ setup.sizes \subseteq Nat /\ IPLimit \in Nat /\ Clients # {} /\ IsFiniteSet(Clients)
<1>1. setup \in Setup /\ Clients # {} /\ IsFiniteSet(Clients)
  BY LimiterAssumption DEF Types
<1>2. /\ Limit \in [Clients -> Nat] /\ TokenLimit \in [Clients -> Nat] /\ IPLimit \in Nat
      /\ Ahead \in [Clients -> 0..MaxAhead] /\ setup.sizes \subseteq Nat
  BY <1>1 DEF Setup, Limit, TokenLimit, IPLimit, Ahead
<1>3. Max({Limit[c] : c \in Clients}) \in Nat
      /\ \A c \in Clients : Limit[c] <= Max({Limit[d] : d \in Clients})
  BY <1>2, GreatestOf
<1>4. \A c \in Clients : Ahead[c] \in Nat /\ Ahead[c] <= MaxAhead
  BY <1>2, Constant
<1>5. \A c \in Clients, k \in Keys :
        LimitOf(c, k) \in Nat /\ Greatest(k) \in Nat /\ LimitOf(c, k) <= Greatest(k)
  BY <1>2, <1>3 DEF LimitOf, Greatest
<1> QED
  BY <1>1, <1>2, <1>4, <1>5

\* What a script keeps of a window.
LEMMA KeptFacts ==
  ASSUME Types, WindowsInv, NEW c \in Clients, NEW k \in Keys
  PROVE  /\ Kept(c, k) \subseteq win[k] /\ IsFiniteSet(Kept(c, k))
         /\ Cardinality(Kept(c, k)) \in Nat /\ Cardinality(Kept(c, k)) <= Cardinality(win[k])
         /\ Cardinality(Kept(c, k)) <= Greatest(k)
         /\ Cardinality(win[k]) \in Nat
         /\ Cardinality(Kept(c, k)) = Cardinality(win[k]) => Kept(c, k) = win[k]
<1>1. Kept(c, k) \subseteq win[k]
  BY DEF Kept
<1>2. IsFiniteSet(win[k]) /\ Cardinality(win[k]) <= Greatest(k) /\ Greatest(k) \in Nat
  BY OfSetup DEF WindowsInv
<1>3. IsFiniteSet(Kept(c, k)) /\ Cardinality(Kept(c, k)) <= Cardinality(win[k])
      /\ (Cardinality(Kept(c, k)) = Cardinality(win[k]) => Kept(c, k) = win[k])
  BY <1>1, <1>2, FS_Subset
<1>4. Cardinality(Kept(c, k)) \in Nat /\ Cardinality(win[k]) \in Nat
  BY <1>2, <1>3, FS_CardinalityType
<1> QED
  BY <1>1, <1>2, <1>3, <1>4

\* A script cleans the window of nothing that entered a short time ago.
LEMMA NothingYoungGoes ==
  ASSUME Types, WindowsInv, StampsInv, NEW c \in Clients, NEW k \in Keys, At(c, k),
         NEW x \in ghost.entered[k]
  PROVE  x.member \in Kept(c, k)
<1>1. /\ now \in Nat /\ reqs[c].stamp \in Nat /\ x.t \in Nat /\ x.member \in Member /\ x.member.score \in Nat
  <2>1. ghost.entered[k] \subseteq Entry /\ reqs[c] \in Request
    BY DEF Types, Ghost
  <2> QED
    BY <2>1, OfSetup DEF Types, Entry, Member, Request, Setup
<1>2. Remembered(k, x)
  BY DEF WindowsInv
<1>3. reqs[c].stamp <= now + MaxAhead
  <2>1. reqs[c].stamp - Ahead[c] <= now /\ Ahead[c] \in Nat /\ Ahead[c] <= MaxAhead
    BY OfSetup DEF StampsInv, At
  <2> QED
    BY <1>1, <2>1, Constant
<1>4. x.member.score > reqs[c].stamp - Window
  <2>1. x.member.score >= x.t - MaxDelay /\ x.t > now - Surely
    BY <1>2 DEF Remembered
  <2> QED
    BY <1>1, <1>3, <2>1, Constant
<1> QED
  BY <1>2, <1>4 DEF Remembered, Kept

LEMMA ExpiresLater ==
  ASSUME Types, NEW k \in Keys
  PROVE  NextExpiry(k) \in Nat /\ NextExpiry(k) > now + Window
<1>1. now \in Nat /\ Second \in Nat \ {0} /\ Window \in Nat
  BY OfSetup, Constant DEF Types, Setup
<1>2. Seconds(Window) \in Nat /\ Seconds(Window) * Second \in Nat /\ Seconds(Window) * Second >= Window
  BY <1>1, SecondsLast
<1> DEFINE q == Seconds(Window)
<1>3. (q + 1) * Second = q * Second + Second
  BY <1>1, <1>2
<1> QED
  BY <1>1, <1>2, <1>3 DEF NextExpiry
\* A script lets a request in, or only cleans the window.
LEMMA EnteredStep ==
  ASSUME Types, WindowsInv, StampsInv, NEW c \in Clients, NEW k \in Keys, At(c, k), Fits(c, k),
         NEW s \in Salts, Entered(c, k, [score |-> reqs[c].stamp, salt |-> s]),
         UNCHANGED <<setup, now>>
  PROVE  /\ win' \in [Keys -> SUBSET Member] /\ expiry' \in [Keys -> Nat] /\ ghost' \in Ghost
         /\ WindowsInv'
         /\ UNCHANGED <<ghost.last, ghost.slipped, ghost.bare, ghost.asked>>
         /\ \A l \in Keys : l # k => win'[l] = win[l]
<1> DEFINE m == [score |-> reqs[c].stamp, salt |-> s]
           e == [t |-> now, member |-> m, n |-> reqs[c].n]
<1>1. now \in Nat /\ reqs[c].stamp \in Nat /\ reqs[c].n \in Nat
  <2>1. reqs[c] \in Request
    BY DEF Types
  <2> QED
    BY <2>1, OfSetup DEF Types, Request, Setup
<1>2. m \in Member /\ e \in Entry /\ e.t = now /\ e.member = m /\ m.score = reqs[c].stamp
  BY <1>1 DEF Member, Entry
<1>3. /\ win' = [win EXCEPT ![k] = Kept(c, k) \cup {m}]
      /\ expiry' = [expiry EXCEPT ![k] = NextExpiry(k)]
      /\ ghost' = [ghost EXCEPT !.entered[k] = @ \cup {e}]
  BY DEF Entered
<1> HIDE DEF m, e
<1>4. win' \in [Keys -> SUBSET Member] /\ expiry' \in [Keys -> Nat]
  BY <1>2, <1>3, KeptFacts, ExpiresLater DEF Types
<1>5. /\ win'[k] = Kept(c, k) \cup {m} /\ \A l \in Keys : l # k => win'[l] = win[l]
      /\ expiry'[k] = NextExpiry(k) /\ \A l \in Keys : l # k => expiry'[l] = expiry[l]
  BY <1>3 DEF Types
<1>6. /\ ghost' \in Ghost
      /\ UNCHANGED <<ghost.last, ghost.slipped, ghost.bare, ghost.asked>>
      /\ ghost'.entered[k] = ghost.entered[k] \cup {e}
      /\ \A l \in Keys : l # k => ghost'.entered[l] = ghost.entered[l]
  BY <1>2, <1>3 DEF Types, Ghost
<1>7. IsFiniteSet(win'[k]) /\ Cardinality(win'[k]) <= Greatest(k)
  <2>1. Cardinality(Kept(c, k)) + 1 <= Greatest(k)
    BY KeptFacts, OfSetup DEF Fits
  <2>2. IsFiniteSet(Kept(c, k) \cup {m})
        /\ Cardinality(Kept(c, k) \cup {m}) <= Cardinality(Kept(c, k)) + 1
    <3> DEFINE K == Kept(c, k)
    <3>1. IsFiniteSet(K) /\ Cardinality(K) \in Nat
      BY KeptFacts
    <3> HIDE DEF K
    <3>2. /\ IsFiniteSet(K \cup {m})
          /\ Cardinality(K \cup {m}) = Cardinality(K) \/ Cardinality(K \cup {m}) = Cardinality(K) + 1
      BY <3>1, FS_AddElement
    <3>3. Cardinality(K \cup {m}) <= Cardinality(K) + 1
      BY <3>1, <3>2
    <3> QED
      BY <3>2, <3>3 DEF K
  <2>3. Cardinality(Kept(c, k) \cup {m}) \in Nat /\ Cardinality(Kept(c, k)) \in Nat /\ Greatest(k) \in Nat
    BY <2>2, KeptFacts, OfSetup, FS_CardinalityType
  <2> QED
    BY <1>5, <2>1, <2>2, <2>3
<1>8. ASSUME NEW x \in ghost'.entered[k] PROVE Remembered(k, x)'
  <2>1. NextExpiry(k) > now + Window /\ NextExpiry(k) \in Nat
    BY ExpiresLater
  <2>2. CASE x = e
    <3>1. reqs[c].stamp - Ahead[c] >= now - MaxDelay /\ Ahead[c] \in Nat
      BY OfSetup DEF StampsInv, At
    <3> QED
      BY <1>1, <1>2, <1>5, <2>1, <2>2, <3>1, Constant DEF Remembered
  <2>3. CASE x \in ghost.entered[k]
    <3>1. Remembered(k, x) /\ x.member \in Kept(c, k)
      BY <2>3, NothingYoungGoes DEF WindowsInv
    <3>2. x.t \in Nat
      BY <2>3 DEF Types, Ghost, Entry
    <3>3. expiry'[k] > x.t + Window
      BY <1>1, <1>5, <2>1, <3>1, <3>2, Constant DEF Remembered
    <3> QED
      BY <1>5, <3>1, <3>3 DEF Remembered
  <2> QED
    BY <1>6, <2>2, <2>3
<1>9. WindowsInv'
  <2>1. \A l \in Keys : l # k => \A x \in ghost'.entered[l] : Remembered(l, x)'
    BY <1>5, <1>6 DEF WindowsInv, Remembered
  <2> QED
    BY <1>5, <1>7, <1>8, <2>1 DEF WindowsInv, Greatest, IPLimit, Limit
<1> QED
  BY <1>4, <1>5, <1>6, <1>9

LEMMA UnenteredStep ==
  ASSUME Types, WindowsInv, StampsInv, NEW c \in Clients, NEW k \in Keys, At(c, k),
         Unentered(c, k), UNCHANGED <<setup, now>>
  PROVE  /\ win' \in [Keys -> SUBSET Member] /\ WindowsInv' /\ UNCHANGED <<expiry, ghost>>
         /\ win'[k] = Kept(c, k) /\ \A l \in Keys : l # k => win'[l] = win[l]
<1>1. win' = [win EXCEPT ![k] = Kept(c, k)] /\ UNCHANGED <<expiry, ghost>>
  BY DEF Unentered
<1>2. /\ win' \in [Keys -> SUBSET Member]
      /\ win'[k] = Kept(c, k) /\ \A l \in Keys : l # k => win'[l] = win[l]
  BY <1>1, KeptFacts DEF Types
<1>3. \A x \in ghost.entered[k] : Remembered(k, x)'
  BY <1>1, <1>2, NothingYoungGoes DEF WindowsInv, Remembered
<1>4. \A l \in Keys : l # k => \A x \in ghost.entered[l] : Remembered(l, x)'
  BY <1>1, <1>2 DEF WindowsInv, Remembered
<1>5. IsFiniteSet(win'[k]) /\ Cardinality(win'[k]) <= Greatest(k)
  BY <1>2, KeptFacts
<1>6. WindowsInv'
  BY <1>1, <1>2, <1>3, <1>4, <1>5 DEF WindowsInv, Greatest, IPLimit, Limit
<1> QED
  BY <1>1, <1>2, <1>6

LEMMA WindowFrame ==
  ASSUME WindowsInv, UNCHANGED <<setup, now, windowVars, ghost.entered>>
  PROVE  WindowsInv'
BY DEF WindowsInv, windowVars, Remembered, Greatest, IPLimit, Limit
-----------------------------------------------------------------------------
(* What a step does to the requests.                                       *)

\* Of the others nothing changes but that a client may notice that it is not alone.
OthersStay(c) ==
  \A d \in Clients \ {c} : reqs'[d] = reqs[d] \/ reqs'[d] = [reqs[d] EXCEPT !.quiet = FALSE]

LEMMA OthersAre ==
  ASSUME Types, NEW c \in Clients, OthersStay(c), NEW d \in Clients \ {c}
  PROVE  /\ UNCHANGED <<reqs[d].at, reqs[d].stamp, reqs[d].size, reqs[d].seen, reqs[d].n,
                        reqs[d].by, reqs[d].until, reqs[d].early, reqs[d].alone>>
         /\ reqs'[d].quiet => reqs[d].quiet /\ reqs'[d] = reqs[d]
<1>1. reqs[d] \in Request
  BY DEF Types
<1>2. CASE reqs'[d] = reqs[d]
  BY <1>2
<1>3. CASE reqs'[d] = [reqs[d] EXCEPT !.quiet = FALSE]
  BY <1>1, <1>3 DEF Request
<1> QED
  BY <1>2, <1>3 DEF OthersStay

LEMMA StampsStep ==
  ASSUME Types, StampsInv, NEW c \in Clients, OthersStay(c), UNCHANGED <<setup, now>>,
         reqs'[c].at \in Keys => reqs'[c].stamp = now + Ahead[c] \/ UNCHANGED <<reqs[c].at, reqs[c].stamp>>
  PROVE  StampsInv'
<1>1. SUFFICES ASSUME NEW d \in Clients, reqs'[d].at \in Keys
               PROVE  reqs'[d].stamp - Ahead[d] <= now /\ reqs'[d].stamp - Ahead[d] >= now - MaxDelay
  BY DEF StampsInv, Ahead
<1>2. CASE d # c
  BY <1>1, <1>2, OthersAre DEF StampsInv
<1>3. CASE d = c /\ reqs'[c].stamp = now + Ahead[c]
  <2>1. now \in Nat /\ Ahead[c] \in Nat /\ MaxDelay \in Nat
    BY OfSetup, Constant DEF Types, Setup
  <2> QED
    BY <1>3, <2>1
<1>4. CASE d = c /\ UNCHANGED <<reqs[c].at, reqs[c].stamp>>
  BY <1>1, <1>4 DEF StampsInv
<1> QED
  BY <1>1, <1>2, <1>3, <1>4

\* The window is as it was, or smaller.
Shrinks(k) == win'[k] \subseteq win[k]

LEMMA WaitsStep ==
  ASSUME Types, WindowsInv, WaitsInv, NEW c \in Clients, OthersStay(c), UNCHANGED setup,
         ~reqs'[c].early,
         \A k \in Keys : Waits(c, k)' =>
           RoomAt(c, k)' \/ (Waits(c, k) /\ UNCHANGED reqs[c].until /\ Shrinks(k)),
         \A k \in Keys, d \in Clients \ {c} : Waits(d, k)' => Shrinks(k)
  PROVE  WaitsInv'
<1>1. ASSUME NEW d \in Clients, NEW k \in Keys, Waits(d, k), UNCHANGED reqs[d].until, Shrinks(k)
      PROVE  RoomAt(d, k)'
  <2>1. RoomAt(d, k) /\ LimitOf(d, k) \in Nat /\ LimitOf(d, k)' = LimitOf(d, k)
    BY <1>1, OfSetup DEF WaitsInv, LimitOf, IPLimit, Limit
  <2>2. /\ IsFiniteSet(win[k]) /\ IsFiniteSet(win'[k]) /\ Cardinality(win'[k]) <= Cardinality(win[k])
        /\ Cardinality(win'[k]) = Cardinality(win[k]) => win'[k] = win[k]
    BY <1>1, FS_Subset DEF WindowsInv, Shrinks
  <2>3. Cardinality(win[k]) \in Nat /\ Cardinality(win'[k]) \in Nat
    BY <2>2, FS_CardinalityType
  <2>4. Cardinality(win'[k]) <= LimitOf(d, k)
    BY <2>1, <2>2, <2>3 DEF RoomAt
  <2>5. Cardinality(win'[k]) = LimitOf(d, k) => win'[k] = win[k]
    BY <2>1, <2>2, <2>3 DEF RoomAt
  <2> QED
    BY <1>1, <2>1, <2>4, <2>5 DEF RoomAt
<1>2. ASSUME NEW d \in Clients \ {c}, NEW k \in Keys, Waits(d, k)' PROVE RoomAt(d, k)'
  BY <1>1, <1>2, OthersAre DEF Waits
<1>3. \A d \in Clients \ {c} : ~reqs'[d].early
  BY OthersAre DEF WaitsInv
<1>4. \A k \in Keys : Waits(c, k)' => RoomAt(c, k)'
  BY <1>1
<1> QED
  BY <1>2, <1>3, <1>4 DEF WaitsInv

LEMMA SilenceStep ==
  ASSUME Types, SilenceInv, NEW c \in Clients, OthersStay(c),
         UNCHANGED <<setup, now, tokens, ghost.last, ghost.bare>>,
         ~At(c, "expire"),
         reqs'[c].alone => UNCHANGED <<reqs[c].alone, reqs[c].seen, reqs[c].size>>,
         reqs'[c].by = "tpm" => reqs[c].by = "tpm" /\ ~At(c, "refused")
  PROVE  SilenceInv'
<1>1. Alive' = Alive /\ TokenLimit' = TokenLimit
  BY DEF Alive, TokenLimit
<1>2. Expiring => Expiring'
  <2>1. SUFFICES ASSUME NEW d \in Clients, At(d, "expire") PROVE At(d, "expire")'
    BY DEF Expiring
  <2> QED
    BY <2>1, OthersAre DEF At
<1>3. ASSUME NEW d \in Clients
      PROVE  /\ reqs'[d].alone /\ ~ghost'.bare => reqs'[d].seen = reqs'[d].size
             /\ reqs'[d].by = "tpm" => reqs'[d].at = "refused" /\ reqs'[d].seen > TokenLimit[d]
  <2>1. CASE d # c
    BY <2>1, OthersAre DEF SilenceInv, At
  <2>2. CASE d = c
    BY <2>2 DEF SilenceInv
  <2> QED
    BY <2>1, <2>2
<1> QED
  BY <1>1, <1>2, <1>3 DEF SilenceInv, At

LEMMA NumbersStep ==
  ASSUME Types, NumbersInv, NEW c \in Clients, OthersStay(c),
         UNCHANGED <<now, posts, ghost.asked>>,
         \/ reqs'[c].at = "idle" /\ reqs'[c].n = 0
         \/ /\ UNCHANGED reqs[c].n /\ ~At(c, "idle") /\ ~At(c, "expire")'
            /\ At(c, "again")' => reqs[c].at \in {"expire", "again"}
            /\ reqs'[c].at \in {"ip", "rpm", "incr"} => reqs[c].at \in {"ip", "rpm", "incr"}
  PROVE  NumbersInv'
<1>1. posts \in Nat
  BY OfSetup DEF Types, Setup
<1>2. \A d \in Clients : d # c => UNCHANGED <<reqs[d].at, reqs[d].n, reqs[d].seen>>
  BY OthersAre
<1>3. \A d \in Clients : reqs'[d].n <= posts'
  BY <1>1, <1>2 DEF NumbersInv
<1>4. \A d \in Clients : reqs'[d].at # "idle" => reqs[d].at # "idle" /\ reqs'[d].n = reqs[d].n
  BY <1>2 DEF At
<1>5. \A d, b \in Clients :
        d # b /\ reqs'[d].at # "idle" /\ reqs'[b].at # "idle" => reqs'[d].n # reqs'[b].n
  BY <1>4 DEF NumbersInv, At
<1>6. \A d \in Clients, x \in ghost'.asked : x.n = reqs'[d].n =>
        /\ reqs'[d].at \notin {"ip", "rpm", "incr"}
        /\ reqs'[d].at = "expire" => x.seen = reqs'[d].seen
        /\ reqs'[d].at \in {"expire", "again"} => x.let = "not"
  <2>1. SUFFICES ASSUME NEW d \in Clients, NEW x \in ghost.asked, x.n = reqs'[d].n
                 PROVE  /\ reqs'[d].at \notin {"ip", "rpm", "incr"}
                        /\ reqs'[d].at = "expire" => x.seen = reqs'[d].seen
                        /\ reqs'[d].at \in {"expire", "again"} => x.let = "not"
    OBVIOUS
  <2>2. CASE d # c
    BY <1>2, <2>1, <2>2 DEF NumbersInv, At
  <2>3. CASE d = c
    BY <2>1, <2>3 DEF NumbersInv, At
  <2> QED
    BY <2>2, <2>3
<1> QED
  BY <1>3, <1>5, <1>6 DEF NumbersInv, At

LEMMA AskedTypes ==
  ASSUME Types
  PROVE  /\ ghost.asked \subseteq Asked
         /\ \A x \in ghost.asked : x.t \in Nat /\ x.n \in Nat /\ x.size \in Nat /\ x.seen \in Nat
                                   /\ x.let \in Ways
BY DEF Types, Ghost, Asked

LEMMA FewerCount ==
  ASSUME Types, NumbersInv, NEW S, S \subseteq Counting, NEW v \in Nat
  PROVE  TokensOf(UpTo(Counting, v)) <= v => TokensOf(UpTo(S, v)) <= v
<1>1. UpTo(S, v) \subseteq UpTo(Counting, v) /\ UpTo(Counting, v) \subseteq ghost.asked
  BY DEF UpTo, Counting
<1>2. IsFiniteSet(UpTo(Counting, v))
  BY <1>1, FS_Subset DEF NumbersInv
<1>3. /\ TokensOf(UpTo(S, v)) \in Nat /\ TokensOf(UpTo(Counting, v)) \in Nat
      /\ TokensOf(UpTo(S, v)) <= TokensOf(UpTo(Counting, v))
  BY <1>1, <1>2, AskedTypes, FewerTokens
<1> QED
  BY <1>3

\* Fewer requests count, of the same counter.
LEMMA TokensStep ==
  ASSUME Types, NumbersInv, TokensInv, NEW c \in Clients, OthersStay(c),
         UNCHANGED <<setup, tokens, ghost.slipped, ghost.asked>>,
         ~At(c, "expire")'
  PROVE  TokensInv'
<1>1. \A d \in Clients : reqs'[d].at = "expire" => At(d, "expire") /\ reqs'[d].n = reqs[d].n
  BY OthersAre DEF At
<1>2. Counting' \subseteq Counting
  BY <1>1 DEF Counting, At
<1>3. Expiring' => Expiring
  BY <1>1 DEF Expiring, At
<1>4. \A v \in Nat : TokensOf(UpTo(Counting, v)) <= v => TokensOf(UpTo(Counting', v)) <= v
  BY <1>2, FewerCount
<1>5. Alive' = Alive /\ TokenLimit' = TokenLimit
  BY DEF Alive, TokenLimit
<1> QED
  BY <1>2, <1>3, <1>4, <1>5 DEF TokensInv, UpTo
-----------------------------------------------------------------------------
(* The actions.                                                            *)

LEMMA Reached ==
  ASSUME Types, NEW c \in Clients, NEW step \in Steps
  PROVE  /\ Reach(c, step) \in [Clients -> Request]
         /\ \A d \in Clients : d # c => Reach(c, step)[d] = reqs[d]
         /\ Reach(c, step)[c].at = step /\ Reach(c, step)[c].stamp = now + Ahead[c]
         /\ Reach(c, step)[c].size = reqs[c].size /\ Reach(c, step)[c].seen = reqs[c].seen
         /\ Reach(c, step)[c].n = reqs[c].n /\ Reach(c, step)[c].by = reqs[c].by
         /\ Reach(c, step)[c].until = reqs[c].until /\ Reach(c, step)[c].quiet = reqs[c].quiet
         /\ Reach(c, step)[c].early = reqs[c].early /\ Reach(c, step)[c].alone = reqs[c].alone
<1> DEFINE a == now + Ahead[c]
           r == [reqs[c] EXCEPT !.at = step, !.stamp = a]
<1>1. a \in Nat
  BY OfSetup DEF Types, Setup
<1>2. reqs \in [Clients -> Request]
  BY DEF Types
<1>3. Reach(c, step) = [reqs EXCEPT ![c].at = step, ![c].stamp = a]
  BY DEF Reach
<1> HIDE DEF a
<1>4. Reach(c, step) = [reqs EXCEPT ![c] = r]
  BY <1>2, <1>3
<1>5. r \in Request
  BY <1>1, <1>2 DEF Request
<1>6. /\ r.at = step /\ r.stamp = a /\ r.size = reqs[c].size /\ r.seen = reqs[c].seen
      /\ r.n = reqs[c].n /\ r.by = reqs[c].by /\ r.until = reqs[c].until /\ r.quiet = reqs[c].quiet
      /\ r.early = reqs[c].early /\ r.alone = reqs[c].alone
  BY <1>2 DEF Request
<1> HIDE DEF r
<1> QED
  BY <1>2, <1>4, <1>5, <1>6 DEF a

LEMMA PostStep ==
  ASSUME LimiterInv, NEW c \in Clients, Post(c)
  PROVE  LimiterInv'
<1> USE DEF LimiterInv
<1> DEFINE step == IF c \in Chats THEN "ip" ELSE "rpm"
           n == posts + 1
           R == Reach(c, step)
<1>1. posts \in Nat /\ n \in Nat /\ step \in Steps /\ step \in {"ip", "rpm"}
  BY OfSetup DEF Types, Setup, Steps
<1>2. /\ R \in [Clients -> Request]
      /\ \A d \in Clients : d # c => R[d] = reqs[d]
      /\ R[c] \in Request
      /\ R[c].at = step /\ R[c].stamp = now + Ahead[c]
      /\ R[c].by = reqs[c].by /\ R[c].until = reqs[c].until /\ R[c].quiet = reqs[c].quiet
      /\ R[c].size = reqs[c].size /\ R[c].seen = reqs[c].seen /\ R[c].alone = reqs[c].alone
  BY <1>1, Reached
<1>3. /\ reqs' = [R EXCEPT ![c].n = n, ![c].early = FALSE] /\ At(c, "idle") /\ posts < setup.posts
      /\ posts' = n /\ UNCHANGED <<setup, now, windowVars, tokens, faults, ghost>>
  BY DEF Post
<1> HIDE DEF R, n, step
<1>4. /\ reqs' \in [Clients -> Request] /\ \A d \in Clients : d # c => reqs'[d] = reqs[d]
      /\ reqs'[c].at = step /\ reqs'[c].n = n /\ ~reqs'[c].early /\ reqs'[c].stamp = now + Ahead[c]
      /\ UNCHANGED <<reqs[c].by, reqs[c].until, reqs[c].quiet, reqs[c].size, reqs[c].seen, reqs[c].alone>>
  BY <1>1, <1>2, <1>3 DEF Request
<1>5. OthersStay(c)
  BY <1>4 DEF OthersStay
<1>6. Types'
  BY <1>1, <1>3, <1>4, OfSetup DEF Types, windowVars, Setup, n
<1>7. WindowsInv' /\ StampsInv'
  BY <1>3, <1>4, <1>5, WindowFrame, StampsStep
<1>8. WaitsInv'
  <2>1. \A k \in Keys : Waits(c, k)' => Waits(c, k)
    BY <1>3, <1>4 DEF Waits, At
  <2>2. \A k \in Keys : Shrinks(k)
    BY <1>3 DEF Shrinks, windowVars
  <2> QED
    BY <1>3, <1>4, <1>5, <2>1, <2>2, WaitsStep
<1>9. SilenceInv'
  BY <1>3, <1>4, <1>5, SilenceStep DEF At
<1>10. NumbersInv'
  <2>1. \A d \in Clients : reqs'[d].n <= n
    <3>1. \A d \in Clients : reqs[d].n \in Nat /\ reqs[d].n <= posts
      BY DEF NumbersInv, Types, Request
    <3> QED
      BY <1>1, <1>4, <3>1 DEF n
  <2>2. \A d \in Clients : d # c => reqs'[d].n # n
    <3>1. \A d \in Clients : reqs[d].n \in Nat /\ reqs[d].n <= posts
      BY DEF NumbersInv, Types, Request
    <3> QED
      BY <1>1, <1>4, <3>1 DEF n
  <2>3. \A x \in ghost.asked : x.n <= n /\ x.n # n
    BY <1>1, AskedTypes DEF NumbersInv, n
  <2> QED
    BY <1>1, <1>3, <1>4, <2>1, <2>2, <2>3 DEF NumbersInv, At
<1>11. TokensInv'
  BY <1>1, <1>3, <1>4, <1>5, TokensStep DEF At
<1> QED
  BY <1>6, <1>7, <1>8, <1>9, <1>10, <1>11

LEMMA NoticedIs ==
  ASSUME Types, NEW c \in Clients, NEW k \in Keys, NEW rs \in [Clients -> Request],
         \A d \in Clients : d # c => rs[d] = reqs[d]
  PROVE  /\ Noticed(c, k, rs) \in [Clients -> Request] /\ Noticed(c, k, rs)[c] = rs[c]
         /\ reqs' = Noticed(c, k, rs) => OthersStay(c)
         /\ \A d \in Clients \ {c} : Noticed(c, k, rs)[d].by = k => ~Noticed(c, k, rs)[d].quiet
<1>1. \A d \in Clients : rs[d] \in Request /\ [rs[d] EXCEPT !.quiet = FALSE] \in Request
  BY DEF Request
<1>2. \A d \in Clients : Noticed(c, k, rs)[d]
                           = IF d # c /\ rs[d].by = k THEN [rs[d] EXCEPT !.quiet = FALSE] ELSE rs[d]
  BY DEF Noticed
<1>3. Noticed(c, k, rs) \in [Clients -> Request]
  BY <1>1 DEF Noticed
<1>4. \A d \in Clients : ~[rs[d] EXCEPT !.quiet = FALSE].quiet
  BY <1>1 DEF Request
<1> QED
  BY <1>2, <1>3, <1>4 DEF OthersStay

\* A call on window k that lets c in, or cleans the window, or has no effect.
LEMMA WindowCall ==
  ASSUME LimiterInv, NEW c \in Clients, NEW k \in Keys, At(c, k),
         UNCHANGED <<setup, now, tokens, posts>>, faults' \in 0..MaxFaults,
         reqs' \in [Clients -> Request], OthersStay(c),
         \/ UNCHANGED <<windowVars, ghost>>
         \/ Unentered(c, k)
         \/ /\ Fits(c, k) /\ \E s \in Salts : Entered(c, k, [score |-> reqs[c].stamp, salt |-> s])
            /\ \A d \in Clients \ {c} : reqs'[d].by = k => ~reqs'[d].quiet,
         UNCHANGED <<reqs[c].n, reqs[c].size, reqs[c].seen, reqs[c].alone>>,
         ~reqs'[c].early, reqs'[c].by # "tpm",
         reqs'[c].at \in {"ip", "rpm", "incr", "through", "refused"},
         reqs'[c].at \in Keys => reqs'[c].stamp = now + Ahead[c] \/ UNCHANGED <<reqs[c].at, reqs[c].stamp>>,
         \A l \in Keys : Waits(c, l)' => RoomAt(c, l)' \/ (Waits(c, l) /\ UNCHANGED reqs[c].until /\ l # k)
  PROVE  LimiterInv'
<1> USE DEF LimiterInv
<1>1. /\ win' \in [Keys -> SUBSET Member] /\ expiry' \in [Keys -> Nat] /\ ghost' \in Ghost
      /\ WindowsInv'
      /\ UNCHANGED <<ghost.last, ghost.slipped, ghost.bare, ghost.asked>>
      /\ \A l \in Keys : l # k => win'[l] = win[l]
  <2>1. CASE UNCHANGED <<windowVars, ghost>>
    BY <2>1, WindowFrame DEF Types, windowVars
  <2>2. CASE Unentered(c, k)
    BY <2>2, UnenteredStep DEF Types
  <2>3. CASE Fits(c, k) /\ \E s \in Salts : Entered(c, k, [score |-> reqs[c].stamp, salt |-> s])
    BY <2>3, EnteredStep
  <2> QED
    BY <2>1, <2>2, <2>3
<1>2. Types'
  BY <1>1 DEF Types
<1>3. StampsInv'
  BY StampsStep
<1>4. \A l \in Keys : l # k => Shrinks(l)
  BY <1>1 DEF Shrinks
<1>5. \A d \in Clients \ {c} : Waits(d, k)' => Shrinks(k)
  <2>1. CASE UNCHANGED <<windowVars, ghost>>
    BY <2>1 DEF Shrinks, windowVars
  <2>2. CASE Unentered(c, k)
    BY <2>2, UnenteredStep, KeptFacts DEF Shrinks
  <2>3. CASE \A d \in Clients \ {c} : reqs'[d].by = k => ~reqs'[d].quiet
    BY <2>3 DEF Waits
  <2> QED
    BY <2>1, <2>2, <2>3
<1>6. WaitsInv'
  BY <1>4, <1>5, WaitsStep
<1>7. At(c, k) /\ k \in {"ip", "rpm"}
  BY DEF Keys
<1>8. SilenceInv'
  BY <1>1, <1>7, SilenceStep DEF At
<1>9. NumbersInv'
  BY <1>1, <1>7, NumbersStep DEF At
<1>10. TokensInv'
  BY <1>1, TokensStep DEF At
<1> QED
  BY <1>1, <1>2, <1>3, <1>6, <1>8, <1>9, <1>10

LEMMA NextCall ==
  ASSUME NEW c \in Clients, NEW k \in Keys
  PROVE  /\ After(c, k) \in Steps /\ After(c, k) \in {"rpm", "incr", "through"}
         /\ After(c, k) = "rpm" => k = "ip"
BY DEF After, Keys, Steps

LEMMA PassStep ==
  ASSUME LimiterInv, NEW c \in Clients, NEW k \in Keys, Pass(c, k)
  PROVE  LimiterInv'
<1> USE DEF LimiterInv
<1> DEFINE R == Reach(c, After(c, k))
           b == IF R[c].by = k THEN "none" ELSE R[c].by
           rs == [R EXCEPT ![c].by = b]
<1>1. /\ R \in [Clients -> Request] /\ \A d \in Clients : d # c => R[d] = reqs[d]
      /\ R[c].at = After(c, k) /\ R[c].stamp = now + Ahead[c]
      /\ R[c].n = reqs[c].n /\ R[c].size = reqs[c].size /\ R[c].seen = reqs[c].seen
      /\ R[c].alone = reqs[c].alone /\ R[c].by = reqs[c].by /\ R[c].until = reqs[c].until
      /\ R[c].quiet = reqs[c].quiet /\ R[c].early = reqs[c].early
  BY NextCall, Reached
<1>2. /\ b \in Keys \cup {"tpm", "none"} /\ b # k
      /\ b \in {"none", R[c].by}
  BY <1>1 DEF Request, Keys
<1>3. /\ At(c, k) /\ Fits(c, k) /\ \E s \in Salts : Entered(c, k, [score |-> reqs[c].stamp, salt |-> s])
      /\ reqs' = Noticed(c, k, rs) /\ UNCHANGED <<setup, now, tokens, posts, faults>>
  BY DEF Pass
<1> HIDE DEF b, R
<1>4. /\ rs \in [Clients -> Request] /\ \A d \in Clients : d # c => rs[d] = reqs[d]
      /\ rs[c].by = b /\ rs[c].at = R[c].at /\ rs[c].stamp = R[c].stamp
      /\ rs[c].n = R[c].n /\ rs[c].size = R[c].size /\ rs[c].seen = R[c].seen
      /\ rs[c].alone = R[c].alone /\ rs[c].until = R[c].until
      /\ rs[c].quiet = R[c].quiet /\ rs[c].early = R[c].early
  BY <1>1, <1>2 DEF Request
<1> HIDE DEF rs
<1>5. /\ reqs' \in [Clients -> Request] /\ reqs'[c] = rs[c] /\ OthersStay(c)
      /\ \A d \in Clients \ {c} : reqs'[d].by = k => ~reqs'[d].quiet
  BY <1>3, <1>4, NoticedIs
<1>6. ~reqs'[c].early /\ UNCHANGED <<reqs[c].n, reqs[c].size, reqs[c].seen, reqs[c].alone>>
  BY <1>1, <1>4, <1>5 DEF WaitsInv
<1>7. reqs'[c].by # "tpm"
  BY <1>1, <1>2, <1>3, <1>4, <1>5 DEF SilenceInv, At, Keys
<1>8. /\ reqs'[c].at \in {"ip", "rpm", "incr", "through", "refused"}
      /\ reqs'[c].at \in Keys => reqs'[c].stamp = now + Ahead[c]
  BY <1>1, <1>4, <1>5, NextCall
<1>9. ASSUME NEW l \in Keys, Waits(c, l)' PROVE Waits(c, l) /\ UNCHANGED reqs[c].until /\ l # k
  <2>1. reqs'[c].by = l /\ reqs'[c].quiet /\ reqs'[c].at \in {"idle", "refused", "ip", l}
    BY <1>9 DEF Waits
  <2>2. l # k /\ l = reqs[c].by
    BY <1>1, <1>2, <1>4, <1>5, <2>1 DEF Keys
  <2>3. reqs'[c].at = l /\ k = "ip"
    BY <1>1, <1>4, <1>5, <2>1, NextCall DEF Keys
  <2> QED
    BY <1>1, <1>3, <1>4, <1>5, <2>1, <2>2, <2>3 DEF Waits, At
<1>10. faults' \in 0..MaxFaults
  BY <1>3 DEF Types
<1> QED
  BY <1>3, <1>5, <1>6, <1>7, <1>8, <1>9, <1>10, WindowCall

\* The time that a refused client is told is over when the oldest member has left the window.
LEMMA RetryIs ==
  ASSUME Types, NEW c \in Clients, NEW k \in Keys
  PROVE  /\ reqs[c].stamp + RetryAfter(c, k) * Second \in Nat
         /\ Kept(c, k) # {} =>
              \E m \in Kept(c, k) : m.score + Window < reqs[c].stamp + RetryAfter(c, k) * Second
<1>1. reqs[c].stamp \in Nat /\ Second \in Nat \ {0} /\ Window \in Nat
  BY Constant DEF Types, Request
<1>2. CASE Kept(c, k) = {}
  BY <1>1, <1>2 DEF RetryAfter
<1>3. CASE Kept(c, k) # {}
  <2> DEFINE T == {m.score : m \in Kept(c, k)}
             w == Oldest(c, k) + Window + 1 - reqs[c].stamp
             q == Max({1, Seconds(w)})
  <2>1. \A m \in Kept(c, k) : m.score \in Nat /\ m.score > reqs[c].stamp - Window
    BY DEF Kept, Types, Member
  <2>2. T \in SUBSET Nat /\ T # {}
    BY <1>3, <2>1
  <2>3. Min(T) \in T
    BY <2>2, MinIs
  <2>4. PICK m \in Kept(c, k) : m.score = Oldest(c, k)
    BY <2>3 DEF Oldest
  <2>5. w \in Nat
    BY <1>1, <2>1, <2>4
  <2>6. Seconds(w) \in Nat /\ Seconds(w) * Second \in Nat /\ Seconds(w) * Second >= w
    BY <2>5, SecondsLast
  <2>7. q \in {1, Seconds(w)} /\ q >= Seconds(w)
    <3>1. IsFiniteSet({1, Seconds(w)})
      <4>1. IsFiniteSet({1})
        BY FS_Singleton
      <4>2. IsFiniteSet({1} \cup {Seconds(w)})
        BY <4>1, FS_AddElement
      <4>3. {1} \cup {Seconds(w)} = {1, Seconds(w)}
        OBVIOUS
      <4> QED
        BY <4>2, <4>3
    <3> QED
      BY <2>6, <3>1, MaxIs
  <2>8. RetryAfter(c, k) = q
    BY <1>3 DEF RetryAfter
  <2> HIDE DEF q
  <2>9. q * Second \in Nat /\ q * Second >= w
    <3>1. CASE q = Seconds(w)
      BY <2>6, <3>1
    <3>2. CASE q = 1
      <4>1. Seconds(w) = 0 \/ Seconds(w) = 1
        BY <2>6, <2>7, <3>2
      <4>2. Seconds(w) * Second <= Second
        BY <1>1, <4>1
      <4> QED
        BY <1>1, <2>5, <2>6, <3>2, <4>2
    <3> QED
      BY <2>7, <3>1, <3>2
  <2>10. m.score + Window < reqs[c].stamp + q * Second
    <3>1. w = m.score + Window + 1 - reqs[c].stamp /\ m.score \in Nat
      BY <2>1, <2>4
    <3> HIDE DEF w
    <3> QED
      BY <1>1, <2>5, <2>9, <3>1
  <2> QED
    BY <1>1, <2>8, <2>9, <2>10
<1> QED
  BY <1>2, <1>3

\* A client that comes when it was told to finds room.
LEMMA NotTooEarly ==
  ASSUME LimiterInv, NEW c \in Clients, NEW k \in Keys, At(c, k), ~Fits(c, k),
         reqs[c].by = k, reqs[c].quiet, reqs[c].until <= reqs[c].stamp
  PROVE  FALSE
<1> USE DEF LimiterInv
<1>1. RoomAt(c, k)
  BY DEF WaitsInv, Waits, At
<1>2. /\ Kept(c, k) \subseteq win[k] /\ Cardinality(Kept(c, k)) <= Cardinality(win[k])
      /\ Cardinality(Kept(c, k)) \in Nat /\ Cardinality(win[k]) \in Nat /\ LimitOf(c, k) \in Nat
      /\ Cardinality(Kept(c, k)) = Cardinality(win[k]) => Kept(c, k) = win[k]
  BY KeptFacts, OfSetup
<1>3. Cardinality(win[k]) = LimitOf(c, k) /\ Kept(c, k) = win[k]
  BY <1>1, <1>2 DEF RoomAt, Fits
<1>4. PICK m \in win[k] : m.score + Window < reqs[c].until
  BY <1>1, <1>3 DEF RoomAt
<1>5. m.score \in Nat /\ reqs[c].stamp \in Nat /\ reqs[c].until \in Nat /\ Window \in Nat
  BY <1>1, Constant DEF Types, Member, Request, RoomAt
<1>6. m.score > reqs[c].stamp - Window
  BY <1>3 DEF Kept
<1> QED
  BY <1>4, <1>5, <1>6

LEMMA RefuseStep ==
  ASSUME LimiterInv, NEW c \in Clients, NEW k \in Keys, Refuse(c, k)
  PROVE  LimiterInv'
<1> USE DEF LimiterInv
<1> DEFINE u == reqs[c].stamp + RetryAfter(c, k) * Second
           q == Cardinality(Kept(c, k)) = LimitOf(c, k) /\ LimitOf(c, k) > 0
           e == reqs[c].by = k /\ reqs[c].quiet /\ reqs[c].until <= reqs[c].stamp
           r == [reqs[c] EXCEPT !.at = "refused", !.by = k, !.until = u, !.quiet = q, !.early = e]
<1>1. /\ At(c, k) /\ ~Fits(c, k) /\ Unentered(c, k) /\ reqs' = [reqs EXCEPT ![c] = r]
      /\ UNCHANGED <<setup, now, tokens, posts, faults>>
  BY DEF Refuse
<1>2. u \in Nat /\ (Kept(c, k) # {} => \E m \in Kept(c, k) : m.score + Window < u)
  BY RetryIs
<1>3. ~e
  BY <1>1, NotTooEarly
<1>4. q \in BOOLEAN /\ e \in BOOLEAN
  BY <1>3
<1>5. q => /\ LimitOf(c, k) > 0 /\ Cardinality(Kept(c, k)) = LimitOf(c, k)
           /\ \E m \in Kept(c, k) : m.score + Window < u
  <2>1. Kept(c, k) = {} => Cardinality(Kept(c, k)) = 0
    BY FS_EmptySet
  <2> QED
    BY <1>2, <2>1, OfSetup
<1> HIDE DEF u, q, e
<1>6. /\ r \in Request /\ r.at = "refused" /\ r.by = k /\ r.until = u /\ r.quiet = q /\ r.early = e
      /\ r.n = reqs[c].n /\ r.size = reqs[c].size /\ r.seen = reqs[c].seen /\ r.alone = reqs[c].alone
  BY <1>2, <1>4 DEF Types, Request, Steps
<1> HIDE DEF r
<1>7. /\ reqs' \in [Clients -> Request] /\ reqs'[c] = r /\ OthersStay(c)
  BY <1>1, <1>6 DEF Types, OthersStay
<1>8. ASSUME NEW l \in Keys, Waits(c, l)' PROVE RoomAt(c, l)'
  <2>1. l = k /\ q
    BY <1>6, <1>7, <1>8 DEF Waits
  <2>2. win'[k] = Kept(c, k)
    BY <1>1, UnenteredStep
  <2>3. LimitOf(c, k)' = LimitOf(c, k) /\ LimitOf(c, k) \in Nat
    BY <1>1, OfSetup DEF LimitOf, IPLimit, Limit
  <2> QED
    BY <1>2, <1>5, <1>6, <1>7, <2>1, <2>2, <2>3 DEF RoomAt
<1>9. UNCHANGED <<reqs[c].n, reqs[c].size, reqs[c].seen, reqs[c].alone>> /\ ~reqs'[c].early
      /\ reqs'[c].by # "tpm" /\ reqs'[c].at = "refused"
  BY <1>3, <1>6, <1>7 DEF Keys
<1>10. faults' \in 0..MaxFaults /\ "refused" \notin Keys
  BY <1>1 DEF Types, Keys
<1> QED
  BY <1>1, <1>7, <1>8, <1>9, <1>10, WindowCall

LEMMA FaultsCounted ==
  ASSUME Types, NEW c \in Clients, Fails(c)
  PROVE  faults' \in 0..MaxFaults
BY Constant DEF Types, Fails

LEMMA WindowFailsStep ==
  ASSUME LimiterInv, NEW c \in Clients, NEW k \in Keys, WindowFails(c, k)
  PROVE  LimiterInv'
<1> USE DEF LimiterInv
<1> DEFINE R == Reach(c, After(c, k))
           S == [reqs EXCEPT ![c].quiet = FALSE]
<1>1. At(c, k) /\ UNCHANGED <<setup, now, tokens, posts>> /\ faults' \in 0..MaxFaults
  BY FaultsCounted DEF WindowFails
<1>2. /\ R \in [Clients -> Request] /\ \A d \in Clients : d # c => R[d] = reqs[d]
      /\ R[c].at = After(c, k) /\ R[c].stamp = now + Ahead[c]
      /\ R[c].n = reqs[c].n /\ R[c].size = reqs[c].size /\ R[c].seen = reqs[c].seen
      /\ R[c].alone = reqs[c].alone /\ R[c].by = reqs[c].by /\ R[c].until = reqs[c].until
      /\ R[c].quiet = reqs[c].quiet /\ R[c].early = reqs[c].early
  BY NextCall, Reached
<1>3. /\ S \in [Clients -> Request] /\ \A d \in Clients : d # c => S[d] = reqs[d]
      /\ S[c].at = k /\ S[c].stamp = reqs[c].stamp /\ ~S[c].quiet
      /\ S[c].n = reqs[c].n /\ S[c].size = reqs[c].size /\ S[c].seen = reqs[c].seen
      /\ S[c].alone = reqs[c].alone /\ S[c].by = reqs[c].by /\ S[c].early = reqs[c].early
  BY <1>1 DEF Types, Request, At
<1>4. \/ UNCHANGED <<windowVars, ghost>> /\ reqs' = R
      \/ /\ \/ Fits(c, k) /\ \E s \in Salts : Entered(c, k, [score |-> reqs[c].stamp, salt |-> s])
            \/ Unentered(c, k)
         /\ reqs' \in {Noticed(c, k, R), Noticed(c, k, S)}
  BY DEF WindowFails
<1> HIDE DEF R, S
<1>5. ~reqs[c].early /\ reqs[c].by # "tpm" /\ reqs[c].at = k
  BY <1>1 DEF WaitsInv, SilenceInv, At, Keys
<1>6. reqs' \in [Clients -> Request] /\ OthersStay(c) /\ reqs'[c] \in {R[c], S[c]}
  <2>1. CASE reqs' = R
    BY <1>2, <2>1 DEF OthersStay
  <2>2. CASE reqs' = Noticed(c, k, R)
    BY <1>2, <2>2, NoticedIs
  <2>3. CASE reqs' = Noticed(c, k, S)
    BY <1>3, <2>3, NoticedIs
  <2> QED
    BY <1>4, <2>1, <2>2, <2>3
<1>7. /\ UNCHANGED <<reqs[c].n, reqs[c].size, reqs[c].seen, reqs[c].alone>> /\ ~reqs'[c].early
      /\ reqs'[c].by # "tpm" /\ reqs'[c].at \in {"ip", "rpm", "incr", "through", "refused"}
      /\ reqs'[c].at \in Keys => reqs'[c].stamp = now + Ahead[c] \/ UNCHANGED <<reqs[c].at, reqs[c].stamp>>
  BY <1>2, <1>3, <1>5, <1>6, NextCall DEF Keys
<1>8. ASSUME NEW l \in Keys, Waits(c, l)' PROVE Waits(c, l) /\ UNCHANGED reqs[c].until /\ l # k
  <2>1. reqs'[c].by = l /\ reqs'[c].quiet /\ reqs'[c].at \in {"idle", "refused", "ip", l}
    BY <1>8 DEF Waits
  <2>2. reqs'[c] = R[c] /\ l = reqs[c].by
    BY <1>2, <1>3, <1>6, <2>1
  <2>3. l = "rpm" /\ k = "ip"
    BY <1>2, <2>1, <2>2, NextCall DEF Keys
  <2> QED
    BY <1>2, <1>5, <2>1, <2>2, <2>3 DEF Waits
<1>9. \/ UNCHANGED <<windowVars, ghost>>
      \/ Unentered(c, k)
      \/ /\ Fits(c, k) /\ \E s \in Salts : Entered(c, k, [score |-> reqs[c].stamp, salt |-> s])
         /\ \A d \in Clients \ {c} : reqs'[d].by = k => ~reqs'[d].quiet
  <2>1. reqs' \in {Noticed(c, k, R), Noticed(c, k, S)}
        => \A d \in Clients \ {c} : reqs'[d].by = k => ~reqs'[d].quiet
    BY <1>2, <1>3, NoticedIs
  <2> QED
    BY <1>4, <2>1
<1> QED
  BY <1>1, <1>6, <1>7, <1>8, <1>9, WindowCall
-----------------------------------------------------------------------------
(* The tokens.                                                             *)

\* A step that leaves the windows alone.
LEMMA WindowsApart ==
  ASSUME LimiterInv, NEW c \in Clients, OthersStay(c),
         UNCHANGED <<setup, now, windowVars, ghost.entered>>,
         ~reqs'[c].early, reqs'[c].at \notin Keys,
         \A k \in Keys : Waits(c, k)' => Waits(c, k) /\ UNCHANGED reqs[c].until
  PROVE  WindowsInv' /\ StampsInv' /\ WaitsInv'
<1> USE DEF LimiterInv
<1>1. \A k \in Keys : Shrinks(k)
  BY DEF Shrinks, windowVars
<1> QED
  BY <1>1, WindowFrame, StampsStep, WaitsStep

\* A step that only takes a request further.
LEMMA ThroughIs ==
  ASSUME Types, NEW c \in Clients, NEW step \in Steps, reqs' = [reqs EXCEPT ![c].at = step]
  PROVE  /\ reqs' \in [Clients -> Request] /\ OthersStay(c) /\ reqs'[c].at = step
         /\ UNCHANGED <<reqs[c].n, reqs[c].size, reqs[c].seen, reqs[c].alone, reqs[c].by, reqs[c].early>>
<1>1. reqs' \in [Clients -> Request] /\ OthersStay(c)
  BY DEF Types, Request, OthersStay
<1>2. reqs[c] \in Request /\ reqs'[c] = [reqs[c] EXCEPT !.at = step]
  BY DEF Types
<1> QED
  BY <1>1, <1>2 DEF Request

LEMMA UncountedStep ==
  ASSUME LimiterInv, NEW c \in Clients, At(c, "incr"), reqs' = [reqs EXCEPT ![c].at = "through"],
         UNCHANGED <<setup, now, windowVars, tokens, posts, ghost>>, faults' \in 0..MaxFaults
  PROVE  LimiterInv'
<1> USE DEF LimiterInv
<1>1. /\ reqs' \in [Clients -> Request] /\ OthersStay(c) /\ reqs'[c].at = "through"
      /\ UNCHANGED <<reqs[c].n, reqs[c].size, reqs[c].seen, reqs[c].alone, reqs[c].by, reqs[c].early>>
  BY ThroughIs DEF Steps
<1>2. ~reqs'[c].early
  BY <1>1 DEF WaitsInv
<1>3. Types'
  BY <1>1 DEF Types, windowVars
<1>4. WindowsInv' /\ StampsInv' /\ WaitsInv'
  BY <1>1, <1>2, WindowsApart DEF Waits, Keys
<1>5. SilenceInv'
  BY <1>1, SilenceStep DEF At
<1>6. NumbersInv'
  BY <1>1, NumbersStep DEF At
<1>7. TokensInv'
  BY <1>1, TokensStep DEF At
<1> QED
  BY <1>3, <1>4, <1>5, <1>6, <1>7

LEMMA UnlimitedStep ==
  ASSUME LimiterInv, NEW c \in Clients, Unlimited(c)
  PROVE  LimiterInv'
BY UncountedStep DEF Unlimited, LimiterInv, Types

LEMMA AnswerStep ==
  ASSUME LimiterInv, NEW c \in Clients, Answer(c)
  PROVE  LimiterInv'
<1> USE DEF LimiterInv
<1> DEFINE r == IF At(c, "refused") /\ reqs[c].by \in Keys
                THEN [Idle EXCEPT !.by = reqs[c].by, !.until = reqs[c].until, !.quiet = reqs[c].quiet]
                ELSE Idle
<1>1. /\ reqs[c].at \in {"through", "refused"} /\ reqs' = [reqs EXCEPT ![c] = r]
      /\ UNCHANGED <<setup, now, windowVars, tokens, posts, faults, ghost>>
  BY DEF Answer
<1>2. reqs[c] \in Request
  BY DEF Types
<1>3. Idle \in Request
  BY DEF Idle, Request, Steps
<1>4. /\ r \in Request /\ r.at = "idle" /\ r.n = 0 /\ ~r.early /\ ~r.alone /\ r.by # "tpm"
      /\ \A k \in Keys : r.by = k => At(c, "refused") /\ r.by = reqs[c].by /\ r.until = reqs[c].until
                                     /\ r.quiet = reqs[c].quiet
  <2>1. CASE At(c, "refused") /\ reqs[c].by \in Keys
    <3>1. r = [Idle EXCEPT !.by = reqs[c].by, !.until = reqs[c].until, !.quiet = reqs[c].quiet]
      BY <2>1
    <3> QED
      BY <1>2, <1>3, <2>1, <3>1 DEF Idle, Request, Keys
  <2>2. CASE ~(At(c, "refused") /\ reqs[c].by \in Keys)
    BY <1>3, <2>2 DEF Idle, Keys
  <2> QED
    BY <2>1, <2>2
<1> HIDE DEF r
<1>5. reqs' \in [Clients -> Request] /\ OthersStay(c) /\ reqs'[c] = r
  BY <1>1, <1>4 DEF Types, OthersStay
<1>6. Types'
  BY <1>1, <1>5 DEF Types, windowVars
<1>7. WindowsInv' /\ StampsInv' /\ WaitsInv'
  <2>1. \A k \in Keys : Waits(c, k)' => Waits(c, k) /\ UNCHANGED reqs[c].until
    BY <1>4, <1>5 DEF Waits, At
  <2> QED
    BY <1>1, <1>4, <1>5, <2>1, WindowsApart DEF Keys
<1>8. SilenceInv'
  BY <1>1, <1>4, <1>5, SilenceStep DEF At
<1>9. NumbersInv'
  BY <1>1, <1>4, <1>5, NumbersStep DEF At
<1>10. TokensInv'
  BY <1>1, <1>4, <1>5, TokensStep DEF At
<1> QED
  BY <1>6, <1>7, <1>8, <1>9, <1>10

\* What ends a silence of a minute finds no counter, unless it was left without its EXPIRE.
LEMMA IncrStep ==
  ASSUME LimiterInv, NEW c \in Clients, Incr(c)
  PROVE  LimiterInv'
<1> USE DEF LimiterInv
<1>1. PICK n \in Sizes(c) :
        LET sum == IF Alive THEN tokens.n + n ELSE n IN
        /\ tokens' = [n |-> sum, expiry |-> IF Alive THEN tokens.expiry ELSE None]
        /\ reqs' = [Reach(c, "expire") EXCEPT ![c].size = n, ![c].seen = sum,
                      ![c].alone = now - ghost.last >= Minute /\ \A d \in Clients : ~At(d, "expire")]
        /\ ghost' = [ghost EXCEPT !.last = now, !.asked = Notes(c, n, sum, "not")]
  BY DEF Incr
<1> DEFINE sum == IF Alive THEN tokens.n + n ELSE n
           e == [t |-> now, n |-> reqs[c].n, size |-> n, seen |-> sum, let |-> "not"]
           Old == {x \in ghost.asked : x.n # reqs[c].n}
           alone == now - ghost.last >= Minute /\ \A d \in Clients : ~At(d, "expire")
           R == Reach(c, "expire")
<1>2. reqs[c].at \in {"incr", "again"} /\ UNCHANGED <<setup, now, windowVars, posts, faults>>
  BY DEF Incr
<1>3. /\ now \in Nat /\ posts \in Nat /\ n \in Nat /\ tokens.n \in Nat /\ sum \in Nat
      /\ reqs[c] \in Request /\ reqs[c].n \in Nat /\ ghost.last \in Int /\ Minute \in Nat \ {0}
      /\ alone \in BOOLEAN
  <2>1. now \in Nat /\ posts \in Nat /\ n \in Nat
    BY OfSetup DEF Types, Setup, Sizes, Request
  <2>2. tokens.n \in Nat /\ reqs[c] \in Request /\ ghost.last \in Int /\ Minute \in Nat \ {0}
    BY Constant DEF Types, Ghost
  <2> QED
    BY <2>1, <2>2 DEF Request
<1>4. e \in Asked /\ e.t = now /\ e.n = reqs[c].n /\ e.size = n /\ e.seen = sum /\ e.let = "not"
  BY <1>3 DEF Asked, Ways
<1>5. /\ R \in [Clients -> Request] /\ \A d \in Clients : d # c => R[d] = reqs[d]
      /\ R[c].at = "expire" /\ R[c].n = reqs[c].n /\ R[c].by = reqs[c].by
      /\ R[c].early = reqs[c].early
  BY Reached DEF Steps
<1>6. /\ tokens' = [n |-> sum, expiry |-> IF Alive THEN tokens.expiry ELSE None]
      /\ reqs' = [R EXCEPT ![c].size = n, ![c].seen = sum, ![c].alone = alone]
      /\ ghost' = [ghost EXCEPT !.last = now, !.asked = Old \cup {e}]
      /\ Old \subseteq ghost.asked /\ \A x \in Old : x.n # reqs[c].n
  BY <1>1 DEF Notes
<1>7. Alive => sum = tokens.n + n
  OBVIOUS
<1>8. ~Alive => sum = n
  OBVIOUS
<1>9. alone => now - ghost.last >= Minute /\ ~Expiring
  BY DEF Expiring
<1> HIDE DEF sum, e, alone, R, Old
<1>10. /\ reqs' \in [Clients -> Request] /\ \A d \in Clients : d # c => reqs'[d] = reqs[d]
       /\ reqs'[c].at = "expire" /\ reqs'[c].n = reqs[c].n /\ reqs'[c].by = reqs[c].by
       /\ reqs'[c].early = reqs[c].early /\ reqs'[c].size = n /\ reqs'[c].seen = sum
       /\ reqs'[c].alone = alone
  <2> DEFINE q == [R[c] EXCEPT !.size = n, !.seen = sum, !.alone = alone]
  <2>1. reqs' = [R EXCEPT ![c] = q] /\ R[c] \in Request
    BY <1>5, <1>6
  <2>2. /\ q \in Request /\ q.at = R[c].at /\ q.n = R[c].n /\ q.by = R[c].by /\ q.early = R[c].early
        /\ q.size = n /\ q.seen = sum /\ q.alone = alone
    BY <1>3, <2>1 DEF Request
  <2> HIDE DEF q
  <2> QED
    BY <1>5, <2>1, <2>2
<1>11. /\ ghost' \in Ghost /\ ghost'.last = now /\ ghost'.asked = Old \cup {e}
       /\ UNCHANGED <<ghost.slipped, ghost.bare, ghost.entered>>
  <2> DEFINE A == Old \cup {e}
  <2>1. A \subseteq Asked /\ ghost \in Ghost /\ now \in Int
    BY <1>3, <1>4, <1>6, AskedTypes DEF Types
  <2>2. ghost' = [ghost EXCEPT !.last = now, !.asked = A]
    BY <1>6, <2>1 DEF Ghost
  <2> HIDE DEF A
  <2>3. /\ ghost' \in Ghost /\ ghost'.last = now /\ ghost'.asked = A
        /\ UNCHANGED <<ghost.slipped, ghost.bare, ghost.entered>>
    BY <2>1, <2>2 DEF Ghost
  <2> QED
    BY <2>3 DEF A
<1>12. /\ tokens' \in [n : Nat, expiry : Nat \cup {None}] /\ tokens'.n = sum /\ Alive'
       /\ Alive => tokens'.expiry = tokens.expiry
       /\ ~Alive => tokens'.expiry = None
  BY <1>3, <1>6, Constant DEF Types, Alive
<1>13. OthersStay(c)
  BY <1>10 DEF OthersStay
<1>14. Types'
  BY <1>2, <1>10, <1>11, <1>12 DEF Types, windowVars
<1>15. WindowsInv' /\ StampsInv' /\ WaitsInv'
  <2>1. ~reqs'[c].early
    BY <1>10 DEF WaitsInv
  <2> QED
    BY <1>2, <1>10, <1>11, <1>13, <2>1, WindowsApart DEF Waits, Keys
<1>16. SilenceInv'
  <2>1. tokens'.expiry \in Nat \ {0} => now < tokens'.expiry
    BY <1>12, Constant DEF SilenceInv
  <2>2. Expiring'
    BY <1>10 DEF Expiring, At
  <2>3. alone /\ ~ghost.bare => sum = n
    <3>1. SUFFICES ASSUME alone, ~ghost.bare, Alive PROVE FALSE
      BY <1>8
    <3>2. /\ tokens.expiry \in Nat \ {0} /\ tokens.expiry <= ghost.last + Minute
          /\ now < tokens.expiry
      BY <1>9, <3>1 DEF SilenceInv, Alive
    <3> QED
      BY <1>3, <1>9, <3>1, <3>2
  <2>4. ~At(c, "refused") /\ TokenLimit' = TokenLimit
    BY <1>2 DEF At, TokenLimit
  <2>5. \A d \in Clients :
          /\ reqs'[d].alone /\ ~ghost'.bare => reqs'[d].seen = reqs'[d].size
          /\ reqs'[d].by = "tpm" => reqs'[d].at = "refused" /\ reqs'[d].seen > TokenLimit[d]
    BY <1>10, <1>11, <2>3, <2>4 DEF SilenceInv, At
  <2>6. ghost'.last <= now'
    BY <1>2, <1>3, <1>11
  <2> QED
    BY <1>2, <2>1, <2>2, <2>4, <2>5, <2>6 DEF SilenceInv, At
<1>17. \A x \in Old : x \in ghost.asked /\ x.n # reqs[c].n
  BY <1>6
<1>18. NumbersInv'
  <2>1. IsFiniteSet(ghost'.asked)
    BY <1>6, <1>11, FS_AddElement, FS_Subset DEF NumbersInv
  <2>2. \A d \in Clients : reqs'[d].n = reqs[d].n /\ (reqs'[d].at = "idle" <=> reqs[d].at = "idle")
    BY <1>2, <1>10 DEF At
  <2>3. \A x \in ghost'.asked : x.n <= posts /\ x.t <= now
    BY <1>3, <1>4, <1>11, <1>17 DEF NumbersInv
  <2>4. \A x, y \in ghost'.asked : x.n = y.n => x = y
    BY <1>4, <1>11, <1>17 DEF NumbersInv
  <2>5. ASSUME NEW d \in Clients, NEW x \in ghost'.asked, x.n = reqs[d].n
        PROVE  /\ reqs'[d].at \notin {"ip", "rpm", "incr"}
               /\ reqs'[d].at = "expire" => x.seen = reqs'[d].seen
               /\ reqs'[d].at \in {"expire", "again"} => x.let = "not"
    <3>1. CASE d = c
      BY <1>4, <1>10, <1>11, <1>17, <2>5, <3>1
    <3>2. CASE d # c /\ x = e
      <4>1. reqs[d].at = "idle"
        BY <1>2, <1>4, <2>5, <3>2 DEF NumbersInv, At
      <4> QED
        BY <1>10, <3>2, <4>1
    <3>3. CASE d # c /\ x \in Old
      BY <1>10, <1>17, <2>5, <3>3 DEF NumbersInv, At
    <3> QED
      BY <1>11, <3>1, <3>2, <3>3
  <2> QED
    BY <1>2, <2>1, <2>2, <2>3, <2>4, <2>5 DEF NumbersInv, At
<1>19. TokensInv'
  <2>1. SUFFICES ASSUME ~ghost.slipped PROVE TokensInv'
    BY <1>11 DEF TokensInv
  <2>2. Counting' \subseteq Counting \cup {e} /\ Counting \subseteq ghost.asked
    <3>1. Counting \subseteq ghost.asked
      BY DEF Counting
    <3>2. ASSUME NEW x \in Counting', x # e PROVE x \in Counting
      <4>1. x \in Old /\ (x.let = "counted" \/ \E d \in Clients : reqs'[d].at = "expire" /\ reqs'[d].n = x.n)
        BY <1>11, <3>2 DEF Counting, At
      <4>2. ASSUME NEW d \in Clients, reqs'[d].at = "expire", reqs'[d].n = x.n
            PROVE  At(d, "expire") /\ reqs[d].n = x.n
        BY <1>10, <1>17, <4>1, <4>2 DEF At
      <4> QED
        BY <1>17, <4>1, <4>2 DEF Counting
    <3> QED
      BY <3>1, <3>2
  <2>3. ~Alive => Counting = {}
    BY <2>1 DEF TokensInv, Counting, Expiring
  <2>4. \A x \in Counting : x.seen <= tokens.n /\ x.seen \in Nat
    BY <2>1, <2>2, AskedTypes DEF TokensInv
  <2>5. \A x \in Counting' : x.seen <= tokens'.n
    <3>1. tokens'.n = sum /\ (Alive => sum >= tokens.n)
      BY <1>3, <1>7, <1>12
    <3> QED
      BY <1>3, <1>4, <2>2, <2>3, <2>4, <3>1
  <2>6. \A x \in ghost'.asked : x.let = "counted" =>
          /\ Alive' /\ (tokens'.expiry = None \/ tokens'.expiry >= x.t + Minute)
          /\ \E d \in Clients : x.seen <= TokenLimit'[d]
    <3>1. ASSUME NEW x \in ghost'.asked, x.let = "counted"
          PROVE  /\ Alive /\ (tokens.expiry = None \/ tokens.expiry >= x.t + Minute)
                 /\ \E d \in Clients : x.seen <= TokenLimit[d]
      BY <1>4, <1>11, <1>17, <2>1, <3>1 DEF TokensInv
    <3>2. TokenLimit' = TokenLimit
      BY <1>2 DEF TokenLimit
    <3> QED
      BY <1>12, <3>1, <3>2
  <2>7. ASSUME NEW v \in Nat PROVE TokensOf(UpTo(Counting', v)) <= v
    <3>1. /\ IsFiniteSet(Counting) /\ \A x \in Counting : x.size \in Nat
      BY <2>2, AskedTypes, FS_Subset DEF NumbersInv
    <3>2. CASE v < sum
      <4>1. UpTo(Counting', v) \subseteq UpTo(Counting, v)
        BY <1>3, <1>4, <2>2, <3>2 DEF UpTo
      <4>2. IsFiniteSet(UpTo(Counting, v)) /\ \A x \in UpTo(Counting, v) : x.size \in Nat
        BY <3>1, FS_Subset DEF UpTo
      <4>3. /\ TokensOf(UpTo(Counting', v)) <= TokensOf(UpTo(Counting, v))
            /\ TokensOf(UpTo(Counting', v)) \in Nat /\ TokensOf(UpTo(Counting, v)) \in Nat
        BY <4>1, <4>2, FewerTokens
      <4>4. TokensOf(UpTo(Counting, v)) <= v
        BY <2>1 DEF TokensInv
      <4> QED
        BY <4>3, <4>4
    <3>3. CASE v >= sum
      <4>1. TokensOf(Counting) \in Nat /\ TokensOf(Counting) + n <= sum
        <5>1. CASE Alive
          <6>1. UpTo(Counting, tokens.n) = Counting
            BY <2>4 DEF UpTo
          <6>2. TokensOf(Counting) <= tokens.n
            BY <1>3, <2>1, <6>1 DEF TokensInv
          <6>3. TokensOf(Counting) \in Nat
            BY <3>1, FewerTokens
          <6> QED
            BY <1>3, <1>7, <5>1, <6>2, <6>3
        <5>2. CASE ~Alive
          <6>1. TokensOf(Counting) = 0
            BY <2>3, <5>2, NoTokens
          <6> QED
            BY <1>3, <1>8, <5>2, <6>1
        <5> QED
          BY <5>1, <5>2
      <4>2. TokensOf(Counting \cup {e}) = TokensOf(Counting) + n
        <5>1. e \notin Counting
          BY <1>2, <1>4, <2>2 DEF NumbersInv, Counting, At
        <5> QED
          BY <1>3, <1>4, <3>1, <5>1, TokensOfOneMore
      <4>3. IsFiniteSet(Counting \cup {e}) /\ \A x \in Counting \cup {e} : x.size \in Nat
        BY <1>3, <1>4, <3>1, FS_AddElement
      <4>4. UpTo(Counting', v) \subseteq Counting \cup {e}
        BY <2>2 DEF UpTo
      <4>5. /\ TokensOf(UpTo(Counting', v)) \in Nat /\ TokensOf(Counting \cup {e}) \in Nat
            /\ TokensOf(UpTo(Counting', v)) <= TokensOf(Counting \cup {e})
        BY <4>3, <4>4, FewerTokens
      <4> QED
        BY <1>3, <3>3, <4>1, <4>2, <4>5
    <3> QED
      BY <1>3, <3>2, <3>3
  <2> QED
    BY <1>12, <2>5, <2>6, <2>7 DEF TokensInv, UpTo
<1> QED
  BY <1>14, <1>15, <1>16, <1>18, <1>19

LEMMA ExpireIs ==
  ASSUME Types, Expire, UNCHANGED now
  PROVE  /\ tokens' \in [n : Nat, expiry : Nat \cup {None}] /\ tokens'.n = tokens.n
         /\ Alive' = Alive
         /\ Alive => tokens'.expiry = now + Minute /\ tokens'.expiry \in Nat \ {0}
         /\ ~Alive => tokens' = tokens
<1>1. now \in Nat /\ Minute \in Nat \ {0}
  BY OfSetup, Constant DEF Types, Setup
<1> DEFINE r == Renewed
<1>2. r = now + Minute /\ r \in Nat \ {0}
  BY <1>1 DEF Renewed
<1>3. tokens' = IF Alive THEN [tokens EXCEPT !.expiry = r] ELSE tokens
  BY DEF Expire
<1> HIDE DEF r
<1> QED
  BY <1>2, <1>3 DEF Alive, Types

\* The counter that c renewed will last a minute from now.
LEMMA RenewedSilence ==
  ASSUME Types, SilenceInv, NEW c \in Clients, OthersStay(c), Expire,
         UNCHANGED <<setup, now, ghost.bare>>, ghost'.last = now,
         UNCHANGED <<reqs[c].alone, reqs[c].seen, reqs[c].size>>,
         reqs'[c].by = "tpm" => reqs'[c].at = "refused" /\ reqs'[c].seen > TokenLimit[c]
  PROVE  SilenceInv'
<1>1. now \in Nat /\ Minute \in Nat \ {0} /\ None \notin Nat
  BY OfSetup, Constant DEF Types, Setup
<1>2. tokens'.expiry \in Nat \ {0} => now < tokens'.expiry
  BY <1>1, ExpireIs DEF SilenceInv, Alive
<1>3. Alive' => tokens'.expiry \in Nat /\ tokens'.expiry <= ghost'.last + Minute
  <2>1. Alive' => tokens'.expiry = now + Minute /\ tokens'.expiry \in Nat
    BY ExpireIs
  <2>2. ghost'.last = now
    OBVIOUS
  <2> QED
    BY <1>1, <2>1, <2>2
<1>4. TokenLimit' = TokenLimit
  BY DEF TokenLimit
<1>5. ASSUME NEW d \in Clients
      PROVE  /\ reqs'[d].alone /\ ~ghost'.bare => reqs'[d].seen = reqs'[d].size
             /\ reqs'[d].by = "tpm" => reqs'[d].at = "refused" /\ reqs'[d].seen > TokenLimit[d]
  <2>1. CASE d # c
    BY <2>1, OthersAre DEF SilenceInv, At
  <2>2. CASE d = c
    BY <2>2 DEF SilenceInv
  <2> QED
    BY <2>1, <2>2
<1> QED
  BY <1>1, <1>2, <1>3, <1>4, <1>5 DEF SilenceInv, At

\* Of the requests told so far fewer count, or as many: what is decided now was counted before.
LEMMA TokensRenewed ==
  ASSUME Types, NumbersInv, TokensInv, NEW c \in Clients, OthersStay(c),
         Expire \/ UNCHANGED tokens, UNCHANGED <<setup, now, ghost.slipped>>,
         ~At(c, "expire")', ~At(c, "idle"),
         \A y \in ghost'.asked : y \in ghost.asked \/ (y.n = reqs[c].n /\ y.let # "counted")
  PROVE  TokensInv'
<1>1. \A d \in Clients : reqs'[d].at = "expire" =>
        d # c /\ At(d, "expire") /\ reqs'[d].n = reqs[d].n /\ reqs[d].n # reqs[c].n
  BY OthersAre DEF At, NumbersInv
<1>2. Counting' \subseteq Counting
  BY <1>1 DEF Counting, At
<1>3. Expiring' => Expiring
  BY <1>1 DEF Expiring, At
<1>4. \A v \in Nat : TokensOf(UpTo(Counting, v)) <= v => TokensOf(UpTo(Counting', v)) <= v
  BY <1>2, FewerCount
<1>5. TokenLimit' = TokenLimit
  BY DEF TokenLimit
<1>6. ASSUME NEW x \in ghost.asked, Alive, Expire PROVE tokens'.expiry >= x.t + Minute
  <2>1. now \in Nat /\ Minute \in Nat /\ x.t \in Nat /\ x.t <= now
    BY AskedTypes, OfSetup, Constant DEF Types, Setup, NumbersInv
  <2> QED
    BY <1>6, <2>1, ExpireIs
<1>7. tokens'.n = tokens.n /\ Alive' = Alive
  BY ExpireIs DEF Alive
<1>8. \A x \in ghost'.asked : x.let = "counted" => x \in ghost.asked
  OBVIOUS
<1> QED
  BY <1>2, <1>3, <1>4, <1>5, <1>6, <1>7, <1>8 DEF TokensInv, UpTo

\* Without its EXPIRE a counter is bare, and nothing is said of silence.
LEMMA BareSilence ==
  ASSUME Types, SilenceInv, NEW c \in Clients, OthersStay(c),
         UNCHANGED <<setup, now, tokens, ghost.last>>, ghost'.bare, reqs'[c].by # "tpm"
  PROVE  SilenceInv'
<1>1. \A d \in Clients : reqs'[d].by = "tpm" => reqs'[d].at = "refused" /\ reqs'[d].seen > TokenLimit[d]
  BY OthersAre DEF SilenceInv, At
<1>2. TokenLimit' = TokenLimit
  BY DEF TokenLimit
<1> QED
  BY <1>1, <1>2 DEF SilenceInv, At

\* The lost reply hides whether EXPIRE was run.
LEMMA TokensAgainStep ==
  ASSUME LimiterInv, NEW c \in Clients, TokensAgain(c)
  PROVE  LimiterInv'
<1> USE DEF LimiterInv
<1>1. /\ reqs' = [reqs EXCEPT ![c].at = "again"] /\ faults' \in 0..MaxFaults
      /\ UNCHANGED <<setup, now, windowVars, posts>> /\ At(c, "expire")
      /\ \/ UNCHANGED tokens /\ ghost' = [ghost EXCEPT !.bare = TRUE]
         \/ Expire /\ ghost' = [ghost EXCEPT !.last = now]
  BY FaultsCounted DEF TokensAgain
<1>2. /\ reqs' \in [Clients -> Request] /\ OthersStay(c) /\ reqs'[c].at = "again"
      /\ UNCHANGED <<reqs[c].n, reqs[c].size, reqs[c].seen, reqs[c].alone, reqs[c].by, reqs[c].early>>
  BY <1>1, ThroughIs DEF Steps
<1>3. /\ ghost' \in Ghost /\ UNCHANGED <<ghost.slipped, ghost.entered, ghost.asked>>
      /\ \/ UNCHANGED <<tokens, ghost.last>> /\ ghost'.bare
         \/ Expire /\ ghost'.last = now /\ UNCHANGED ghost.bare
  <2>1. ghost \in Ghost /\ now \in Int
    BY OfSetup DEF Types, Setup
  <2> QED
    BY <1>1, <2>1 DEF Ghost
<1>4. ~reqs'[c].early /\ reqs'[c].by # "tpm"
  BY <1>1, <1>2 DEF WaitsInv, SilenceInv, At
<1>5. Types'
  <2>1. tokens' \in [n : Nat, expiry : Nat \cup {None}]
    BY <1>1, <1>3, ExpireIs DEF Types
  <2> QED
    BY <1>1, <1>2, <1>3, <2>1 DEF Types, windowVars
<1>6. WindowsInv' /\ StampsInv' /\ WaitsInv'
  BY <1>1, <1>2, <1>3, <1>4, WindowsApart DEF Waits, Keys
<1>7. SilenceInv'
  BY <1>1, <1>2, <1>3, <1>4, RenewedSilence, BareSilence
<1>8. NumbersInv'
  BY <1>1, <1>2, <1>3, NumbersStep DEF At
<1>9. TokensInv'
  <2>1. Expire \/ UNCHANGED tokens
    BY <1>3
  <2> QED
    BY <1>1, <1>2, <1>3, <2>1, TokensRenewed DEF At
<1> QED
  BY <1>5, <1>6, <1>7, <1>8, <1>9

\* The entry of a request is replaced by one that says whether it was let through.
LEMMA EntriesJudged ==
  ASSUME Types, NumbersInv, NEW c \in Clients, NEW b \in Ways,
         ghost'.asked = Judged(c, b)
  PROVE  /\ ghost'.asked \subseteq Asked /\ IsFiniteSet(ghost'.asked)
         /\ \A y \in ghost'.asked : \E x \in ghost.asked :
              /\ y.t = x.t /\ y.n = x.n /\ y.size = x.size /\ y.seen = x.seen
              /\ x.n # reqs[c].n => y = x
              /\ x.n = reqs[c].n => y.let = b /\ y = [x EXCEPT !.let = b]
<1> DEFINE f == [x \in ghost.asked |-> IF x.n = reqs[c].n THEN [x EXCEPT !.let = b] ELSE x]
<1>1. ghost'.asked = {f[x] : x \in ghost.asked} /\ DOMAIN f = ghost.asked
  BY DEF Judged
<1>2. \A x \in ghost.asked : f[x] = IF x.n = reqs[c].n THEN [x EXCEPT !.let = b] ELSE x
  OBVIOUS
<1>3. f = [x \in ghost.asked |-> f[x]]
  OBVIOUS
<1> HIDE DEF f
<1>4. ASSUME NEW x \in ghost.asked
      PROVE  /\ f[x] \in Asked
             /\ f[x].t = x.t /\ f[x].n = x.n /\ f[x].size = x.size /\ f[x].seen = x.seen
             /\ x.n # reqs[c].n => f[x] = x
             /\ x.n = reqs[c].n => f[x].let = b /\ f[x] = [x EXCEPT !.let = b]
  <2>1. x \in Asked
    BY AskedTypes
  <2>2. [x EXCEPT !.let = b] \in Asked
    BY <2>1 DEF Asked
  <2> QED
    BY <1>2, <2>1, <2>2 DEF Asked
<1>5. ghost'.asked \subseteq Asked
  BY <1>1, <1>4
<1>6. IsFiniteSet(ghost'.asked)
  <2>1. f \in Surjection(ghost.asked, ghost'.asked)
    BY <1>1, <1>3 DEF Surjection
  <2> QED
    BY <2>1, FS_Surjection DEF NumbersInv
<1>7. ASSUME NEW y \in ghost'.asked
      PROVE  \E x \in ghost.asked :
               /\ y.t = x.t /\ y.n = x.n /\ y.size = x.size /\ y.seen = x.seen
               /\ x.n # reqs[c].n => y = x
               /\ x.n = reqs[c].n => y.let = b /\ y = [x EXCEPT !.let = b]
  <2>1. PICK x \in ghost.asked : y = f[x]
    BY <1>1
  <2> QED
    BY <1>4, <2>1
<1> QED
  BY <1>5, <1>6, <1>7

\* Whatever was run, the request counts as one that was let through unchecked.
LEMMA UncheckedStep ==
  ASSUME LimiterInv, NEW c \in Clients, reqs[c].at \in {"incr", "expire", "again"},
         reqs' = [reqs EXCEPT ![c].at = "through"], faults' \in 0..MaxFaults,
         UNCHANGED <<setup, now, windowVars, posts>>,
         ghost' \in Ghost, UNCHANGED <<ghost.slipped, ghost.entered>>,
         \/ UNCHANGED <<tokens, ghost.last, ghost.bare>> /\ ~At(c, "expire")
         \/ UNCHANGED <<tokens, ghost.last>> /\ ghost'.bare
         \/ Expire /\ ghost'.last = now /\ UNCHANGED ghost.bare,
         IsFiniteSet(ghost'.asked),
         \A y \in ghost'.asked : \/ y \in ghost.asked /\ y.n # reqs[c].n
                                 \/ y.n = reqs[c].n /\ y.t <= now /\ y.let = "unchecked",
         \A y, z \in ghost'.asked : y.n = z.n => y = z
  PROVE  LimiterInv'
<1> USE DEF LimiterInv
<1>1. /\ reqs' \in [Clients -> Request] /\ OthersStay(c) /\ reqs'[c].at = "through"
      /\ UNCHANGED <<reqs[c].n, reqs[c].size, reqs[c].seen, reqs[c].alone, reqs[c].by, reqs[c].early>>
  BY ThroughIs DEF Steps
<1>2. ~reqs'[c].early /\ reqs'[c].by # "tpm"
  BY <1>1 DEF WaitsInv, SilenceInv, At
<1>3. Types'
  <2>1. tokens' \in [n : Nat, expiry : Nat \cup {None}]
    BY ExpireIs DEF Types
  <2> QED
    BY <1>1, <2>1 DEF Types, windowVars
<1>4. WindowsInv' /\ StampsInv' /\ WaitsInv'
  BY <1>1, <1>2, WindowsApart DEF Waits, Keys
<1>5. SilenceInv'
  <2>1. CASE UNCHANGED <<tokens, ghost.last, ghost.bare>> /\ ~At(c, "expire")
    BY <1>1, <1>2, <2>1, SilenceStep
  <2>2. CASE UNCHANGED <<tokens, ghost.last>> /\ ghost'.bare
    BY <1>1, <1>2, <2>2, BareSilence
  <2>3. CASE Expire /\ ghost'.last = now /\ UNCHANGED ghost.bare
    BY <1>1, <1>2, <2>3, RenewedSilence
  <2> QED
    BY <2>1, <2>2, <2>3
<1>6. ~At(c, "idle") /\ ~At(c, "expire")' /\ ~At(c, "idle")'
  BY <1>1 DEF At
<1>7. NumbersInv'
  <2>1. \A d \in Clients : /\ reqs'[d].n = reqs[d].n /\ (reqs'[d].at = "idle" <=> reqs[d].at = "idle")
                           /\ d # c => reqs'[d].at = reqs[d].at /\ reqs'[d].seen = reqs[d].seen
    BY <1>1, <1>6, OthersAre DEF At
  <2>2. \A y \in ghost'.asked : y.n <= posts' /\ y.t <= now'
    BY DEF NumbersInv
  <2>3. ASSUME NEW d \in Clients, NEW y \in ghost'.asked, y.n = reqs'[d].n
        PROVE  /\ reqs'[d].at \notin {"ip", "rpm", "incr"}
               /\ reqs'[d].at = "expire" => y.seen = reqs'[d].seen
               /\ reqs'[d].at \in {"expire", "again"} => y.let = "not"
    <3>1. CASE d = c
      BY <1>1, <3>1
    <3>2. CASE d # c /\ y.n # reqs[c].n
      BY <2>1, <2>3, <3>2 DEF NumbersInv, At
    <3>3. CASE d # c /\ y.n = reqs[c].n
      <4>1. reqs[d].at = "idle"
        BY <1>6, <2>1, <2>3, <3>3 DEF NumbersInv, At
      <4> QED
        BY <2>1, <3>3, <4>1
    <3> QED
      BY <3>1, <3>2, <3>3
  <2>4. \A d \in Clients : reqs'[d].n <= posts'
    BY <2>1 DEF NumbersInv
  <2>5. \A d, b \in Clients : d # b /\ ~At(d, "idle")' /\ ~At(b, "idle")' => reqs'[d].n # reqs'[b].n
    BY <2>1 DEF NumbersInv, At
  <2> QED
    BY <2>2, <2>3, <2>4, <2>5 DEF NumbersInv, At
<1>8. TokensInv'
  BY <1>1, <1>6, TokensRenewed
<1> QED
  BY <1>3, <1>4, <1>5, <1>7, <1>8

LEMMA TokensFailStep ==
  ASSUME LimiterInv, NEW c \in Clients, TokensFail(c)
  PROVE  LimiterInv'
<1> USE DEF LimiterInv
<1>1. /\ reqs' = [reqs EXCEPT ![c].at = "through"] /\ faults' \in 0..MaxFaults
      /\ UNCHANGED <<setup, now, windowVars, posts>>
  BY FaultsCounted DEF TokensFail
<1>2. ghost \in Ghost /\ now \in Nat /\ now \in Int /\ reqs[c] \in Request
  BY OfSetup DEF Types, Setup
<1>3. ASSUME At(c, "incr"), UNCHANGED tokens, NEW n \in setup.sizes,
             ghost' = [ghost EXCEPT !.asked = Notes(c, n, 0, "unchecked")]
      PROVE  LimiterInv'
  <2> DEFINE e == [t |-> now, n |-> reqs[c].n, size |-> n, seen |-> 0, let |-> "unchecked"]
             Old == {x \in ghost.asked : x.n # reqs[c].n}
             A == Old \cup {e}
  <2>1. e \in Asked /\ e.n = reqs[c].n /\ e.t = now /\ e.let = "unchecked"
    <3>1. n \in Nat /\ reqs[c].n \in Nat
      BY <1>2, OfSetup DEF Types, Setup, Request
    <3> QED
      BY <1>2, <3>1 DEF Asked, Ways
  <2>2. /\ Old \subseteq ghost.asked /\ IsFiniteSet(Old) /\ \A x \in Old : x.n # reqs[c].n
        /\ A = Old \cup {e} /\ ghost' = [ghost EXCEPT !.asked = A]
    BY <1>3, FS_Subset DEF NumbersInv, Notes
  <2> HIDE DEF e, Old, A
  <2>3. A \subseteq Asked /\ IsFiniteSet(A)
    BY <2>1, <2>2, AskedTypes, FS_AddElement
  <2>4. /\ ghost' \in Ghost /\ ghost'.asked = A
        /\ UNCHANGED <<ghost.slipped, ghost.entered, ghost.last, ghost.bare>>
    BY <1>2, <2>2, <2>3 DEF Ghost
  <2>5. \A y \in A : \/ y \in ghost.asked /\ y.n # reqs[c].n
                     \/ y.n = reqs[c].n /\ y.t <= now /\ y.let = "unchecked"
    BY <1>2, <2>1, <2>2
  <2>6. \A y, z \in A : y.n = z.n => y = z
    BY <2>1, <2>2 DEF NumbersInv
  <2>7. reqs[c].at = "incr" /\ ~At(c, "expire")
    BY <1>3 DEF At
  <2> QED
    BY <1>1, <1>3, <2>3, <2>4, <2>5, <2>6, <2>7, UncheckedStep
<1>4. ASSUME reqs[c].at \in {"expire", "again"}, NEW l \in {ghost.last, now}, NEW b \in BOOLEAN,
             ghost' = [ghost EXCEPT !.last = l, !.bare = b, !.asked = Judged(c, "unchecked")],
             \/ UNCHANGED tokens /\ l = ghost.last /\ b = (ghost.bare \/ At(c, "expire"))
             \/ Expire /\ l = now /\ b = ghost.bare
      PROVE  LimiterInv'
  <2> DEFINE A == Judged(c, "unchecked")
  <2>1. l \in Int /\ ghost.asked \subseteq Asked /\ "unchecked" \in Ways
    BY <1>2, AskedTypes DEF Ghost, Ways
  <2>2. ghost' = [ghost EXCEPT !.last = l, !.bare = b, !.asked = A]
    BY <1>4
  <2>3. ghost'.asked = A
    BY <1>2, <2>2 DEF Ghost
  <2>4. /\ ghost'.asked \subseteq Asked /\ IsFiniteSet(ghost'.asked)
        /\ \A y \in ghost'.asked : \E x \in ghost.asked :
             /\ y.t = x.t /\ y.n = x.n /\ y.size = x.size /\ y.seen = x.seen
             /\ x.n # reqs[c].n => y = x
             /\ x.n = reqs[c].n => y.let = "unchecked" /\ y = [x EXCEPT !.let = "unchecked"]
    BY <2>1, <2>3, EntriesJudged
  <2> HIDE DEF A
  <2>5. /\ ghost' \in Ghost /\ ghost'.last = l /\ ghost'.bare = b
        /\ UNCHANGED <<ghost.slipped, ghost.entered>>
    BY <1>2, <2>1, <2>2, <2>3, <2>4 DEF Ghost
  <2>6. \A y \in ghost'.asked : \/ y \in ghost.asked /\ y.n # reqs[c].n
                                \/ y.n = reqs[c].n /\ y.t <= now /\ y.let = "unchecked"
    BY <2>4 DEF NumbersInv
  <2>7. \A y, z \in ghost'.asked : y.n = z.n => y = z
    BY <2>4 DEF NumbersInv
  <2>8. \/ UNCHANGED <<tokens, ghost.last, ghost.bare>> /\ ~At(c, "expire")
        \/ UNCHANGED <<tokens, ghost.last>> /\ ghost'.bare
        \/ Expire /\ ghost'.last = now /\ UNCHANGED ghost.bare
    BY <1>2, <1>4, <2>5 DEF Ghost
  <2>9. reqs[c].at \in {"incr", "expire", "again"}
    BY <1>4
  <2> QED
    BY <1>1, <2>4, <2>5, <2>6, <2>7, <2>8, <2>9, UncheckedStep
<1>5. CASE /\ reqs[c].at \in {"expire", "again"} /\ UNCHANGED tokens
           /\ ghost' = [ghost EXCEPT !.bare = @ \/ At(c, "expire"), !.asked = Judged(c, "unchecked")]
  <2> DEFINE A == Judged(c, "unchecked")
             b == ghost.bare \/ At(c, "expire")
             l == ghost.last
  <2>1. b \in BOOLEAN /\ l \in {ghost.last, now} /\ ghost' = [ghost EXCEPT !.bare = b, !.asked = A]
    BY <1>2, <1>5 DEF Ghost
  <2>2. ghost' = [ghost EXCEPT !.last = l, !.bare = b, !.asked = A]
    <3> HIDE DEF b, A
    <3> QED
      BY <1>2, <2>1 DEF Ghost
  <2> QED
    BY <1>4, <1>5, <2>1, <2>2
<1>6. CASE /\ At(c, "expire") /\ Expire
           /\ ghost' = [ghost EXCEPT !.last = now, !.asked = Judged(c, "unchecked")]
  <2> DEFINE A == Judged(c, "unchecked")
             b == ghost.bare
  <2>1. b \in BOOLEAN /\ ghost' = [ghost EXCEPT !.last = now, !.asked = A]
    BY <1>2, <1>6 DEF Ghost
  <2>2. ghost' = [ghost EXCEPT !.last = now, !.bare = b, !.asked = A]
    <3> HIDE DEF A
    <3> QED
      BY <1>2, <2>1 DEF Ghost
  <2>3. reqs[c].at \in {"expire", "again"}
    BY <1>6 DEF At
  <2> QED
    BY <1>4, <1>6, <2>1, <2>2, <2>3
<1> QED
  BY <1>3, <1>5, <1>6 DEF TokensFail

LEMMA ExpiredStep ==
  ASSUME LimiterInv, NEW c \in Clients, Expired(c)
  PROVE  LimiterInv'
<1> USE DEF LimiterInv
<1> DEFINE b == Enough(c)
           at == IF b THEN "through" ELSE "refused"
           by == IF b THEN reqs[c].by ELSE "tpm"
           way == IF b THEN "counted" ELSE "not"
           A == Judged(c, way)
           r == [reqs[c] EXCEPT !.at = at, !.by = by]
<1>1. /\ At(c, "expire") /\ Expire /\ UNCHANGED <<setup, now, windowVars, posts, faults>>
      /\ reqs' = [reqs EXCEPT ![c].at = at, ![c].by = by]
      /\ ghost' = [ghost EXCEPT !.last = now, !.asked = A]
  BY DEF Expired
<1>2. /\ b \in BOOLEAN /\ at \in {"through", "refused"} /\ by \in {"tpm", reqs[c].by}
      /\ by = "tpm" => at = "refused" /\ ~b
      /\ at = "refused" => by = "tpm"
      /\ b <=> reqs[c].seen <= TokenLimit[c]
      /\ way \in Ways /\ (way = "counted" <=> b)
  BY <1>1 DEF Enough, SilenceInv, At, Ways
<1> HIDE DEF b, at, by, way, A
<1>3. /\ reqs' \in [Clients -> Request] /\ \A d \in Clients : d # c => reqs'[d] = reqs[d]
      /\ reqs'[c].at = at /\ reqs'[c].by = by
      /\ UNCHANGED <<reqs[c].n, reqs[c].size, reqs[c].seen, reqs[c].alone, reqs[c].early>>
  <2>1. /\ r \in Request /\ r.at = at /\ r.by = by
        /\ r.n = reqs[c].n /\ r.size = reqs[c].size /\ r.seen = reqs[c].seen
        /\ r.alone = reqs[c].alone /\ r.early = reqs[c].early
    <3>1. reqs[c] \in Request
      BY DEF Types
    <3> QED
      BY <1>2, <3>1 DEF Request, Steps
  <2>2. reqs' = [reqs EXCEPT ![c] = r]
    BY <1>1 DEF Types
  <2> HIDE DEF r
  <2> QED
    BY <2>1, <2>2 DEF Types
<1>4. OthersStay(c)
  BY <1>3 DEF OthersStay
<1>5. ghost \in Ghost /\ now \in Nat /\ now \in Int /\ Minute \in Nat /\ reqs[c].seen \in Nat /\ TokenLimit[c] \in Nat
  BY OfSetup, Constant DEF Types, Setup, Request
<1>6. ghost'.asked = A
  BY <1>1, <1>5 DEF Ghost
<1>7. /\ ghost'.asked \subseteq Asked /\ IsFiniteSet(ghost'.asked)
      /\ \A y \in ghost'.asked : \E x \in ghost.asked :
           /\ y.t = x.t /\ y.n = x.n /\ y.size = x.size /\ y.seen = x.seen
           /\ x.n # reqs[c].n => y = x
           /\ x.n = reqs[c].n => y.let = way /\ y = [x EXCEPT !.let = way]
  BY <1>1, <1>2, <1>6, EntriesJudged DEF A
<1>8. /\ ghost' \in Ghost /\ ghost'.last = now
      /\ UNCHANGED <<ghost.slipped, ghost.bare, ghost.entered>>
  BY <1>1, <1>5, <1>6, <1>7 DEF Ghost
<1>9. Types'
  BY <1>1, <1>3, <1>8, ExpireIs DEF Types, windowVars
<1>10. WindowsInv' /\ StampsInv' /\ WaitsInv'
  BY <1>1, <1>2, <1>3, <1>4, <1>8, WindowsApart DEF Waits, WaitsInv, Keys
<1>11. SilenceInv'
  <2>1. by = "tpm" => reqs[c].seen > TokenLimit[c]
    BY <1>2, <1>5
  <2> QED
    BY <1>1, <1>2, <1>3, <1>4, <1>8, <2>1, RenewedSilence
<1>12. \A d \in Clients : reqs'[d].at = "expire" => d # c /\ At(d, "expire") /\ reqs[d].n # reqs[c].n
  BY <1>1, <1>2, <1>3 DEF NumbersInv, At
<1>13. NumbersInv'
  <2>1. \A d \in Clients : reqs'[d].n = reqs[d].n /\ (reqs'[d].at = "idle" <=> reqs[d].at = "idle")
    BY <1>1, <1>2, <1>3 DEF At
  <2>2. \A y \in ghost'.asked : y.n <= posts /\ y.t <= now
    BY <1>7 DEF NumbersInv
  <2>3. \A y, z \in ghost'.asked : y.n = z.n => y = z
    BY <1>7 DEF NumbersInv
  <2>4. ASSUME NEW d \in Clients, NEW y \in ghost'.asked, y.n = reqs'[d].n
        PROVE  /\ reqs'[d].at \notin {"ip", "rpm", "incr"}
               /\ reqs'[d].at = "expire" => y.seen = reqs'[d].seen
               /\ reqs'[d].at \in {"expire", "again"} => y.let = "not"
    <3>1. PICK x \in ghost.asked : y.n = x.n /\ y.seen = x.seen /\ (x.n # reqs[c].n => y = x)
      BY <1>7
    <3>2. CASE d = c
      BY <1>2, <1>3, <3>2
    <3>3. CASE d # c
      <4>1. reqs'[d] = reqs[d] /\ x.n = reqs[d].n
        BY <1>3, <2>4, <3>1, <3>3
      <4>2. /\ reqs[d].at \notin {"ip", "rpm", "incr"}
            /\ reqs[d].at = "expire" => x.seen = reqs[d].seen
            /\ reqs[d].at \in {"expire", "again"} => x.let = "not"
        BY <4>1 DEF NumbersInv, At
      <4>3. reqs[d].at \in {"expire", "again"} => y = x
        BY <1>1, <3>1, <3>3, <4>1 DEF NumbersInv, At
      <4> QED
        BY <4>1, <4>2, <4>3
    <3> QED
      BY <3>2, <3>3
  <2>5. posts' = posts /\ now' = now /\ IsFiniteSet(ghost'.asked)
    BY <1>1, <1>7
  <2>6. \A d \in Clients : reqs'[d].n <= posts
    BY <2>1 DEF NumbersInv
  <2>7. \A d, e \in Clients : d # e /\ ~At(d, "idle")' /\ ~At(e, "idle")' => reqs'[d].n # reqs'[e].n
    BY <2>1 DEF NumbersInv, At
  <2> QED
    BY <2>2, <2>3, <2>4, <2>5, <2>6, <2>7 DEF NumbersInv, At
<1>14. TokensInv'
  <2>1. SUFFICES ASSUME ~ghost.slipped PROVE TokensInv'
    BY <1>8 DEF TokensInv
  <2>2. Alive /\ Alive' /\ tokens'.expiry = now + Minute /\ tokens'.n = tokens.n
    <3>1. Alive
      BY <1>1, <2>1 DEF TokensInv, Expiring
    <3> QED
      BY <1>1, <3>1, ExpireIs
  <2>3. ASSUME NEW y \in ghost'.asked, y.let = "counted"
        PROVE  /\ tokens'.expiry >= y.t + Minute
               /\ \E d \in Clients : y.seen <= TokenLimit[d]
    <3>1. PICK x \in ghost.asked : /\ y.t = x.t /\ y.n = x.n /\ y.seen = x.seen
                                   /\ x.n # reqs[c].n => y = x
                                   /\ x.n = reqs[c].n => y.let = way
      BY <1>7
    <3>2. x.t \in Nat /\ x.t <= now
      BY AskedTypes DEF NumbersInv
    <3>3. CASE x.n = reqs[c].n
      <4>1. x.seen = reqs[c].seen
        BY <1>1, <3>3 DEF NumbersInv
      <4>2. y.seen <= TokenLimit[c]
        BY <1>2, <2>3, <3>1, <3>3, <4>1
      <4>3. tokens'.expiry >= y.t + Minute
        BY <1>5, <2>2, <3>1, <3>2
      <4> QED
        BY <4>2, <4>3
    <3>4. CASE x.n # reqs[c].n
      BY <1>5, <2>1, <2>2, <2>3, <3>1, <3>2, <3>4 DEF TokensInv
    <3> QED
      BY <3>3, <3>4
  <2>4. ASSUME NEW y \in Counting'
        PROVE  \E x \in Counting : /\ y.n = x.n /\ y.size = x.size /\ y.seen = x.seen
                                   /\ x.n # reqs[c].n => y = x
                                   /\ x.n = reqs[c].n => y = [x EXCEPT !.let = way]
    <3>1. y \in ghost'.asked /\ (y.let = "counted" \/ \E d \in Clients : reqs'[d].at = "expire" /\ reqs'[d].n = y.n)
      BY DEF Counting, At
    <3>2. PICK x \in ghost.asked : /\ y.n = x.n /\ y.size = x.size /\ y.seen = x.seen
                                   /\ x.n # reqs[c].n => y = x
                                   /\ x.n = reqs[c].n => y = [x EXCEPT !.let = way]
      BY <1>7, <3>1
    <3>3. x \in Counting
      <4>1. CASE x.n = reqs[c].n
        BY <1>1, <4>1 DEF Counting
      <4>2. CASE x.n # reqs[c].n
        BY <1>3, <1>12, <3>1, <3>2, <4>2 DEF Counting
      <4> QED
        BY <4>1, <4>2
    <3> QED
      BY <3>2, <3>3
  <2>5. \A y \in Counting' : y.seen <= tokens'.n
    BY <2>1, <2>2, <2>4 DEF TokensInv
  <2>6. ASSUME NEW v \in Nat PROVE TokensOf(UpTo(Counting', v)) <= v
    <3> DEFINE S == UpTo(Counting, v)
               T == UpTo(Counting', v)
    <3>1. S \subseteq ghost.asked /\ IsFiniteSet(S) /\ TokensOf(S) <= v
          /\ \A x \in S : x.size \in Nat
      <4>1. S \subseteq ghost.asked
        BY DEF UpTo, Counting
      <4> QED
        BY <2>1, <4>1, AskedTypes, FS_Subset DEF NumbersInv, TokensInv
    <3>2. CASE \A x \in S : x.n # reqs[c].n
      <4>1. T \subseteq S
        BY <2>4, <3>2 DEF UpTo
      <4> QED
        BY <3>1, <4>1, FewerTokens
    <3>3. ASSUME NEW x \in S, x.n = reqs[c].n PROVE TokensOf(T) <= v
      <4> DEFINE Rest == S \ {x}
                 y == [x EXCEPT !.let = way]
      <4>1. \A z \in S : z.n = reqs[c].n => z = x
        BY <3>1, <3>3 DEF NumbersInv
      <4>2. y.n = x.n /\ y.size = x.size
        BY <3>1, AskedTypes DEF Asked
      <4>3. T \subseteq Rest \cup {y}
        <5>1. ASSUME NEW z \in T PROVE z \in Rest \cup {y}
          <6>1. z \in Counting' /\ z.seen <= v
            BY DEF UpTo
          <6>2. PICK w \in Counting : /\ z.seen = w.seen
                                      /\ w.n # reqs[c].n => z = w
                                      /\ w.n = reqs[c].n => z = [w EXCEPT !.let = way]
            BY <2>4, <6>1
          <6>3. w \in S
            <7>1. w \in Asked
              BY AskedTypes DEF Counting
            <7>2. w.seen \in Nat
              BY <7>1 DEF Asked
            <7>3. z.seen = w.seen
              BY <6>2
            <7>4. w.seen <= v
              BY <6>1, <7>2, <7>3
            <7> QED
              BY <7>4 DEF UpTo
          <6>4. CASE w = x
            <7>1. z = [w EXCEPT !.let = way]
              BY <3>3, <6>2, <6>4
            <7>2. z = y
              BY <6>4, <7>1
            <7> QED
              BY <7>2
          <6>5. CASE w # x
            <7>1. w.n # reqs[c].n
              BY <4>1, <6>3, <6>5
            <7>2. z = w
              BY <6>2, <7>1
            <7> QED
              BY <6>3, <6>5, <7>2
          <6> QED
            BY <6>4, <6>5
        <5> QED
          BY <5>1
      <4>4. /\ x \notin Rest /\ Rest \cup {x} = S /\ IsFiniteSet(Rest) /\ x.size \in Nat
            /\ \A z \in Rest : z.size \in Nat
        BY <3>1, FS_Subset
      <4>5. y \notin Rest
        BY <3>3, <4>1, <4>2
      <4> HIDE DEF Rest, y
      <4>6. TokensOf(Rest \cup {x}) = TokensOf(Rest) + x.size
        BY <4>4, TokensOfOneMore
      <4>7. TokensOf(Rest \cup {y}) = TokensOf(Rest) + y.size
        BY <4>2, <4>4, <4>5, TokensOfOneMore
      <4>8. TokensOf(Rest \cup {y}) = TokensOf(S)
        BY <4>2, <4>4, <4>6, <4>7
      <4>9. IsFiniteSet(Rest \cup {y}) /\ \A z \in Rest \cup {y} : z.size \in Nat
        BY <4>2, <4>4, FS_AddElement
      <4>10. /\ TokensOf(T) \in Nat /\ TokensOf(Rest \cup {y}) \in Nat
             /\ TokensOf(T) <= TokensOf(Rest \cup {y})
        BY <4>3, <4>9, FewerTokens
      <4>11. TokensOf(S) <= v
        BY <3>1
      <4> QED
        BY <4>8, <4>10, <4>11
    <3> QED
      BY <3>2, <3>3
  <2>7. TokenLimit' = TokenLimit
    BY <1>1 DEF TokenLimit
  <2> QED
    BY <2>2, <2>3, <2>5, <2>6, <2>7 DEF TokensInv, UpTo
<1> QED
  BY <1>9, <1>10, <1>11, <1>13, <1>14
-----------------------------------------------------------------------------
(* Time passes.                                                            *)

LEMMA TickIs ==
  ASSUME Types, Tick
  PROVE  /\ Types' /\ now' = now + 1 /\ now \in Nat /\ UNCHANGED <<setup, reqs, posts, faults>>
         /\ UNCHANGED <<ghost.last, ghost.bare>>
         /\ ghost.slipped => ghost'.slipped
         /\ \/ tokens' = tokens /\ (tokens.expiry = None \/ now' < tokens.expiry)
            \/ tokens' = Gone /\ tokens.expiry # None /\ ~(now' < tokens.expiry)
         /\ ghost'.slipped \/ tokens' = tokens \/ ~Expiring
         /\ ghost'.asked = {x \in ghost.asked : x.t > now' - Minute}
         /\ \A k \in Keys :
              /\ ghost'.entered[k] = {x \in ghost.entered[k] : x.t > now' - Surely}
              /\ now' < expiry[k] => win'[k] = win[k] /\ expiry'[k] = expiry[k]
              /\ ~(now' < expiry[k]) => win'[k] = {}
<1> DEFINE slips == ghost.slipped \/ (tokens' # tokens /\ \E c \in Clients : At(c, "expire"))
           E == [k \in Keys |-> {x \in ghost.entered[k] : x.t > now' - Surely}]
           A == {x \in ghost.asked : x.t > now' - Minute}
<1>1. now \in Nat /\ setup.time \in Nat /\ ghost \in Ghost
  BY OfSetup DEF Types, Setup
<1>2. now' = now + 1 /\ now' \in 0..setup.time /\ UNCHANGED <<setup, reqs, posts, faults>>
  BY <1>1 DEF Tick
<1>3. ghost' = [ghost EXCEPT !.slipped = slips, !.entered = E, !.asked = A]
  BY <1>1 DEF Tick, Ghost
<1>4. /\ slips \in BOOLEAN /\ E \in [Keys -> SUBSET Entry] /\ A \subseteq Asked
      /\ \A k \in Keys : E[k] = {x \in ghost.entered[k] : x.t > now' - Surely}
  BY <1>1 DEF Ghost
<1>5. /\ ghost.slipped => slips
      /\ slips \/ tokens' = tokens \/ ~Expiring
  BY <1>1 DEF Expiring
<1>6. A = {x \in ghost.asked : x.t > now' - Minute}
  OBVIOUS
<1> HIDE DEF slips, E, A
<1>7. /\ ghost' \in Ghost /\ UNCHANGED <<ghost.last, ghost.bare>>
      /\ ghost'.slipped = slips /\ ghost'.entered = E /\ ghost'.asked = A
  BY <1>1, <1>3, <1>4 DEF Ghost
<1>8. /\ win' \in [Keys -> SUBSET Member] /\ expiry' \in [Keys -> Nat]
      /\ \A k \in Keys : /\ now' < expiry[k] => win'[k] = win[k] /\ expiry'[k] = expiry[k]
                         /\ ~(now' < expiry[k]) => win'[k] = {}
  BY DEF Tick, Types
<1>9. \/ tokens' = tokens /\ (tokens.expiry = None \/ now' < tokens.expiry)
      \/ tokens' = Gone /\ tokens.expiry # None /\ ~(now' < tokens.expiry)
  BY DEF Tick
<1>10. tokens' \in [n : Nat, expiry : Nat \cup {None}]
  BY <1>9 DEF Types, Gone
<1>11. Types'
  BY <1>2, <1>7, <1>8, <1>10 DEF Types
<1> QED
  BY <1>1, <1>2, <1>4, <1>5, <1>6, <1>7, <1>8, <1>9, <1>11

\* What entered long enough ago to be forgotten is not what the window is kept for.
LEMMA TickWindows ==
  ASSUME Types, WindowsInv, Tick
  PROVE  WindowsInv'
<1>1. ASSUME NEW k \in Keys PROVE IsFiniteSet(win'[k]) /\ Cardinality(win'[k]) <= Greatest(k)
  <2>1. CASE win'[k] = win[k]
    BY <2>1 DEF WindowsInv
  <2>2. CASE win'[k] = {}
    BY <2>2, OfSetup, FS_EmptySet DEF Types
  <2> QED
    BY <2>1, <2>2, TickIs
<1>2. ASSUME NEW k \in Keys, NEW x \in ghost'.entered[k] PROVE Remembered(k, x)'
  <2>1. x \in ghost.entered[k] /\ x.t > now' - Surely /\ now' = now + 1 /\ now \in Nat
    BY TickIs
  <2>2. Remembered(k, x)
    BY <2>1 DEF WindowsInv
  <2>3. x.t \in Nat /\ expiry[k] \in Nat
    BY <2>1 DEF Types, Ghost, Entry
  <2>4. now' < expiry[k]
    <3>1. Surely <= Window
      BY Constant
    <3> QED
      BY <2>1, <2>2, <2>3, <3>1, Constant DEF Remembered
  <2>5. win'[k] = win[k] /\ expiry'[k] = expiry[k]
    BY <2>4, TickIs
  <2> QED
    BY <2>1, <2>2, <2>3, <2>5 DEF Remembered
<1>3. \A k \in Keys : Greatest(k)' = Greatest(k)
  BY TickIs DEF Greatest, IPLimit, Limit
<1> QED
  BY <1>1, <1>2, <1>3 DEF WindowsInv

LEMMA TickStamps ==
  ASSUME Types, StampsInv, Tick
  PROVE  StampsInv'
<1>1. SUFFICES ASSUME NEW c \in Clients, reqs[c].at \in Keys
               PROVE  reqs[c].stamp - Ahead[c] <= now' /\ reqs[c].stamp - Ahead[c] >= now' - MaxDelay
  BY TickIs DEF StampsInv, Ahead
<1>2. reqs[c].stamp \in Nat /\ Ahead[c] \in Nat /\ MaxDelay \in Nat /\ now \in Nat /\ now' = now + 1
  BY TickIs, OfSetup, Constant DEF Types, Request
<1>3. reqs[c].stamp - Ahead[c] <= now
  BY <1>1 DEF StampsInv
<1>4. now' <= reqs[c].stamp - Ahead[c] + MaxDelay
  BY <1>1 DEF Tick
<1>5. reqs[c].stamp - Ahead[c] <= now'
  BY <1>2, <1>3
<1>6. reqs[c].stamp - Ahead[c] >= now' - MaxDelay
  BY <1>2, <1>4
<1> QED
  BY <1>5, <1>6

\* An expired window has room for whoever waits.
LEMMA TickWaits ==
  ASSUME Types, WaitsInv, Tick
  PROVE  WaitsInv'
<1>1. \A c \in Clients, k \in Keys : (Waits(c, k)' <=> Waits(c, k)) /\ LimitOf(c, k)' = LimitOf(c, k)
  BY TickIs DEF Waits, LimitOf, IPLimit, Limit
<1>2. ASSUME NEW c \in Clients, NEW k \in Keys, Waits(c, k) PROVE RoomAt(c, k)'
  <2>1. RoomAt(c, k) /\ LimitOf(c, k) \in Nat
    BY <1>2, OfSetup DEF WaitsInv
  <2>2. CASE win'[k] = win[k]
    BY <1>1, <2>1, <2>2, TickIs DEF RoomAt
  <2>3. CASE win'[k] = {}
    BY <1>1, <2>1, <2>3, TickIs, FS_EmptySet DEF RoomAt
  <2> QED
    BY <2>2, <2>3, TickIs
<1>3. \A c \in Clients : ~reqs'[c].early
  BY TickIs DEF WaitsInv
<1> QED
  BY <1>1, <1>2, <1>3 DEF WaitsInv

LEMMA TickSilence ==
  ASSUME Types, SilenceInv, Tick
  PROVE  SilenceInv'
<1>1. /\ now \in Nat /\ now' = now + 1 /\ UNCHANGED <<setup, reqs, ghost.last, ghost.bare>>
      /\ None \notin Nat /\ ghost.last \in Int
  BY TickIs, Constant DEF Types, Ghost
<1>2. ghost'.last <= now'
  BY <1>1 DEF SilenceInv
<1>3. Expiring' = Expiring /\ TokenLimit' = TokenLimit
  BY <1>1 DEF Expiring, At, TokenLimit
<1>4. \A c \in Clients :
        /\ reqs'[c].alone /\ ~ghost'.bare => reqs'[c].seen = reqs'[c].size
        /\ reqs'[c].by = "tpm" => reqs'[c].at = "refused" /\ reqs'[c].seen > TokenLimit[c]
  BY <1>1 DEF SilenceInv, At
<1>5. CASE tokens' = tokens /\ (tokens.expiry = None \/ now' < tokens.expiry)
  BY <1>1, <1>2, <1>3, <1>4, <1>5 DEF SilenceInv, Alive, At
<1>6. CASE tokens' = Gone
  <2>1. tokens'.expiry = 0
    BY <1>6 DEF Gone
  <2> QED
    BY <1>2, <1>3, <1>4, <2>1 DEF SilenceInv, Alive, At
<1> QED
  BY <1>5, <1>6, TickIs

LEMMA TickNumbers ==
  ASSUME Types, NumbersInv, Tick
  PROVE  NumbersInv'
<1>1. ghost'.asked \subseteq ghost.asked /\ UNCHANGED <<reqs, posts>> /\ now' = now + 1 /\ now \in Nat
  BY TickIs
<1>2. IsFiniteSet(ghost'.asked)
  BY <1>1, FS_Subset DEF NumbersInv
<1>3. \A x \in ghost'.asked : x.n <= posts' /\ x.t <= now'
  <2>1. SUFFICES ASSUME NEW x \in ghost.asked PROVE x.n <= posts' /\ x.t <= now'
    BY <1>1
  <2>2. x.n <= posts /\ x.t <= now /\ x.t \in Nat
    BY AskedTypes DEF NumbersInv
  <2> QED
    BY <1>1, <2>2
<1> QED
  BY <1>1, <1>2, <1>3 DEF NumbersInv, At

\* With the counter go the requests that it counted: they are a minute old.
LEMMA TickTokens ==
  ASSUME Types, NumbersInv, TokensInv, SilenceInv, Tick
  PROVE  TokensInv'
<1>1. SUFFICES ASSUME ~ghost'.slipped PROVE TokensInv'
  BY DEF TokensInv
<1>2. /\ ~ghost.slipped /\ now \in Nat /\ now' = now + 1 /\ UNCHANGED <<setup, reqs>>
      /\ None \notin Nat /\ Minute \in Nat
      /\ ghost'.asked = {x \in ghost.asked : x.t > now' - Minute}
  BY <1>1, TickIs, Constant
<1>3. TokenLimit' = TokenLimit /\ Expiring' = Expiring
  BY <1>2 DEF TokenLimit, Expiring, At
<1>4. Counting' \subseteq Counting
  BY <1>2 DEF Counting, At
<1>5. \A v \in Nat : TokensOf(UpTo(Counting', v)) <= v
  BY <1>2, <1>4, FewerCount DEF TokensInv
<1>6. CASE tokens' = tokens
  BY <1>2, <1>3, <1>4, <1>5, <1>6 DEF TokensInv, Alive, UpTo
<1>7. CASE tokens' = Gone /\ tokens' # tokens
  <2>1. ~Expiring /\ tokens.expiry # None /\ ~(now' < tokens.expiry)
    BY <1>1, <1>7, TickIs
  <2>2. ASSUME NEW x \in ghost'.asked PROVE x.let # "counted"
    <3>1. x \in ghost.asked /\ x.t > now' - Minute /\ x.t \in Nat
      BY <1>2, AskedTypes
    <3>2. SUFFICES ASSUME x.let = "counted" PROVE FALSE
      BY <3>1, AskedTypes
    <3>3. tokens.expiry >= x.t + Minute /\ tokens.expiry \in Nat
      BY <1>2, <2>1, <3>1, <3>2 DEF TokensInv, Types
    <3>4. x.t <= now
      BY <3>1 DEF NumbersInv
    <3> QED
      BY <1>2, <2>1, <3>1, <3>3
  <2>3. Counting' = {}
    BY <1>2, <2>1, <2>2 DEF Counting, Expiring, At
  <2> QED
    BY <1>3, <1>5, <2>1, <2>2, <2>3 DEF TokensInv
<1> QED
  BY <1>6, <1>7, TickIs

LEMMA TickStep ==
  ASSUME LimiterInv, Tick
  PROVE  LimiterInv'
BY TickIs, TickWindows, TickStamps, TickWaits, TickSilence, TickNumbers, TickTokens DEF LimiterInv
-----------------------------------------------------------------------------
(* What the limits promise.                                                *)

LEMMA LimiterInit == Init => LimiterInv
<1> SUFFICES ASSUME Init PROVE LimiterInv
  OBVIOUS
<1>1. /\ setup \in Setups /\ setup \in Setup /\ now = 0 /\ posts = 0 /\ faults = 0
      /\ win = [k \in Keys |-> {}] /\ expiry = [k \in Keys |-> 0] /\ tokens = Gone
      /\ reqs = [c \in Clients |-> Idle]
  BY LimiterAssumption DEF Init
<1>2. setup.time \in Nat /\ setup.posts \in Nat
  BY <1>1 DEF Setup
<1>3. \A c \in Clients :
        /\ reqs[c].at = "idle" /\ reqs[c].n = 0 /\ reqs[c].by = "none" /\ reqs[c].early = FALSE
        /\ reqs[c].quiet = FALSE /\ reqs[c].alone = FALSE
  BY <1>1 DEF Idle
<1>4. tokens.n = 0 /\ tokens.expiry = 0
  BY <1>1 DEF Gone
<1>5. /\ ghost \in Ghost /\ ghost.last = -Minute /\ ghost.asked = {}
      /\ \A k \in Keys : ghost.entered[k] = {}
  <2>1. -Minute \in Int /\ ghost = [last |-> -Minute, slipped |-> FALSE, bare |-> FALSE,
                                    entered |-> [k \in Keys |-> {}], asked |-> {}]
    BY Constant DEF Init
  <2> DEFINE l == -Minute
             E == [k \in Keys |-> {}]
  <2>2. l \in Int /\ E \in [Keys -> SUBSET Entry] /\ \A k \in Keys : E[k] = {}
    BY <2>1
  <2>3. ghost = [last |-> l, slipped |-> FALSE, bare |-> FALSE, entered |-> E, asked |-> {}]
    BY <2>1
  <2>4. l = -Minute
    OBVIOUS
  <2> HIDE DEF l, E
  <2> QED
    BY <2>2, <2>3, <2>4 DEF Ghost
<1>6. Types
  <2>1. Idle \in Request
    BY Constant DEF Idle, Request, Steps
  <2>2. reqs \in [Clients -> Request]
    BY <1>1, <2>1
  <2>3. tokens \in [n : Nat, expiry : Nat \cup {None}]
    BY <1>1 DEF Gone
  <2> QED
    BY <1>1, <1>2, <1>5, <2>2, <2>3, Constant DEF Types
<1>7. WindowsInv
  <2>1. \A k \in Keys : win[k] = {} /\ Greatest(k) \in Nat
    BY <1>1, <1>6, OfSetup
  <2> QED
    BY <1>5, <2>1, FS_EmptySet DEF WindowsInv
<1>8. StampsInv /\ WaitsInv
  BY <1>3 DEF StampsInv, WaitsInv, Waits, Keys
<1>9. SilenceInv
  <2>1. ghost.last <= now
    BY <1>1, <1>5, Constant
  <2> QED
    BY <1>3, <1>4, <2>1 DEF SilenceInv, Alive
<1>10. NumbersInv
  BY <1>1, <1>3, <1>5, FS_EmptySet DEF NumbersInv, At
<1>11. TokensInv
  <2>1. Counting = {}
    BY <1>5 DEF Counting
  <2>2. \A v \in Nat : UpTo(Counting, v) = {}
    BY <2>1 DEF UpTo
  <2>3. \A v \in Nat : TokensOf(UpTo(Counting, v)) <= v
    BY <2>2, NoTokens
  <2>4. ~Expiring
    BY <1>3 DEF Expiring, At
  <2> QED
    BY <1>5, <2>1, <2>3, <2>4 DEF TokensInv
<1> QED
  BY <1>6, <1>7, <1>8, <1>9, <1>10, <1>11 DEF LimiterInv

LEMMA LimiterNext == LimiterInv /\ [Next]_vars => LimiterInv'
<1> SUFFICES ASSUME LimiterInv, [Next]_vars PROVE LimiterInv'
  OBVIOUS
<1>1. CASE Tick
  BY <1>1, TickStep
<1>2. ASSUME NEW c \in Clients, Post(c) \/ Incr(c) \/ Unlimited(c) \/ Expired(c) \/ TokensAgain(c)
                                \/ TokensFail(c) \/ Answer(c)
      PROVE  LimiterInv'
  BY <1>2, PostStep, IncrStep, UnlimitedStep, ExpiredStep, TokensAgainStep, TokensFailStep, AnswerStep
<1>3. ASSUME NEW c \in Clients, NEW k \in Keys, Pass(c, k) \/ Refuse(c, k) \/ WindowFails(c, k)
      PROVE  LimiterInv'
  BY <1>3, PassStep, RefuseStep, WindowFailsStep
<1>4. CASE UNCHANGED vars
  <2> USE <1>4 DEF vars
  <2>1. Types'
    BY DEF LimiterInv, Types
  <2>2. WindowsInv'
    BY WindowFrame DEF LimiterInv, windowVars
  <2>3. StampsInv' /\ WaitsInv'
    BY DEF LimiterInv, StampsInv, WaitsInv, Waits, RoomAt, LimitOf, IPLimit, Limit, Ahead
  <2>4. SilenceInv' /\ NumbersInv'
    BY DEF LimiterInv, SilenceInv, NumbersInv, TokenLimit, Expiring, At, Alive
  <2>5. TokensInv'
    <3>1. Counting' = Counting /\ Expiring' = Expiring /\ Alive' = Alive /\ TokenLimit' = TokenLimit
      BY DEF Counting, Expiring, At, Alive, TokenLimit
    <3> QED
      BY <3>1 DEF LimiterInv, TokensInv, UpTo
  <2> QED
    BY <2>1, <2>2, <2>3, <2>4, <2>5 DEF LimiterInv
<1> QED
  BY <1>1, <1>2, <1>3, <1>4 DEF Next

LEMMA LimiterInvariance == Spec => []LimiterInv
  BY LimiterInit, LimiterNext, PTL DEF Spec

\* In whatever order gateways read their clocks and Redis runs what they send, windows hold
\* members of the past up to the limit, and the counter of tokens, the times to come again and
\* the history are well-formed (ratelimit/token_bucket.go).
THEOREM LimiterTypeCorrect == Spec => []TypeOK
<1>1. LimiterInv => TypeOK
  BY DEF LimiterInv, Types, WindowsInv, TypeOK
<1> QED
  BY <1>1, LimiterInvariance, PTL

\* In no period shorter than a minute by the delays of calls and the differences of clocks does
\* a window let more requests through than its limit, however many gateways ask it and whatever
\* calls fail or are run twice (AllowSlidingWindow).
THEOREM WindowsHold == Spec => []WindowHolds
<1>1. LimiterInv => WindowHolds
  <2> SUFFICES ASSUME LimiterInv, NEW k \in Keys
               PROVE  Cardinality({x.member : x \in ghost.entered[k]}) <= Greatest(k)
    BY DEF WindowHolds
  <2> DEFINE In == {x.member : x \in ghost.entered[k]}
  <2>1. In \subseteq win[k] /\ IsFiniteSet(win[k]) /\ Cardinality(win[k]) <= Greatest(k)
    BY DEF LimiterInv, WindowsInv, Remembered
  <2>2. Greatest(k) \in Nat
    BY OfSetup, LimiterAssumption DEF LimiterInv
  <2> HIDE DEF In
  <2>3. IsFiniteSet(In) /\ Cardinality(In) <= Cardinality(win[k])
    BY <2>1, FS_Subset
  <2>4. Cardinality(In) \in Nat /\ Cardinality(win[k]) \in Nat
    BY <2>1, <2>3, FS_CardinalityType
  <2>5. Cardinality(In) <= Greatest(k)
    BY <2>1, <2>2, <2>3, <2>4
  <2> QED
    BY <2>5 DEF In
<1> QED
  BY <1>1, LimiterInvariance, PTL

\* Who comes again when the window told it to is let through by that window, unless somebody
\* else was, or the window holds more than its own limit (retry in AllowSlidingWindow).
THEOREM RetriesEnough == Spec => []RetryIsEnough
<1>1. LimiterInv => RetryIsEnough
  BY DEF LimiterInv, WaitsInv, RetryIsEnough
<1> QED
  BY <1>1, LimiterInvariance, PTL

\* The requests of a minute that were let through asked for no more tokens than the limit and
\* than those of them that were let through because their pipeline failed, unless the counter
\* expired between INCRBY and EXPIRE (CheckTPM).
THEOREM TokensBounded == Spec => []TokensHold
<1>1. LimiterInv => TokensHold
  <2> SUFFICES ASSUME LimiterInv, ~ghost.slipped
               PROVE  TokensOf(LetThrough({"counted", "unchecked"}))
                        <= Max({TokenLimit[c] : c \in Clients}) + TokensOf(LetThrough({"unchecked"}))
    BY DEF TokensHold
  <2> USE DEF LimiterInv
  <2> DEFINE M == Max({TokenLimit[c] : c \in Clients})
             S == LetThrough({"counted"})
             U == LetThrough({"unchecked"})
             All == LetThrough({"counted", "unchecked"})
  <2>1. M \in Nat /\ \A c \in Clients : TokenLimit[c] <= M
    <3>1. TokenLimit \in [Clients -> Nat]
      BY OfSetup DEF TokenLimit, Setup
    <3> QED
      BY <3>1, GreatestOf
  <2>2. \A c \in Clients : TokenLimit[c] \in Nat
    BY OfSetup
  <2> HIDE DEF M
  <2>3. S \subseteq UpTo(Counting, M)
    <3>1. ASSUME NEW x \in S PROVE x.seen <= M
      <4>0. x \in ghost.asked /\ x.let = "counted"
        BY DEF LetThrough
      <4>1. PICK c \in Clients : x.seen <= TokenLimit[c]
        BY <4>0 DEF TokensInv
      <4>2. x.seen \in Nat
        BY <4>0, AskedTypes
      <4> QED
        BY <2>1, <2>2, <4>1, <4>2
    <3> QED
      BY <3>1 DEF UpTo, Counting, LetThrough
  <2>4. IsFiniteSet(UpTo(Counting, M)) /\ \A x \in UpTo(Counting, M) : x.size \in Nat
    <3>1. UpTo(Counting, M) \subseteq ghost.asked
      BY DEF UpTo, Counting
    <3> QED
      BY <3>1, AskedTypes, FS_Subset DEF NumbersInv
  <2>5. /\ All = S \cup U /\ S \cap U = {} /\ IsFiniteSet(S) /\ IsFiniteSet(U)
        /\ \A x \in S \cup U : x.size \in Nat
    <3>1. S \subseteq ghost.asked /\ U \subseteq ghost.asked /\ All = S \cup U /\ S \cap U = {}
      BY DEF LetThrough
    <3> QED
      BY <3>1, AskedTypes, FS_Subset DEF NumbersInv
  <2> HIDE DEF S, U, All
  <2>6. /\ TokensOf(S) \in Nat /\ TokensOf(UpTo(Counting, M)) \in Nat
        /\ TokensOf(S) <= TokensOf(UpTo(Counting, M))
    BY <2>3, <2>4, FewerTokens
  <2>7. TokensOf(UpTo(Counting, M)) <= M
    BY <2>1 DEF TokensInv
  <2>8. /\ TokensOf(S \cup U) = TokensOf(S) + TokensOf(U) /\ TokensOf(U) \in Nat
    BY <2>5, TokensOfBoth
  <2>9. TokensOf(All) <= M + TokensOf(U)
    BY <2>1, <2>5, <2>6, <2>7, <2>8
  <2> QED
    BY <2>9 DEF M, U, All
<1> QED
  BY <1>1, LimiterInvariance, PTL

\* Although refused requests count, a user is refused only what is too much on its own when no
\* INCRBY was run for a minute, one of the same request before a lost reply included, unless an
\* EXPIRE was lost (CheckTPM).
THEOREM SilenceEnds == Spec => []SilenceHelps
<1>1. LimiterInv => SilenceHelps
  BY DEF LimiterInv, SilenceInv, SilenceHelps
<1> QED
  BY <1>1, LimiterInvariance, PTL
=============================================================================
