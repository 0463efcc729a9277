----------------------------- MODULE PricingProofs -----------------------------
(***************************************************************************)
(* What the free tier's balance is asked for before a request exceeds the  *)
(* charge after it at most by the minimum of a cent, as long as prices and *)
(* caches hold still, for any number of gateways and requests, any prices  *)
(* and any rows of model_pools.                                            *)
(***************************************************************************)
EXTENDS Pricing, TLAPS

\* A row that the tab shows still exists: nothing deletes one.
TabInv == tab.row # None => row # None

PoolIsFree == pool # None => PoolCost(1) = 0

\* What a request may carry that nothing has disturbed, by how far it is.
QuietOK(q) ==
  /\ q.at \in {"memory", "redis", "db", "store"} => ~q.checked /\ (q.again => PoolIsFree)
  /\ q.at = "store" => q.hit = Priced
  /\ q.at = "pool" => ~q.checked
  /\ q.at \in {"serve", "charge", "fallback"} =>
       /\ q.kind = "free" => q.checked \/ Priced = None
       /\ q.checked => \/ q.est = 1
                       \/ pool # None /\ q.est = PoolCost(1) \div Unit
                       \/ PoolIsFree /\ q.est = Cost(Priced, 1) \div Unit
  /\ q.at = "fallback" => pool = None
  /\ q.at = "done" =>
       /\ q.checked => q.est <= q.paid \/ q.est = 1 \/ (q.by = "pool" /\ q.paid = 0)
       /\ q.kind = "free" /\ q.by = "row" /\ q.paid > 0 => q.checked

RequestsInv == \A r \in Requests : reqs[r].quiet => QuietOK(reqs[r])

\* While such a request is under way, no cache is behind.
SettledInv == (\E r \in Requests : reqs[r].quiet /\ reqs[r].at # "done") => Settled

IInv == TypeOK /\ TabInv /\ RequestsInv /\ SettledInv

-----------------------------------------------------------------------------
(* The operators.                                                          *)

LEMMA Types ==
  /\ Idle \in Request /\ ~Idle.quiet
  /\ Prices \subseteq Nat /\ None \notin Prices /\ Known \ {None} = Prices
<1>1. Prices \subseteq Nat /\ None \notin Prices /\ Known \ {None} = Prices
  BY PricingAssumption DEF Known
<1>2. Idle.gate \in Gateways /\ 1 \in 1..MaxTokens
  BY PricingAssumption DEF Idle
<1>3. PICK g \in Gateways : g = Idle.gate
  BY <1>2
<1>4. Idle = [at |-> "idle", kind |-> "free", gate |-> g, again |-> FALSE, hit |-> None, checked |-> FALSE,
              est |-> 0, tokens |-> 1, paid |-> 0, by |-> None, quiet |-> FALSE]
  BY <1>3 DEF Idle
<1> QED
  BY <1>1, <1>2, <1>4 DEF Request, Steps, Kinds, Known

LEMMA PricedType == row \in Row \cup {None} => Priced \in Known
  BY PricingAssumption DEF Priced, Row, Known

LEMMA Times == \A n \in Nat \ {0}, p \in Nat : n * p \in Nat /\ p <= n * p /\ 1 * p = p
<1> SUFFICES ASSUME NEW n \in Nat \ {0}, NEW p \in Nat
             PROVE  n * p \in Nat /\ p <= n * p /\ 1 * p = p
  OBVIOUS
<1>1. n - 1 \in Nat /\ n = (n - 1) + 1
  OBVIOUS
<1>2. \A m \in Nat : m * p \in Nat /\ (m + 1) * p = m * p + p
  OBVIOUS
<1> QED
  BY <1>1, <1>2

\* More tokens never cost less.
LEMMA CostGrows ==
  ASSUME NEW p \in Known, NEW n \in Nat \ {0}
  PROVE  Cost(p, n) \in Nat /\ Cost(p, 1) <= Cost(p, n) /\ (p = None => Cost(p, n) = 0)
<1>1. CASE p = None
  BY <1>1 DEF Cost
<1>2. CASE p # None
  <2>1. p \in Nat
    BY <1>2, Types
  <2>2. n * p \in Nat /\ p <= n * p /\ 1 * p = p
    BY <2>1, Times
  <2> QED
    BY <1>2, <2>1, <2>2 DEF Cost
<1> QED
  BY <1>1, <1>2

\* Neither do they in a pool, and one that costs nothing for a token costs nothing.
LEMMA PoolCostGrows ==
  ASSUME pool \in Pools, NEW n \in Nat \ {0}
  PROVE  /\ PoolCost(n) \in Nat /\ PoolCost(1) \in Nat
         /\ PoolCost(1) <= PoolCost(n)
         /\ PoolCost(1) = 0 => PoolCost(n) = 0
<1>1. pool \in PoolRow
  BY PricingAssumption
<1>2. pool.token \in Nat /\ pool.call \in Nat
  BY <1>1 DEF PoolRow
<1>3. n * 0 = 0 /\ pool.call * Unit \in Nat /\ (pool.call > 0 => pool.call * Unit > 0)
  <2>1. Unit \in Nat \ {0}
    BY PricingAssumption
  <2>2. \A m \in Nat : m * Unit \in Nat /\ (m + 1) * Unit = m * Unit + Unit
    BY <2>1
  <2>3. CASE pool.call = 0
    BY <1>2, <2>1, <2>3
  <2>4. CASE pool.call > 0
    <3>1. pool.call - 1 \in Nat /\ pool.call = (pool.call - 1) + 1
      BY <1>2, <2>4
    <3> QED
      BY <2>1, <2>2, <3>1
  <2> QED
    BY <1>2, <2>3, <2>4
<1> QED
  BY <1>2, <1>3, Times DEF PoolCost

\* Cut to cents, more is never less.
LEMMA CutGrows ==
  ASSUME NEW a \in Nat, NEW b \in Nat, a <= b
  PROVE  a \div Unit \in Nat /\ b \div Unit \in Nat /\ a \div Unit <= b \div Unit /\ 0 \div Unit = 0
<1>1. Unit \in Nat \ {0}
  BY PricingAssumption
<1>2. \A c \in Nat : /\ c \div Unit \in Nat
                     /\ (c \div Unit) * Unit <= c
                     /\ c < (c \div Unit) * Unit + Unit
  BY <1>1
<1>3. 0 \div Unit = 0
  BY <1>1
<1> DEFINE x == a \div Unit
           y == b \div Unit
<1>4. x \in Nat /\ y \in Nat /\ x * Unit <= a /\ b < y * Unit + Unit
  BY <1>2
<1> HIDE DEF x, y
<1>5. ASSUME y < x PROVE FALSE
  <2>1. x - y - 1 \in Nat /\ x = (x - y - 1) + (y + 1)
    BY <1>4, <1>5
  <2>2. PICK k \in Nat : x = k + (y + 1)
    BY <2>1
  <2>3. x * Unit = k * Unit + (y * Unit + Unit)
    BY <1>1, <1>4, <2>2
  <2>4. k * Unit \in Nat /\ y * Unit \in Nat /\ x * Unit \in Nat
    BY <1>1, <1>4
  <2> QED
    BY <1>1, <1>4, <2>3, <2>4
<1> QED
  BY <1>3, <1>4, <1>5 DEF x, y

\* What the free tier is asked for.
LEMMA EstimatedType ==
  ASSUME NEW q \in Request, NEW c \in Nat
  PROVE  /\ Estimated(q, c) \in Request
         /\ Estimated(q, c).at = "serve" /\ Estimated(q, c).hit = None
         /\ Estimated(q, c).quiet = q.quiet /\ Estimated(q, c).kind = q.kind
         /\ q.kind = "free" => /\ Estimated(q, c).checked
                               /\ Estimated(q, c).est \in {1, c \div Unit}
         /\ q.kind # "free" => Estimated(q, c).checked = q.checked
<1>1. c \div Unit \in Nat /\ AtLeastOne(c \div Unit) \in {1, c \div Unit} /\ None \in Known
  BY CutGrows DEF AtLeastOne, Known
<1>2. PICK e \in Nat : e = AtLeastOne(c \div Unit) /\ e \in {1, c \div Unit}
  BY <1>1
<1>3. CASE q.kind = "free"
  <2>1. Estimated(q, c) = [q EXCEPT !.at = "serve", !.checked = TRUE, !.est = e, !.hit = None]
    BY <1>2, <1>3 DEF Estimated
  <2> QED
    BY <1>1, <1>2, <1>3, <2>1 DEF Request, Steps
<1>4. CASE q.kind # "free"
  <2>1. Estimated(q, c) = [q EXCEPT !.at = "serve", !.hit = None]
    BY <1>4 DEF Estimated
  <2> QED
    BY <1>1, <1>4, <2>1 DEF Request, Steps
<1> QED
  BY <1>3, <1>4

LEMMA ReturnedType ==
  ASSUME NEW q \in Request, NEW p \in Known
  PROVE  Returned(q, p) \in Request
<1>1. Cost(p, 1) \in Nat
  BY CostGrows
<1>2. None \in Known
  BY DEF Known
<1> QED
  BY <1>1, <1>2, EstimatedType DEF Returned, Request, Steps

LEMMA DisturbedType ==
  ASSUME reqs \in [Requests -> Request]
  PROVE  /\ Disturbed(reqs) \in [Requests -> Request]
         /\ \A r \in Requests : Disturbed(reqs)[r].quiet => reqs[r].at = "done" /\ Disturbed(reqs)[r] = reqs[r]
         /\ \A r \in Requests : Disturbed(reqs)[r].hit = reqs[r].hit
  BY DEF Disturbed, Request

LEMMA AskedType ==
  ASSUME tab \in [row : Row \cup {None}, loading : BOOLEAN, asked : Nat]
  PROVE  Asked \in [row : Row \cup {None}, loading : BOOLEAN, asked : Nat] /\ Asked.row = tab.row
<1>1. tab.row \in Row \cup {None} /\ tab.asked \in Nat /\ tab.asked + 1 \in Nat
  OBVIOUS
<1>2. Asked = [row |-> tab.row, loading |-> TRUE, asked |-> tab.asked + 1]
  <2>1. PICK x : x = [tab EXCEPT !.loading = TRUE, !.asked = @ + 1]
    OBVIOUS
  <2>2. x = [row |-> tab.row, loading |-> TRUE, asked |-> tab.asked + 1]
    BY <2>1, <1>1
  <2> QED
    BY <2>1, <2>2 DEF Asked
<1> QED
  BY <1>1, <1>2

LEMMA FaultType == left \in Cap /\ Fault => left' \in Cap
  BY DEF Fault, Spend, Cap

-----------------------------------------------------------------------------
(* What a step must do to keep the invariant, whichever it is.             *)

\* A step of one request, which leaves the tables alone.
LEMMA OneRequest ==
  ASSUME IInv, NEW r \in Requests, NEW q \in Request,
         UNCHANGED <<row, pool, redis, load, tab>>,
         left' \in Cap, cache' \in [Gateways -> Known],
         reqs' = [reqs EXCEPT ![r] = q],
         Settled => q.hit \in {None, Priced} /\ \A g \in Gateways : cache'[g] \in {None, Priced},
         q.quiet => /\ reqs[r].quiet /\ reqs[r].at # "done"
                    /\ Settled => QuietOK(q)
  PROVE  IInv'
<1>1. TypeOK' /\ TabInv'
  BY DEF IInv, TypeOK, TabInv
<1>2. Priced' = Priced
  BY DEF Priced
<1>4. RequestsInv'
  <2> SUFFICES ASSUME NEW o \in Requests, reqs'[o].quiet PROVE QuietOK(reqs[o])'
    BY DEF RequestsInv
  <2>1. CASE o = r
    <3>1. reqs'[o] = q
      BY <2>1 DEF IInv, TypeOK
    <3>2. QuietOK(q)
      BY <3>1 DEF IInv, SettledInv
    <3> QED
      BY <3>1, <3>2, <1>2 DEF QuietOK, PoolIsFree, PoolCost
  <2>2. CASE o # r
    <3>1. reqs'[o] = reqs[o] /\ QuietOK(reqs[o])
      BY <2>2 DEF IInv, TypeOK, RequestsInv
    <3> QED
      BY <3>1, <1>2 DEF QuietOK, PoolIsFree, PoolCost
  <2> QED
    BY <2>1, <2>2
<1>5. SettledInv'
  <2> SUFFICES ASSUME NEW o \in Requests, reqs'[o].quiet, reqs'[o].at # "done" PROVE Settled'
    BY DEF SettledInv
  <2>1. Settled
    BY DEF IInv, TypeOK, SettledInv
  <2> QED
    BY <2>1, <1>2 DEF Settled, IInv, TypeOK
<1> QED
  BY <1>1, <1>4, <1>5 DEF IInv

\* A step that disturbs: only requests that are done stay undisturbed.
LEMMA NoneUnderWay ==
  ASSUME IInv, TypeOK', TabInv',
         \A r \in Requests : reqs'[r].quiet => reqs[r].at = "done" /\ reqs'[r] = reqs[r]
  PROVE  IInv'
<1>1. RequestsInv'
  <2> SUFFICES ASSUME NEW r \in Requests, reqs'[r].quiet PROVE QuietOK(reqs[r])'
    BY DEF RequestsInv
  <2> QED
    BY DEF IInv, RequestsInv, QuietOK
<1>2. SettledInv'
  BY DEF SettledInv
<1> QED
  BY <1>1, <1>2 DEF IInv

\* A step of the caches: the tables and what requests carry stay.
LEMMA CachesOnly ==
  ASSUME IInv, TypeOK', UNCHANGED <<row, pool, tab>>,
         \A r \in Requests : reqs'[r].quiet => reqs'[r] = reqs[r],
         Settled => Settled'
  PROVE  IInv'
<1>1. TabInv'
  BY DEF IInv, TabInv
<1>2. Priced' = Priced
  BY DEF Priced
<1>3. RequestsInv'
  <2> SUFFICES ASSUME NEW r \in Requests, reqs'[r].quiet PROVE QuietOK(reqs[r])'
    BY DEF RequestsInv
  <2>1. reqs'[r] = reqs[r] /\ QuietOK(reqs[r])
    BY DEF IInv, RequestsInv
  <2> QED
    BY <2>1, <1>2 DEF QuietOK, PoolIsFree, PoolCost
<1>4. SettledInv'
  BY DEF IInv, SettledInv
<1> QED
  BY <1>1, <1>3, <1>4 DEF IInv


-----------------------------------------------------------------------------
(* The steps of a request.                                                 *)

\* What GetPrice returns keeps an undisturbed request in order.
LEMMA ReturnedOK ==
  ASSUME IInv, NEW q \in Request, NEW p \in Known, q.at \in {"memory", "db", "store"}
  PROVE  /\ Returned(q, p).quiet = q.quiet
         /\ Returned(q, p).hit \in {q.hit, None}
         /\ QuietOK(q) /\ p = Priced => QuietOK(Returned(q, p))
<1>1. CASE q.again
  <2> DEFINE a == Estimated(q, Cost(p, 1))
  <2>1. /\ Returned(q, p) = a /\ a.quiet = q.quiet /\ a.hit = None /\ a.at = "serve" /\ a.kind = q.kind
        /\ q.kind = "free" => a.checked /\ a.est \in {1, Cost(p, 1) \div Unit}
        /\ q.kind # "free" => a.checked = q.checked
    BY <1>1, CostGrows, EstimatedType DEF Returned
  <2> HIDE DEF a
  <2> QED
    BY <1>1, <2>1 DEF QuietOK
<1>2. CASE ~q.again
  <2> DEFINE b == [q EXCEPT !.at = IF p = None THEN "serve" ELSE "pool", !.hit = None]
  <2>1. /\ Returned(q, p) = b /\ b.quiet = q.quiet /\ b.hit = None /\ b.kind = q.kind
        /\ b.checked = q.checked /\ b.at = IF p = None THEN "serve" ELSE "pool"
    BY <1>2 DEF Returned, Request
  <2> HIDE DEF b
  <2> QED
    BY <2>1 DEF QuietOK
<1> QED
  BY <1>1, <1>2

\* What an undisturbed request may rely on while it is under way.
LEMMA UnderWay ==
  ASSUME IInv, NEW r \in Requests
  PROVE  /\ reqs[r] \in Request
         /\ reqs[r].quiet => QuietOK(reqs[r])
         /\ reqs[r].quiet /\ reqs[r].at # "done" => Settled
         /\ Settled => redis \in {None, Priced} /\ reqs[r].hit \in {None, Priced}
                        /\ \A g \in Gateways : cache[g] \in {None, Priced}
         /\ reqs[r].gate \in Gateways /\ cache \in [Gateways -> Known] /\ redis \in Known
         /\ reqs[r].hit \in Known
         /\ Priced \in Known /\ left \in Cap
  BY PricedType DEF IInv, TypeOK, RequestsInv, SettledInv, Settled, Request

LEMMA StartStep ==
  ASSUME IInv, NEW r \in Requests, Start(r)
  PROVE  IInv'
<1>1. PICK g \in Gateways, k \in Kinds :
        reqs' = [reqs EXCEPT ![r] = [Idle EXCEPT !.at = IF k = "embeddings" THEN "serve" ELSE "memory",
                                                 !.kind = k, !.gate = g, !.quiet = Settled]]
  BY DEF Start
<1> DEFINE q == [Idle EXCEPT !.at = IF k = "embeddings" THEN "serve" ELSE "memory",
                             !.kind = k, !.gate = g, !.quiet = Settled]
<1>2. Settled \in BOOLEAN
  BY DEF Settled
<1>3. /\ q \in Request /\ q.hit = None /\ q.quiet = Settled /\ q.at \in {"memory", "serve"}
      /\ ~q.again /\ ~q.checked /\ (q.at = "serve" => q.kind # "free")
  BY <1>2, Types DEF Idle, Request, Steps, Kinds
<1>4. Priced' = Priced /\ left' \in Cap
  BY DEF Start, Priced, Spend, IInv, TypeOK, Cap
<1>5. TypeOK' /\ TabInv'
  BY <1>1, <1>3, <1>4 DEF IInv, TypeOK, TabInv, Start
<1>6. QuietOK(q)
  BY <1>3 DEF QuietOK
<1>7. RequestsInv'
  <2> SUFFICES ASSUME NEW o \in Requests, reqs'[o].quiet PROVE QuietOK(reqs[o])'
    BY DEF RequestsInv
  <2>1. reqs'[o] = q \/ reqs'[o] = reqs[o]
    BY <1>1 DEF IInv, TypeOK
  <2>2. QuietOK(reqs'[o])
    BY <1>6, <2>1 DEF IInv, RequestsInv
  <2> QED
    BY <2>2, <1>4 DEF QuietOK, PoolIsFree, PoolCost, Start
<1>8. SettledInv'
  <2> SUFFICES ASSUME NEW o \in Requests, reqs'[o].quiet, reqs'[o].at # "done" PROVE Settled'
    BY DEF SettledInv
  <2>1. reqs'[o] = q \/ reqs'[o] = reqs[o]
    BY <1>1 DEF IInv, TypeOK
  <2>2. Settled
    BY <1>3, <2>1 DEF IInv, SettledInv
  <2> QED
    BY <2>2, <1>1, <1>3, <1>4 DEF Settled, Start, IInv, TypeOK
<1> QED
  BY <1>5, <1>7, <1>8 DEF IInv

LEMMA MemoryStep ==
  ASSUME IInv, NEW r \in Requests, Memory(r), UNCHANGED <<row, pool, redis, load, tab>>
  PROVE  IInv'
<1>1. CASE cache[reqs[r].gate] # None
  <2> DEFINE q == Returned(reqs[r], cache[reqs[r].gate])
  <2>1. q \in Request /\ reqs' = [reqs EXCEPT ![r] = q] /\ UNCHANGED <<cache, left>>
    BY <1>1, UnderWay, ReturnedType DEF Memory, Return, IInv, TypeOK
  <2>2. q.quiet = reqs[r].quiet /\ q.hit \in {reqs[r].hit, None}
    BY UnderWay, ReturnedOK DEF Memory, At
  <2>3. Settled => cache[reqs[r].gate] = Priced
    BY <1>1, UnderWay
  <2>4. q.quiet => Settled /\ QuietOK(q) /\ reqs[r].at # "done"
    BY <2>2, <2>3, UnderWay, ReturnedOK DEF Memory, At
  <2> HIDE DEF q
  <2> QED
    BY <2>1, <2>2, <2>4, UnderWay, OneRequest
<1>2. CASE cache[reqs[r].gate] = None
  <2> DEFINE q == [reqs[r] EXCEPT !.at = "redis"]
  <2>0. Goto(r, "redis") /\ UNCHANGED <<cache, left>>
    BY <1>2 DEF Memory
  <2>1. q \in Request /\ reqs' = [reqs EXCEPT ![r] = q]
    BY <2>0, UnderWay DEF Goto, Request, Steps
  <2>2. q.quiet = reqs[r].quiet /\ q.hit = reqs[r].hit /\ reqs[r].at # "done"
    BY UnderWay DEF Memory, At, Request
  <2>3. q.quiet => QuietOK(q)
    BY <2>2, UnderWay DEF Memory, At, QuietOK, Request
  <2> HIDE DEF q
  <2> QED
    BY <2>0, <2>1, <2>2, <2>3, UnderWay, OneRequest
<1> QED
  BY <1>1, <1>2

LEMMA RedisStep ==
  ASSUME IInv, NEW r \in Requests, Redis(r), UNCHANGED <<row, pool, redis, load, tab>>
  PROVE  IInv'
<1>1. left' \in Cap /\ UNCHANGED cache /\ reqs[r].at = "redis"
  BY UnderWay, FaultType DEF Redis, At
<1>2. CASE redis # None /\ Found(r, redis)
  <2> DEFINE q == [reqs[r] EXCEPT !.at = "store", !.hit = redis]
  <2>4. q \in Request
    BY UnderWay DEF Request, Steps
  <2>1. q \in Request /\ reqs' = [reqs EXCEPT ![r] = q]
    BY <1>2, <2>4 DEF Found
  <2>2. q.quiet = reqs[r].quiet /\ q.hit = redis
    BY UnderWay DEF Request
  <2>3. q.quiet => QuietOK(q)
    BY <1>1, <1>2, <2>2, UnderWay DEF QuietOK, Request
  <2> HIDE DEF q
  <2> QED
    BY <1>1, <2>1, <2>2, <2>3, UnderWay, OneRequest
<1>3. CASE Goto(r, "db")
  <2> DEFINE q == [reqs[r] EXCEPT !.at = "db"]
  <2>1. q \in Request /\ reqs' = [reqs EXCEPT ![r] = q]
    BY <1>3, UnderWay DEF Goto, Request, Steps, IInv, TypeOK
  <2>2. q.quiet = reqs[r].quiet /\ q.hit = reqs[r].hit
    BY UnderWay DEF Request
  <2>3. q.quiet => QuietOK(q)
    BY <1>1, <2>2, UnderWay DEF QuietOK, Request
  <2> HIDE DEF q
  <2> QED
    BY <1>1, <2>1, <2>2, <2>3, UnderWay, OneRequest
<1> QED
  BY <1>2, <1>3 DEF Redis

\* The answer of the table is right; when the query fails, the request is disturbed.
LEMMA DatabaseStep ==
  ASSUME IInv, NEW r \in Requests, Database(r), UNCHANGED <<row, pool, redis, load, tab>>
  PROVE  IInv'
<1>1. left' \in Cap /\ UNCHANGED cache /\ reqs[r].at = "db"
  BY UnderWay, FaultType DEF Database, At
<1>2. CASE Priced # None /\ Found(r, Priced)
  <2> DEFINE q == [reqs[r] EXCEPT !.at = "store", !.hit = Priced]
  <2>4. q \in Request
    BY UnderWay DEF Request, Steps
  <2>1. q \in Request /\ reqs' = [reqs EXCEPT ![r] = q]
    BY <1>2, <2>4 DEF Found
  <2>2. q.quiet = reqs[r].quiet /\ q.hit = Priced
    BY UnderWay DEF Request
  <2>3. q.quiet => QuietOK(q)
    BY <1>1, <2>2, UnderWay DEF QuietOK, Request
  <2> HIDE DEF q
  <2> QED
    BY <1>1, <2>1, <2>2, <2>3, UnderWay, OneRequest
<1>3. CASE Priced = None /\ Return(r, None)
  <2> DEFINE q == Returned(reqs[r], None)
  <2>1. q \in Request /\ reqs' = [reqs EXCEPT ![r] = q]
    BY <1>3, UnderWay, ReturnedType DEF Return, IInv, TypeOK
  <2>2. q.quiet = reqs[r].quiet /\ q.hit \in {reqs[r].hit, None}
    BY <1>1, <1>3, UnderWay, ReturnedOK
  <2>3. q.quiet => QuietOK(q)
    BY <1>1, <1>3, <2>2, UnderWay, ReturnedOK
  <2> HIDE DEF q
  <2> QED
    BY <1>1, <2>1, <2>2, <2>3, UnderWay, OneRequest
<1>4. CASE reqs' = [Disturbed(reqs) EXCEPT ![r] = Returned(@, None)]
  <2> DEFINE d == Disturbed(reqs)
  <2>1. /\ d \in [Requests -> Request]
        /\ \A o \in Requests : d[o].quiet => reqs[o].at = "done" /\ d[o] = reqs[o]
        /\ d[r].at = "db"
    BY <1>1, UnderWay, DisturbedType DEF IInv, TypeOK, Disturbed, Request
  <2>2. None \in Known
    BY DEF Known
  <2>3. Returned(d[r], None) \in Request /\ Returned(d[r], None).quiet = d[r].quiet
    BY <2>1, <2>2, ReturnedType, ReturnedOK
  <2> HIDE DEF d
  <2>4. reqs' \in [Requests -> Request]
    BY <1>4, <2>1, <2>3 DEF d
  <2>5. TypeOK' /\ TabInv'
    BY <1>1, <2>4 DEF IInv, TypeOK, TabInv
  <2>6. \A o \in Requests : reqs'[o].quiet => reqs[o].at = "done" /\ reqs'[o] = reqs[o]
    BY <1>1, <1>4, <2>1, <2>3 DEF d
  <2> QED
    BY <2>5, <2>6, NoneUnderWay
<1> QED
  BY <1>2, <1>3, <1>4 DEF Database

LEMMA StoreStep ==
  ASSUME IInv, NEW r \in Requests, Store(r), UNCHANGED <<row, pool, redis, load, tab>>
  PROVE  IInv'
<1>1. left' \in Cap /\ reqs[r].at = "store" /\ reqs[r].hit \in Known
  BY UnderWay DEF Store, At
<1> DEFINE q == Returned(reqs[r], reqs[r].hit)
<1>2. q \in Request /\ reqs' = [reqs EXCEPT ![r] = q]
  BY <1>1, UnderWay, ReturnedType DEF Store, Return, IInv, TypeOK
<1>3. q.quiet = reqs[r].quiet /\ q.hit \in {reqs[r].hit, None}
  BY <1>1, UnderWay, ReturnedOK
<1>4. q.quiet => QuietOK(q)
  <2>1. q.quiet => QuietOK(reqs[r]) /\ reqs[r].hit = Priced
    BY <1>1, <1>3, UnderWay DEF QuietOK
  <2> QED
    BY <1>1, <2>1, UnderWay, ReturnedOK
<1>5. cache' \in [Gateways -> Known]
  BY <1>1, UnderWay DEF Store
<1>6. Settled => \A g \in Gateways : cache'[g] \in {None, Priced}
  BY <1>1, UnderWay DEF Store
<1> HIDE DEF q
<1> QED
  BY <1>1, <1>2, <1>3, <1>4, <1>5, <1>6, UnderWay, OneRequest

LEMMA PoolStep ==
  ASSUME IInv, NEW r \in Requests, Pool(r), UNCHANGED <<row, pool, redis, load, tab>>
  PROVE  IInv'
<1>1. left' \in Cap /\ UNCHANGED cache /\ reqs[r].at = "pool"
  BY UnderWay, FaultType DEF Pool, At
<1>2. CASE pool # None /\ PoolEstimate(1) > 0 /\ reqs' = [reqs EXCEPT ![r] = Estimated(@, PoolEstimate(1))]
  <2> DEFINE q == Estimated(reqs[r], PoolCost(1))
  <2>1. PoolEstimate(1) = PoolCost(1) /\ PoolCost(1) \in Nat
    BY <1>2, PoolCostGrows DEF PoolEstimate, IInv, TypeOK
  <2>2. /\ q \in Request /\ q.at = "serve" /\ q.kind = reqs[r].kind
        /\ reqs[r].kind = "free" => q.checked /\ q.est \in {1, PoolCost(1) \div Unit}
        /\ reqs[r].kind # "free" => q.checked = reqs[r].checked
        /\ q.quiet = reqs[r].quiet /\ q.hit = None
    BY <2>1, UnderWay, EstimatedType
  <2>4. reqs' = [reqs EXCEPT ![r] = q]
    BY <1>2, <2>1 DEF IInv, TypeOK
  <2> HIDE DEF q
  <2>5. q.quiet => QuietOK(q)
    BY <1>1, <1>2, <2>2, UnderWay DEF QuietOK
  <2> QED
    BY <1>1, <2>2, <2>4, <2>5, UnderWay, OneRequest
<1>3. CASE /\ IF pool = None THEN TRUE ELSE PoolEstimate(1) = 0
           /\ reqs' = [reqs EXCEPT ![r].at = "memory", ![r].again = TRUE]
  <2> DEFINE q == [reqs[r] EXCEPT !.at = "memory", !.again = TRUE]
  <2>1. PoolIsFree
    BY <1>3 DEF PoolIsFree, PoolEstimate
  <2>2. /\ q \in Request /\ q.at = "memory" /\ q.est = reqs[r].est
        /\ q.checked = reqs[r].checked /\ q.quiet = reqs[r].quiet /\ q.hit = reqs[r].hit
    BY UnderWay DEF Request, Steps
  <2>3. reqs' = [reqs EXCEPT ![r] = q]
    BY <1>3
  <2>4. q.quiet => QuietOK(q)
    BY <1>1, <2>1, <2>2, UnderWay DEF QuietOK
  <2> HIDE DEF q
  <2> QED
    BY <1>1, <2>2, <2>3, <2>4, UnderWay, OneRequest
<1>4. CASE reqs' = [Disturbed(reqs) EXCEPT ![r].at = "memory", ![r].again = TRUE]
  <2> DEFINE d == Disturbed(reqs)
  <2>1. /\ d \in [Requests -> Request]
        /\ \A o \in Requests : d[o].quiet => reqs[o].at = "done" /\ d[o] = reqs[o]
        /\ d[r].at = "pool"
    BY <1>1, UnderWay, DisturbedType DEF IInv, TypeOK, Disturbed, Request
  <2> HIDE DEF d
  <2> DEFINE q == [d[r] EXCEPT !.at = "memory", !.again = TRUE]
  <2>2. q \in Request /\ q.quiet = d[r].quiet
    BY <2>1 DEF Request, Steps
  <2>3. reqs' = [d EXCEPT ![r] = q]
    BY <1>4, <2>1 DEF d
  <2> HIDE DEF q
  <2>4. reqs' \in [Requests -> Request]
    BY <2>1, <2>2, <2>3
  <2>5. TypeOK' /\ TabInv'
    BY <1>1, <2>4 DEF IInv, TypeOK, TabInv
  <2>6. \A o \in Requests : reqs'[o].quiet => reqs[o].at = "done" /\ reqs'[o] = reqs[o]
    BY <1>1, <2>1, <2>2, <2>3
  <2> QED
    BY <2>5, <2>6, NoneUnderWay
<1> QED
  BY <1>2, <1>3, <1>4 DEF Pool

LEMMA ServeStep ==
  ASSUME IInv, NEW r \in Requests, Serve(r), UNCHANGED <<row, pool, redis, load, tab>>
  PROVE  IInv'
<1>1. left' \in Cap /\ UNCHANGED cache /\ reqs[r].at = "serve"
  BY UnderWay DEF Serve, At
<1>2. CASE reqs' = [reqs EXCEPT ![r] = Idle]
  <2>1. Idle.hit = None
    BY DEF Idle
  <2> QED
    BY <1>1, <1>2, <2>1, Types, UnderWay, OneRequest
<1>3. ASSUME NEW n \in 1..MaxTokens,
             reqs' = [reqs EXCEPT ![r].at = "charge", ![r].tokens = n]
      PROVE  IInv'
  <2> DEFINE q == [reqs[r] EXCEPT !.at = "charge", !.tokens = n]
  <2>1. /\ q \in Request /\ q.at = "charge" /\ q.est = reqs[r].est
        /\ q.checked = reqs[r].checked /\ q.quiet = reqs[r].quiet /\ q.hit = reqs[r].hit
    BY UnderWay DEF Request, Steps
  <2>2. reqs' = [reqs EXCEPT ![r] = q]
    BY <1>3
  <2>3. q.quiet => QuietOK(q)
    BY <1>1, <2>1, UnderWay DEF QuietOK
  <2> HIDE DEF q
  <2> QED
    BY <1>1, <2>1, <2>2, <2>3, UnderWay, OneRequest
<1> QED
  BY <1>2, <1>3 DEF Serve

\* What a request carries when it has been charged.
LEMMA PaidType ==
  ASSUME IInv, NEW r \in Requests, NEW c, c \div Unit \in Nat, NEW b \in {"pool", "row"}
  PROVE  /\ Paid(r, c, b) \in Request
         /\ Paid(r, c, b).at = "done" /\ Paid(r, c, b).by = b /\ Paid(r, c, b).paid = c \div Unit
         /\ Paid(r, c, b).est = reqs[r].est /\ Paid(r, c, b).quiet = reqs[r].quiet
         /\ Paid(r, c, b).hit = reqs[r].hit /\ Paid(r, c, b).checked = reqs[r].checked
         /\ Paid(r, c, b).kind = reqs[r].kind
<1>1. Idle.gate \in Gateways /\ 1 \in 1..MaxTokens
  BY Types, PricingAssumption DEF Request
<1>2. PICK g \in Gateways, x \in Nat : g = Idle.gate /\ x = c \div Unit
  BY <1>1
<1>3. PICK q \in Request : q = reqs[r]
  BY UnderWay
<1>4. Paid(r, c, b) = [q EXCEPT !.at = "done", !.paid = x, !.by = b, !.gate = g, !.again = FALSE, !.tokens = 1]
  BY <1>2, <1>3 DEF Paid
<1> DEFINE p == [q EXCEPT !.at = "done", !.paid = x, !.by = b, !.gate = g, !.again = FALSE, !.tokens = 1]
<1>5. p \in Request
  BY <1>1 DEF Request, Steps
<1>6. /\ p.at = "done" /\ p.by = b /\ p.paid = x /\ p.est = q.est /\ p.quiet = q.quiet
      /\ p.hit = q.hit /\ p.checked = q.checked /\ p.kind = q.kind
  BY DEF Request
<1> QED
  BY <1>2, <1>3, <1>4, <1>5, <1>6

\* The pool charges at least its own estimate; if it is free for a token, it is free.
LEMMA ChargeStep ==
  ASSUME IInv, NEW r \in Requests, Charge(r), UNCHANGED <<row, pool, redis, load, tab>>
  PROVE  IInv'
<1>1. left' \in Cap /\ UNCHANGED cache /\ reqs[r].at = "charge"
  BY UnderWay, FaultType DEF Charge, At
<1> DEFINE n == reqs[r].tokens
<1>2. n \in Nat \ {0} /\ reqs[r].est \in Nat
  BY PricingAssumption, UnderWay DEF Request
<1>3. CASE pool # None /\ reqs' = [reqs EXCEPT ![r] = Paid(r, PoolCost(n), "pool")]
  <2> DEFINE q == Paid(r, PoolCost(n), "pool")
  <2>1. /\ PoolCost(n) \in Nat /\ PoolCost(1) \in Nat /\ PoolCost(1) <= PoolCost(n)
        /\ PoolCost(1) = 0 => PoolCost(n) = 0
    BY <1>2, <1>3, PoolCostGrows DEF IInv, TypeOK
  <2>0. /\ PoolCost(n) \div Unit \in Nat /\ PoolCost(1) \div Unit <= PoolCost(n) \div Unit
        /\ PoolCost(1) = 0 => PoolCost(n) \div Unit = 0
    BY <2>1, CutGrows
  <2>2. /\ q \in Request /\ q.at = "done" /\ q.by = "pool" /\ q.paid = PoolCost(n) \div Unit
        /\ q.est = reqs[r].est /\ q.quiet = reqs[r].quiet /\ q.hit = reqs[r].hit
        /\ q.checked = reqs[r].checked
    BY <2>0, PaidType
  <2>3. q.quiet => QuietOK(q)
    <3>1. ASSUME q.quiet, q.checked PROVE q.est <= q.paid \/ q.est = 1 \/ q.paid = 0
      <4>1. \/ reqs[r].est = 1 \/ reqs[r].est = PoolCost(1) \div Unit \/ PoolIsFree
        BY <1>1, <2>2, <3>1, UnderWay DEF QuietOK
      <4> QED
        BY <1>3, <2>0, <2>2, <4>1 DEF PoolIsFree
    <3> QED
      BY <2>2, <3>1 DEF QuietOK
  <2> HIDE DEF q
  <2> QED
    BY <1>1, <1>3, <2>2, <2>3, UnderWay, OneRequest DEF q
<1>4. CASE pool = None /\ Goto(r, "fallback")
  <2> DEFINE q == [reqs[r] EXCEPT !.at = "fallback"]
  <2>1. /\ q \in Request /\ q.at = "fallback" /\ q.est = reqs[r].est /\ q.kind = reqs[r].kind
        /\ q.checked = reqs[r].checked /\ q.quiet = reqs[r].quiet /\ q.hit = reqs[r].hit
    BY UnderWay DEF Request, Steps
  <2>2. reqs' = [reqs EXCEPT ![r] = q]
    BY <1>4 DEF Goto
  <2>3. q.quiet => QuietOK(q)
    BY <1>1, <1>4, <2>1, UnderWay DEF QuietOK
  <2> HIDE DEF q
  <2> QED
    BY <1>1, <2>1, <2>2, <2>3, UnderWay, OneRequest
<1>5. CASE reqs' = [Disturbed(reqs) EXCEPT ![r].at = "fallback"]
  <2> DEFINE d == Disturbed(reqs)
  <2>1. /\ d \in [Requests -> Request]
        /\ \A o \in Requests : d[o].quiet => reqs[o].at = "done" /\ d[o] = reqs[o]
        /\ d[r].at = "charge"
    BY <1>1, UnderWay, DisturbedType DEF IInv, TypeOK, Disturbed, Request
  <2> HIDE DEF d
  <2> DEFINE q == [d[r] EXCEPT !.at = "fallback"]
  <2>2. q \in Request /\ q.quiet = d[r].quiet
    BY <2>1 DEF Request, Steps
  <2>3. reqs' = [d EXCEPT ![r] = q]
    BY <1>5, <2>1 DEF d
  <2> HIDE DEF q
  <2>4. reqs' \in [Requests -> Request]
    BY <2>1, <2>2, <2>3
  <2>5. TypeOK' /\ TabInv'
    BY <1>1, <2>4 DEF IInv, TypeOK, TabInv
  <2>6. \A o \in Requests : reqs'[o].quiet => reqs[o].at = "done" /\ reqs'[o] = reqs[o]
    BY <1>1, <2>1, <2>2, <2>3
  <2> QED
    BY <2>5, <2>6, NoneUnderWay
<1> QED
  BY <1>3, <1>4, <1>5 DEF Charge

\* Without a pool, the table charges what it estimated, times the tokens.
LEMMA FallbackStep ==
  ASSUME IInv, NEW r \in Requests, Fallback(r), UNCHANGED <<row, pool, redis, load, tab>>
  PROVE  IInv'
<1>1. left' \in Cap /\ UNCHANGED cache /\ reqs[r].at = "fallback"
  BY UnderWay, FaultType DEF Fallback, At
<1> DEFINE n == reqs[r].tokens
<1>2. n \in Nat \ {0} /\ reqs[r].est \in Nat
  BY PricingAssumption, UnderWay DEF Request
<1>3. CASE reqs' = [reqs EXCEPT ![r] = Paid(r, Cost(Priced, n), "row")]
  <2> DEFINE q == Paid(r, Cost(Priced, n), "row")
  <2>1. /\ Cost(Priced, n) \in Nat /\ Cost(Priced, 1) \in Nat /\ Cost(Priced, 1) <= Cost(Priced, n)
        /\ Priced = None => Cost(Priced, n) = 0
    BY <1>2, CostGrows, UnderWay
  <2>0. /\ Cost(Priced, n) \div Unit \in Nat /\ Cost(Priced, 1) \div Unit <= Cost(Priced, n) \div Unit
        /\ Priced = None => Cost(Priced, n) \div Unit = 0
    BY <2>1, CutGrows
  <2>2. /\ q \in Request /\ q.at = "done" /\ q.by = "row" /\ q.paid = Cost(Priced, n) \div Unit
        /\ q.est = reqs[r].est /\ q.quiet = reqs[r].quiet /\ q.hit = reqs[r].hit
        /\ q.checked = reqs[r].checked /\ q.kind = reqs[r].kind
    BY <2>0, PaidType
  <2>3. ASSUME q.quiet PROVE QuietOK(q)
    <3>1. /\ pool = None
          /\ reqs[r].kind = "free" => reqs[r].checked \/ Priced = None
          /\ reqs[r].checked => reqs[r].est = 1 \/ reqs[r].est = Cost(Priced, 1) \div Unit
      BY <1>1, <2>2, <2>3, UnderWay DEF QuietOK
    <3> QED
      BY <2>0, <2>2, <3>1 DEF QuietOK
  <2> HIDE DEF q
  <2> QED
    BY <1>1, <1>3, <2>2, <2>3, UnderWay, OneRequest DEF q
<1>4. CASE reqs' = [Disturbed(reqs) EXCEPT ![r] = [Paid(r, 0, "row") EXCEPT !.quiet = FALSE]]
  <2> DEFINE d == Disturbed(reqs)
  <2>1. /\ d \in [Requests -> Request]
        /\ \A o \in Requests : d[o].quiet => reqs[o].at = "done" /\ d[o] = reqs[o]
        /\ d[r].at = "fallback"
    BY <1>1, UnderWay, DisturbedType DEF IInv, TypeOK, Disturbed, Request
  <2> HIDE DEF d
  <2> DEFINE q == [Paid(r, 0, "row") EXCEPT !.quiet = FALSE]
  <2>2. q \in Request /\ ~q.quiet
    <3>1. 0 \div Unit \in Nat
      BY CutGrows
    <3>2. Paid(r, 0, "row") \in Request
      BY <3>1, PaidType
    <3> QED
      BY <3>2 DEF Request
  <2>3. reqs' = [d EXCEPT ![r] = q]
    BY <1>4, <2>1 DEF d
  <2> HIDE DEF q
  <2>4. reqs' \in [Requests -> Request]
    BY <2>1, <2>2, <2>3
  <2>5. TypeOK' /\ TabInv'
    BY <1>1, <2>4 DEF IInv, TypeOK, TabInv
  <2>6. \A o \in Requests : reqs'[o].quiet => reqs[o].at = "done" /\ reqs'[o] = reqs[o]
    BY <1>1, <2>1, <2>2, <2>3
  <2> QED
    BY <2>5, <2>6, NoneUnderWay
<1> QED
  BY <1>3, <1>4 DEF Fallback

LEMMA HandleStep ==
  ASSUME IInv, NEW r \in Requests, Handle(r)
  PROVE  IInv'
  BY MemoryStep, RedisStep, DatabaseStep, StoreStep, PoolStep, ServeStep, ChargeStep,
     FallbackStep DEF Handle

-----------------------------------------------------------------------------
(* The caches.                                                             *)

LEMMA QueryStep ==
  ASSUME IInv, NEW g \in Gateways, Query(g)
  PROVE  IInv'
<1>1. Priced \in Known /\ Priced' = Priced
  BY PricedType DEF IInv, TypeOK, Query, Priced
<1>2. TypeOK'
  BY <1>1 DEF IInv, TypeOK, Query
<1>3. Settled => Settled'
  BY <1>1 DEF IInv, TypeOK, Query, Settled
<1> QED
  BY <1>2, <1>3, CachesOnly DEF Query

LEMMA ReplaceStep ==
  ASSUME IInv, NEW g \in Gateways, Replace(g)
  PROVE  IInv'
<1>1. None \in Known /\ load[g].price \in Known /\ left' \in Cap
  BY FaultType DEF Known, IInv, TypeOK, Replace
<1>2. load' = [load EXCEPT ![g] = [at |-> "idle", price |-> None]] /\ UNCHANGED <<row, pool, tab>>
  BY DEF Replace
<1>3. CASE cache' = [cache EXCEPT ![g] = Loaded(g)] /\ redis' = cache'[g] /\ UNCHANGED <<left, reqs>>
  <2>1. TypeOK'
    BY <1>1, <1>2, <1>3 DEF IInv, TypeOK, Loaded
  <2>2. Priced' = Priced
    BY <1>2 DEF Priced
  <2>3. Settled => Settled'
    BY <1>1, <1>2, <1>3, <2>2 DEF IInv, TypeOK, Loaded, Settled
  <2> QED
    BY <1>2, <1>3, <2>1, <2>3, CachesOnly
<1>4. CASE /\ reqs' = Disturbed(reqs) /\ cache' \in [Gateways -> Known] /\ redis' \in Known
  <2>1. TypeOK' /\ TabInv'
    BY <1>1, <1>2, <1>4, DisturbedType DEF IInv, TypeOK, TabInv
  <2>2. \A r \in Requests : reqs'[r].quiet => reqs[r].at = "done" /\ reqs'[r] = reqs[r]
    BY <1>4, DisturbedType DEF IInv, TypeOK
  <2> QED
    BY <2>1, <2>2, NoneUnderWay
<1>5. ASSUME NEW p \in Known, cache' = [cache EXCEPT ![g] = p] PROVE cache' \in [Gateways -> Known]
  BY <1>5 DEF IInv, TypeOK
<1> QED
  BY <1>1, <1>3, <1>4, <1>5 DEF Replace, Loaded, IInv, TypeOK

LEMMA ExpireStep ==
  ASSUME IInv, RedisExpires
  PROVE  IInv'
<1>1. TypeOK'
  BY DEF IInv, TypeOK, RedisExpires, Known
<1>2. Settled => Settled'
  BY DEF RedisExpires, Settled, Priced
<1> QED
  BY <1>1, <1>2, CachesOnly DEF RedisExpires

\* The requests of the process end with it.
LEMMA RestartStep ==
  ASSUME IInv, NEW g \in Gateways, Restart(g)
  PROVE  IInv'
<1>1. None \in Known /\ left' \in Cap
  BY FaultType DEF Known, IInv, TypeOK, Restart
<1>2. TypeOK'
  BY <1>1, Types DEF IInv, TypeOK, Restart
<1>3. \A r \in Requests : reqs'[r] = Idle \/ reqs'[r] = reqs[r]
  BY DEF Restart
<1>4. Settled => Settled'
  <2>1. Idle.hit = None
    BY DEF Idle
  <2> QED
    BY <1>3, <2>1 DEF IInv, TypeOK, Restart, Settled, Priced
<1> QED
  BY <1>2, <1>3, <1>4, Types, CachesOnly DEF Restart

-----------------------------------------------------------------------------
(* Administration.                                                         *)

\* A write disturbs every request that is under way.
LEMMA WriteStep ==
  ASSUME IInv, Submit \/ ToggleActive \/ PoolChanges
  PROVE  IInv'
<1>1. left' \in Cap
  BY DEF IInv, TypeOK, Submit, ToggleActive, PoolChanges, Spend, Cap
<1>2. reqs' = Disturbed(reqs) /\ UNCHANGED <<cache, redis, load>>
  BY DEF Submit, ToggleActive, PoolChanges
<1>3. CASE Submit
  <2>1. row' \in Row
    BY <1>3 DEF IInv, TypeOK, Submit, Upserted, Row
  <2>2. tab' \in [row : Row \cup {None}, loading : BOOLEAN, asked : Nat] /\ row' # None
    BY <1>3, <2>1, PricingAssumption, AskedType DEF IInv, TypeOK, Submit
  <2> QED
    BY <1>1, <1>2, <1>3, <2>1, <2>2, DisturbedType, NoneUnderWay DEF IInv, TypeOK, TabInv, Submit
<1>4. CASE ToggleActive
  <2>1. row # None
    BY <1>4 DEF ToggleActive, Shown, IInv, TabInv
  <2>2. row' \in Row
    BY <1>4, <2>1 DEF IInv, TypeOK, ToggleActive, Switched, Row, Shown
  <2>3. tab' \in [row : Row \cup {None}, loading : BOOLEAN, asked : Nat] /\ row' # None
    BY <1>4, <2>2, PricingAssumption, AskedType DEF IInv, TypeOK, ToggleActive
  <2> QED
    BY <1>1, <1>2, <1>4, <2>2, <2>3, DisturbedType, NoneUnderWay
       DEF IInv, TypeOK, TabInv, ToggleActive
<1>5. CASE PoolChanges
  <2>1. pool' \in Pools \cup {None} /\ UNCHANGED <<row, tab>>
    BY <1>5 DEF PoolChanges
  <2> QED
    BY <1>1, <1>2, <2>1, DisturbedType, NoneUnderWay DEF IInv, TypeOK, TabInv
<1> QED
  BY <1>3, <1>4, <1>5

LEMMA ListStep ==
  ASSUME IInv, List \/ Listed
  PROVE  IInv'
<1>1. left' \in Cap
  BY FaultType DEF IInv, TypeOK, List, Listed, Spend, Cap
<1> DEFINE T == [row : Row \cup {None}, loading : BOOLEAN, asked : Nat]
<1>2. tab' \in T /\ tab'.row \in {tab.row, row}
  <2>1. tab \in T /\ row \in Row \cup {None}
    BY DEF IInv, TypeOK
  <2>2. CASE tab' = Asked
    BY <2>1, <2>2, AskedType
  <2>3. CASE tab' = [row |-> row, loading |-> FALSE, asked |-> tab.asked - 1] /\ tab.asked > 0
    BY <2>1, <2>3
  <2>4. CASE tab' = [tab EXCEPT !.loading = FALSE, !.asked = @ - 1] /\ tab.asked > 0
    <3>1. tab.row \in Row \cup {None} /\ tab.asked - 1 \in Nat
      BY <2>1, <2>4
    <3>2. tab' = [row |-> tab.row, loading |-> FALSE, asked |-> tab.asked - 1]
      BY <2>1, <2>4
    <3> QED
      BY <3>1, <3>2
  <2> QED
    BY <2>2, <2>3, <2>4 DEF List, Listed
<1>3. UNCHANGED <<row, pool, cache, redis, load, reqs>>
  BY DEF List, Listed
<1>4. TypeOK' /\ TabInv'
  BY <1>1, <1>2, <1>3 DEF IInv, TypeOK, TabInv
<1>5. Priced' = Priced /\ (Settled <=> Settled')
  BY <1>3 DEF Priced, Settled
<1>6. RequestsInv'
  BY <1>3, <1>5 DEF IInv, RequestsInv, QuietOK, PoolIsFree, PoolCost
<1>7. SettledInv'
  BY <1>3, <1>5 DEF IInv, SettledInv
<1> QED
  BY <1>4, <1>6, <1>7 DEF IInv

-----------------------------------------------------------------------------
(* The theorems.                                                           *)

LEMMA InitInv == Init => IInv
<1> SUFFICES ASSUME Init PROVE IInv
  OBVIOUS
<1>1. TypeOK
  BY PricingAssumption, Types DEF Init, TypeOK, Known
<1>2. TabInv /\ \A r \in Requests : ~reqs[r].quiet
  BY Types DEF Init, TabInv
<1> QED
  BY <1>1, <1>2 DEF IInv, RequestsInv, SettledInv

LEMMA NextInv == IInv /\ [Next]_vars => IInv'
<1>1. ASSUME IInv, Next PROVE IInv'
  BY <1>1, QueryStep, ReplaceStep, RestartStep, ExpireStep, StartStep, HandleStep, WriteStep,
     ListStep DEF Next, Refresh
<1>2. ASSUME IInv, UNCHANGED vars PROVE IInv'
  <2>1. UNCHANGED <<row, pool, cache, redis, load, reqs, tab, left>>
    BY <1>2 DEF vars
  <2>2. TypeOK' /\ TabInv'
    BY <1>2, <2>1 DEF IInv, TypeOK, TabInv
  <2>3. Priced' = Priced /\ (Settled <=> Settled')
    BY <2>1 DEF Priced, Settled
  <2>4. RequestsInv' /\ SettledInv'
    BY <1>2, <2>1, <2>3 DEF IInv, RequestsInv, SettledInv, QuietOK, PoolIsFree, PoolCost
  <2> QED
    BY <2>2, <2>4 DEF IInv
<1> QED
  BY <1>1, <1>2

LEMMA Invariance == Spec => []IInv
  BY InitInv, NextInv, PTL DEF Spec

\* The tables, the caches, the requests and the tab keep to their types (pricing.go,
\* api/admin/pricing).
THEOREM TypeCorrect == Spec => []TypeOK
<1>1. IInv => TypeOK
  BY DEF IInv
<1> QED
  BY <1>1, Invariance, PTL

\* A request that nothing disturbed and whose balance was looked at is not asked for more cents than
\* it is charged, but for the minimum of one and for pools without a price; and it was looked at if
\* it is a chat of the free tier that the table charges; with any number of gateways that fill each
\* other's caches (GetPrice, CalculateCost, proxy.go:99-114, RecordUsageWithShadow).
THEOREM EstimateIsBound == Spec => []EstimateHolds
<1>1. IInv => EstimateHolds
  BY DEF IInv, RequestsInv, QuietOK, EstimateHolds, At
<1> QED
  BY <1>1, Invariance, PTL
=============================================================================
