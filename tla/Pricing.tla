------------------------------- MODULE Pricing -------------------------------
(***************************************************************************)
(* What a model costs: the rows of model_pricing and model_pools, the      *)
(* tab of the console and the route that write the former, the caches of   *)
(* it in every gateway and in Redis (billing/pricing.go), the estimate     *)
(* that handler/proxy.go makes before a request, and the price that        *)
(* billing/record.go charges after it.                                     *)
(*                                                                         *)
(* Models share nothing, so there is one.  A price is what a token costs,  *)
(* in fractions of a cent (10^-8 yuan) and the same for question and       *)
(* answer; the prompt is one token, the answer may be more.  What is asked *)
(* of a balance and what is charged are whole cents.                       *)
(***************************************************************************)
EXTENDS Integers, FiniteSets

CONSTANTS
  Gateways,       \* processes with a cache of their own
  Requests,       \* slots for requests
  None,           \* no value
  Prices,         \* what a token may cost by the row of model_pricing
  Pools,          \* what the model's active row of model_pools may say
  Unit,           \* fractions to a cent
  MaxTokens,      \* of a request
  Caps            \* bounds: how often each kind of event happens

Row == [price : Prices, active : BOOLEAN]
\* A call is priced in cents, a token in fractions.
PoolRow == [mode : {"per_token", "per_call"}, token : Nat, call : Nat]
Cap == [posts : Nat, edits : Nat, pools : Nat, lists : Nat, faults : Nat]

ASSUME PricingAssumption ==
  /\ Gateways # {} /\ None \notin Nat \cup Gateways \cup Row
  /\ Prices \subseteq Nat /\ Unit \in Nat \ {0} /\ MaxTokens \in Nat \ {0} /\ Pools \subseteq PoolRow /\ None \notin Pools
  /\ Caps \subseteq Cap

VARIABLES
  row,       \* the model's row of model_pricing, or None
  pool,      \* its row of model_pools if that is active, or None
  cache,     \* cache[g]: the price that gateway g remembers, or None
  redis,     \* the price under pricing:models, or None
  load,      \* load[g]: the refresh of g's cache: [at, price]
  reqs,      \* reqs[r]: the request in slot r
  tab,       \* the tab of prices: [row, loading, asked], what is shown and questions under way
  left       \* what is left of the bounds

vars == <<row, pool, cache, redis, load, reqs, tab, left>>

Known == Prices \cup {None}
Steps == {"idle", "memory", "redis", "db", "store", "pool", "serve", "charge", "fallback", "done"}
\* A chat of a user of the free tier or of another one, or a request for embeddings.
Kinds == {"free", "other", "embeddings"}
Idle == [at |-> "idle", kind |-> "free", gate |-> CHOOSE g \in Gateways : TRUE, again |-> FALSE, hit |-> None,
         checked |-> FALSE, est |-> 0, tokens |-> 1, paid |-> 0, by |-> None, quiet |-> FALSE]
Request == [at : Steps, kind : Kinds, gate : Gateways, again : BOOLEAN, hit : Known, checked : BOOLEAN, est : Nat,
            tokens : 1..MaxTokens, paid : Nat, by : {"pool", "row", None}, quiet : BOOLEAN]

At(r, step) == reqs[r].at = step
Goto(r, step) == reqs' = [reqs EXCEPT ![r].at = step]
Spend(what) == left[what] > 0 /\ left' = [left EXCEPT ![what] = @ - 1]
\* History: what happens now may come between the estimate and the charge of a request.
Disturbed(rs) == [r \in Requests |-> IF rs[r].at = "done" THEN rs[r] ELSE [rs[r] EXCEPT !.quiet = FALSE]]
Fault == Spend("faults")

\* Only an active row has a price.
Priced == IF row = None THEN None ELSE IF row.active THEN row.price ELSE None

\* History: nothing that is remembered or on its way differs from the tables.
Settled ==
  /\ redis \in {None, Priced}
  /\ \A g \in Gateways : cache[g] \in {None, Priced} /\ load[g].price \in {None, Priced}
  /\ \A r \in Requests : reqs[r].hit \in {None, Priced}

-----------------------------------------------------------------------------
Init ==
  /\ row \in {None} \cup Row /\ pool \in {None} \cup Pools
  /\ cache = [g \in Gateways |-> None] /\ redis = None
  /\ load = [g \in Gateways |-> [at |-> "idle", price |-> None]]
  /\ reqs = [r \in Requests |-> Idle]
  /\ tab = [row |-> None, loading |-> TRUE, asked |-> 1]
  /\ left \in Caps

-----------------------------------------------------------------------------
(***************************************************************************)
(* The caches.  Load asks, then replaces the map under the lock and hands  *)
(* it to Redis; an answer that breaks off half-way counts like a whole     *)
(* one.  A gateway that starts has an empty map.                           *)
(***************************************************************************)
Query(g) ==
  /\ load[g].at = "idle"
  /\ load' = [load EXCEPT ![g] = [at |-> "store", price |-> Priced]]
  /\ UNCHANGED <<row, pool, cache, redis, reqs, tab, left>>

\* Mutant: what the answer does not name is kept.
Merged(g) == IF load[g].price = None THEN cache[g] ELSE load[g].price
Loaded(g) == load[g].price

Replace(g) ==
  /\ load[g].at = "store"
  /\ \/ /\ cache' = [cache EXCEPT ![g] = Loaded(g)]
        /\ redis' = cache'[g] /\ UNCHANGED <<left, reqs>>
     \/ /\ Fault /\ reqs' = Disturbed(reqs)
        /\ cache' = [cache EXCEPT ![g] = None] /\ redis' = None
     \/ /\ Fault /\ reqs' = Disturbed(reqs)
        /\ cache' = [cache EXCEPT ![g] = Loaded(g)] /\ UNCHANGED redis
  /\ load' = [load EXCEPT ![g] = [at |-> "idle", price |-> None]]
  /\ UNCHANGED <<row, pool, tab>>

Refresh(g) == Query(g) \/ Replace(g)

RedisExpires ==
  /\ redis # None /\ redis' = None
  /\ UNCHANGED <<row, pool, cache, load, reqs, tab, left>>

Restart(g) ==
  /\ Fault
  /\ cache' = [cache EXCEPT ![g] = None]
  /\ load' = [load EXCEPT ![g] = [at |-> "idle", price |-> None]]
  /\ reqs' = [r \in Requests |-> IF reqs[r].gate = g THEN Idle ELSE reqs[r]]
  /\ UNCHANGED <<row, pool, redis, tab>>

-----------------------------------------------------------------------------
(***************************************************************************)
(* Before a request: GetPrice looks into the map, into Redis and into the  *)
(* table, and remembers what the latter two say; without a price nothing   *)
(* is checked.  Then CalculateCost prefers the pool, and asks GetPrice     *)
(* again where the pool costs nothing.  The balance is asked for what that *)
(* comes to in cents, one at least, and in the free tier only.  Requests   *)
(* for embeddings do none of it.                                           *)
(***************************************************************************)
Free == {r \in Requests : At(r, "idle") \/ At(r, "done")}
Start(r) ==
  /\ r \in Free /\ r = CHOOSE q \in Free : TRUE   \* which slot makes no difference
  /\ Spend("posts")
  /\ \E g \in Gateways, k \in Kinds :
       reqs' = [reqs EXCEPT ![r] = [Idle EXCEPT !.at = IF k = "embeddings" THEN "serve" ELSE "memory",
                                                !.kind = k, !.gate = g, !.quiet = Settled]]
  /\ UNCHANGED <<row, pool, cache, redis, load, tab>>

Cost(p, n) == IF p = None THEN 0 ELSE n * p

\* What CheckBalance asks for, in cents.
AtLeastOne(cents) == IF cents < 1 THEN 1 ELSE cents
Estimated(req, cost) ==
  IF req.kind = "free"
  THEN [req EXCEPT !.at = "serve", !.checked = TRUE, !.est = AtLeastOne(cost \div Unit), !.hit = None]
  ELSE [req EXCEPT !.at = "serve", !.hit = None]

\* What GetPrice returns, to CalculateCost or to the handler.
Returned(req, p) ==
  IF req.again THEN Estimated(req, Cost(p, 1))
  ELSE [req EXCEPT !.at = IF p = None THEN "serve" ELSE "pool", !.hit = None]
Return(r, p) == reqs' = [reqs EXCEPT ![r] = Returned(@, p)]

Memory(r) ==
  /\ At(r, "memory")
  /\ IF cache[reqs[r].gate] # None THEN Return(r, cache[reqs[r].gate]) ELSE Goto(r, "redis")
  /\ UNCHANGED <<cache, left>>

Found(r, p) == reqs' = [reqs EXCEPT ![r].at = "store", ![r].hit = p]
Redis(r) ==
  /\ At(r, "redis")
  /\ \/ redis # None /\ Found(r, redis) /\ UNCHANGED left
     \/ redis = None /\ Goto(r, "db") /\ UNCHANGED left
     \/ redis # None /\ Fault /\ Goto(r, "db")
  /\ UNCHANGED cache

Database(r) ==
  /\ At(r, "db")
  /\ \/ Priced # None /\ Found(r, Priced) /\ UNCHANGED left
     \/ Priced = None /\ Return(r, None) /\ UNCHANGED left
     \/ Priced # None /\ Fault /\ reqs' = [Disturbed(reqs) EXCEPT ![r] = Returned(@, None)]
  /\ UNCHANGED cache

Store(r) ==
  /\ At(r, "store")
  /\ cache' = [cache EXCEPT ![reqs[r].gate] = reqs[r].hit]
  /\ Return(r, reqs[r].hit)
  /\ UNCHANGED left

\* The price of a pool for n tokens; nothing where it names no price.
PoolCost(n) == IF pool.mode = "per_call" /\ pool.call > 0 THEN pool.call * Unit ELSE n * pool.token

\* Mutant: by tokens in either mode.
TokensOnly(n) == n * pool.token
PoolEstimate(n) == PoolCost(n)

Pool(r) ==
  /\ At(r, "pool")
  /\ \/ /\ pool # None /\ PoolEstimate(1) > 0 /\ UNCHANGED left
        /\ reqs' = [reqs EXCEPT ![r] = Estimated(@, PoolEstimate(1))]
     \/ /\ IF pool = None THEN TRUE ELSE PoolEstimate(1) = 0
        /\ reqs' = [reqs EXCEPT ![r].at = "memory", ![r].again = TRUE] /\ UNCHANGED left
     \/ /\ pool # None /\ Fault
        /\ reqs' = [Disturbed(reqs) EXCEPT ![r].at = "memory", ![r].again = TRUE]
  /\ UNCHANGED cache

\* Refused, not answered, or answered.
Serve(r) ==
  /\ At(r, "serve")
  /\ \/ reqs' = [reqs EXCEPT ![r] = Idle]
     \/ \E n \in 1..MaxTokens : reqs' = [reqs EXCEPT ![r].at = "charge", ![r].tokens = n]
  /\ UNCHANGED <<cache, left>>

-----------------------------------------------------------------------------
(***************************************************************************)
(* After it: recordBilling charges what the pool says, be it nothing, and  *)
(* only where there is none what the table says, both as they are now; in  *)
(* whole cents, whoever asked for whatever.                                *)
(***************************************************************************)
Paid(r, cost, by) ==
  [reqs[r] EXCEPT !.at = "done", !.paid = cost \div Unit, !.by = by,
                  !.gate = Idle.gate, !.again = FALSE, !.tokens = 1]   \* of no interest any more

Charge(r) ==
  /\ At(r, "charge")
  /\ \/ /\ pool # None /\ UNCHANGED left
        /\ reqs' = [reqs EXCEPT ![r] = Paid(r, PoolCost(reqs[r].tokens), "pool")]
     \/ pool = None /\ Goto(r, "fallback") /\ UNCHANGED left
     \/ pool # None /\ Fault /\ reqs' = [Disturbed(reqs) EXCEPT ![r].at = "fallback"]
  /\ UNCHANGED cache

Fallback(r) ==
  /\ At(r, "fallback")
  /\ \/ /\ UNCHANGED left
        /\ reqs' = [reqs EXCEPT ![r] = Paid(r, Cost(Priced, reqs[r].tokens), "row")]
     \/ /\ Fault
        /\ reqs' = [Disturbed(reqs) EXCEPT ![r] = [Paid(r, 0, "row") EXCEPT !.quiet = FALSE]]
  /\ UNCHANGED cache

Handle(r) ==
  /\ \/ Memory(r) \/ Redis(r) \/ Database(r) \/ Store(r) \/ Pool(r) \/ Serve(r) \/ Charge(r)
     \/ Fallback(r)
  /\ UNCHANGED <<row, pool, redis, load, tab>>

-----------------------------------------------------------------------------
(***************************************************************************)
(* Administration.  The form creates or overwrites the row of its model;   *)
(* the button of a row writes the opposite of what the row shows.  Either  *)
(* is followed by a question for the list, during which no row is shown.   *)
(***************************************************************************)
Asked == [tab EXCEPT !.loading = TRUE, !.asked = @ + 1]

Upserted(p) == IF row = None THEN [price |-> p, active |-> TRUE] ELSE [row EXCEPT !.price = p]

Submit ==
  /\ Spend("edits")
  /\ \E p \in Prices : row' = Upserted(p)
  /\ tab' = Asked /\ reqs' = Disturbed(reqs)
  /\ UNCHANGED <<pool, cache, redis, load>>

Shown == IF tab.loading THEN None ELSE tab.row
\* PATCH of the route: whatever the row says by now.
Switched(on) == [row EXCEPT !.active = on]

ToggleActive ==
  /\ Shown # None /\ Spend("edits")
  /\ row' = Switched(~Shown.active)
  /\ tab' = Asked /\ reqs' = Disturbed(reqs)
  /\ UNCHANGED <<pool, cache, redis, load>>

List ==
  /\ ~tab.loading /\ Spend("lists") /\ tab' = Asked
  /\ UNCHANGED <<row, pool, cache, redis, load, reqs>>

Listed ==
  /\ tab.asked > 0
  /\ \/ tab' = [row |-> row, loading |-> FALSE, asked |-> tab.asked - 1] /\ UNCHANGED left
     \/ Fault /\ tab' = [tab EXCEPT !.loading = FALSE, !.asked = @ - 1]
  /\ UNCHANGED <<row, pool, cache, redis, load, reqs>>

\* The routes of model_pools: the row comes, changes, goes, or is switched off or on.
PoolChanges ==
  /\ Spend("pools")
  /\ \E p \in {None} \cup Pools : p # pool /\ pool' = p
  /\ reqs' = Disturbed(reqs)
  /\ UNCHANGED <<row, cache, redis, load, tab>>

Next ==
  \/ \E g \in Gateways : Refresh(g) \/ Restart(g)
  \/ RedisExpires
  \/ \E r \in Requests : Start(r) \/ Handle(r)
  \/ Submit \/ ToggleActive \/ List \/ Listed \/ PoolChanges

Fairness == \A g \in Gateways : WF_vars(Refresh(g))
Spec == Init /\ [][Next]_vars /\ Fairness

-----------------------------------------------------------------------------
TypeOK ==
  /\ row \in Row \cup {None} /\ pool \in Pools \cup {None}
  /\ cache \in [Gateways -> Known] /\ redis \in Known
  /\ load \in [Gateways -> [at : {"idle", "store"}, price : Known]]
  /\ reqs \in [Requests -> Request]
  /\ tab \in [row : Row \cup {None}, loading : BOOLEAN, asked : Nat]
  /\ left \in Cap

\* A request during which no price changed and no statement failed, and which began when no
\* cache was behind: if its balance was looked at, it was not asked for more than was charged
\* afterwards, but for the one cent that is asked for at least, and where a pool without a price
\* makes free what the table names a price for (CalculateCost, RecordUsageWithShadow: two readings
\* of the same two tables).  A chat of the free tier that the table charges was looked at; one of
\* another tier and embeddings never are (proxy.go:99-114, 388).
EstimateHolds ==
  \A r \in Requests : At(r, "done") /\ reqs[r].quiet =>
    /\ reqs[r].checked =>
         reqs[r].est <= reqs[r].paid \/ reqs[r].est = 1 \/ (reqs[r].by = "pool" /\ reqs[r].paid = 0)
    /\ reqs[r].kind = "free" /\ reqs[r].by = "row" /\ reqs[r].paid > 0 => reqs[r].checked

\* When prices are not changed any more, in the end every gateway remembers the one that counts
\* or none, whatever late answers, other gateways and Redis put back (Load, GetPrice).
CachesCatchUp == <>[](\A g \in Gateways : cache[g] \in {None, Priced})
=============================================================================
