------------------------------ MODULE LedgerProofs ------------------------------
(***************************************************************************)
(* The user's debt is bounded by the requests in flight and by what was    *)
(* charged without a look at the balance; requests are charged a whole     *)
(* number of cents below their worth and never above; a screen settles on  *)
(* its last question; the balance is explained by the records; a counter   *)
(* that was loaded undisturbed knows what was used: for any number of      *)
(* requests and keys, any prices and any number of payments, edits and     *)
(* faults.                                                                 *)
(*                                                                         *)
(* There are two inductive invariants: IInv, of the debt and the screens,  *)
(* and on top of it MInv, of the sums of records and charges.              *)
(***************************************************************************)
EXTENDS Ledger, FiniteSetTheorems, TLAPS

\* The types on which the arguments rest; sums over records are left out.
Types ==
  /\ user \in Row
  /\ auth \in [Keys -> Tiers \cup {None}] /\ count \in Nat \cup {None}
  /\ limitOf \in [0..LastDay -> Nat \cup {None}] /\ day \in Nat
  /\ reqs \in [Requests -> Request]
  /\ console \in [row : Row \cup {None}, loading : BOOLEAN]
  /\ \A q \in lists : q.n \in Nat /\ q.row \in Row
  /\ page = [period |-> page.period, data |-> page.data, totals |-> page.totals,
             models |-> page.models, loading |-> page.loading]
  /\ loads \subseteq [n : Nat, period : Periods, stage : {"days", "models"}]
  /\ ghost \in Ghost

\* A tier that anything remembers is one that the user has had.
TiersInv ==
  /\ user.tier \in ghost.tiers
  /\ \A k \in Keys : auth[k] # None => auth[k] \in ghost.tiers
  /\ \A r \in Requests : reqs[r].at # "idle" => reqs[r].tier \in ghost.tiers

\* Requests whose balance was looked at and that were not charged yet.
Over == {"record", "publish"}
Aloft(q) == q.checked /\ q.at \notin Over
Flying == {r \in Requests : Aloft(reqs[r])}
Landed == Cardinality(Requests) - Cardinality(Flying)

(***************************************************************************)
(* A request that takes off has seen a positive balance, one that lands    *)
(* takes at most MaxCents: debt comes only from requests that have landed, *)
(* and from those that nobody looked at, whose cents are counted.          *)
(***************************************************************************)
DebtInv ==
  /\ ghost.plain => user.balance + ghost.unchecked > -(Landed * MaxCents)
  /\ \A r \in Requests : reqs[r].at = "charge" => reqs[r].size \in Sizes

(***************************************************************************)
(* Questions are numbered; as long as answers come in order and none is    *)
(* lost, the row that a save left is either shown or still on its way, and *)
(* whatever is on its way behind it is the same.                           *)
(***************************************************************************)
OnItsWay == \E q \in lists : q.row = user /\ \A o \in lists : o.n > q.n => o.row = user
OnScreen == console.row = user /\ \A o \in lists : o.n > ghost.newest.row => o.row = user

TableInv ==
  /\ \A q \in lists : q.n <= ghost.asked /\ q.n # ghost.newest.row
  /\ \A q, o \in lists : q.n = o.n => q = o
  /\ ghost.newest.row <= ghost.asked
  /\ ~ghost.overtaken /\ ~ghost.failed /\ ghost.settled => OnItsWay \/ OnScreen

\* The same for the period: what was chosen last is on its way or shown.
Days == {q \in loads : q.stage = "days"}
Coming == \E q \in Days : q.period = page.period /\ \A o \in Days : o.n <= q.n
Arrived == page.data = page.period /\ \A o \in Days : o.n < ghost.newest.load

ChartInv ==
  /\ \A q \in loads : q.n <= ghost.asked
  /\ \A q, o \in loads : q.n = o.n => q = o
  /\ ~ghost.overtaken /\ ~ghost.failed => Coming \/ Arrived \/ (loads = {} /\ page.data = None)

IInv == Types /\ TiersInv /\ DebtInv /\ Undercharged /\ TableInv /\ ChartInv

-----------------------------------------------------------------------------
(* Arithmetic.                                                             *)

\* What is cut off is less than a cent.
LEMMA Cut ==
  ASSUME NEW n \in Nat
  PROVE  /\ Cents(n) \in Nat /\ n * Price \in Nat
         /\ Cents(n) * Unit <= n * Price
         /\ n * Price <= Cents(n) * Unit + (Unit - 1)
<1>1. n * Price \in Nat /\ Unit \in Nat \ {0}
  BY LedgerAssumption
<1>2. \A a \in Nat : /\ a \div Unit \in Nat
                     /\ (a \div Unit) * Unit <= a
                     /\ a <= (a \div Unit) * Unit + (Unit - 1)
  BY <1>1
<1> QED
  BY <1>1, <1>2 DEF Cents

LEMMA OneMore ==
  ASSUME NEW k \in Nat, NEW m \in Nat
  PROVE  k * m \in Nat /\ (k + 1) * m = k * m + m /\ k * m <= (k + 1) * m
  OBVIOUS

\* The number of requests that are not in flight.
LEMMA LandedType ==
  /\ Landed \in Nat /\ IsFiniteSet(Flying)
  /\ MaxCents \in Nat
<1>1. IsFiniteSet(Requests) /\ Flying \subseteq Requests
  BY LedgerAssumption DEF Flying
<1>2. IsFiniteSet(Flying) /\ Cardinality(Flying) <= Cardinality(Requests)
  BY <1>1, FS_Subset
<1>3. Cardinality(Flying) \in Nat /\ Cardinality(Requests) \in Nat
  BY <1>1, <1>2, FS_CardinalityType
<1> QED
  BY <1>2, <1>3, LedgerAssumption DEF Landed

\* A request that lands, one that takes off, and one that does neither.
LEMMA Lands ==
  ASSUME NEW r \in Flying, Flying' = Flying \ {r}
  PROVE  Landed' = Landed + 1
<1>1. IsFiniteSet(Flying) /\ IsFiniteSet(Requests)
  BY LandedType, LedgerAssumption
<1>2. Cardinality(Flying \ {r}) = Cardinality(Flying) - 1
  BY <1>1, FS_RemoveElement
<1>3. Cardinality(Flying) \in Nat /\ Cardinality(Requests) \in Nat
  BY <1>1, FS_CardinalityType
<1> QED
  BY <1>2, <1>3 DEF Landed

LEMMA TakesOff ==
  ASSUME NEW r \in Requests \ Flying, Flying' = Flying \cup {r}
  PROVE  Landed' \in Nat /\ Landed = Landed' + 1
<1>1. IsFiniteSet(Flying) /\ IsFiniteSet(Requests)
  BY LandedType, LedgerAssumption
<1>2. Cardinality(Flying \cup {r}) = Cardinality(Flying) + 1
  BY <1>1, FS_AddElement
<1>3. Cardinality(Flying) \in Nat /\ Cardinality(Requests) \in Nat
  BY <1>1, FS_CardinalityType
<1>4. Flying \cup {r} \subseteq Requests
  BY DEF Flying
<1>5. Cardinality(Flying \cup {r}) <= Cardinality(Requests)
  BY <1>1, <1>4, FS_Subset
<1> QED
  BY <1>2, <1>3, <1>5 DEF Landed

-----------------------------------------------------------------------------
(* What a step must do to keep each part.                                  *)

\* The history that no step of a request touches but its charge.
Same(g) ==
  /\ g \in Ghost
  /\ g.exact = ghost.exact /\ g.cents = ghost.cents /\ g.n = ghost.n /\ g.tiers = ghost.tiers
  /\ g.asked = ghost.asked /\ g.newest = ghost.newest /\ g.overtaken = ghost.overtaken
  /\ g.failed = ghost.failed /\ g.settled = ghost.settled /\ g.plain = ghost.plain
  /\ g.waived = ghost.waived /\ g.unchecked = ghost.unchecked

Keeps == Same(ghost')

LEMMA ScreensKept ==
  ASSUME TableInv, ChartInv, UNCHANGED <<user, consoleVars, pageVars>>,
         UNCHANGED <<ghost.asked, ghost.newest, ghost.overtaken, ghost.failed, ghost.settled>>
  PROVE  TableInv' /\ ChartInv'
<1> USE DEF consoleVars, pageVars
<1>1. TableInv'
  BY DEF TableInv, OnItsWay, OnScreen
<1>2. ChartInv'
  BY DEF ChartInv, Coming, Arrived, Days
<1> QED
  BY <1>1, <1>2

\* A step of one request that moves no money.
LEMMA RequestStep ==
  ASSUME IInv, NEW r \in Requests, NEW q \in Request, reqs' = [reqs EXCEPT ![r] = q],
         UNCHANGED <<user, day, consoleVars, pageVars>>, Keeps,
         auth' \in [Keys -> Tiers \cup {None}], count' \in Nat \cup {None},
         limitOf' \in [0..LastDay -> Nat \cup {None}],
         \A k \in Keys : auth'[k] # None => auth'[k] \in ghost.tiers,
         q.at # "idle" => q.tier \in ghost.tiers,
         q.at = "charge" => q.size \in Sizes,
         Aloft(q) /\ ~Aloft(reqs[r]) => user.balance >= 1
  PROVE  IInv'
<1>1. Types'
  BY DEF IInv, Types, Keeps, Same, consoleVars, pageVars
<1>2. TiersInv'
  BY DEF IInv, Types, TiersInv, Keeps, Same
<1>3. Undercharged' /\ TableInv' /\ ChartInv'
  BY ScreensKept DEF IInv, Undercharged, Keeps, Same
<1>4. DebtInv'
  <2>1. \A o \in Requests : reqs'[o].at = "charge" => reqs'[o].size \in Sizes
    BY DEF IInv, Types, DebtInv
  <2> SUFFICES ASSUME ghost.plain PROVE user.balance + ghost.unchecked > -(Landed' * MaxCents)
    BY <2>1 DEF DebtInv, Keeps, Same
  <2>2. /\ user.balance + ghost.unchecked > -(Landed * MaxCents)
        /\ user.balance \in Int /\ ghost.unchecked \in Nat
    BY DEF IInv, DebtInv, Types, Row, Ghost
  <2>3. Landed \in Nat /\ MaxCents \in Nat
    BY LandedType
  <2>4. reqs \in [Requests -> Request] /\ reqs'[r] = q
    BY DEF IInv, Types
  <2>5. CASE Aloft(q) <=> Aloft(reqs[r])
    <3>1. Flying' = Flying
      BY <2>4, <2>5 DEF Flying
    <3> QED
      BY <2>2, <3>1 DEF Landed
  <2>6. CASE Aloft(q) /\ ~Aloft(reqs[r])
    <3>1. Flying' = Flying \cup {r} /\ r \notin Flying
      BY <2>4, <2>6 DEF Flying
    <3>2. Landed' \in Nat
      BY <3>1, TakesOff
    <3>3. Landed' * MaxCents \in Nat
      BY <3>2, <2>3, OneMore
    <3> QED
      BY <2>2, <2>6, <3>3
  <2>7. CASE ~Aloft(q) /\ Aloft(reqs[r])
    <3>1. Flying' = Flying \ {r} /\ r \in Flying
      BY <2>4, <2>7 DEF Flying
    <3>2. Landed' = Landed + 1
      BY <3>1, Lands
    <3>3. Landed * MaxCents \in Nat /\ Landed * MaxCents <= Landed' * MaxCents /\ Landed' * MaxCents \in Nat
      BY <3>2, <2>3, OneMore
    <3> QED
      BY <2>2, <3>3
  <2> QED
    BY <2>5, <2>6, <2>7
<1> QED
  BY <1>1, <1>2, <1>3, <1>4 DEF IInv

\* What the steps of a request write into the history.
LEMMA SameKept ==
  ASSUME NEW g, Same(g)
  PROVE  /\ \A b \in BOOLEAN : Same([g EXCEPT !.refused = b]) /\ Same([g EXCEPT !.crossed = b])
         /\ Same([g EXCEPT !.faulty = TRUE])
         /\ \A n, m \in Nat : Same([g EXCEPT !.goneTokens = n, !.goneCents = m])
<1>1. g \in Ghost
  BY DEF Same
<1>2. ASSUME NEW b \in BOOLEAN PROVE Same([g EXCEPT !.refused = b]) /\ Same([g EXCEPT !.crossed = b])
  BY <1>1 DEF Same, Ghost
<1>3. Same([g EXCEPT !.faulty = TRUE])
  BY <1>1 DEF Same, Ghost
<1>5. ASSUME NEW n \in Nat, NEW m \in Nat PROVE Same([g EXCEPT !.goneTokens = n, !.goneCents = m])
  BY <1>1 DEF Same, Ghost
<1> QED
  BY <1>2, <1>3, <1>5

LEMMA SameNow == Types => Same(ghost)
  BY DEF Types, Same

LEMMA FaultSame ==
  ASSUME Types, Fault
  PROVE  Keeps
  BY SameNow, SameKept DEF Fault, Keeps

LEMMA JudgedSame ==
  ASSUME Types, NEW r \in Requests, NEW limit, NEW remaining
  PROVE  Same(Judged(r, limit, remaining))
<1> DEFINE x == reqs[r].day = day /\ remaining <= 0 /\ limit > 0 /\ ghost.spent = 0
<1>1. (ghost.refused \/ x) \in BOOLEAN
  OBVIOUS
<1>2. Judged(r, limit, remaining) = [ghost EXCEPT !.refused = ghost.refused \/ x]
  BY DEF Judged
<1> HIDE DEF x
<1> QED
  BY <1>1, <1>2, SameNow, SameKept

LEMMA OmittedSame ==
  ASSUME Types, NEW r \in Requests
  PROVE  Same(Omitted(r)) /\ Same([Omitted(r) EXCEPT !.faulty = TRUE])
<1>1. reqs[r].size \in Nat /\ reqs[r].cents \in Nat /\ ghost.goneTokens \in Nat /\ ghost.goneCents \in Nat
  BY DEF Types, Request, Ghost
<1> DEFINE n == ghost.goneTokens + reqs[r].size
           m == IF reqs[r].n > ghost.past THEN ghost.goneCents + reqs[r].cents ELSE ghost.goneCents
<1>2. n \in Nat /\ m \in Nat
  BY <1>1
<1>3. Omitted(r) = [ghost EXCEPT !.goneTokens = n, !.goneCents = m]
  BY DEF Omitted, Types, Ghost
<1> HIDE DEF n, m
<1>4. Same([ghost EXCEPT !.goneTokens = n, !.goneCents = m])
  BY <1>2, SameNow, SameKept
<1>5. Same(Omitted(r))
  BY <1>3, <1>4
<1> QED
  BY <1>5, SameKept

-----------------------------------------------------------------------------
(* The steps of a request.                                                 *)

LEMMA Has ==
  ASSUME IInv, NEW r \in Requests
  PROVE  /\ Types
         /\ reqs[r] \in Request /\ auth \in [Keys -> Tiers \cup {None}] /\ count \in Nat \cup {None}
         /\ limitOf \in [0..LastDay -> Nat \cup {None}] /\ user \in Row /\ day \in Nat
         /\ \A k \in Keys : auth[k] # None => auth[k] \in ghost.tiers
         /\ reqs[r].at # "idle" => reqs[r].tier \in ghost.tiers
         /\ ghost.tiers \subseteq Tiers /\ user.tier \in ghost.tiers
         /\ reqs[r].at = "charge" => reqs[r].size \in Sizes
         /\ Idle \in Request /\ Idle.at = "idle" /\ Idle.checked = FALSE
         /\ UNCHANGED ghost => Keeps
<1>1. UNCHANGED ghost => Keeps
  BY SameNow DEF IInv, Keeps
<1>2. Idle \in Request /\ Idle.at = "idle" /\ Idle.checked = FALSE
  BY DEF Idle, Request, Steps
<1>3. ghost.tiers \subseteq Tiers
  BY DEF IInv, Types, Ghost
<1> QED
  BY <1>1, <1>2, <1>3 DEF IInv, Types, TiersInv, DebtInv

LEMMA AuthStep ==
  ASSUME IInv, NEW r \in Requests, Auth(r), UNCHANGED <<day, consoleVars, pageVars>>
  PROVE  IInv'
<1>1. UNCHANGED <<user, redisVars, ghost>>
  BY DEF Auth
<1>2. ASSUME NEW k \in Keys, auth[k] # None,
             reqs' = [reqs EXCEPT ![r] = [Idle EXCEPT !.at = "balance", !.key = k, !.tier = auth[k]]]
      PROVE  IInv'
  <2> DEFINE q == [Idle EXCEPT !.at = "balance", !.key = k, !.tier = auth[k]]
  <2>1. auth[k] \in Tiers /\ auth[k] \in ghost.tiers
    BY <1>2, Has
  <2>2. q \in Request /\ q.at = "balance" /\ q.tier = auth[k] /\ q.checked = FALSE
    BY <2>1, Has DEF Request, Steps
  <2> HIDE DEF q
  <2> QED
    BY <1>1, <1>2, <2>1, <2>2, Has, RequestStep DEF redisVars, Aloft, q
<1>3. ASSUME NEW k \in Keys,
             reqs' = [reqs EXCEPT ![r] = [Idle EXCEPT !.at = "fill", !.key = k, !.tier = user.tier]]
      PROVE  IInv'
  <2> DEFINE q == [Idle EXCEPT !.at = "fill", !.key = k, !.tier = user.tier]
  <2>1. user.tier \in Tiers /\ user.tier \in ghost.tiers
    BY Has
  <2>2. q \in Request /\ q.at = "fill" /\ q.tier = user.tier /\ q.checked = FALSE
    BY <2>1, Has DEF Request, Steps
  <2> HIDE DEF q
  <2> QED
    BY <1>1, <1>3, <2>1, <2>2, Has, RequestStep DEF redisVars, Aloft, q
<1> QED
  BY <1>2, <1>3 DEF Auth

LEMMA FillStep ==
  ASSUME IInv, NEW r \in Requests, Fill(r), UNCHANGED <<day, consoleVars, pageVars>>
  PROVE  IInv'
<1> DEFINE q == [reqs[r] EXCEPT !.at = "balance"]
<1>1. reqs[r].at = "fill" /\ reqs' = [reqs EXCEPT ![r] = q]
  BY DEF Fill, At, Goto
<1>2. reqs[r].tier \in ghost.tiers /\ reqs[r].tier \in Tiers
  BY <1>1, Has
<1>3. q \in Request /\ q.at = "balance" /\ q.tier = reqs[r].tier /\ q.checked = reqs[r].checked
  BY <1>1, Has DEF Request, Steps
<1>4. /\ auth' \in [Keys -> Tiers \cup {None}]
      /\ \A k \in Keys : auth'[k] # None => auth'[k] \in ghost.tiers
  BY <1>2, Has DEF Fill
<1> HIDE DEF q
<1> QED
  BY <1>1, <1>2, <1>3, <1>4, Has, RequestStep DEF Fill, Aloft, Over

\* A request goes on to the next step, or leaves.
LEMMA MoveStep ==
  ASSUME IInv, NEW r \in Requests, NEW step \in Steps \ {"idle", "charge"},
         Goto(r, step) \/ Leave(r),
         reqs[r].at # "idle", reqs[r].at \in Over => step \in Over,
         UNCHANGED <<user, auth>>, UNCHANGED <<day, consoleVars, pageVars>>, Keeps,
         count' \in Nat \cup {None}, limitOf' \in [0..LastDay -> Nat \cup {None}]
  PROVE  IInv'
<1>1. CASE Goto(r, step)
  <2> DEFINE q == [reqs[r] EXCEPT !.at = step]
  <2>1. /\ q \in Request /\ q.at = step /\ q.tier = reqs[r].tier /\ q.checked = reqs[r].checked
        /\ reqs' = [reqs EXCEPT ![r] = q]
    BY <1>1, Has DEF Request, Goto
  <2> HIDE DEF q
  <2> QED
    BY <2>1, Has, RequestStep DEF Aloft
<1>2. CASE Leave(r)
  BY <1>2, Has, RequestStep DEF Leave, Aloft
<1> QED
  BY <1>1, <1>2

\* A request whose balance was looked at has a cent; the others do not take off.
LEMMA BalanceStep ==
  ASSUME IInv, NEW r \in Requests, CheckBalance(r), UNCHANGED <<day, consoleVars, pageVars>>
  PROVE  IInv'
<1>1. reqs[r].at = "balance" /\ UNCHANGED <<user, redisVars, ghost>>
  BY DEF CheckBalance, At
<1>2. CASE Goto(r, "serve") \/ Goto(r, "count")
  <2>1. {"serve", "count"} \subseteq Steps \ {"idle", "charge"}
    BY DEF Steps
  <2> QED
    BY <1>1, <1>2, <2>1, Has, MoveStep DEF redisVars, Over
<1>3. ASSUME NEW n \in Sizes, NEW need \in {1, Cents(n)} \ {0},
             IF Sufficient(need)
             THEN reqs' = [reqs EXCEPT ![r].at = "count", ![r].size = n,
                                       ![r].checked = (user.tier = Free)]
             ELSE Leave(r)
      PROVE  IInv'
  <2>1. CASE Leave(r)
    BY <1>1, <2>1, Has, RequestStep DEF redisVars, Leave, Aloft
  <2>2. CASE Sufficient(need) /\ reqs' = [reqs EXCEPT ![r].at = "count", ![r].size = n,
                                                      ![r].checked = (user.tier = Free)]
    <3> DEFINE b == (user.tier = Free)
               q == [reqs[r] EXCEPT !.at = "count", !.size = n, !.checked = b]
    <3>1. n \in Nat /\ b \in BOOLEAN
      BY LedgerAssumption
    <3>2. reqs' = [reqs EXCEPT ![r] = q]
      BY <2>2, Has DEF Types
    <3> HIDE DEF b
    <3>3. q \in Request /\ q.at = "count" /\ q.tier = reqs[r].tier /\ q.checked = b
      BY <3>1, Has DEF Request, Steps
    <3>4. need >= 1 /\ need \in Int
      BY <1>3, <3>1, Cut
    <3>5. user.tier = Free => user.balance >= 1
      <4>1. user.balance \in Int
        BY Has DEF Row
      <4>2. user.tier # Free \/ user.balance >= need
        BY <2>2 DEF Sufficient
      <4> QED
        BY <3>4, <4>1, <4>2
    <3> HIDE DEF q
    <3>6. q.checked => user.balance >= 1
      BY <3>3, <3>5 DEF b
    <3> QED
      BY <1>1, <3>2, <3>3, <3>6, Has, RequestStep DEF redisVars, Aloft
  <2> QED
    BY <1>3, <2>1, <2>2
<1> QED
  BY <1>2, <1>3 DEF CheckBalance

LEMMA EmbeddingsStep ==
  ASSUME IInv, NEW r \in Requests, Embeddings(r), UNCHANGED <<day, consoleVars, pageVars>>
  PROVE  IInv'
<1>1. reqs[r].at = "balance" /\ UNCHANGED <<user, redisVars, ghost>> /\ Goto(r, "serve")
  BY DEF Embeddings, At
<1>2. "serve" \in Steps \ {"idle", "charge"}
  BY DEF Steps
<1> QED
  BY <1>1, <1>2, Has, MoveStep DEF redisVars, Over

LEMMA GetCountStep ==
  ASSUME IInv, NEW r \in Requests, GetCount(r), UNCHANGED <<day, consoleVars, pageVars>>
  PROVE  IInv'
<1> DEFINE u == OrZero(count)
           q == [reqs[r] EXCEPT !.at = "limit", !.used = u, !.day = day]
<1>1. reqs[r].at = "count" /\ UNCHANGED <<user, redisVars, ghost>> /\ reqs' = [reqs EXCEPT ![r] = q]
  BY DEF GetCount, At
<1>2. u \in Nat /\ day \in Nat
  BY Has DEF OrZero
<1> HIDE DEF u
<1>3. q \in Request /\ q.at = "limit" /\ q.tier = reqs[r].tier /\ q.checked = reqs[r].checked
  BY <1>2, Has DEF Request, Steps
<1> HIDE DEF q
<1> QED
  BY <1>1, <1>3, Has, RequestStep DEF redisVars, Aloft, Over

LEMMA GetLimitStep ==
  ASSUME IInv, NEW r \in Requests, GetLimit(r), UNCHANGED <<day, consoleVars, pageVars>>
  PROVE  IInv'
<1>1. reqs[r].at = "limit" /\ UNCHANGED <<user, redisVars>>
  BY DEF GetLimit, At
<1>2. Goto(r, "serve") \/ Goto(r, "select") \/ Leave(r)
  BY DEF GetLimit, Decide
<1>3. Keeps
  BY Has, JudgedSame DEF GetLimit, Keeps
<1>4. {"serve", "select"} \subseteq Steps \ {"idle", "charge"}
  BY DEF Steps
<1> QED
  BY <1>1, <1>2, <1>3, <1>4, Has, MoveStep DEF redisVars, Over

LEMMA SelectStep ==
  ASSUME IInv, NEW r \in Requests, Select(r), UNCHANGED <<day, consoleVars, pageVars>>
  PROVE  IInv'
<1> DEFINE q == [reqs[r] EXCEPT !.at = "setlimit", !.limit = user.quota, !.used = user.used]
<1>1. reqs[r].at = "select" /\ UNCHANGED <<user, redisVars, ghost>> /\ reqs' = [reqs EXCEPT ![r] = q]
  BY DEF Select, At
<1>2. user.quota \in Nat /\ user.used \in Nat
  BY Has DEF Row
<1>3. q \in Request /\ q.at = "setlimit" /\ q.tier = reqs[r].tier /\ q.checked = reqs[r].checked
  BY <1>2, Has DEF Request, Steps
<1> HIDE DEF q
<1> QED
  BY <1>1, <1>3, Has, RequestStep DEF redisVars, Aloft, Over

LEMMA SetLimitStep ==
  ASSUME IInv, NEW r \in Requests, SetLimit(r), UNCHANGED <<day, consoleVars, pageVars>>
  PROVE  IInv'
<1>1. reqs[r].at = "setlimit" /\ UNCHANGED <<user, auth, count>> /\ Goto(r, "setcount")
  BY DEF SetLimit, At
<1>2. reqs[r].limit \in Nat
  BY Has DEF Request
<1>3. limitOf' \in [0..LastDay -> Nat \cup {None}] /\ Keeps
  BY <1>2, Has, FaultSame DEF SetLimit
<1>4. "setcount" \in Steps \ {"idle", "charge"}
  BY DEF Steps
<1> QED
  BY <1>1, <1>3, <1>4, Has, MoveStep DEF Over

LEMMA SetCountStep ==
  ASSUME IInv, NEW r \in Requests, SetCount(r), UNCHANGED <<day, consoleVars, pageVars>>
  PROVE  IInv'
<1>1. reqs[r].at = "setcount" /\ UNCHANGED <<user, auth, limitOf>>
  BY DEF SetCount, At
<1>2. Goto(r, "serve") \/ Leave(r)
  BY DEF SetCount, Decide
<1>3. reqs[r].used \in Nat /\ count' \in Nat \cup {None}
  BY Has DEF SetCount, Request
<1> DEFINE j == Judged(r, reqs[r].limit, reqs[r].limit - reqs[r].used)
<1>4. Same(j)
  BY Has, JudgedSame
<1> DEFINE x == j.crossed \/ user.used # reqs[r].used
<1>5. x \in BOOLEAN
  OBVIOUS
<1>6. ghost' = [j EXCEPT !.crossed = x] \/ ghost' = [j EXCEPT !.faulty = TRUE]
  BY DEF SetCount
<1> HIDE DEF j, x
<1>7. Keeps
  BY <1>4, <1>5, <1>6, SameKept DEF Keeps
<1>8. "serve" \in Steps \ {"idle", "charge"}
  BY DEF Steps
<1> QED
  BY <1>1, <1>2, <1>3, <1>7, <1>8, Has, MoveStep DEF Over

LEMMA ServeStep ==
  ASSUME IInv, NEW r \in Requests, Serve(r), UNCHANGED <<day, consoleVars, pageVars>>
  PROVE  IInv'
<1>1. reqs[r].at = "serve" /\ UNCHANGED <<user, redisVars, ghost>>
  BY DEF Serve, At
<1>2. CASE Leave(r)
  BY <1>1, <1>2, Has, RequestStep DEF Leave, Aloft, redisVars
<1>3. ASSUME NEW n \in Sizes, reqs' = [reqs EXCEPT ![r].at = "charge", ![r].size = n]
      PROVE  IInv'
  <2> DEFINE q == [reqs[r] EXCEPT !.at = "charge", !.size = n]
  <2>1. n \in Nat
    BY LedgerAssumption
  <2>2. q \in Request /\ q.at = "charge" /\ q.tier = reqs[r].tier /\ q.size = n
        /\ q.checked = reqs[r].checked        /\ reqs' = [reqs EXCEPT ![r] = q]
    BY <1>3, <2>1, Has DEF Request, Steps
  <2> HIDE DEF q
  <2> QED
    BY <1>1, <2>2, Has, RequestStep DEF redisVars, Aloft, Over
<1> QED
  BY <1>2, <1>3 DEF Serve

LEMMA RecordStep ==
  ASSUME IInv, NEW r \in Requests, RecordIt(r), UNCHANGED <<day, consoleVars, pageVars>>
  PROVE  IInv'
<1>1. reqs[r].at = "record" /\ UNCHANGED <<user, redisVars>> /\ Goto(r, "publish")
  BY DEF RecordIt, At
<1>2. Keeps
  BY Has, OmittedSame DEF RecordIt, Keeps
<1>3. "publish" \in Steps \ {"idle", "charge"}
  BY DEF Steps
<1> QED
  BY <1>1, <1>2, <1>3, Has, MoveStep DEF redisVars, Over

LEMMA PublishStep ==
  ASSUME IInv, NEW r \in Requests, Publish(r), UNCHANGED <<day, consoleVars, pageVars>>
  PROVE  IInv'
<1>1. reqs[r].at = "publish" /\ UNCHANGED <<user, auth, limitOf>> /\ Leave(r)
  BY DEF Publish, At
<1>2. OrZero(count) \in Nat /\ Added(r) \in Nat
  BY Has DEF OrZero, Added, Request
<1>3. count' \in Nat \cup {None} /\ Keeps
  <2>1. CASE count' = OrZero(count) + Added(r) /\ UNCHANGED ghost
    <3>1. OrZero(count) + Added(r) \in Nat
      BY <1>2
    <3> QED
      BY <2>1, <3>1, Has
  <2>2. CASE Fault /\ count' \in {count, OrZero(count) + 2 * Added(r)}
    <3>1. OrZero(count) + 2 * Added(r) \in Nat
      BY <1>2
    <3> QED
      BY <2>2, <3>1, Has, FaultSame
  <2> QED
    BY <2>1, <2>2 DEF Publish
<1>4. "publish" \in Steps \ {"idle", "charge"}
  BY DEF Steps
<1> QED
  BY <1>1, <1>3, <1>4, Has, MoveStep DEF Over

\* A charge of c cents for what is worth w more than is asked for it.
Pays(r, c, w) ==
  LET n == reqs[r].size IN
  /\ user' = [user EXCEPT !.balance = user.balance - c, !.used = user.used + n]
  /\ reqs' = [reqs EXCEPT ![r] = [reqs[r] EXCEPT !.at = "record", !.cents = c,
                                                 !.after = user.balance - c, !.n = ghost.n + 1]]
  /\ ghost' = [ghost EXCEPT !.exact = ghost.exact + n * Price, !.cents = ghost.cents + c,
                            !.n = ghost.n + 1, !.waived = ghost.waived + w,
                            !.unchecked = ghost.unchecked + (IF reqs[r].checked THEN 0 ELSE c),
                            !.spent = ghost.spent + n, !.settled = FALSE]

\* Whether the price is found or not, what is neither charged nor waived is less than a cent.
LEMMA ChargeCases ==
  ASSUME Types, NEW r \in Requests, Charge(r)
  PROVE  \/ Fault /\ Leave(r) /\ UNCHANGED user
         \/ \E c, w \in Nat :
              /\ Pays(r, c, w) /\ (UNCHANGED left \/ Spend("misses"))
              /\ reqs[r].size \in Sizes => c <= MaxCents
              /\ c * Unit <= reqs[r].size * Price
              /\ reqs[r].size * Price <= c * Unit + (Unit - 1) + w
<1> DEFINE n == reqs[r].size
           e == n * Price
<1>1. /\ user \in Row /\ ghost \in Ghost /\ reqs[r] \in Request /\ n \in Nat /\ reqs \in [Requests -> Request]
      /\ ghost.waived \in Nat /\ ghost.unchecked \in Nat
  BY DEF Types, Request, Ghost
<1>2. /\ Unit \in Nat \ {0} /\ MaxCents \in Nat /\ e \in Nat /\ Cents(n) \in Nat
      /\ Cents(n) * Unit <= e /\ e <= Cents(n) * Unit + (Unit - 1)
      /\ n \in Sizes => Cents(n) <= MaxCents
  BY <1>1, Cut, LedgerAssumption
<1>3. ASSUME NEW found \in BOOLEAN, NEW c, c = IF found THEN Deduct(n) ELSE 0,
             user' = [user EXCEPT !.balance = @ - c, !.used = @ + n],
             reqs' = [reqs EXCEPT ![r].at = "record", ![r].cents = c,
                                  ![r].after = user.balance - c, ![r].n = ghost.n + 1],
             ghost' = [ghost EXCEPT !.exact = @ + n * Price, !.cents = @ + c, !.n = @ + 1,
                                    !.waived = IF found THEN @ ELSE @ + n * Price,
                                    !.unchecked = IF reqs[r].checked THEN @ ELSE @ + c,
                                    !.spent = @ + n, !.settled = FALSE],
             IF found THEN UNCHANGED left ELSE Spend("misses")
      PROVE  \E d, w \in Nat :
               /\ Pays(r, d, w) /\ (UNCHANGED left \/ Spend("misses"))
               /\ n \in Sizes => d <= MaxCents
               /\ d * Unit <= e /\ e <= d * Unit + (Unit - 1) + w
  <2> DEFINE w == IF found THEN 0 ELSE e
  <2>1. c \in Nat /\ w \in Nat /\ (n \in Sizes => c <= MaxCents)
    BY <1>2, <1>3 DEF Deduct
  <2>2. c * Unit <= e /\ e <= c * Unit + (Unit - 1) + w
    <3>1. CASE found
      <4>1. c = Cents(n) /\ w = 0
        BY <1>3, <3>1 DEF Deduct
      <4> HIDE DEF e, w
      <4>2. Cents(n) * Unit \in Nat
        BY <1>2, OneMore
      <4> QED
        BY <1>2, <4>1, <4>2
    <3>2. CASE ~found
      <4>1. c = 0 /\ w = e
        BY <1>3, <3>2
      <4>2. 0 * Unit = 0
        BY <1>2
      <4> HIDE DEF e, w
      <4> QED
        BY <1>2, <4>1, <4>2
    <3> QED
      BY <3>1, <3>2
  <2>3. (IF found THEN ghost.waived ELSE ghost.waived + n * Price) = ghost.waived + w
    BY <1>1
  <2>4. (IF reqs[r].checked THEN ghost.unchecked ELSE ghost.unchecked + c)
        = ghost.unchecked + (IF reqs[r].checked THEN 0 ELSE c)
    BY <1>1
  <2>5. ghost' = [ghost EXCEPT !.exact = ghost.exact + n * Price, !.cents = ghost.cents + c,
                               !.n = ghost.n + 1,
                               !.waived = IF found THEN ghost.waived ELSE ghost.waived + n * Price,
                               !.unchecked = IF reqs[r].checked THEN ghost.unchecked ELSE ghost.unchecked + c,
                               !.spent = ghost.spent + n, !.settled = FALSE]
    BY <1>1, <1>3 DEF Ghost
  <2> HIDE DEF w
  <2>6. Pays(r, c, w)
    BY <1>1, <1>3, <2>3, <2>4, <2>5 DEF Pays, Row
  <2> QED
    BY <1>3, <2>1, <2>2, <2>6
<1> QED
  BY <1>3 DEF Charge

\* The charge: its worth and what is paid stay less than a cent apart, but for what is waived,
\* the debt grows by no more than a request may cost or by cents that nobody looked for, and
\* the console shows an old row from now on.
LEMMA ChargeStep ==
  ASSUME IInv, NEW r \in Requests, Charge(r), UNCHANGED <<day, consoleVars, pageVars>>
  PROVE  IInv'
<1>1. reqs[r].at = "charge" /\ UNCHANGED <<redisVars, records>>
  BY DEF Charge, At
<1>2. CASE Fault /\ Leave(r) /\ UNCHANGED user
  BY <1>1, <1>2, Has, FaultSame, RequestStep DEF Leave, Aloft, redisVars
<1> DEFINE n == reqs[r].size
<1>3. ASSUME NEW c \in Nat, NEW w \in Nat, Pays(r, c, w), n \in Sizes => c <= MaxCents,
             c * Unit <= n * Price, n * Price <= c * Unit + (Unit - 1) + w
      PROVE  IInv'
  <2> DEFINE bal == user.balance - c
             used == user.used + n
             exact == ghost.exact + n * Price
             cents == ghost.cents + c
             charged == ghost.n + 1
             waived == ghost.waived + w
             v == IF reqs[r].checked THEN 0 ELSE c
             unchecked == ghost.unchecked + v
             spent == ghost.spent + n
             u == [user EXCEPT !.balance = bal, !.used = used]
             q == [reqs[r] EXCEPT !.at = "record", !.cents = c, !.after = bal, !.n = charged]
             g == [ghost EXCEPT !.exact = exact, !.cents = cents, !.n = charged, !.waived = waived,
                                !.unchecked = unchecked, !.spent = spent, !.settled = FALSE]
  <2>1. n \in Sizes /\ n \in Nat /\ n * Price \in Nat /\ MaxCents \in Nat /\ c <= MaxCents /\ v \in Nat
    BY <1>1, <1>3, Has, Cut, LedgerAssumption
  <2>2. /\ user.balance \in Int /\ user.used \in Nat /\ user.tier \in Tiers /\ user.quota \in Nat
        /\ ghost \in Ghost /\ ghost.n \in Nat /\ ghost.cents \in Nat /\ ghost.exact \in Nat /\ ghost.spent \in Nat
        /\ ghost.waived \in Nat /\ ghost.unchecked \in Nat
    BY Has DEF Row, Types, Ghost
  <2>r. user' = u /\ reqs' = [reqs EXCEPT ![r] = q] /\ ghost' = g
    BY <1>3 DEF Pays
  <2>n. /\ bal \in Int /\ used \in Nat /\ exact \in Nat /\ cents \in Nat /\ charged \in Nat
        /\ spent \in Nat /\ waived \in Nat /\ unchecked \in Nat
    <3> HIDE DEF n, v
    <3> QED
      BY <1>3, <2>1, <2>2
  <2>u. u = [user EXCEPT !.balance = bal, !.used = used]
    OBVIOUS
  <2>q. q = [reqs[r] EXCEPT !.at = "record", !.cents = c, !.after = bal, !.n = charged]
    OBVIOUS
  <2>g. g = [ghost EXCEPT !.exact = exact, !.cents = cents, !.n = charged, !.waived = waived,
                          !.unchecked = unchecked, !.spent = spent, !.settled = FALSE]
    OBVIOUS
  <2>v. (reqs[r].checked => unchecked = ghost.unchecked)
        /\ (~reqs[r].checked => bal + unchecked = user.balance + ghost.unchecked)
    BY <2>2
  <2> HIDE DEF n, bal, used, exact, cents, charged, spent, waived, v, unchecked, u, q, g
  <2>3. u \in Row /\ u.balance = bal /\ u.tier = user.tier
    BY <2>n, <2>u, Has DEF Row
  <2>4. q \in Request /\ q.at = "record" /\ q.tier = reqs[r].tier
    BY <2>n, <2>q, Has DEF Request, Steps
  <2>5. /\ g.exact = exact /\ g.cents = cents /\ g.n = charged /\ g.waived = waived /\ g.unchecked = unchecked
        /\ g.settled = FALSE /\ g.tiers = ghost.tiers /\ g.plain = ghost.plain /\ g.asked = ghost.asked
        /\ g.newest = ghost.newest /\ g.overtaken = ghost.overtaken /\ g.failed = ghost.failed
    BY <2>2, <2>g DEF Ghost
  <2>6. g \in Ghost
    BY <2>2, <2>n, <2>g DEF Ghost
  <2>7. Types'
    BY <1>1, <2>r, <2>3, <2>4, <2>6 DEF IInv, Types, redisVars, consoleVars, pageVars
  <2>8. TiersInv'
    BY <1>1, <2>r, <2>3, <2>4, <2>5, Has DEF IInv, Types, TiersInv, redisVars
  <2>9. DebtInv'
    <3>1. \A o \in Requests : reqs'[o].at = "charge" => reqs'[o].size \in Sizes
      BY <2>r, <2>4 DEF IInv, Types, DebtInv
    <3>2. ~Aloft(q) /\ \A o \in Requests : reqs'[o] = IF o = r THEN q ELSE reqs[o]
      BY <2>r, <2>4, Has DEF Aloft, Over, Types
    <3>3. ghost.plain => user.balance + ghost.unchecked > -(Landed * MaxCents)
      BY DEF IInv, DebtInv
    <3>4. CASE reqs[r].checked
      <4>1. Flying' = Flying \ {r} /\ r \in Flying
        BY <1>1, <3>2, <3>4 DEF Flying, Aloft, Over
      <4>2. Landed' = Landed + 1 /\ Landed \in Nat
        BY <4>1, Lands, LandedType
      <4>3. Landed' * MaxCents = Landed * MaxCents + MaxCents /\ Landed * MaxCents \in Nat
        BY <4>2, <2>1, OneMore
      <4>4. bal + unchecked = user.balance - c + ghost.unchecked
        BY <2>v, <3>4 DEF bal
      <4>5. ghost'.plain => user'.balance + ghost'.unchecked > -(Landed' * MaxCents)
        BY <2>r, <2>1, <2>2, <2>3, <2>5, <3>3, <4>3, <4>4
      <4> QED
        BY <3>1, <4>5 DEF DebtInv
    <3>5. CASE ~reqs[r].checked
      <4>1. Flying' = Flying
        BY <3>2, <3>5 DEF Flying, Aloft
      <4>2. Landed' = Landed
        BY <4>1 DEF Landed
      <4>3. ghost'.plain => user'.balance + ghost'.unchecked > -(Landed' * MaxCents)
        BY <2>r, <2>v, <2>3, <2>5, <3>3, <3>5, <4>2
      <4> QED
        BY <3>1, <4>3 DEF DebtInv
    <3> QED
      BY <3>4, <3>5
  <2>10. Undercharged'
    <3>1. /\ c * Unit \in Nat /\ ghost.cents * Unit \in Nat /\ Unit \in Nat \ {0}
          /\ ghost.n * (Unit - 1) \in Nat
      <4>1. Unit \in Nat \ {0} /\ Unit \in Nat /\ Unit - 1 \in Nat
        BY LedgerAssumption
      <4> QED
        BY <2>2, <4>1, OneMore
    <3>2. /\ (ghost.cents + c) * Unit = ghost.cents * Unit + c * Unit
          /\ (ghost.n + 1) * (Unit - 1) = ghost.n * (Unit - 1) + (Unit - 1)
      BY <3>1, <2>2
    <3>3. c * Unit <= n * Price /\ n * Price <= c * Unit + (Unit - 1) + w
      BY <1>3 DEF n
    <3>4. /\ ghost.cents * Unit <= ghost.exact
          /\ ghost.exact <= ghost.cents * Unit + ghost.n * (Unit - 1) + ghost.waived
      BY DEF IInv, Undercharged
    <3>5. /\ g.cents * Unit = ghost.cents * Unit + c * Unit
          /\ g.n * (Unit - 1) = ghost.n * (Unit - 1) + (Unit - 1)
          /\ g.exact = ghost.exact + n * Price /\ g.waived = ghost.waived + w
      BY <2>5, <3>2 DEF cents, charged, exact, waived
    <3> DEFINE a == c * Unit
               b == ghost.cents * Unit
               d == ghost.n * (Unit - 1)
               e == n * Price
    <3> HIDE DEF a, b, d, e
    <3>6. /\ g.cents * Unit <= g.exact
          /\ g.exact <= g.cents * Unit + g.n * (Unit - 1) + g.waived
      BY <2>1, <2>2, <3>1, <3>3, <3>4, <3>5
    <3> QED
      BY <2>r, <3>6 DEF Undercharged
  <2>11. TableInv' /\ ChartInv'
    <3>1. TableInv'
      BY <2>r, <2>5 DEF IInv, TableInv, consoleVars
    <3>2. ChartInv'
      BY <2>r, <2>5 DEF IInv, ChartInv, Coming, Arrived, Days, pageVars
    <3> QED
      BY <3>1, <3>2
  <2> QED
    BY <2>7, <2>8, <2>9, <2>10, <2>11 DEF IInv
<1> QED
  BY <1>2, <1>3, Has, ChargeCases

LEMMA HandleStep ==
  ASSUME IInv, NEW r \in Requests, Handle(r)
  PROVE  IInv'
  BY AuthStep, FillStep, BalanceStep, EmbeddingsStep, GetCountStep, GetLimitStep, SelectStep, SetLimitStep,
     SetCountStep, ServeStep, ChargeStep, RecordStep, PublishStep DEF Handle

-----------------------------------------------------------------------------
(* Time and keys.                                                          *)

\* A step of the caches or the clock.
LEMMA CacheStep ==
  ASSUME IInv, UNCHANGED <<user, reqs, consoleVars, pageVars>>, Keeps, day' \in Nat,
         auth' \in [Keys -> Tiers \cup {None}], count' \in Nat \cup {None},
         limitOf' \in [0..LastDay -> Nat \cup {None}],
         \A k \in Keys : auth'[k] # None => auth'[k] \in ghost.tiers
  PROVE  IInv'
<1>1. Types'
  BY DEF IInv, Types, Keeps, Same, consoleVars, pageVars
<1>2. TiersInv'
  BY DEF IInv, TiersInv, Keeps, Same
<1>3. Undercharged' /\ TableInv' /\ ChartInv'
  BY ScreensKept DEF IInv, Undercharged, Keeps, Same
<1>4. DebtInv'
  BY DEF IInv, DebtInv, Landed, Flying, Aloft, Keeps, Same
<1> QED
  BY <1>1, <1>2, <1>3, <1>4 DEF IInv

LEMMA TimeStep ==
  ASSUME IInv, NextDay \/ CountExpires \/ DeleteChannel
               \/ \E k \in Keys : AuthExpires(k) \/ CreateKey(k) \/ DeleteKey(k)
  PROVE  IInv'
<1>1. /\ Types /\ auth \in [Keys -> Tiers \cup {None}] /\ count \in Nat \cup {None} /\ day \in Nat
      /\ limitOf \in [0..LastDay -> Nat \cup {None}]
      /\ \A k \in Keys : auth[k] # None => auth[k] \in ghost.tiers
      /\ ghost.tiers \subseteq Tiers
  BY DEF IInv, Types, TiersInv, Ghost
<1>2. UNCHANGED ghost => Keeps
  BY <1>1, SameNow DEF Keeps
<1>3. CASE NextDay
  <2>1. Keeps
    BY <1>1, <1>3 DEF NextDay, Keeps, Same, Types, Ghost
  <2> QED
    BY <1>1, <1>3, <2>1, CacheStep DEF NextDay, redisVars
<1>4. CASE CountExpires
  BY <1>1, <1>2, <1>4, CacheStep DEF CountExpires
<1>5. ASSUME NEW k \in Keys, AuthExpires(k) PROVE IInv'
  BY <1>1, <1>2, <1>5, CacheStep DEF AuthExpires
<1>6. ASSUME NEW k \in Keys, CreateKey(k) PROVE IInv'
  <2>1. CASE \E t \in ghost.tiers : auth' = [auth EXCEPT ![k] = t] /\ UNCHANGED <<left, ghost>>
    BY <1>1, <1>2, <1>6, <2>1, CacheStep DEF CreateKey
  <2>2. CASE Fault /\ UNCHANGED auth
    BY <1>1, <1>6, <2>2, FaultSame, CacheStep DEF CreateKey
  <2> QED
    BY <1>6, <2>1, <2>2 DEF CreateKey
<1>7. ASSUME NEW k \in Keys, DeleteKey(k) PROVE IInv'
  BY <1>1, <1>2, <1>7, CacheStep DEF DeleteKey, redisVars
<1>8. CASE DeleteChannel
  BY <1>1, <1>2, <1>8, CacheStep DEF DeleteChannel, redisVars
<1> QED
  BY <1>3, <1>4, <1>5, <1>6, <1>7, <1>8

-----------------------------------------------------------------------------
(* Payments.                                                               *)

\* A payment only adds, and what tier it brings is remembered.
LEMMA PaymentStep ==
  ASSUME IInv, NEW u \in Row, NEW c \in Nat, user' = u, ghost' = Regarded(u, c),
         u.balance >= user.balance,
         UNCHANGED <<redisVars, day, reqs, consoleVars, pageVars>>
  PROVE  IInv'
<1>1. ghost \in Ghost /\ user \in Row /\ ghost.base \in Int /\ ghost.base + c \in Int /\ ghost.tiers \subseteq Tiers
  BY DEF IInv, Types, Ghost
<1> DEFINE b == ghost.base + c
           t == ghost.tiers \cup {u.tier}
<1>2. b \in Int /\ t \in SUBSET Tiers
  BY <1>1 DEF Row
<1>3. ghost' = [ghost EXCEPT !.base = b, !.tiers = t, !.settled = FALSE]
  BY <1>1 DEF Regarded, Ghost
<1> HIDE DEF b, t
<1>4. /\ ghost' \in Ghost /\ ghost'.tiers = t /\ ghost'.plain = ghost.plain /\ ~ghost'.settled
      /\ ghost'.exact = ghost.exact /\ ghost'.cents = ghost.cents /\ ghost'.n = ghost.n
      /\ ghost'.waived = ghost.waived /\ ghost'.unchecked = ghost.unchecked
      /\ ghost'.asked = ghost.asked /\ ghost'.newest = ghost.newest
      /\ ghost'.overtaken = ghost.overtaken /\ ghost'.failed = ghost.failed
  BY <1>1, <1>2, <1>3 DEF Ghost
<1>5. Types'
  BY <1>4 DEF IInv, Types, redisVars, consoleVars, pageVars
<1>6. TiersInv'
  BY <1>4 DEF IInv, TiersInv, redisVars, t
<1>7. DebtInv'
  <2>1. Landed' = Landed
    BY DEF Landed, Flying, Aloft
  <2>2. /\ Landed * MaxCents \in Nat /\ user.balance \in Int /\ u.balance \in Int
        /\ ghost.unchecked \in Nat
    BY <1>1, LandedType, OneMore DEF Row, Ghost
  <2> HIDE DEF Landed
  <2> QED
    BY <1>4, <2>1, <2>2 DEF IInv, DebtInv
<1>8. Undercharged' /\ TableInv'
  BY <1>4 DEF IInv, Undercharged, TableInv, consoleVars
<1>9. ChartInv'
  BY <1>4 DEF IInv, ChartInv, Coming, Arrived, Days, pageVars
<1> QED
  BY <1>5, <1>6, <1>7, <1>8, <1>9 DEF IInv

LEMMA CompletedStep ==
  ASSUME IInv, Completed \/ Cancelled
  PROVE  IInv'
<1>1. user \in Row /\ user.balance \in Int /\ \A t \in Tiers : PlanQuota[t] \in Nat
  BY LedgerAssumption DEF IInv, Types, Row
<1>2. ASSUME NEW c \in Deposits, NEW t \in Tiers, user' = Paid(c, t), ghost' = Regarded(Paid(c, t), c),
             UNCHANGED <<redisVars, day, reqs, consoleVars, pageVars>>
      PROVE  IInv'
  <2>1. c \in Nat
    BY LedgerAssumption
  <2> DEFINE b == user.balance + c
             q == IF t = Free THEN user.quota ELSE PlanQuota[t]
  <2>2. b \in Int /\ q \in Nat /\ b >= user.balance
    BY <1>1, <2>1 DEF Row
  <2>3. Paid(c, t) = [user EXCEPT !.balance = b, !.tier = t, !.quota = q]
    BY <1>1 DEF Paid, Row
  <2> HIDE DEF b, q
  <2>4. Paid(c, t) \in Row /\ Paid(c, t).balance = b
    BY <1>1, <2>2, <2>3 DEF Row
  <2> QED
    BY <1>2, <2>1, <2>2, <2>4, PaymentStep
<1>3. CASE Cancelled
  <2> DEFINE u == [user EXCEPT !.quota = PlanQuota[Free], !.tier = Free]
  <2>1. u \in Row /\ u.balance = user.balance /\ user' = u
    BY <1>1, <1>3, LedgerAssumption DEF Cancelled, Row
  <2>2. ghost' = Regarded(u, 0) /\ UNCHANGED <<redisVars, day, reqs, consoleVars, pageVars>>
    BY <1>3 DEF Cancelled
  <2> HIDE DEF u
  <2>3. u.balance >= user.balance
    BY <1>1, <2>1
  <2> QED
    BY <2>1, <2>2, <2>3, PaymentStep
<1> QED
  BY <1>2, <1>3 DEF Completed

-----------------------------------------------------------------------------
(* The users' table.                                                       *)

\* A question that has just been asked is the last one, and asks for the row as it is.
LEMMA Asks ==
  ASSUME IInv, AskRow(user'), ghost'.asked = ghost.asked + 1, ghost'.newest = ghost.newest
  PROVE  TableInv'
<1> DEFINE q == [n |-> ghost.asked + 1, row |-> user']
<1>1. /\ ghost.asked \in Nat /\ ghost.newest.row \in Nat
      /\ \A o \in lists : o.n \in Nat /\ o.n <= ghost.asked
      /\ ghost.newest.row <= ghost.asked
  BY DEF IInv, Types, TableInv, Ghost
<1>2. lists' = lists \cup {q} /\ q.n = ghost.asked + 1 /\ q.row = user'
  BY DEF AskRow
<1> HIDE DEF q
<1>3. \A o \in lists : o.n # q.n /\ ~(o.n > q.n)
  BY <1>1, <1>2
<1>4. OnItsWay'
  BY <1>1, <1>2, <1>3 DEF OnItsWay
<1>5. \A o \in lists' : o.n <= ghost'.asked /\ o.n # ghost'.newest.row
  BY <1>1, <1>2 DEF IInv, TableInv
<1>6. \A o1, o2 \in lists' : o1.n = o2.n => o1 = o2
  BY <1>2, <1>3 DEF IInv, TableInv
<1>7. ghost'.newest.row <= ghost'.asked
  BY <1>1
<1> QED
  BY <1>4, <1>5, <1>6, <1>7 DEF TableInv

\* The parts that do not concern the table, when a question about it is asked or answered.
LEMMA TableFrame ==
  ASSUME IInv, UNCHANGED <<key, redisVars, day, reqs, pageVars>>,
         user' \in Row, user'.tier \in ghost'.tiers,
         ghost' \in Ghost, ghost.tiers \subseteq ghost'.tiers,
         ghost'.exact = ghost.exact, ghost'.cents = ghost.cents, ghost'.n = ghost.n,
         ghost'.waived = ghost.waived, ghost'.unchecked = ghost.unchecked,
         ghost'.asked \in {ghost.asked, ghost.asked + 1}, ghost'.newest.load = ghost.newest.load,
         ghost.overtaken => ghost'.overtaken, ghost.failed => ghost'.failed,
         ghost'.plain => ghost.plain /\ user'.balance = user.balance
  PROVE  TiersInv' /\ DebtInv' /\ Undercharged' /\ ChartInv'
<1>1. TiersInv'
  BY DEF IInv, TiersInv, redisVars
<1>2. DebtInv'
  BY DEF IInv, DebtInv, Landed, Flying, Aloft
<1>3. Undercharged'
  BY DEF IInv, Undercharged
<1>4. ChartInv'
  <2>1. ghost.asked \in Nat /\ \A q \in loads : q.n \in Nat
    BY DEF IInv, Types, Ghost
  <2> QED
    BY <2>1 DEF IInv, ChartInv, Coming, Arrived, Days, pageVars
<1> QED
  BY <1>1, <1>2, <1>3, <1>4

LEMMA AskTypes ==
  ASSUME IInv, AskRow(user'), user' \in Row, ghost' \in Ghost,
         console' = [console EXCEPT !.loading = TRUE],
         UNCHANGED <<key, redisVars, day, reqs, pageVars>>
  PROVE  Types'
<1>0. ghost \in Ghost
  BY DEF IInv, Types
<1>1. ghost.asked + 1 \in Nat
  BY <1>0 DEF Ghost
<1>2. \A q \in lists' : q.n \in Nat /\ q.row \in Row
  BY <1>1 DEF IInv, Types, AskRow
<1>3. console' \in [row : Row \cup {None}, loading : BOOLEAN]
  <2>1. console \in [row : Row \cup {None}, loading : BOOLEAN]
    BY DEF IInv, Types
  <2> QED
    BY <2>1
<1> QED
  BY <1>2, <1>3 DEF IInv, Types, redisVars, pageVars

LEMMA ListUsersStep ==
  ASSUME IInv, ListUsers
  PROVE  IInv'
<1> DEFINE a == ghost.asked + 1
<1>1. ghost \in Ghost /\ a \in Nat /\ user \in Row /\ console \in [row : Row \cup {None}, loading : BOOLEAN]
  BY DEF IInv, Types, Ghost
<1>2. ghost' = [ghost EXCEPT !.asked = a] /\ AskRow(user) /\ UNCHANGED <<user, key, redisVars, day, reqs, pageVars>>
      /\ console' = [console EXCEPT !.loading = TRUE]
  BY DEF ListUsers, Ghost
<1>3. ghost'.asked = a /\ ghost' \in Ghost
  BY <1>1, <1>2 DEF Ghost
<1> HIDE DEF a
<1>4. /\ ghost'.tiers = ghost.tiers /\ ghost'.exact = ghost.exact /\ ghost'.cents = ghost.cents
      /\ ghost'.waived = ghost.waived /\ ghost'.unchecked = ghost.unchecked
      /\ ghost'.n = ghost.n /\ ghost'.newest = ghost.newest /\ ghost'.plain = ghost.plain
      /\ ghost'.overtaken = ghost.overtaken /\ ghost'.failed = ghost.failed
  BY <1>1, <1>2 DEF Ghost
<1>5. TableInv'
  <2>1. AskRow(user') <=> AskRow(user)
    BY <1>2 DEF AskRow
  <2> QED
    BY <1>2, <1>3, <1>4, <2>1, Asks DEF a
<1>6. Types'
  <2>1. AskRow(user') <=> AskRow(user)
    BY <1>2 DEF AskRow
  <2> QED
    BY <1>1, <1>2, <1>3, <2>1, AskTypes
<1>7. user.tier \in ghost.tiers
  BY DEF IInv, TiersInv
<1> QED
  BY <1>1, <1>2, <1>3, <1>4, <1>5, <1>6, <1>7, TableFrame DEF IInv, a

\* A save is followed by a question for the row that it left.
LEMMA SaveStep ==
  ASSUME IInv, SaveField
  PROVE  IInv'
<1>1. /\ ghost \in Ghost /\ ghost.asked + 1 \in Nat /\ user \in Row
      /\ console \in [row : Row \cup {None}, loading : BOOLEAN] /\ ghost.n \in Nat /\ ghost.tiers \subseteq Tiers
      /\ user.tier \in ghost.tiers
  BY DEF IInv, Types, Ghost, TiersInv
<1>2. /\ AskRow(user') /\ UNCHANGED <<key, redisVars, day, reqs, pageVars>>
      /\ console' = [console EXCEPT !.loading = TRUE]
  BY DEF SaveField, Reload
<1>3. PICK v \in Edits, t \in Tiers :
       \/ /\ user' = [user EXCEPT !.balance = v]
          /\ ghost' = [ghost EXCEPT !.base = v, !.past = ghost.n, !.goneCents = 0, !.plain = FALSE,
                                    !.asked = @ + 1, !.settled = TRUE]
       \/ /\ user' = [user EXCEPT !.quota = v]
          /\ ghost' = [ghost EXCEPT !.asked = @ + 1, !.settled = TRUE]
       \/ /\ user' = [user EXCEPT !.tier = t]
          /\ ghost' = [ghost EXCEPT !.tiers = @ \cup {t}, !.asked = @ + 1, !.settled = TRUE]
  BY DEF SaveField
<1>4. v \in Nat
  BY LedgerAssumption
<1> DEFINE a == ghost.asked + 1
           Outcome ==
             /\ user' \in Row /\ user'.tier \in ghost'.tiers
             /\ ghost' \in Ghost /\ ghost.tiers \subseteq ghost'.tiers
             /\ ghost'.exact = ghost.exact /\ ghost'.cents = ghost.cents /\ ghost'.n = ghost.n
             /\ ghost'.waived = ghost.waived /\ ghost'.unchecked = ghost.unchecked
             /\ ghost'.asked = a /\ ghost'.newest = ghost.newest
             /\ ghost'.overtaken = ghost.overtaken /\ ghost'.failed = ghost.failed
             /\ ghost'.plain => ghost.plain /\ user'.balance = user.balance
<1>5. ASSUME user' = [user EXCEPT !.balance = v],
             ghost' = [ghost EXCEPT !.base = v, !.past = ghost.n, !.goneCents = 0, !.plain = FALSE,
                                    !.asked = @ + 1, !.settled = TRUE]
      PROVE  Outcome
  <2>1. ghost' = [ghost EXCEPT !.base = v, !.past = ghost.n, !.goneCents = 0, !.plain = FALSE,
                              !.asked = a, !.settled = TRUE]
    BY <1>1, <1>5 DEF Ghost
  <2>2. a \in Nat /\ v \in Int
    BY <1>1, <1>4
  <2> HIDE DEF a
  <2>3. user' \in Row /\ user'.tier = user.tier
    BY <1>1, <1>5, <2>2 DEF Row
  <2>4. /\ ghost' \in Ghost /\ ghost'.tiers = ghost.tiers
        /\ ghost'.exact = ghost.exact /\ ghost'.cents = ghost.cents /\ ghost'.n = ghost.n
        /\ ghost'.waived = ghost.waived /\ ghost'.unchecked = ghost.unchecked
        /\ ghost'.asked = a /\ ghost'.newest = ghost.newest
        /\ ghost'.overtaken = ghost.overtaken /\ ghost'.failed = ghost.failed /\ ~ghost'.plain
    BY <1>1, <2>1, <2>2 DEF Ghost
  <2> QED
    BY <1>1, <2>3, <2>4
<1>6. ASSUME user' = [user EXCEPT !.quota = v],
             ghost' = [ghost EXCEPT !.asked = @ + 1, !.settled = TRUE]
      PROVE  Outcome
  <2>1. ghost' = [ghost EXCEPT !.asked = a, !.settled = TRUE]
    BY <1>1, <1>6 DEF Ghost
  <2>2. a \in Nat
    BY <1>1
  <2> HIDE DEF a
  <2>3. user' \in Row /\ user'.tier = user.tier /\ user'.balance = user.balance
    BY <1>1, <1>4, <1>6 DEF Row
  <2>4. /\ ghost' \in Ghost /\ ghost'.tiers = ghost.tiers
        /\ ghost'.exact = ghost.exact /\ ghost'.cents = ghost.cents /\ ghost'.n = ghost.n
        /\ ghost'.waived = ghost.waived /\ ghost'.unchecked = ghost.unchecked
        /\ ghost'.asked = a /\ ghost'.newest = ghost.newest
        /\ ghost'.overtaken = ghost.overtaken /\ ghost'.failed = ghost.failed
        /\ ghost'.plain = ghost.plain
    BY <1>1, <2>1, <2>2 DEF Ghost
  <2> QED
    BY <1>1, <2>3, <2>4
<1>7. ASSUME user' = [user EXCEPT !.tier = t],
             ghost' = [ghost EXCEPT !.tiers = @ \cup {t}, !.asked = @ + 1, !.settled = TRUE]
      PROVE  Outcome
  <2> DEFINE ts == ghost.tiers \cup {t}
  <2>1. ghost' = [ghost EXCEPT !.tiers = ts, !.asked = a, !.settled = TRUE]
    BY <1>1, <1>7 DEF Ghost
  <2>2. a \in Nat /\ ts \in SUBSET Tiers /\ t \in ts /\ ghost.tiers \subseteq ts
    BY <1>1
  <2> HIDE DEF a, ts
  <2>3. user' \in Row /\ user'.tier = t /\ user'.balance = user.balance
    BY <1>1, <1>7 DEF Row
  <2>4. /\ ghost' \in Ghost /\ ghost'.tiers = ts
        /\ ghost'.exact = ghost.exact /\ ghost'.cents = ghost.cents /\ ghost'.n = ghost.n
        /\ ghost'.waived = ghost.waived /\ ghost'.unchecked = ghost.unchecked
        /\ ghost'.asked = a /\ ghost'.newest = ghost.newest
        /\ ghost'.overtaken = ghost.overtaken /\ ghost'.failed = ghost.failed /\ ghost'.plain = ghost.plain
    BY <1>1, <2>1, <2>2 DEF Ghost
  <2> QED
    BY <2>2, <2>3, <2>4
<1>8. Outcome
  BY <1>3, <1>5, <1>6, <1>7
<1>9. TableInv'
  BY <1>2, <1>8, Asks
<1>10. Types'
  BY <1>2, <1>8, AskTypes
<1> QED
  BY <1>2, <1>8, <1>9, <1>10, TableFrame DEF IInv

\* An answer in order shows the newest row that was read; one out of order is noticed.
LEMMA ListedStep ==
  ASSUME IInv, NEW q \in lists, Listed(q)
  PROVE  IInv'
<1>1. /\ ghost \in Ghost /\ q.n \in Nat /\ q.row \in Row /\ user \in Row /\ user.tier \in ghost.tiers
      /\ console \in [row : Row \cup {None}, loading : BOOLEAN]
      /\ \A o \in lists : o.n \in Nat
  BY DEF IInv, Types, TiersInv
<1>2. ghost.newest \in [row : Nat, load : Nat] /\ ghost.overtaken \in BOOLEAN /\ ghost.asked \in Nat
      /\ ghost.newest.row \in Nat
  BY <1>1 DEF Ghost
<1>3. lists' = lists \ {q} /\ UNCHANGED <<user, key, redisVars, day, reqs, records, pageVars>>
  BY DEF Listed
<1>4. ASSUME console' = [row |-> q.row, loading |-> FALSE],
             ghost' = [ghost EXCEPT !.overtaken = @ \/ q.n < ghost.newest.row, !.newest.row = q.n]
      PROVE  IInv'
  <2> DEFINE x == ghost.overtaken \/ q.n < ghost.newest.row
             w == [ghost.newest EXCEPT !.row = q.n]
  <2>1. x \in BOOLEAN /\ w \in [row : Nat, load : Nat] /\ w.row = q.n /\ w.load = ghost.newest.load
    BY <1>1, <1>2
  <2>2. ghost' = [ghost EXCEPT !.overtaken = x, !.newest = w]
    BY <1>1, <1>4 DEF Ghost
  <2> HIDE DEF x, w
  <2>3. /\ ghost' \in Ghost /\ ghost'.tiers = ghost.tiers /\ ghost'.exact = ghost.exact
        /\ ghost'.cents = ghost.cents /\ ghost'.n = ghost.n /\ ghost'.asked = ghost.asked
        /\ ghost'.waived = ghost.waived /\ ghost'.unchecked = ghost.unchecked
        /\ ghost'.newest = w /\ ghost'.overtaken = x /\ ghost'.failed = ghost.failed
        /\ ghost'.plain = ghost.plain /\ ghost'.settled = ghost.settled
    BY <1>1, <2>1, <2>2 DEF Ghost
  <2>4. Types'
    BY <1>1, <1>3, <1>4, <2>3 DEF IInv, Types, redisVars, pageVars
  <2>5. TableInv'
    <3>1. ASSUME q.row = user, \A o \in lists : o.n > q.n => o.row = user
          PROVE  OnScreen'
      BY <1>3, <1>4, <2>1, <2>3, <3>1 DEF OnScreen
    <3>2. ASSUME ~x, ~ghost.failed, ghost.settled
          PROVE  OnItsWay' \/ OnScreen'
      <4>1. q.n > ghost.newest.row
        BY <1>1, <1>2, <3>2 DEF x, IInv, TableInv
      <4>2. OnItsWay \/ OnScreen
        BY <3>2 DEF x, IInv, TableInv
      <4>3. CASE OnScreen
        <5>1. q.row = user /\ \A o \in lists : o.n > q.n => o.row = user
          BY <1>1, <1>2, <4>1, <4>3 DEF OnScreen
        <5> QED
          BY <5>1, <3>1
      <4>4. ASSUME NEW p \in lists, p.row = user, \A o \in lists : o.n > p.n => o.row = user
            PROVE  OnItsWay' \/ OnScreen'
        <5>1. CASE q = p \/ q.n > p.n
          <6>1. q.row = user /\ \A o \in lists : o.n > q.n => o.row = user
            BY <1>1, <4>4, <5>1
          <6> QED
            BY <6>1, <3>1
        <5>2. CASE q # p /\ ~(q.n > p.n)
          <6>1. p \in lists' /\ \A o \in lists' : o.n > p.n => o.row = user'
            BY <1>3, <4>4, <5>2
          <6> QED
            BY <1>3, <4>4, <6>1 DEF OnItsWay
        <5> QED
          BY <5>1, <5>2
      <4> QED
        BY <4>2, <4>3, <4>4 DEF OnItsWay
    <3>3. \A o \in lists' : o.n <= ghost'.asked /\ o.n # ghost'.newest.row
      BY <1>3, <2>1, <2>3 DEF IInv, TableInv
    <3>4. \A o1, o2 \in lists' : o1.n = o2.n => o1 = o2
      BY <1>3 DEF IInv, TableInv
    <3>5. ghost'.newest.row <= ghost'.asked
      BY <2>1, <2>3 DEF IInv, TableInv
    <3> QED
      BY <2>3, <3>2, <3>3, <3>4, <3>5 DEF TableInv
  <2> QED
    BY <1>1, <1>3, <2>1, <2>3, <2>4, <2>5, TableFrame DEF IInv, x
<1>5. ASSUME console' = [console EXCEPT !.loading = FALSE], ghost' = [ghost EXCEPT !.failed = TRUE]
      PROVE  IInv'
  <2>1. /\ ghost' \in Ghost /\ ghost'.tiers = ghost.tiers /\ ghost'.exact = ghost.exact
        /\ ghost'.cents = ghost.cents /\ ghost'.n = ghost.n /\ ghost'.asked = ghost.asked
        /\ ghost'.waived = ghost.waived /\ ghost'.unchecked = ghost.unchecked
        /\ ghost'.newest = ghost.newest /\ ghost'.overtaken = ghost.overtaken /\ ghost'.failed
        /\ ghost'.plain = ghost.plain
    BY <1>1, <1>5 DEF Ghost
  <2>2. console' \in [row : Row \cup {None}, loading : BOOLEAN]
    BY <1>1, <1>5
  <2>3. Types'
    BY <1>1, <1>3, <2>1, <2>2 DEF IInv, Types, redisVars, pageVars
  <2>4. TableInv'
    BY <1>3, <2>1 DEF IInv, TableInv
  <2> QED
    BY <1>1, <1>3, <2>1, <2>3, <2>4, TableFrame DEF IInv
<1> QED
  BY <1>4, <1>5 DEF Listed

-----------------------------------------------------------------------------
(* The page of usage.                                                      *)

\* The parts that do not concern the page, when a question of it is asked or answered.
LEMMA ChartFrame ==
  ASSUME IInv, UNCHANGED <<user, key, redisVars, day, reqs, consoleVars>>,
         ghost' \in Ghost, ghost'.tiers = ghost.tiers,
         ghost'.exact = ghost.exact, ghost'.cents = ghost.cents, ghost'.n = ghost.n,
         ghost'.waived = ghost.waived, ghost'.unchecked = ghost.unchecked,
         ghost'.asked \in {ghost.asked, ghost.asked + 1}, ghost'.newest.row = ghost.newest.row,
         ghost.overtaken => ghost'.overtaken, ghost.failed => ghost'.failed,
         ghost'.plain = ghost.plain, ghost'.settled = ghost.settled
  PROVE  TiersInv' /\ DebtInv' /\ Undercharged' /\ TableInv'
<1>1. TiersInv'
  BY DEF IInv, TiersInv, redisVars
<1>2. DebtInv'
  BY DEF IInv, DebtInv, Landed, Flying, Aloft
<1>3. Undercharged'
  BY DEF IInv, Undercharged
<1>4. TableInv'
  <2>1. ghost.asked \in Nat /\ ghost.newest.row \in Nat /\ \A q \in lists : q.n \in Nat
    BY DEF IInv, Types, Ghost
  <2>2. (OnItsWay <=> OnItsWay') /\ (OnScreen <=> OnScreen')
    BY DEF OnItsWay, OnScreen, consoleVars
  <2>3. \A q \in lists' : q.n <= ghost'.asked /\ q.n # ghost'.newest.row
    BY <2>1 DEF IInv, TableInv, consoleVars
  <2>4. ghost'.newest.row <= ghost'.asked
    BY <2>1 DEF IInv, TableInv
  <2> QED
    BY <2>2, <2>3, <2>4 DEF IInv, TableInv, consoleVars
<1> QED
  BY <1>1, <1>2, <1>3, <1>4

LEMMA ChooseStep ==
  ASSUME IInv, NEW p \in Periods, Choose(p)
  PROVE  IInv'
<1> DEFINE a == ghost.asked + 1
           q == [n |-> a, period |-> p, stage |-> "days"]
<1>1. ghost \in Ghost /\ \A o \in loads : o.n \in Nat /\ o.n <= ghost.asked
  BY DEF IInv, Types, ChartInv
<1>2. a \in Nat /\ ghost.asked \in Nat
  BY <1>1 DEF Ghost
<1>3. /\ ghost' = [ghost EXCEPT !.asked = a] /\ loads' = loads \cup {q}
      /\ page' = [page EXCEPT !.period = p, !.loading = TRUE]
      /\ UNCHANGED <<user, key, redisVars, day, reqs, consoleVars>>
  BY <1>1 DEF Choose, AskedPeriod, Ghost
<1>4. q.n = a /\ q.period = p /\ q.stage = "days" /\ \A o \in loads : o.n # a /\ o.n <= a
  BY <1>1, <1>2
<1>5. q \in [n : Nat, period : Periods, stage : {"days", "models"}]
  BY <1>2
<1>6. page' = [period |-> p, data |-> page.data, totals |-> page.totals,
               models |-> page.models, loading |-> TRUE]
  BY <1>3 DEF IInv, Types
<1>7. /\ ghost' \in Ghost /\ ghost'.tiers = ghost.tiers /\ ghost'.exact = ghost.exact
      /\ ghost'.cents = ghost.cents /\ ghost'.n = ghost.n /\ ghost'.asked = a
      /\ ghost'.waived = ghost.waived /\ ghost'.unchecked = ghost.unchecked
      /\ ghost'.newest = ghost.newest /\ ghost'.overtaken = ghost.overtaken
      /\ ghost'.failed = ghost.failed /\ ghost'.plain = ghost.plain /\ ghost'.settled = ghost.settled
  <2> HIDE DEF a
  <2> QED
    BY <1>1, <1>2, <1>3 DEF Ghost
<1>8. Types'
  BY <1>3, <1>5, <1>6, <1>7 DEF IInv, Types, redisVars, consoleVars
<1> HIDE DEF q
<1>9. ChartInv'
  <2>1. Coming'
    <3>1. q \in Days'
      BY <1>3, <1>4 DEF Days
    <3>2. \A o \in Days' : o.n <= q.n
      BY <1>2, <1>3, <1>4 DEF Days
    <3> QED
      BY <1>4, <1>6, <3>1, <3>2 DEF Coming
  <2>2. \A o \in loads' : o.n <= ghost'.asked
    BY <1>2, <1>3, <1>4, <1>7
  <2>3. \A o1, o2 \in loads' : o1.n = o2.n => o1 = o2
    BY <1>3, <1>4 DEF IInv, ChartInv
  <2> QED
    BY <2>1, <2>2, <2>3 DEF ChartInv
<1> QED
  BY <1>3, <1>7, <1>8, <1>9, ChartFrame DEF IInv

LEMMA ShownStep ==
  ASSUME IInv, NEW q \in loads, Shown(q)
  PROVE  IInv'
<1>1. /\ ghost \in Ghost /\ q.n \in Nat /\ q.period \in Periods /\ q.n <= ghost.asked
      /\ \A o \in loads : o.n \in Nat
      /\ q \in [n : Nat, period : Periods, stage : {"days", "models"}]
  BY DEF IInv, Types, ChartInv
<1>2. ghost.newest \in [row : Nat, load : Nat] /\ ghost.overtaken \in BOOLEAN /\ ghost.newest.load \in Nat
  BY <1>1 DEF Ghost
<1>3. UNCHANGED <<user, key, redisVars, day, reqs, records, consoleVars>>
  BY DEF Shown
<1> DEFINE m == [q EXCEPT !.stage = "models"]
<1>4. m \in [n : Nat, period : Periods, stage : {"days", "models"}] /\ m.n = q.n /\ m.stage = "models"
  BY <1>1
<1>5. ASSUME q.stage = "days",
             page' = [page EXCEPT !.data = q.period, !.totals = TokensOf(ThisMonth)],
             loads' = (loads \ {q}) \cup {m},
             ghost' = [ghost EXCEPT !.overtaken = @ \/ q.n < ghost.newest.load, !.newest.load = q.n]
      PROVE  IInv'
  <2> DEFINE x == ghost.overtaken \/ q.n < ghost.newest.load
             w == [ghost.newest EXCEPT !.load = q.n]
             k == TokensOf(ThisMonth)
  <2>1. x \in BOOLEAN /\ w \in [row : Nat, load : Nat] /\ w.load = q.n /\ w.row = ghost.newest.row
    BY <1>1, <1>2
  <2>2. ghost' = [ghost EXCEPT !.overtaken = x, !.newest = w]
    BY <1>1, <1>5 DEF Ghost
  <2> HIDE DEF x, w, k, m
  <2>3. /\ ghost' \in Ghost /\ ghost'.tiers = ghost.tiers /\ ghost'.exact = ghost.exact
        /\ ghost'.cents = ghost.cents /\ ghost'.n = ghost.n /\ ghost'.asked = ghost.asked
        /\ ghost'.waived = ghost.waived /\ ghost'.unchecked = ghost.unchecked
        /\ ghost'.newest = w /\ ghost'.overtaken = x /\ ghost'.failed = ghost.failed
        /\ ghost'.plain = ghost.plain /\ ghost'.settled = ghost.settled
    BY <1>1, <2>1, <2>2 DEF Ghost
  <2>4. page' = [period |-> page.period, data |-> q.period, totals |-> k,
                 models |-> page.models, loading |-> page.loading]
    BY <1>5 DEF IInv, Types, k
  <2>5. Types'
    BY <1>1, <1>3, <1>4, <1>5, <2>3, <2>4 DEF IInv, Types, redisVars, consoleVars
  <2>6. Days' = Days \ {q}
    BY <1>4, <1>5 DEF Days
  <2>7. ASSUME ~x, ~ghost.failed
        PROVE  Coming' \/ Arrived'
    <3>1. Coming \/ Arrived \/ loads = {}
      BY <2>7 DEF x, IInv, ChartInv
    <3>2. q \in Days
      BY <1>5 DEF Days
    <3>3. ~Arrived
      BY <1>1, <1>2, <2>7, <3>2 DEF x, Arrived
    <3>4. PICK p \in Days : p.period = page.period /\ \A o \in Days : o.n <= p.n
      BY <3>1, <3>3 DEF Coming
    <3>5. CASE p = q
      <4>1. \A o \in Days' : o.n < q.n
        BY <1>1, <2>6, <3>4, <3>5 DEF Days, IInv, ChartInv
      <4> QED
        BY <2>1, <2>3, <2>4, <3>4, <3>5, <4>1 DEF Arrived
    <3>6. CASE p # q
      <4>1. p \in Days' /\ \A o \in Days' : o.n <= p.n
        BY <2>6, <3>4, <3>6
      <4> QED
        BY <2>4, <3>4, <4>1 DEF Coming
    <3> QED
      BY <3>5, <3>6
  <2>8. ChartInv'
    <3>1. \A o \in loads' : o.n <= ghost'.asked
      BY <1>1, <1>4, <1>5, <2>3 DEF IInv, ChartInv
    <3>2. \A o1, o2 \in loads' : o1.n = o2.n => o1 = o2
      BY <1>4, <1>5 DEF IInv, ChartInv
    <3> QED
      BY <2>3, <2>7, <3>1, <3>2 DEF ChartInv
  <2> QED
    BY <1>3, <2>1, <2>3, <2>5, <2>8, ChartFrame DEF IInv, x
<1>6. ASSUME q.stage = "models",
             page' = [page EXCEPT !.models = TokensOf(records), !.loading = FALSE],
             loads' = loads \ {q}, UNCHANGED ghost
      PROVE  IInv'
  <2> DEFINE k == TokensOf(records)
  <2> HIDE DEF k, m
  <2>1. page' = [period |-> page.period, data |-> page.data, totals |-> page.totals,
                 models |-> k, loading |-> FALSE]
    BY <1>6 DEF IInv, Types, k
  <2>2. Types'
    BY <1>1, <1>3, <1>6, <2>1 DEF IInv, Types, redisVars, consoleVars
  <2>3. Days' = Days
    BY <1>6 DEF Days
  <2>4. ChartInv'
    BY <1>6, <2>1, <2>3 DEF IInv, ChartInv, Coming, Arrived
  <2> QED
    BY <1>1, <1>3, <1>6, <2>2, <2>4, ChartFrame DEF IInv
<1>7. ASSUME page' = [page EXCEPT !.loading = FALSE], loads' = loads \ {q},
             ghost' = [ghost EXCEPT !.failed = TRUE]
      PROVE  IInv'
  <2>1. page' = [period |-> page.period, data |-> page.data, totals |-> page.totals,
                 models |-> page.models, loading |-> FALSE]
    BY <1>7 DEF IInv, Types
  <2>2. /\ ghost' \in Ghost /\ ghost'.tiers = ghost.tiers /\ ghost'.exact = ghost.exact
        /\ ghost'.cents = ghost.cents /\ ghost'.n = ghost.n /\ ghost'.asked = ghost.asked
        /\ ghost'.waived = ghost.waived /\ ghost'.unchecked = ghost.unchecked
        /\ ghost'.newest = ghost.newest /\ ghost'.overtaken = ghost.overtaken /\ ghost'.failed
        /\ ghost'.plain = ghost.plain /\ ghost'.settled = ghost.settled
    BY <1>1, <1>7 DEF Ghost
  <2>3. Types'
    BY <1>1, <1>3, <1>7, <2>1, <2>2 DEF IInv, Types, redisVars, consoleVars
  <2>4. ChartInv'
    BY <1>7, <2>2 DEF IInv, ChartInv
  <2> QED
    BY <1>3, <2>2, <2>3, <2>4, ChartFrame DEF IInv
<1> QED
  BY <1>5, <1>6, <1>7 DEF Shown, Answered

-----------------------------------------------------------------------------
(* The theorems.                                                           *)

LEMMA Products ==
  ASSUME NEW k \in Nat, NEW j \in Nat, NEW m \in Nat
  PROVE  k * m \in Nat /\ k * m <= (k + j) * m
<1>1. k * m \in Nat /\ j * m \in Nat /\ (k + j) * m = k * m + j * m
  OBVIOUS
<1> QED
  BY <1>1

LEMMA InitInv == Init => IInv
<1> SUFFICES ASSUME Init PROVE IInv
  OBVIOUS
<1> USE LedgerAssumption
<1>1. user \in Row /\ user.balance = Opening /\ user.tier = Free
  BY DEF Init, Row
<1>2. Idle \in Request /\ Idle.at = "idle" /\ Idle.checked = FALSE
  BY DEF Idle, Request, Steps
<1>3. /\ ghost \in Ghost /\ ghost.tiers = {Free} /\ ghost.exact = 0 /\ ghost.cents = 0 /\ ghost.n = 0
      /\ ghost.waived = 0 /\ ghost.unchecked = 0
      /\ ghost.asked = 0 /\ ghost.newest.row = 0 /\ ~ghost.settled
  BY DEF Init, Ghost
<1>4. Types
  BY <1>1, <1>2, <1>3 DEF Init, Types, Periods
<1>5. TiersInv
  BY <1>1, <1>2, <1>3 DEF Init, TiersInv
<1>6. DebtInv
  <2>1. Flying = {}
    BY <1>2 DEF Init, Flying, Aloft
  <2>2. Cardinality(Flying) = 0
    BY <2>1, FS_EmptySet
  <2>3. Cardinality(Requests) \in Nat /\ Cardinality(Requests) # 0
    BY FS_CardinalityType, FS_EmptySet
  <2>4. Landed \in Nat \ {0} /\ MaxCents \in Nat \ {0}
    BY <2>2, <2>3 DEF Landed
  <2>5. Landed * MaxCents >= MaxCents
    <3>1. 1 * MaxCents <= (1 + (Landed - 1)) * MaxCents /\ Landed - 1 \in Nat
      BY <2>4, Products
    <3> QED
      BY <2>4, <3>1
  <2>6. Landed * MaxCents \in Nat
    BY <2>4, Products
  <2>7. user.balance + ghost.unchecked > -(Landed * MaxCents)
    BY <1>1, <1>3, <2>4, <2>5, <2>6
  <2> QED
    BY <1>2, <2>7 DEF Init, DebtInv
<1>7. Undercharged
  BY <1>3 DEF Undercharged
<1>8. TableInv
  BY <1>3 DEF Init, TableInv
<1>9. ChartInv
  BY DEF Init, ChartInv
<1> QED
  BY <1>4, <1>5, <1>6, <1>7, <1>8, <1>9 DEF IInv

LEMMA NextInv == IInv /\ [Next]_vars => IInv'
<1>1. ASSUME IInv, Next PROVE IInv'
  BY <1>1, HandleStep, TimeStep, CompletedStep, ListUsersStep, SaveStep, ListedStep, ChooseStep,
     ShownStep DEF Next
<1>2. ASSUME IInv, UNCHANGED vars PROVE IInv'
  <2>1. UNCHANGED <<user, key, redisVars, day, reqs, records, consoleVars, pageVars, ghost>>
    BY <1>2 DEF vars
  <2>2. Keeps
    BY <1>2, <2>1, SameNow DEF IInv, Keeps
  <2> QED
    BY <1>2, <2>1, <2>2, CacheStep DEF IInv, Types, TiersInv, redisVars
<1> QED
  BY <1>1, <1>2

LEMMA Invariance == Spec => []IInv
  BY InitInv, NextInv, PTL DEF Spec

\* However many requests run between their check and their charge, and whatever is paid and
\* changed of tiers meanwhile, a user whose balance nobody typed is never deeper in debt than they
\* can cost and what was charged without a look at the balance (CheckBalance, recordBilling).
THEOREM DebtIsBounded == Spec => []Overdraft
<1>1. IInv => Overdraft
  <2> SUFFICES ASSUME IInv, ghost.plain
               PROVE  user.balance + ghost.unchecked > -(Cardinality(Requests) * MaxCents)
    BY DEF Overdraft
  <2>1. /\ Landed \in Nat /\ IsFiniteSet(Flying) /\ MaxCents \in Nat /\ user.balance \in Int
        /\ ghost.unchecked \in Nat
    BY LandedType DEF IInv, Types, Row, Ghost
  <2>2. Cardinality(Flying) \in Nat /\ Cardinality(Requests) \in Nat
    BY <2>1, FS_CardinalityType, LedgerAssumption
  <2>3. Cardinality(Requests) = Landed + Cardinality(Flying)
    BY <2>2 DEF Landed
  <2>4. Landed * MaxCents \in Nat /\ Landed * MaxCents <= Cardinality(Requests) * MaxCents
    BY <2>1, <2>2, <2>3, Products
  <2>5. Cardinality(Requests) * MaxCents \in Nat
    BY <2>1, <2>2, Products
  <2>6. user.balance + ghost.unchecked > -(Landed * MaxCents)
    BY DEF IInv, DebtInv
  <2> QED
    BY <2>1, <2>4, <2>5, <2>6
<1> QED
  BY <1>1, Invariance, PTL

\* However many requests are charged, what they pay is never above their worth, and below it by
\* less than a cent for each, and by the worth of those whose price was not found (record.go).
THEOREM LessThanACent == Spec => []Undercharged
<1>1. IInv => Undercharged
  BY DEF IInv
<1> QED
  BY <1>1, Invariance, PTL

\* A screen that has all its answers, in order and without a failure, shows what was last asked
\* of it, however many questions were under way (UsersTab, UsageTab, BillingContent).
THEOREM ScreensSettled == Spec => []ScreensSettle
<1>1. IInv => ScreensSettle
  <2> SUFFICES ASSUME IInv, ~ghost.overtaken, ~ghost.failed PROVE ScreensSettle
    BY DEF ScreensSettle
  <2>1. lists = {} /\ ghost.settled => console.row = user
    BY DEF IInv, TableInv, OnItsWay, OnScreen
  <2>2. loads = {} /\ page.data # None => page.data = page.period
    BY DEF IInv, ChartInv, Coming, Arrived, Days
  <2> QED
    BY <2>1, <2>2 DEF ScreensSettle
<1> QED
  BY <1>1, Invariance, PTL
-----------------------------------------------------------------------------
(* Sums.                                                                   *)

\* A sum is a number.
LEMMA ShareSize ==
  ASSUME NEW f, NEW x, f[x] \in Nat
  PROVE  IsFiniteSet(Share(f, x)) /\ Cardinality(Share(f, x)) = f[x]
<1>1. IsFiniteSet({x}) /\ Cardinality({x}) = 1
  BY FS_Singleton
<1>2. IsFiniteSet(1..f[x]) /\ Cardinality(1..f[x]) = f[x]
  BY FS_Interval
<1>3. IsFiniteSet({x} \X (1..f[x])) /\ Cardinality({x} \X (1..f[x])) = 1 * f[x]
  BY <1>1, <1>2, FS_Product
<1> QED
  BY <1>3 DEF Share

LEMMA SharesFinite ==
  ASSUME NEW f, IsFiniteSet(DOMAIN f), \A x \in DOMAIN f : f[x] \in Nat
  PROVE  IsFiniteSet(UNION {Share(f, x) : x \in DOMAIN f}) /\ Total(f) \in Nat
<1> DEFINE S == {Share(f, x) : x \in DOMAIN f}
           g == [x \in DOMAIN f |-> Share(f, x)]
<1>1. \A x \in DOMAIN f : IsFiniteSet(Share(f, x))
  BY ShareSize
<1>2. g \in Surjection(DOMAIN f, S)
  BY DEF Surjection
<1>3. IsFiniteSet(S)
  BY <1>2, FS_Surjection
<1>4. IsFiniteSet(UNION S)
  BY <1>1, <1>3, FS_UNION
<1> QED
  BY <1>4, FS_CardinalityType DEF Total

\* A sum grows by what an element that comes into the domain contributes.
LEMMA OneMoreShare ==
  ASSUME NEW f, NEW g, NEW e, e \notin DOMAIN f, DOMAIN g = DOMAIN f \cup {e},
         IsFiniteSet(DOMAIN f), \A x \in DOMAIN f : f[x] \in Nat /\ g[x] = f[x], g[e] \in Nat
  PROVE  Total(f) \in Nat /\ Total(g) = Total(f) + g[e]
<1> DEFINE F == UNION {Share(f, x) : x \in DOMAIN f}
           G == UNION {Share(g, x) : x \in DOMAIN g}
<1>1. IsFiniteSet(F) /\ Total(f) \in Nat
  BY SharesFinite
<1>2. IsFiniteSet(Share(g, e)) /\ Cardinality(Share(g, e)) = g[e]
  BY ShareSize
<1>3. \A x \in DOMAIN f : Share(g, x) = Share(f, x)
  BY DEF Share
<1>4. G = F \cup Share(g, e)
  BY <1>3
<1>5. F \cap Share(g, e) = {}
  BY DEF Share
<1>6. Cardinality(G) = Cardinality(F) + Cardinality(Share(g, e)) - Cardinality(F \cap Share(g, e))
  BY <1>1, <1>2, <1>4, FS_Union
<1>7. Cardinality(F \cap Share(g, e)) = 0
  BY <1>5, FS_EmptySet
<1> QED
  BY <1>1, <1>2, <1>6, <1>7 DEF Total

\* The tokens and the cents of a set of entries, and what one more entry adds.
LEMMA TokensSum ==
  ASSUME NEW S, IsFiniteSet(S), \A x \in S : x.tokens \in Nat
  PROVE  /\ TokensOf(S) \in Nat
         /\ \A e : e \notin S /\ e.tokens \in Nat => TokensOf(S \cup {e}) = TokensOf(S) + e.tokens
<1> DEFINE f == [x \in S |-> x.tokens]
<1>1. DOMAIN f = S /\ \A x \in S : f[x] = x.tokens
  OBVIOUS
<1>2. TokensOf(S) = Total(f)
  BY DEF TokensOf
<1> HIDE DEF f
<1>3. Total(f) \in Nat
  BY <1>1, SharesFinite
<1>4. ASSUME NEW e, e \notin S, e.tokens \in Nat
      PROVE  TokensOf(S \cup {e}) = TokensOf(S) + e.tokens
  <2> DEFINE g == [x \in S \cup {e} |-> x.tokens]
  <2>1. DOMAIN g = S \cup {e} /\ g[e] = e.tokens /\ \A x \in S : g[x] = x.tokens
    OBVIOUS
  <2>2. TokensOf(S \cup {e}) = Total(g)
    BY DEF TokensOf
  <2> HIDE DEF g
  <2>3. Total(g) = Total(f) + g[e]
    BY <1>1, <1>4, <2>1, OneMoreShare
  <2> QED
    BY <1>2, <2>1, <2>2, <2>3
<1> QED
  BY <1>2, <1>3, <1>4

LEMMA CentsSum ==
  ASSUME NEW S, IsFiniteSet(S), \A x \in S : x.cents \in Nat
  PROVE  /\ CentsOf(S) \in Nat
         /\ \A e : e \notin S /\ e.cents \in Nat => CentsOf(S \cup {e}) = CentsOf(S) + e.cents
<1> DEFINE f == [x \in S |-> x.cents]
<1>1. DOMAIN f = S /\ \A x \in S : f[x] = x.cents
  OBVIOUS
<1>2. CentsOf(S) = Total(f)
  BY DEF CentsOf
<1> HIDE DEF f
<1>3. Total(f) \in Nat
  BY <1>1, SharesFinite
<1>4. ASSUME NEW e, e \notin S, e.cents \in Nat
      PROVE  CentsOf(S \cup {e}) = CentsOf(S) + e.cents
  <2> DEFINE g == [x \in S \cup {e} |-> x.cents]
  <2>1. DOMAIN g = S \cup {e} /\ g[e] = e.cents /\ \A x \in S : g[x] = x.cents
    OBVIOUS
  <2>2. CentsOf(S \cup {e}) = Total(g)
    BY DEF CentsOf
  <2> HIDE DEF g
  <2>3. Total(g) = Total(f) + g[e]
    BY <1>1, <1>4, <2>1, OneMoreShare
  <2> QED
    BY <1>2, <2>1, <2>2, <2>3
<1> QED
  BY <1>2, <1>3, <1>4

\* Nothing costs nothing.
LEMMA EmptySum == TokensOf({}) = 0 /\ CentsOf({}) = 0
<1>1. ASSUME NEW f, DOMAIN f = {} PROVE Total(f) = 0
  <2>1. UNION {Share(f, x) : x \in DOMAIN f} = {}
    BY <1>1
  <2> QED
    BY <2>1, FS_EmptySet DEF Total
<1>2. DOMAIN [x \in {} |-> x.tokens] = {} /\ DOMAIN [x \in {} |-> x.cents] = {}
  OBVIOUS
<1> QED
  BY <1>1, <1>2 DEF TokensOf, CentsOf

-----------------------------------------------------------------------------
(* What is written of the money.                                           *)

\* A request that was charged and has not left.
Charged(r) == At(r, "record") \/ At(r, "publish")

(***************************************************************************)
(* A key that the cache knows, or that a request came with, was created.   *)
(***************************************************************************)
KeyInv ==
  /\ key \in [Keys -> Keyring] /\ channel \in {"live", "deleted"}
  /\ \A k \in Keys : auth[k] # None => key[k] # "unborn"
  /\ \A r \in Requests : ~At(r, "idle") => reqs[r].key \in Keys /\ key[reqs[r].key] # "unborn"

\* Nothing is dated after today.
ClockInv ==
  /\ day \in 0..LastDay /\ left \in Cap
  /\ \A r \in Requests : reqs[r].day <= day
  /\ \A d \in 0..LastDay : d > day => limitOf[d] = None

(***************************************************************************)
(* Charges are numbered, so that of the requests that are about to be      *)
(* recorded and of the records no two are one element of a sum.            *)
(***************************************************************************)
NumberInv ==
  /\ ghost.past <= ghost.n
  /\ \A r \in Requests : Charged(r) => reqs[r].n \in 1..ghost.n
  /\ \A r, q \in Requests : Charged(r) /\ Charged(q) /\ reqs[r].n = reqs[q].n => r = q
  /\ IsFiniteSet(records) /\ \A x \in records : x \in Record /\ x.n <= ghost.n
  /\ \A r \in Requests, x \in records : At(r, "record") => x.n # reqs[r].n

PageInv ==
  /\ page \in [period : Periods, data : Periods \cup {None}, totals : Nat, models : Nat,
               loading : BOOLEAN]
  /\ \A q \in loads : q.n >= 1

\* The sums of Explained and of Counted.
DueOf(r) == [n |-> reqs[r].n, tokens |-> reqs[r].size, cents |-> reqs[r].cents]
Due == {DueOf(r) : r \in {q \in Requests : At(q, "record")}}
OwedOf(r) == [n |-> reqs[r].n, tokens |-> reqs[r].size]
Owed == {OwedOf(r) : r \in {q \in Requests : At(q, "record") \/ At(q, "publish")}}
Since(S) == {x \in S : x.n > ghost.past}

Balanced == user.balance = ghost.base - CentsOf(Since(records)) - CentsOf(Since(Due)) - ghost.goneCents
Used == user.used = TokensOf(records) + TokensOf(Due) + ghost.goneTokens
Lost == ghost.goneTokens > 0 =>
          ghost.faulty \/ channel = "deleted" \/ \E k \in Keys : key[k] = "deleted"

Loaded == limitOf[day] # None /\ ~ghost.crossed /\ ~ghost.faulty /\ \A r \in Requests : ~At(r, "setcount")
Known == count # None /\ count + TokensOf(Owed) >= user.used

MInv == KeyInv /\ ClockInv /\ NumberInv /\ PageInv /\ Explained /\ Counted

LEMMA SumsNamed == (Explained <=> Balanced /\ Used /\ Lost) /\ (Counted <=> (Loaded => Known))
BY DEF Explained, Counted, Balanced, Used, Lost, Loaded, Known, Due, DueOf, Owed, OwedOf, Since

LEMMA SumsNamedNext ==
  (Explained' <=> Balanced' /\ Used' /\ Lost') /\ (Counted' <=> (Loaded' => Known'))
BY DEF Explained, Counted, Balanced, Used, Lost, Loaded, Known, Due, DueOf, Owed, OwedOf, Since

\* What is due and what is owed are finite sets of numbers of cents and tokens.
LEMMA DueType ==
  ASSUME Types
  PROVE  /\ IsFiniteSet(Due) /\ IsFiniteSet(Owed)
         /\ \A x \in Due : x.n \in Nat /\ x.tokens \in Nat /\ x.cents \in Nat
         /\ \A x \in Owed : x.n \in Nat /\ x.tokens \in Nat
<1> DEFINE R == {q \in Requests : At(q, "record")}
           P == {q \in Requests : At(q, "record") \/ At(q, "publish")}
<1>1. IsFiniteSet(R) /\ IsFiniteSet(P)
  BY LedgerAssumption, FS_Subset
<1>2. [r \in R |-> DueOf(r)] \in Surjection(R, Due)
  BY DEF Surjection, Due
<1>3. [r \in P |-> OwedOf(r)] \in Surjection(P, Owed)
  BY DEF Surjection, Owed
<1>4. IsFiniteSet(Due) /\ IsFiniteSet(Owed)
  BY <1>1, <1>2, <1>3, FS_Surjection
<1>5. \A r \in Requests : reqs[r].n \in Nat /\ reqs[r].size \in Nat /\ reqs[r].cents \in Nat
  BY DEF Types, Request
<1> QED
  BY <1>4, <1>5 DEF Due, DueOf, Owed, OwedOf

LEMMA SinceType ==
  ASSUME NEW S, IsFiniteSet(S), \A x \in S : x.cents \in Nat
  PROVE  IsFiniteSet(Since(S)) /\ CentsOf(Since(S)) \in Nat
<1>1. IsFiniteSet(Since(S)) /\ \A x \in Since(S) : x.cents \in Nat
  BY FS_Subset DEF Since
<1> QED
  BY <1>1, CentsSum

\* One more entry counts among those since the last absolute write, or it does not.
LEMMA SinceSum ==
  ASSUME NEW S, IsFiniteSet(S), \A x \in S : x.cents \in Nat, NEW e, e \notin S, e.cents \in Nat
  PROVE  CentsOf(Since(S \cup {e})) = CentsOf(Since(S)) + (IF e.n > ghost.past THEN e.cents ELSE 0)
<1>1. IsFiniteSet(Since(S)) /\ (\A x \in Since(S) : x.cents \in Nat) /\ CentsOf(Since(S)) \in Nat
      /\ e \notin Since(S)
  BY SinceType DEF Since
<1>2. CASE e.n > ghost.past
  <2>1. Since(S \cup {e}) = Since(S) \cup {e}
    BY <1>2 DEF Since
  <2>2. CentsOf(Since(S) \cup {e}) = CentsOf(Since(S)) + e.cents
    BY <1>1, CentsSum
  <2> QED
    BY <1>2, <2>1, <2>2
<1>3. CASE ~(e.n > ghost.past)
  <2>1. Since(S \cup {e}) = Since(S)
    BY <1>3 DEF Since
  <2> QED
    BY <1>1, <1>3, <2>1
<1> QED
  BY <1>2, <1>3

-----------------------------------------------------------------------------
(* What a step of a request must do to keep each part.                     *)

\* The steps around which money or the counter is on its way.
Weighty == {"setcount", "record", "publish"}

\* The history of the money, but for the charges.
MoneyKept ==
  /\ UNCHANGED <<ghost.base, ghost.past, ghost.goneCents, ghost.goneTokens, ghost.n, ghost.crossed>>
  /\ ghost.faulty => ghost'.faulty

\* A request goes from one step to the next, or leaves, with the key that it came with.
Onward(r, q) ==
  /\ reqs' = [reqs EXCEPT ![r] = q]
  /\ q.day <= day
  /\ q.at # "idle" => \/ reqs[r].at # "idle" /\ q.key = reqs[r].key
                      \/ q.key \in Keys /\ key[q.key] # "unborn"
  /\ \A k \in Keys : auth'[k] # None => key[k] # "unborn"
  /\ left' \in Cap
  /\ UNCHANGED <<key, channel, day, pageVars>>
  /\ ghost'.asked = ghost.asked

LEMMA OnwardKeeps ==
  ASSUME MInv, Types, NEW r \in Requests, NEW q, Onward(r, q),
         UNCHANGED limitOf \/ (\E d \in 0..LastDay, n \in Nat : d <= day /\ limitOf' = [limitOf EXCEPT ![d] = n])
  PROVE  KeyInv' /\ ClockInv' /\ PageInv'
<1>1. reqs' = [reqs EXCEPT ![r] = q] /\ DOMAIN reqs = Requests /\ UNCHANGED <<key, channel, day, pageVars>>
  BY DEF Onward, Types
<1>2. \A o \in Requests : reqs'[o] = IF o = r THEN q ELSE reqs[o]
  BY <1>1
<1>3. KeyInv'
  BY <1>1, <1>2 DEF MInv, KeyInv, Onward, At
<1>4. ClockInv'
  <2>1. \A o \in Requests : reqs'[o].day <= day'
    BY <1>1, <1>2 DEF MInv, ClockInv, Onward
  <2>2. \A d \in 0..LastDay : d > day' => limitOf'[d] = None
    <3>1. limitOf \in [0..LastDay -> Nat \cup {None}] /\ day' = day
      BY <1>1 DEF Types
    <3>2. \A d \in 0..LastDay : d > day => limitOf[d] = None
      BY DEF MInv, ClockInv
    <3>3. CASE UNCHANGED limitOf
      BY <3>1, <3>2, <3>3
    <3>4. ASSUME NEW e \in 0..LastDay, NEW n \in Nat, e <= day, limitOf' = [limitOf EXCEPT ![e] = n]
          PROVE  \A d \in 0..LastDay : d > day' => limitOf'[d] = None
      <4>1. day \in Int
        BY DEF Types
      <4> QED
        BY <3>1, <3>2, <3>4, <4>1
    <3> QED
      BY <3>3, <3>4
  <2> QED
    BY <1>1, <2>1, <2>2 DEF MInv, ClockInv, Onward
<1>5. PageInv'
  BY <1>1 DEF MInv, PageInv, pageVars
<1> QED
  BY <1>3, <1>4, <1>5

\* A step that has nothing to do with money or with the counter.
LEMMA QuietStep ==
  ASSUME MInv, Types, NEW r \in Requests, NEW q, Onward(r, q),
         reqs[r].at \notin Weighty, q.at \notin Weighty, MoneyKept,
         UNCHANGED <<user, count, limitOf, records>>
  PROVE  MInv'
<1>1. KeyInv' /\ ClockInv' /\ PageInv'
  BY OnwardKeeps
<1>2. /\ reqs' = [reqs EXCEPT ![r] = q] /\ DOMAIN reqs = Requests /\ UNCHANGED <<key, channel, day>>
      /\ UNCHANGED <<ghost.base, ghost.past, ghost.goneCents, ghost.goneTokens, ghost.n, ghost.crossed>>
      /\ ghost.faulty => ghost'.faulty
  BY DEF Onward, Types, MoneyKept
<1>3. \A o \in Requests, s \in Weighty :
        /\ reqs'[o].at = s <=> reqs[o].at = s
        /\ reqs'[o].at = s => reqs'[o] = reqs[o]
  BY <1>2
<1>4. NumberInv'
  BY <1>2, <1>3 DEF MInv, NumberInv, Charged, At, Weighty
<1>5. Due' = Due /\ Owed' = Owed
  BY <1>2, <1>3 DEF Due, DueOf, Owed, OwedOf, At, Weighty
<1>6. Balanced' /\ Used' /\ Lost'
  BY <1>2, <1>5, SumsNamed DEF MInv, Balanced, Used, Lost, Since
<1>7. Loaded' => Known'
  <2>1. Loaded => Known
    BY SumsNamed DEF MInv
  <2>2. Loaded' => Loaded
    BY <1>2, <1>3 DEF Loaded, At, Weighty
  <2>3. Known => Known'
    BY <1>5 DEF Known
  <2> QED
    BY <2>1, <2>2, <2>3
<1> QED
  BY <1>1, <1>4, <1>6, <1>7, SumsNamedNext DEF MInv

LEMMA Spending ==
  ASSUME left \in Cap,
         NEW what \in {"posts", "embeddings", "credits", "edits", "deletes", "asks", "days", "misses",
                        "faults"}, Spend(what)
  PROVE  left' \in Cap
  BY DEF Spend, Cap

\* What every step of a request rests on.
LEMMA Holds ==
  ASSUME MInv, Types, NEW r \in Requests
  PROVE  /\ reqs[r] \in Request /\ left \in Cap /\ day \in 0..LastDay /\ reqs[r].day <= day
         /\ Idle.at = "idle" /\ Idle.day = 0
         /\ \A k \in Keys : auth[k] # None => key[k] # "unborn"
         /\ reqs[r].at # "idle" => reqs[r].key \in Keys /\ key[reqs[r].key] # "unborn"
         /\ ghost \in Ghost
         /\ UNCHANGED ghost => MoneyKept
  BY DEF MInv, Types, KeyInv, ClockInv, At, Idle, MoneyKept

\* A fault is remembered.
LEMMA FaultKept ==
  ASSUME Types, Fault
  PROVE  MoneyKept /\ ghost'.faulty /\ ghost'.asked = ghost.asked
  BY DEF Types, Fault, MoneyKept, Ghost

\* A judgement is of the quota only.
LEMMA JudgedKept ==
  ASSUME Types, NEW r, NEW limit, NEW remaining, NEW b \in BOOLEAN
  PROVE  LET j == Judged(r, limit, remaining) IN
         /\ j \in Ghost /\ j.crossed = ghost.crossed
         /\ ghost' = j => MoneyKept /\ ghost'.asked = ghost.asked
         /\ ghost' = [j EXCEPT !.crossed = b] =>
              /\ UNCHANGED <<ghost.base, ghost.past, ghost.goneCents, ghost.goneTokens, ghost.n, ghost.faulty,
                             ghost.asked>>
              /\ ghost'.crossed = b
         /\ ghost' = [j EXCEPT !.faulty = TRUE] =>
              MoneyKept /\ ghost'.faulty /\ ghost'.asked = ghost.asked
<1> DEFINE x == reqs[r].day = day /\ remaining <= 0 /\ limit > 0 /\ ghost.spent = 0
           y == ghost.refused \/ x
           j == Judged(r, limit, remaining)
<1>1. j = [ghost EXCEPT !.refused = y] /\ y \in BOOLEAN
  BY DEF Judged
<1> HIDE DEF x, y, j
<1>2. /\ j \in Ghost
      /\ j.crossed = ghost.crossed /\ j.faulty = ghost.faulty /\ j.base = ghost.base /\ j.past = ghost.past
      /\ j.goneCents = ghost.goneCents /\ j.goneTokens = ghost.goneTokens /\ j.n = ghost.n
      /\ j.asked = ghost.asked
  BY <1>1 DEF Types, Ghost
<1>3. ghost' = j => MoneyKept /\ ghost'.asked = ghost.asked
  BY <1>2 DEF MoneyKept
<1>4. ghost' = [j EXCEPT !.crossed = b] =>
        /\ UNCHANGED <<ghost.base, ghost.past, ghost.goneCents, ghost.goneTokens, ghost.n, ghost.faulty,
                       ghost.asked>>
        /\ ghost'.crossed = b
  BY <1>2 DEF Ghost
<1>5. ghost' = [j EXCEPT !.faulty = TRUE] =>
        MoneyKept /\ ghost'.faulty /\ ghost'.asked = ghost.asked
  BY <1>2 DEF Ghost, MoneyKept
<1> QED
  BY <1>2, <1>3, <1>4, <1>5 DEF j

-----------------------------------------------------------------------------
(* The steps of a request.                                                 *)

LEMMA AuthMoney ==
  ASSUME MInv, Types, NEW r \in Requests, Auth(r), UNCHANGED <<key, channel, day, pageVars>>
  PROVE  MInv'
<1>1. reqs[r].at = "idle" /\ UNCHANGED <<user, redisVars, records, ghost>> /\ left' \in Cap
  BY Holds, Spending DEF Auth, At
<1>2. ASSUME NEW k \in Keys, NEW q, reqs' = [reqs EXCEPT ![r] = q], q.at \in {"balance", "fill"},
             q.key = k, q.day = 0, key[k] # "unborn"
      PROVE  MInv'
  <2>1. Onward(r, q)
    BY <1>1, <1>2, Holds DEF Onward, redisVars
  <2> QED
    BY <1>1, <1>2, <2>1, Holds, QuietStep DEF Weighty, redisVars
<1>3. PICK k \in Keys :
        \/ /\ auth[k] # None
           /\ reqs' = [reqs EXCEPT ![r] = [Idle EXCEPT !.at = "balance", !.key = k, !.tier = auth[k]]]
        \/ /\ auth[k] = None /\ key[k] = "live"
           /\ reqs' = [reqs EXCEPT ![r] = [Idle EXCEPT !.at = "fill", !.key = k, !.tier = user.tier]]
  BY DEF Auth
<1>4. key[k] # "unborn"
  BY <1>3, Holds
<1> DEFINE p == [Idle EXCEPT !.at = "balance", !.key = k, !.tier = auth[k]]
           q == [Idle EXCEPT !.at = "fill", !.key = k, !.tier = user.tier]
<1>5. p.at = "balance" /\ p.key = k /\ p.day = 0 /\ q.at = "fill" /\ q.key = k /\ q.day = 0
  BY DEF Idle
<1>6. reqs' = [reqs EXCEPT ![r] = p] \/ reqs' = [reqs EXCEPT ![r] = q]
  BY <1>3
<1> HIDE DEF p, q
<1> QED
  BY <1>2, <1>4, <1>5, <1>6

\* A request that is under way goes on with the same key and day, or leaves.
LEMMA GoesOn ==
  ASSUME MInv, Types, NEW r \in Requests, NEW step \in Steps, reqs[r].at # "idle",
         UNCHANGED <<auth, key, channel, day, pageVars>>, left' \in Cap, ghost'.asked = ghost.asked
  PROVE  /\ Leave(r) => Onward(r, Idle)
         /\ Goto(r, step) => Onward(r, [reqs[r] EXCEPT !.at = step]) /\ [reqs[r] EXCEPT !.at = step].at = step
<1>1. day \in Nat
  BY DEF Types
<1> QED
  BY <1>1, Holds DEF Onward, Leave, Goto, Request

LEMMA QuietMove ==
  ASSUME MInv, Types, NEW r \in Requests, NEW step \in Steps \ Weighty, reqs[r].at \notin Weighty \cup {"idle"},
         Goto(r, step) \/ Leave(r),
         UNCHANGED <<user, redisVars, records, key, channel, day, pageVars>>, left' \in Cap,
         MoneyKept, ghost'.asked = ghost.asked
  PROVE  MInv'
<1>1. CASE Leave(r)
  BY <1>1, Holds, GoesOn, QuietStep DEF Weighty, redisVars
<1>2. CASE Goto(r, step)
  <2> DEFINE q == [reqs[r] EXCEPT !.at = step]
  <2>1. Onward(r, q) /\ q.at = step
    BY <1>2, GoesOn DEF redisVars
  <2> HIDE DEF q
  <2> QED
    BY <2>1, QuietStep DEF redisVars
<1> QED
  BY <1>1, <1>2

LEMMA FillMoney ==
  ASSUME MInv, Types, NEW r \in Requests, Fill(r), UNCHANGED <<key, channel, day, pageVars>>
  PROVE  MInv'
<1> DEFINE q == [reqs[r] EXCEPT !.at = "balance"]
<1>1. /\ reqs[r].at = "fill" /\ reqs' = [reqs EXCEPT ![r] = q]
      /\ auth' = [auth EXCEPT ![reqs[r].key] = reqs[r].tier]
      /\ UNCHANGED <<user, count, limitOf, records, left, ghost>>
  BY DEF Fill, At, Goto
<1>2. q.at = "balance" /\ q.key = reqs[r].key /\ q.day = reqs[r].day
  BY Holds DEF Request
<1>3. \A k \in Keys : auth'[k] # None => key[k] # "unborn"
  BY <1>1, Holds DEF Types
<1> HIDE DEF q
<1>4. Onward(r, q)
  BY <1>1, <1>2, <1>3, Holds DEF Onward
<1> QED
  BY <1>1, <1>2, <1>4, Holds, QuietStep DEF Weighty

LEMMA BalanceMoney ==
  ASSUME MInv, Types, NEW r \in Requests, CheckBalance(r), UNCHANGED <<key, channel, day, pageVars>>
  PROVE  MInv'
<1>1. reqs[r].at = "balance" /\ UNCHANGED <<user, redisVars, records, left, ghost>>
  BY DEF CheckBalance, At
<1>2. {"serve", "count"} \subseteq Steps \ Weighty /\ reqs[r].at \notin Weighty \cup {"idle"}
  BY <1>1 DEF Steps, Weighty
<1>3. MoneyKept /\ ghost'.asked = ghost.asked
  BY <1>1, Holds
<1>4. CASE Goto(r, "serve") \/ Goto(r, "count") \/ Leave(r)
  BY <1>1, <1>2, <1>3, <1>4, Holds, QuietMove
<1>5. ASSUME NEW n \in Sizes, NEW b,
             reqs' = [reqs EXCEPT ![r].at = "count", ![r].size = n, ![r].checked = b]
      PROVE  MInv'
  <2> DEFINE q == [reqs[r] EXCEPT !.at = "count", !.size = n, !.checked = b]
  <2>1. reqs' = [reqs EXCEPT ![r] = q] /\ q.at = "count" /\ q.key = reqs[r].key /\ q.day = reqs[r].day
    BY <1>5, Holds DEF Request, Types
  <2> HIDE DEF q
  <2>2. Onward(r, q)
    BY <1>1, <1>3, <2>1, Holds DEF Onward, redisVars
  <2> QED
    BY <1>1, <1>2, <1>3, <2>1, <2>2, QuietStep DEF redisVars
<1> QED
  BY <1>4, <1>5 DEF CheckBalance

LEMMA EmbeddingsMoney ==
  ASSUME MInv, Types, NEW r \in Requests, Embeddings(r), UNCHANGED <<key, channel, day, pageVars>>
  PROVE  MInv'
<1>1. /\ reqs[r].at = "balance" /\ UNCHANGED <<user, redisVars, records, ghost>> /\ Goto(r, "serve")
      /\ left' \in Cap
  BY Holds, Spending DEF Embeddings, At
<1>2. "serve" \in Steps \ Weighty /\ reqs[r].at \notin Weighty \cup {"idle"}
  BY <1>1 DEF Steps, Weighty
<1> QED
  BY <1>1, <1>2, Holds, QuietMove

LEMMA GetCountMoney ==
  ASSUME MInv, Types, NEW r \in Requests, GetCount(r), UNCHANGED <<key, channel, day, pageVars>>
  PROVE  MInv'
<1> DEFINE q == [reqs[r] EXCEPT !.at = "limit", !.used = OrZero(count), !.day = day]
<1>1. reqs[r].at = "count" /\ UNCHANGED <<user, redisVars, records, left, ghost>> /\ reqs' = [reqs EXCEPT ![r] = q]
  BY DEF GetCount, At
<1>2. q.at = "limit" /\ q.key = reqs[r].key /\ q.day = day /\ day <= day
  BY Holds DEF Request
<1> HIDE DEF q
<1>3. Onward(r, q)
  BY <1>1, <1>2, Holds DEF Onward, redisVars
<1> QED
  BY <1>1, <1>2, <1>3, Holds, QuietStep DEF Weighty, redisVars

LEMMA GetLimitMoney ==
  ASSUME MInv, Types, NEW r \in Requests, GetLimit(r), UNCHANGED <<key, channel, day, pageVars>>
  PROVE  MInv'
<1>1. reqs[r].at = "limit" /\ UNCHANGED <<user, redisVars, records, left>>
  BY DEF GetLimit, At
<1>2. Goto(r, "serve") \/ Goto(r, "select") \/ Leave(r)
  BY DEF GetLimit, Decide
<1>3. MoneyKept /\ ghost'.asked = ghost.asked
  <2>1. ghost' = Judged(r, limitOf[KeyDay(r)], limitOf[KeyDay(r)] - reqs[r].used) \/ UNCHANGED ghost
    BY DEF GetLimit
  <2>2. ASSUME NEW l, NEW m, ghost' = Judged(r, l, m) PROVE MoneyKept /\ ghost'.asked = ghost.asked
    <3>1. TRUE \in BOOLEAN
      OBVIOUS
    <3> QED
      BY <2>2, <3>1, JudgedKept
  <2> QED
    BY <2>1, <2>2, Holds
<1>4. {"serve", "select"} \subseteq Steps \ Weighty /\ reqs[r].at \notin Weighty \cup {"idle"}
  BY <1>1 DEF Steps, Weighty
<1> QED
  BY <1>1, <1>2, <1>3, <1>4, Holds, QuietMove

LEMMA SelectMoney ==
  ASSUME MInv, Types, NEW r \in Requests, Select(r), UNCHANGED <<key, channel, day, pageVars>>
  PROVE  MInv'
<1> DEFINE q == [reqs[r] EXCEPT !.at = "setlimit", !.limit = user.quota, !.used = user.used]
<1>1. reqs[r].at = "select" /\ UNCHANGED <<user, redisVars, records, left, ghost>> /\ reqs' = [reqs EXCEPT ![r] = q]
  BY DEF Select, At
<1>2. q.at = "setlimit" /\ q.key = reqs[r].key /\ q.day = reqs[r].day
  BY Holds DEF Request
<1> HIDE DEF q
<1>3. Onward(r, q)
  BY <1>1, <1>2, Holds DEF Onward, redisVars
<1> QED
  BY <1>1, <1>2, <1>3, Holds, QuietStep DEF Weighty, redisVars

LEMMA ServeMoney ==
  ASSUME MInv, Types, NEW r \in Requests, Serve(r), UNCHANGED <<key, channel, day, pageVars>>
  PROVE  MInv'
<1>1. reqs[r].at = "serve" /\ UNCHANGED <<user, redisVars, records, left, ghost>>
  BY DEF Serve, At
<1>2. CASE Leave(r)
  <2>1. "serve" \in Steps \ Weighty
    BY DEF Steps, Weighty
  <2> QED
    BY <1>1, <1>2, <2>1, Holds, QuietMove DEF Weighty
<1>3. ASSUME NEW n \in Sizes, reqs' = [reqs EXCEPT ![r].at = "charge", ![r].size = n]
      PROVE  MInv'
  <2> DEFINE q == [reqs[r] EXCEPT !.at = "charge", !.size = n]
  <2>1. reqs' = [reqs EXCEPT ![r] = q] /\ q.at = "charge" /\ q.key = reqs[r].key /\ q.day = reqs[r].day
    BY <1>3, Holds DEF Request, Types
  <2> HIDE DEF q
  <2>2. Onward(r, q)
    BY <1>1, <2>1, Holds DEF Onward, redisVars
  <2> QED
    BY <1>1, <2>1, <2>2, Holds, QuietStep DEF Weighty, redisVars
<1> QED
  BY <1>2, <1>3 DEF Serve

\* The limit of a day is loaded together with the counter, which comes next.
LEMMA SetLimitMoney ==
  ASSUME MInv, Types, NEW r \in Requests, SetLimit(r), UNCHANGED <<key, channel, day, pageVars>>
  PROVE  MInv'
<1> DEFINE q == [reqs[r] EXCEPT !.at = "setcount"]
<1>1. reqs[r].at = "setlimit" /\ UNCHANGED <<user, auth, count, records>> /\ reqs' = [reqs EXCEPT ![r] = q]
  BY DEF SetLimit, At, Goto
<1>2. q.at = "setcount" /\ q.key = reqs[r].key /\ q.day = reqs[r].day
  BY Holds DEF Request
<1> HIDE DEF q
<1>3. MoneyKept /\ ghost'.asked = ghost.asked /\ left' \in Cap
  BY Holds, FaultKept, Spending DEF SetLimit, Fault
<1>4. Onward(r, q)
  BY <1>1, <1>2, <1>3, Holds DEF Onward
<1>5. UNCHANGED limitOf \/ (\E d \in 0..LastDay, n \in Nat : d <= day /\ limitOf' = [limitOf EXCEPT ![d] = n])
  <2>1. reqs[r].day \in Nat /\ reqs[r].limit \in Nat /\ reqs[r].day <= day /\ day \in 0..LastDay
    BY Holds DEF Request
  <2>2. reqs[r].day \in 0..LastDay
    BY <2>1, LedgerAssumption
  <2>3. UNCHANGED limitOf \/ limitOf' = [limitOf EXCEPT ![reqs[r].day] = reqs[r].limit]
    BY DEF SetLimit, KeyDay
  <2> QED
    BY <2>1, <2>2, <2>3
<1>6. KeyInv' /\ ClockInv' /\ PageInv'
  BY <1>4, <1>5, OnwardKeeps
<1>7. /\ DOMAIN reqs = Requests /\ UNCHANGED <<key, channel, day>>
      /\ UNCHANGED <<ghost.base, ghost.past, ghost.goneCents, ghost.goneTokens, ghost.n>>
      /\ ghost.faulty => ghost'.faulty
  BY <1>3 DEF Types, MoneyKept
<1>8. \A o \in Requests, s \in {"record", "publish"} :
        /\ reqs'[o].at = s <=> reqs[o].at = s
        /\ reqs'[o].at = s => reqs'[o] = reqs[o]
  BY <1>1, <1>2, <1>7
<1>9. NumberInv'
  BY <1>1, <1>7, <1>8 DEF MInv, NumberInv, Charged, At
<1>10. Due' = Due
  BY <1>1, <1>7, <1>8 DEF Due, DueOf, At
<1>11. Balanced' /\ Used' /\ Lost'
  BY <1>1, <1>7, <1>10, SumsNamed DEF MInv, Balanced, Used, Lost, Since
<1>12. ~Loaded'
  BY <1>1, <1>2, <1>7 DEF Loaded, At
<1> QED
  BY <1>6, <1>9, <1>11, <1>12, SumsNamedNext DEF MInv

\* When the counter is written it is what was used, unless a charge came in between; what is
\* owed besides only adds to it.
LEMMA SetCountMoney ==
  ASSUME MInv, Types, NEW r \in Requests, SetCount(r), UNCHANGED <<key, channel, day, pageVars>>
  PROVE  MInv'
<1>1. reqs[r].at = "setcount" /\ UNCHANGED <<user, auth, limitOf, records>>
  BY DEF SetCount, At
<1> DEFINE remaining == reqs[r].limit - reqs[r].used
           j == Judged(r, reqs[r].limit, remaining)
           x == j.crossed \/ user.used # reqs[r].used
<1>2. x \in BOOLEAN
  OBVIOUS
<1>3. \/ count' = reqs[r].used /\ ghost' = [j EXCEPT !.crossed = x] /\ UNCHANGED left
      \/ Spend("faults") /\ UNCHANGED count /\ ghost' = [j EXCEPT !.faulty = TRUE]
  BY DEF SetCount
<1>4. PICK q : reqs' = [reqs EXCEPT ![r] = q] /\ (q = Idle \/ q = [reqs[r] EXCEPT !.at = "serve"])
  BY DEF SetCount, Decide, Leave, Goto
<1>5. q.at \in {"serve", "idle"} /\ q.day <= day /\ (q.at # "idle" => q.key = reqs[r].key)
  <2>1. day \in Nat
    BY DEF Types
  <2> QED
    BY <1>4, <2>1, Holds DEF Request
<1>6. /\ UNCHANGED <<ghost.base, ghost.past, ghost.goneCents, ghost.goneTokens, ghost.n, ghost.asked>>
      /\ ghost.faulty => ghost'.faulty
      /\ ghost'.faulty \/ (count' = reqs[r].used /\ ghost'.crossed = x)
  <2>1. CASE ghost' = [j EXCEPT !.crossed = x] /\ count' = reqs[r].used
    <3> HIDE DEF x
    <3> QED
      BY <1>2, <2>1, JudgedKept
  <2>2. CASE ghost' = [j EXCEPT !.faulty = TRUE]
    <3> HIDE DEF x
    <3> QED
      BY <1>2, <2>2, JudgedKept DEF MoneyKept
  <2> QED
    BY <1>3, <2>1, <2>2
<1>7. left' \in Cap
  BY <1>3, Holds, Spending
<1>8. Onward(r, q)
  BY <1>1, <1>4, <1>5, <1>6, <1>7, Holds DEF Onward
<1>9. KeyInv' /\ ClockInv' /\ PageInv'
  BY <1>1, <1>8, OnwardKeeps
<1>10. DOMAIN reqs = Requests
  BY DEF Types
<1>11. \A o \in Requests, s \in {"record", "publish"} :
        /\ reqs'[o].at = s <=> reqs[o].at = s
        /\ reqs'[o].at = s => reqs'[o] = reqs[o]
  BY <1>1, <1>4, <1>5, <1>10
<1>12. NumberInv'
  BY <1>1, <1>6, <1>11 DEF MInv, NumberInv, Charged, At
<1>13. Due' = Due /\ Owed' = Owed
  BY <1>11 DEF Due, DueOf, Owed, OwedOf, At
<1>14. Balanced' /\ Used' /\ Lost'
  BY <1>1, <1>6, <1>13, SumsNamed DEF MInv, Balanced, Used, Lost, Since
<1>15. Loaded' => Known'
  <2> SUFFICES ASSUME Loaded' PROVE Known'
    OBVIOUS
  <2>1. count' = user.used
    BY <1>6 DEF Loaded
  <2>2. TokensOf(Owed) \in Nat
    BY DueType, TokensSum
  <2>3. user.used \in Nat /\ user.used # None
    BY LedgerAssumption DEF Types, Row
  <2> QED
    BY <1>1, <1>13, <2>1, <2>2, <2>3 DEF Known
<1> QED
  BY <1>9, <1>12, <1>14, <1>15, SumsNamedNext DEF MInv

\* A charge, with a number of its own, becomes due, and owed to the counter.
LEMMA ChargeMoney ==
  ASSUME MInv, Types, NEW r \in Requests, Charge(r), UNCHANGED <<key, channel, day, pageVars>>
  PROVE  MInv'
<1>1. reqs[r].at = "charge" /\ UNCHANGED <<redisVars, records>>
  BY DEF Charge, At
<1>2. CASE Fault /\ Leave(r) /\ UNCHANGED user
  <2>1. MoneyKept /\ ghost'.asked = ghost.asked /\ left' \in Cap
    BY <1>2, Holds, FaultKept, Spending DEF Fault
  <2>2. "charge" \in Steps \ Weighty
    BY DEF Steps, Weighty
  <2> QED
    BY <1>1, <1>2, <2>1, <2>2, QuietMove DEF Weighty
<1> DEFINE n == reqs[r].size
<1>3. ASSUME NEW c \in Nat, NEW w \in Nat, Pays(r, c, w), UNCHANGED left \/ Spend("misses")
      PROVE  MInv'
  <2> DEFINE q == [reqs[r] EXCEPT !.at = "record", !.cents = c, !.after = user.balance - c, !.n = ghost.n + 1]
  <2>1. n \in Nat /\ left' \in Cap
    BY <1>3, Holds, Spending DEF Request
  <2>2. /\ user.balance \in Int /\ user.used \in Nat /\ ghost.n \in Nat
        /\ user'.balance = user.balance - c /\ user'.used = user.used + n
    BY <1>3 DEF Pays, Types, Row, Ghost
  <2>r. reqs' = [reqs EXCEPT ![r] = q]
    BY <1>3 DEF Pays
  <2>3. /\ ghost'.n = ghost.n + 1
        /\ UNCHANGED <<ghost.base, ghost.past, ghost.goneCents, ghost.goneTokens, ghost.asked, ghost.crossed,
                       ghost.faulty>>
    BY <1>3, Holds DEF Pays, Ghost
  <2>4. /\ q.at = "record" /\ q.key = reqs[r].key /\ q.day = reqs[r].day /\ q.size = n /\ q.cents = c
        /\ q.n = ghost.n + 1
    BY Holds DEF Request
  <2>5. DOMAIN reqs = Requests
    BY DEF Types
  <2> HIDE DEF q, n
  <2>6. Onward(r, q)
    BY <1>1, <2>r, <2>1, <2>3, <2>4, Holds DEF Onward, redisVars
  <2>7. KeyInv' /\ ClockInv' /\ PageInv'
    BY <1>1, <2>6, OnwardKeeps DEF redisVars
  <2>8. \A o \in Requests : reqs'[o] = IF o = r THEN q ELSE reqs[o]
    BY <2>r, <2>5
  <2>9. ghost.past \in Nat
    BY Holds DEF Ghost
  <2>10. NumberInv'
    <3>1. \A o \in Requests : Charged(o)' => reqs'[o].n \in 1..ghost'.n
                                             /\ (o # r => Charged(o) /\ reqs'[o].n = reqs[o].n /\ reqs[o].n <= ghost.n)
      BY <2>2, <2>3, <2>4, <2>8 DEF MInv, NumberInv, Charged, At
    <3>2. \A o \in Requests : o # r => reqs'[o] = reqs[o]
      BY <2>8
    <3>3. reqs'[r].n = ghost.n + 1
      BY <2>4, <2>8
    <3>4. \A o, p \in Requests : Charged(o)' /\ Charged(p)' /\ reqs'[o].n = reqs'[p].n => o = p
      BY <2>2, <3>1, <3>3 DEF MInv, NumberInv
    <3>5. \A x \in records : x.n <= ghost'.n /\ x.n # ghost.n + 1 /\ x.n <= ghost.n
      BY <2>2, <2>3 DEF MInv, NumberInv, Record
    <3>6. \A o \in Requests, x \in records : At(o, "record")' => x.n # reqs'[o].n
      BY <3>2, <3>3, <3>5 DEF MInv, NumberInv, At
    <3>7. ghost'.past <= ghost'.n
      BY <2>2, <2>3, <2>9 DEF MInv, NumberInv
    <3> QED
      BY <1>1, <3>1, <3>4, <3>5, <3>6, <3>7 DEF MInv, NumberInv
  <2> DEFINE d == [n |-> ghost.n + 1, tokens |-> n, cents |-> c]
             o1 == [n |-> ghost.n + 1, tokens |-> n]
  <2>11. Due' = Due \cup {d}
    BY <1>1, <2>4, <2>8 DEF Due, DueOf, At
  <2>12. Owed' = Owed \cup {o1}
    BY <1>1, <2>4, <2>8 DEF Owed, OwedOf, At
  <2>13. d \notin Due /\ o1 \notin Owed
    <3>1. \A o \in Requests : Charged(o) => reqs[o].n # ghost.n + 1
      BY <2>2 DEF MInv, NumberInv
    <3>2. \A x \in Due \cup Owed : x.n # ghost.n + 1
      BY <3>1 DEF Due, DueOf, Owed, OwedOf, Charged
    <3> QED
      BY <3>2
  <2>14. /\ d.n > ghost.past /\ d.tokens = n /\ d.cents = c /\ o1.tokens = n
    BY <2>2, <2>9 DEF MInv, NumberInv
  <2> HIDE DEF d, o1
  <2>15. /\ TokensOf(Due) \in Nat /\ TokensOf(Due') = TokensOf(Due) + n
         /\ TokensOf(Owed) \in Nat /\ TokensOf(Owed') = TokensOf(Owed) + n
    BY <1>3, <2>1, <2>11, <2>12, <2>13, <2>14, DueType, TokensSum
  <2>16. CentsOf(Since(Due)) \in Nat /\ CentsOf(Since(Due')) = CentsOf(Since(Due)) + c
    BY <1>3, <2>1, <2>11, <2>13, <2>14, DueType, SinceType, SinceSum
  <2>17. Since(Due)' = Since(Due') /\ Since(records)' = Since(records)
    BY <1>1, <2>3 DEF Since
  <2>18. /\ CentsOf(Since(records)) \in Nat /\ TokensOf(records) \in Nat
         /\ ghost.base \in Int /\ ghost.goneCents \in Nat /\ ghost.goneTokens \in Nat
    BY Holds, SinceType, TokensSum DEF MInv, NumberInv, Record, Ghost
  <2>19. Balanced'
    BY <2>1, <2>2, <2>3, <2>16, <2>17, <2>18, SumsNamed DEF MInv, Balanced
  <2>20. Used' /\ Lost'
    BY <1>1, <2>1, <2>2, <2>3, <2>15, <2>18, SumsNamed DEF MInv, Used, Lost
  <2>21. Loaded' => Known'
    <3>1. Loaded' => Loaded
      BY <1>1, <2>3, <2>4, <2>8 DEF Loaded, At, redisVars
    <3>2. Known => Known'
      <4>1. count # None => count \in Nat
        BY DEF Types
      <4> QED
        BY <1>1, <2>1, <2>2, <2>15, <4>1 DEF Known, redisVars
    <3> QED
      BY <3>1, <3>2, SumsNamed DEF MInv
  <2> QED
    BY <2>7, <2>10, <2>19, <2>20, <2>21, SumsNamedNext DEF MInv
<1> QED
  BY <1>2, <1>3, ChargeCases

\* What is due is recorded, or is gone without a record: when the database fails, or when the
\* key or the channel was deleted since the request came with it.
LEMMA RecordMoney ==
  ASSUME MInv, Types, NEW r \in Requests, RecordIt(r), UNCHANGED <<key, channel, day, pageVars>>
  PROVE  MInv'
<1> DEFINE q == [reqs[r] EXCEPT !.at = "publish"]
           e == Entry(r)
           d == DueOf(r)
<1>1. reqs[r].at = "record" /\ UNCHANGED <<user, redisVars>> /\ reqs' = [reqs EXCEPT ![r] = q]
  BY DEF RecordIt, At, Goto
<1>2. /\ q.at = "publish" /\ q.key = reqs[r].key /\ q.day = reqs[r].day /\ q.n = reqs[r].n
      /\ q.size = reqs[r].size
  BY Holds DEF Request
<1>3. /\ reqs[r].n \in Nat /\ reqs[r].size \in Nat /\ reqs[r].cents \in Nat /\ reqs[r].after \in Int
      /\ day \in Nat /\ reqs[r].key \in Keys /\ key[reqs[r].key] # "unborn"
  BY <1>1, Holds DEF Request, Types
<1>4. /\ e \in Record /\ e.n = reqs[r].n /\ e.tokens = reqs[r].size /\ e.cents = reqs[r].cents
      /\ d.n = reqs[r].n /\ d.tokens = reqs[r].size /\ d.cents = reqs[r].cents
  BY <1>3 DEF Entry, Record, DueOf
<1>5. ghost.goneTokens \in Nat /\ ghost.goneCents \in Nat /\ ghost.past \in Nat /\ ghost.base \in Int
      /\ user.balance \in Int /\ user.used \in Nat
  BY DEF Types, Ghost, Row
<1> DEFINE Recorded == records' = records \cup {e} /\ UNCHANGED ghost
           Gone ==
             /\ UNCHANGED records
             /\ ghost'.goneTokens = ghost.goneTokens + reqs[r].size
             /\ ghost'.goneCents = IF reqs[r].n > ghost.past THEN ghost.goneCents + reqs[r].cents ELSE ghost.goneCents
             /\ UNCHANGED <<ghost.base, ghost.past, ghost.n, ghost.crossed, ghost.asked>>
             /\ ghost.faulty => ghost'.faulty
             /\ ghost'.faulty \/ key[reqs[r].key] # "live" \/ channel # "live"
<1>6. left' \in Cap /\ (Recorded \/ Gone)
  <2>1. CASE records' = records \cup {Entry(r)} /\ UNCHANGED <<left, ghost>>
    BY <2>1, Holds
  <2>2. ASSUME ghost' = Omitted(r) \/ ghost' = [Omitted(r) EXCEPT !.faulty = TRUE]
        PROVE  /\ ghost'.goneTokens = ghost.goneTokens + reqs[r].size
               /\ ghost'.goneCents = IF reqs[r].n > ghost.past THEN ghost.goneCents + reqs[r].cents ELSE ghost.goneCents
               /\ UNCHANGED <<ghost.base, ghost.past, ghost.n, ghost.crossed, ghost.asked>>
               /\ ghost.faulty => ghost'.faulty
               /\ ghost' = [Omitted(r) EXCEPT !.faulty = TRUE] => ghost'.faulty
    BY <2>2, Holds DEF Omitted, Ghost
  <2>3. CASE (key[reqs[r].key] # "live" \/ channel # "live") /\ ghost' = Omitted(r) /\ UNCHANGED <<left, records>>
    BY <2>2, <2>3, Holds
  <2>4. CASE Spend("faults") /\ ghost' = [Omitted(r) EXCEPT !.faulty = TRUE] /\ UNCHANGED records
    BY <2>2, <2>4, Holds, Spending
  <2> QED
    BY <2>1, <2>3, <2>4 DEF RecordIt
<1> HIDE DEF q, e, d
<1>7. Onward(r, q)
  BY <1>1, <1>2, <1>6, Holds DEF Onward, redisVars
<1>8. KeyInv' /\ ClockInv' /\ PageInv'
  BY <1>1, <1>7, OnwardKeeps DEF redisVars
<1>9. \A o \in Requests : reqs'[o] = IF o = r THEN q ELSE reqs[o]
  BY <1>1 DEF Types
<1>10. ghost'.n = ghost.n /\ ghost'.past = ghost.past /\ ghost'.base = ghost.base
  BY <1>6
<1>11. /\ IsFiniteSet(records) /\ \A x \in records : x \in Record /\ x.tokens \in Nat /\ x.cents \in Nat
       /\ \A x \in records : x.n # reqs[r].n
       /\ reqs[r].n <= ghost.n
  BY <1>1 DEF MInv, NumberInv, Record, At, Charged
<1>12. IsFiniteSet(records') /\ records' \in {records, records \cup {e}}
  BY <1>6, <1>11, FS_AddElement
<1>13. NumberInv'
  <2>1. \A o \in Requests : (Charged(o)' <=> Charged(o)) /\ reqs'[o].n = reqs[o].n
    BY <1>1, <1>2, <1>9 DEF Charged, At
  <2>2. \A x \in records' : x \in Record /\ x.n <= ghost'.n
    BY <1>4, <1>10, <1>11, <1>12 DEF MInv, NumberInv
  <2>3. \A o \in Requests : At(o, "record")' => At(o, "record") /\ o # r /\ reqs'[o].n # reqs[r].n
    BY <1>1, <1>2, <1>9 DEF MInv, NumberInv, At, Charged
  <2>4. \A o \in Requests, x \in records' : At(o, "record")' => x.n # reqs'[o].n
    BY <1>4, <1>12, <2>1, <2>3 DEF MInv, NumberInv
  <2> QED
    BY <1>10, <1>12, <2>1, <2>2, <2>4 DEF MInv, NumberInv
<1>14. Due = Due' \cup {d} /\ d \notin Due' /\ Due' \subseteq Due
  <2>1. \A o \in Requests : At(o, "record")' <=> At(o, "record") /\ o # r
    BY <1>1, <1>2, <1>9 DEF At
  <2>2. \A o \in Requests : At(o, "record")' => DueOf(o)' = DueOf(o) /\ DueOf(o).n # reqs[r].n
    BY <1>1, <1>9, <2>1 DEF DueOf, MInv, NumberInv, Charged, At
  <2>3. Due' = {DueOf(o)' : o \in {p \in Requests : At(p, "record")'}}
    BY DEF Due
  <2>4. At(r, "record")
    BY <1>1 DEF At
  <2>5. Due' = {DueOf(o) : o \in {p \in Requests : At(p, "record") /\ p # r}}
    BY <2>1, <2>2, <2>3
  <2> QED
    BY <1>4, <2>1, <2>2, <2>4, <2>5 DEF Due, d
<1>15. Owed' = Owed
  BY <1>1, <1>2, <1>9 DEF Owed, OwedOf, At
<1>16. IsFiniteSet(Due') /\ \A x \in Due' : x.tokens \in Nat /\ x.cents \in Nat
  BY <1>14, DueType, FS_Subset
<1>17. TokensOf(Due') \in Nat /\ TokensOf(Due) = TokensOf(Due') + reqs[r].size
  BY <1>3, <1>4, <1>14, <1>16, TokensSum
<1> DEFINE w == IF reqs[r].n > ghost.past THEN reqs[r].cents ELSE 0
<1>18. CentsOf(Since(Due')) \in Nat /\ CentsOf(Since(Due)) = CentsOf(Since(Due')) + w
  BY <1>3, <1>4, <1>14, <1>16, SinceType, SinceSum
<1>19. /\ Since(Due)' = Since(Due') /\ Since(records)' = Since(records')
       /\ CentsOf(Since(records)) \in Nat /\ TokensOf(records) \in Nat /\ w \in Nat
  BY <1>3, <1>10, <1>11, SinceType, TokensSum DEF Since
<1>20. CASE Recorded
  <2>1. e \notin records
    BY <1>4, <1>11
  <2>2. TokensOf(records') = TokensOf(records) + reqs[r].size
    BY <1>3, <1>4, <1>11, <1>20, <2>1, TokensSum
  <2>3. CentsOf(Since(records')) = CentsOf(Since(records)) + w
    BY <1>3, <1>4, <1>11, <1>20, <2>1, SinceSum
  <2> HIDE DEF w
  <2>4. Balanced' /\ Used' /\ Lost'
    BY <1>1, <1>3, <1>5, <1>7, <1>17, <1>18, <1>19, <1>20, <2>2, <2>3, SumsNamed
       DEF MInv, Balanced, Used, Lost, Onward
  <2>5. Loaded' => Known'
    BY <1>1, <1>2, <1>7, <1>9, <1>15, <1>20, SumsNamed DEF MInv, Loaded, Known, At, Onward, redisVars
  <2> QED
    BY <1>8, <1>13, <2>4, <2>5, SumsNamedNext DEF MInv
<1>21. CASE Gone
  <2>1. ghost'.goneCents = ghost.goneCents + w /\ Since(records') = Since(records)
    BY <1>3, <1>5, <1>21
  <2>2. Lost'
    BY <1>3, <1>7, <1>21 DEF Lost, MInv, KeyInv, Keyring, Onward
  <2> HIDE DEF w
  <2>3. Balanced'
    BY <1>1, <1>5, <1>10, <1>18, <1>19, <1>21, <2>1, SumsNamed DEF MInv, Balanced
  <2>4. Used'
    BY <1>1, <1>3, <1>5, <1>17, <1>19, <1>21, SumsNamed DEF MInv, Used
  <2>5. Loaded' => Known'
    BY <1>1, <1>2, <1>7, <1>9, <1>15, <1>21, SumsNamed DEF MInv, Loaded, Known, At, Onward, redisVars
  <2> QED
    BY <1>8, <1>13, <2>2, <2>3, <2>4, <2>5, SumsNamedNext DEF MInv
<1> QED
  BY <1>6, <1>20, <1>21

\* The counter is given what it was owed, or Redis failed.
LEMMA PublishMoney ==
  ASSUME MInv, Types, NEW r \in Requests, Publish(r), UNCHANGED <<key, channel, day, pageVars>>
  PROVE  MInv'
<1>1. /\ reqs[r].at = "publish" /\ UNCHANGED <<user, auth, limitOf, records>>
      /\ reqs' = [reqs EXCEPT ![r] = Idle]
  BY DEF Publish, At, Leave
<1>2. MoneyKept /\ ghost'.asked = ghost.asked /\ left' \in Cap
      /\ ((count' = OrZero(count) + reqs[r].size /\ UNCHANGED ghost) \/ ghost'.faulty)
  BY Holds, FaultKept, Spending DEF Publish, Added, Fault
<1>3. /\ UNCHANGED <<ghost.base, ghost.past, ghost.goneCents, ghost.goneTokens, ghost.n, ghost.crossed>>
      /\ ghost.faulty => ghost'.faulty
  BY <1>2 DEF MoneyKept
<1>4. Onward(r, Idle)
  BY <1>1, <1>2, Holds DEF Onward
<1>5. KeyInv' /\ ClockInv' /\ PageInv'
  BY <1>1, <1>4, OnwardKeeps
<1>6. \A o \in Requests : reqs'[o] = IF o = r THEN Idle ELSE reqs[o]
  BY <1>1 DEF Types
<1>7. NumberInv'
  BY <1>1, <1>3, <1>6, Holds DEF MInv, NumberInv, Charged, At
<1>8. Due' = Due
  BY <1>1, <1>6, Holds DEF Due, DueOf, At
<1>9. Balanced' /\ Used' /\ Lost'
  BY <1>1, <1>3, <1>4, <1>8, SumsNamed DEF MInv, Balanced, Used, Lost, Since, Onward
<1> DEFINE d == OwedOf(r)
<1>10. reqs[r].size \in Nat /\ d.tokens = reqs[r].size /\ d.n = reqs[r].n
  BY Holds DEF Request, OwedOf
<1> HIDE DEF d
<1>11. Owed = Owed' \cup {d} /\ d \notin Owed' /\ Owed' \subseteq Owed
  <2>1. \A o \in Requests : Charged(o)' <=> Charged(o) /\ o # r
    BY <1>1, <1>6, Holds DEF Charged, At
  <2>2. \A o \in Requests : Charged(o)' => OwedOf(o)' = OwedOf(o) /\ OwedOf(o).n # reqs[r].n
    BY <1>1, <1>6, <2>1 DEF OwedOf, MInv, NumberInv, Charged, At
  <2>3. /\ Owed' = {OwedOf(o)' : o \in {p \in Requests : Charged(p)'}}
        /\ Owed = {OwedOf(o) : o \in {p \in Requests : Charged(p)}}
    BY DEF Owed, Charged
  <2>4. Charged(r)
    BY <1>1 DEF Charged, At
  <2>5. Owed' = {OwedOf(o) : o \in {p \in Requests : Charged(p) /\ p # r}}
    BY <2>1, <2>2, <2>3
  <2> QED
    BY <1>10, <2>1, <2>2, <2>3, <2>4, <2>5 DEF d
<1>12. IsFiniteSet(Owed') /\ \A x \in Owed' : x.tokens \in Nat
  BY <1>11, DueType, FS_Subset
<1>13. TokensOf(Owed') \in Nat /\ TokensOf(Owed) = TokensOf(Owed') + reqs[r].size
  BY <1>10, <1>11, <1>12, TokensSum
<1>14. Loaded' => Known'
  <2> SUFFICES ASSUME Loaded' PROVE Known'
    OBVIOUS
  <2>1. Loaded
    BY <1>1, <1>3, <1>4, <1>6 DEF Loaded, At, Onward
  <2>2. count # None /\ count + TokensOf(Owed) >= user.used /\ count \in Nat /\ user.used \in Nat
    BY <2>1, SumsNamed DEF MInv, Known, Types, Row
  <2>3. count' = count + reqs[r].size
    BY <1>2, <2>2 DEF OrZero, Loaded
  <2>4. count' \in Nat /\ count' # None
    BY <1>10, <2>2, <2>3, LedgerAssumption
  <2> QED
    BY <1>1, <1>10, <1>13, <2>2, <2>3, <2>4 DEF Known
<1> QED
  BY <1>5, <1>7, <1>9, <1>14, SumsNamedNext DEF MInv

LEMMA HandleMoney ==
  ASSUME MInv, Types, NEW r \in Requests, Handle(r)
  PROVE  MInv'
  BY AuthMoney, FillMoney, BalanceMoney, EmbeddingsMoney, GetCountMoney, GetLimitMoney, SelectMoney, SetLimitMoney,
     SetCountMoney, ServeMoney, ChargeMoney, RecordMoney, PublishMoney DEF Handle

-----------------------------------------------------------------------------
(* The other steps.                                                        *)

\* What a step that concerns no request must do to keep everything.
LEMMA AsideStep ==
  ASSUME MInv, Types, UNCHANGED <<reqs, records, limitOf>>,
         key' \in [Keys -> Keyring],
         \A k \in Keys : /\ key[k] # "unborn" => key'[k] # "unborn"
                         /\ key[k] = "deleted" => key'[k] = "deleted"
                         /\ auth'[k] # None => auth[k] # None \/ key'[k] # "unborn",
         channel' \in {channel, "deleted"},
         day' \in {day, day + 1}, day' \in 0..LastDay, left' \in Cap,
         UNCHANGED <<day, count>> \/ ~Loaded',
         user'.used = user.used, UNCHANGED <<ghost.goneTokens, ghost.n, ghost.crossed>>,
         ghost.faulty => ghost'.faulty,
         \/ UNCHANGED <<ghost.past, ghost.goneCents>> /\ \E c \in Int :
              user'.balance = user.balance + c /\ ghost'.base = ghost.base + c
         \/ ghost'.past = ghost.n /\ ghost'.goneCents = 0 /\ ghost'.base = user'.balance /\ user'.balance \in Int,
         PageInv'
  PROVE  MInv'
<1>1. KeyInv'
  BY DEF MInv, KeyInv, At
<1>2. /\ ghost.n \in Nat /\ ghost.past \in Nat /\ ghost.base \in Int /\ ghost.goneCents \in Nat
      /\ user.balance \in Int /\ day \in Nat
  BY DEF Types, Ghost, Row
<1>3. ClockInv'
  BY <1>2 DEF MInv, ClockInv, Types, Request
<1>4. NumberInv'
  BY <1>2 DEF MInv, NumberInv, Charged, At
<1>5. Due' = Due /\ Owed' = Owed
  BY DEF Due, DueOf, Owed, OwedOf, At
<1>6. Used' /\ Lost'
  BY <1>5, SumsNamed DEF MInv, Used, Lost
<1>7. /\ IsFiniteSet(records) /\ \A x \in records : x.n \in Nat /\ x.n <= ghost.n /\ x.cents \in Nat
  BY DEF MInv, NumberInv, Record
<1>8. Balanced'
  <2>1. ASSUME UNCHANGED <<ghost.past, ghost.goneCents>>, NEW c \in Int,
               user'.balance = user.balance + c, ghost'.base = ghost.base + c
        PROVE  Balanced'
    <3>1. Since(Due)' = Since(Due) /\ Since(records)' = Since(records)
      BY <1>5, <2>1 DEF Since
    <3>2. CentsOf(Since(Due)) \in Nat /\ CentsOf(Since(records)) \in Nat
      BY <1>7, DueType, SinceType
    <3> QED
      BY <1>2, <2>1, <3>1, <3>2, SumsNamed DEF MInv, Balanced
  <2>2. CASE ghost'.past = ghost.n /\ ghost'.goneCents = 0 /\ ghost'.base = user'.balance /\ user'.balance \in Int
    <3>1. \A x \in Due : x.n \in Nat /\ x.n <= ghost.n
      BY <1>2 DEF Due, DueOf, MInv, NumberInv, Charged
    <3>2. Since(Due)' = {} /\ Since(records)' = {}
      BY <1>2, <1>5, <1>7, <2>2, <3>1 DEF Since
    <3> QED
      BY <2>2, <3>2, EmptySum DEF Balanced
  <2> QED
    BY <2>1, <2>2
<1>9. Loaded' => Known'
  <2>1. CASE UNCHANGED <<day, count>>
    <3>1. Loaded' => Loaded
      BY <2>1 DEF Loaded, At
    <3>2. Known => Known'
      BY <1>5, <2>1 DEF Known
    <3> QED
      BY <3>1, <3>2, SumsNamed DEF MInv
  <2> QED
    BY <2>1
<1> QED
  BY <1>1, <1>3, <1>4, <1>6, <1>8, <1>9, SumsNamedNext DEF MInv

LEMMA HoldsAside ==
  ASSUME MInv, Types
  PROVE  /\ left \in Cap /\ day \in 0..LastDay /\ day \in Nat /\ key \in [Keys -> Keyring]
         /\ auth \in [Keys -> Tiers \cup {None}]
         /\ \A d \in 0..LastDay : d > day => limitOf[d] = None
         /\ user \in Row /\ user.balance \in Int /\ user.used \in Nat /\ ghost \in Ghost
         /\ ghost.n \in Nat /\ ghost.base \in Int
         /\ user.balance + 0 = user.balance /\ ghost.base + 0 = ghost.base
         /\ UNCHANGED pageVars => PageInv'
<1>1. UNCHANGED pageVars => PageInv'
  BY DEF MInv, PageInv, pageVars
<1>2. /\ user \in Row /\ user.balance \in Int /\ user.used \in Nat /\ ghost \in Ghost
      /\ ghost.n \in Nat /\ ghost.base \in Int /\ day \in Nat /\ auth \in [Keys -> Tiers \cup {None}]
  BY DEF Types, Row, Ghost
<1>3. /\ left \in Cap /\ day \in 0..LastDay /\ key \in [Keys -> Keyring]
      /\ \A d \in 0..LastDay : d > day => limitOf[d] = None
  BY DEF MInv, KeyInv, ClockInv
<1> QED
  BY <1>1, <1>2, <1>3

LEMMA ClockMoney ==
  ASSUME MInv, Types, NextDay \/ CountExpires \/ DeleteChannel
  PROVE  MInv'
<1>1. CASE NextDay
  <2>1. /\ day' = day + 1 /\ day < LastDay /\ ghost' = [ghost EXCEPT !.spent = 0]
        /\ left' \in Cap
        /\ UNCHANGED <<user, key, channel, auth, count, limitOf, reqs, records, pageVars>>
    BY <1>1, HoldsAside, Spending DEF NextDay, redisVars
  <2>2. day' \in 0..LastDay /\ day' > day
    BY <2>1, HoldsAside, LedgerAssumption
  <2>3. ~Loaded'
    BY <2>1, <2>2, HoldsAside DEF Loaded
  <2>4. UNCHANGED <<ghost.goneTokens, ghost.n, ghost.crossed, ghost.faulty, ghost.past, ghost.goneCents, ghost.base>>
    BY <2>1, HoldsAside DEF Ghost
  <2> QED
    BY <2>1, <2>2, <2>3, <2>4, HoldsAside, AsideStep
<1>2. CASE CountExpires
  <2>1. UNCHANGED <<user, key, channel, auth, limitOf, day, reqs, records, pageVars, left, ghost>>
    BY <1>2 DEF CountExpires
  <2>2. ~Loaded'
    BY <1>2, <2>1 DEF CountExpires, Loaded
  <2> QED
    BY <2>1, <2>2, HoldsAside, AsideStep
<1>3. CASE DeleteChannel
  <2>1. /\ channel' = "deleted" /\ left' \in Cap
        /\ UNCHANGED <<user, key, auth, count, limitOf, day, reqs, records, pageVars, ghost>>
    BY <1>3, HoldsAside, Spending DEF DeleteChannel, redisVars
  <2> QED
    BY <2>1, HoldsAside, AsideStep
<1> QED
  BY <1>1, <1>2, <1>3

LEMMA KeysMoney ==
  ASSUME MInv, Types, NEW k \in Keys, AuthExpires(k) \/ CreateKey(k) \/ DeleteKey(k)
  PROVE  MInv'
<1>1. UNCHANGED <<user, channel, count, limitOf, day, reqs, records, pageVars>>
  BY DEF AuthExpires, CreateKey, DeleteKey, redisVars
<1>2. left' \in Cap
  BY HoldsAside, Spending DEF AuthExpires, CreateKey, DeleteKey, Fault
<1>3. /\ UNCHANGED <<ghost.goneTokens, ghost.n, ghost.crossed, ghost.past, ghost.goneCents, ghost.base>>
      /\ ghost.faulty => ghost'.faulty
  BY FaultKept DEF AuthExpires, CreateKey, DeleteKey, MoneyKept
<1>4. /\ key' \in [Keys -> Keyring]
      /\ \A j \in Keys : /\ key[j] # "unborn" => key'[j] # "unborn"
                         /\ key[j] = "deleted" => key'[j] = "deleted"
                         /\ auth'[j] # None => auth[j] # None \/ key'[j] # "unborn"
  <2>1. CASE AuthExpires(k)
    BY <2>1, HoldsAside DEF AuthExpires
  <2>2. CASE CreateKey(k)
    <3>1. key' = [key EXCEPT ![k] = "live"] /\ key[k] = "unborn"
          /\ (UNCHANGED auth \/ \E t \in ghost.tiers : auth' = [auth EXCEPT ![k] = t])
      BY <2>2 DEF CreateKey
    <3> QED
      BY <3>1, HoldsAside DEF Keyring
  <2>3. CASE DeleteKey(k)
    BY <2>3, HoldsAside DEF DeleteKey, Keyring, redisVars
  <2> QED
    BY <2>1, <2>2, <2>3
<1> QED
  BY <1>1, <1>2, <1>3, <1>4, HoldsAside, AsideStep

\* A payment moves the balance and what explains it by the same amount.
LEMMA PaymentMoney ==
  ASSUME MInv, Types, Completed \/ Cancelled
  PROVE  MInv'
<1>1. /\ UNCHANGED <<key, channel, redisVars, day, reqs, records, pageVars>> /\ left' \in Cap
  BY HoldsAside, Spending DEF Completed, Cancelled
<1>2. PICK c \in Nat : \E u : /\ user' = u /\ u.balance = user.balance + c /\ u.used = user.used
                               /\ ghost' = Regarded(u, c)
  <2>1. ASSUME NEW c \in Deposits, NEW t \in Tiers, user' = Paid(c, t), ghost' = Regarded(Paid(c, t), c)
        PROVE  \E e \in Nat : \E u : /\ user' = u /\ u.balance = user.balance + e /\ u.used = user.used
                                      /\ ghost' = Regarded(u, e)
    <3>1. c \in Nat
      BY LedgerAssumption
    <3>2. Paid(c, t).balance = user.balance + c /\ Paid(c, t).used = user.used
      BY HoldsAside DEF Paid, Row
    <3> QED
      BY <2>1, <3>1, <3>2
  <2>2. CASE Cancelled
    <3> DEFINE u == [user EXCEPT !.quota = PlanQuota[Free], !.tier = Free]
    <3>1. user' = u /\ u.balance = user.balance /\ u.used = user.used
      BY <2>2, HoldsAside DEF Cancelled, Row
    <3>2. ghost' = Regarded(u, 0)
      BY <2>2 DEF Cancelled
    <3> HIDE DEF u
    <3> QED
      BY <3>1, <3>2, HoldsAside
  <2> QED
    BY <2>1, <2>2 DEF Completed
<1>2a. PICK u : /\ user' = u /\ u.balance = user.balance + c /\ u.used = user.used
                /\ ghost' = Regarded(u, c)
  BY <1>2
<1> DEFINE b == ghost.base + c
           t == ghost.tiers \cup {u.tier}
<1>3. ghost' = [ghost EXCEPT !.base = b, !.tiers = t, !.settled = FALSE]
  BY <1>2a, HoldsAside DEF Regarded, Ghost
<1> HIDE DEF b, t
<1>4. /\ UNCHANGED <<ghost.goneTokens, ghost.n, ghost.crossed, ghost.past, ghost.goneCents, ghost.faulty>>
      /\ ghost'.base = b
  BY <1>3, HoldsAside DEF Ghost
<1>5. \E e \in Int : user'.balance = user.balance + e /\ ghost'.base = ghost.base + e
  BY <1>2a, <1>4 DEF b
<1> QED
  BY <1>1, <1>2a, <1>4, <1>5, HoldsAside, AsideStep DEF redisVars

\* Of the console only a save of the balance matters: it starts the account anew.
LEMMA ConsoleMoney ==
  ASSUME MInv, Types, ListUsers \/ SaveField \/ \E q \in lists : Listed(q)
  PROVE  MInv'
<1>1. /\ UNCHANGED <<key, channel, redisVars, day, reqs, records, pageVars>> /\ left' \in Cap
  BY HoldsAside, Spending DEF ListUsers, SaveField, Listed
<1>2. UNCHANGED <<ghost.goneTokens, ghost.n, ghost.crossed, ghost.faulty>>
  BY HoldsAside DEF ListUsers, SaveField, Listed, Ghost
<1>3. user'.used = user.used
  BY HoldsAside DEF ListUsers, SaveField, Listed, Row
<1>4. \/ /\ UNCHANGED <<ghost.past, ghost.goneCents, ghost.base>> /\ user'.balance = user.balance
      \/ /\ ghost'.past = ghost.n /\ ghost'.goneCents = 0 /\ ghost'.base = user'.balance
         /\ user'.balance \in Int
  <2>1. CASE ListUsers \/ \E q \in lists : Listed(q)
    BY <2>1, HoldsAside DEF ListUsers, Listed, Ghost
  <2>2. CASE SaveField
    <3>1. PICK v \in Edits, t \in Tiers :
       \/ /\ user' = [user EXCEPT !.balance = v]
          /\ ghost' = [ghost EXCEPT !.base = v, !.past = ghost.n, !.goneCents = 0, !.plain = FALSE,
                                    !.asked = @ + 1, !.settled = TRUE]
       \/ /\ user' = [user EXCEPT !.quota = v]
          /\ ghost' = [ghost EXCEPT !.asked = @ + 1, !.settled = TRUE]
       \/ /\ user' = [user EXCEPT !.tier = t]
          /\ ghost' = [ghost EXCEPT !.tiers = @ \cup {t}, !.asked = @ + 1, !.settled = TRUE]
      BY <2>2 DEF SaveField
    <3>2. v \in Int
      BY LedgerAssumption
    <3> DEFINE a == ghost.asked + 1
               ts == ghost.tiers \cup {t}
    <3>3. CASE user' = [user EXCEPT !.balance = v]
               /\ ghost' = [ghost EXCEPT !.base = v, !.past = ghost.n, !.goneCents = 0, !.plain = FALSE,
                                         !.asked = a, !.settled = TRUE]
      <4> HIDE DEF a
      <4> QED
        BY <3>2, <3>3, HoldsAside DEF Ghost, Row
    <3>4. CASE user' = [user EXCEPT !.quota = v] /\ ghost' = [ghost EXCEPT !.asked = a, !.settled = TRUE]
      <4> HIDE DEF a
      <4> QED
        BY <3>4, HoldsAside DEF Ghost, Row
    <3>5. CASE user' = [user EXCEPT !.tier = t]
               /\ ghost' = [ghost EXCEPT !.tiers = ts, !.asked = a, !.settled = TRUE]
      <4> HIDE DEF a, ts
      <4> QED
        BY <3>5, HoldsAside DEF Ghost, Row
    <3> QED
      BY <3>1, <3>3, <3>4, <3>5, HoldsAside DEF Ghost
  <2> QED
    BY <2>1, <2>2
<1>5. \/ UNCHANGED <<ghost.past, ghost.goneCents>> /\ \E e \in Int :
           user'.balance = user.balance + e /\ ghost'.base = ghost.base + e
      \/ ghost'.past = ghost.n /\ ghost'.goneCents = 0 /\ ghost'.base = user'.balance /\ user'.balance \in Int
  BY <1>4, HoldsAside
<1> QED
  BY <1>1, <1>2, <1>3, <1>5, HoldsAside, AsideStep DEF redisVars

\* The page shows sums of the records.
LEMMA PageMoney ==
  ASSUME MInv, Types, (\E p \in Periods : Choose(p)) \/ (\E q \in loads : Shown(q))
  PROVE  MInv'
<1>1. /\ UNCHANGED <<user, key, channel, redisVars, day, reqs, records>> /\ left' \in Cap
  BY HoldsAside, Spending DEF Choose, Shown, Answered
<1>2. UNCHANGED <<ghost.goneTokens, ghost.n, ghost.crossed, ghost.faulty, ghost.past, ghost.goneCents, ghost.base>>
  BY HoldsAside DEF Choose, Shown, Answered, Ghost
<1>3. TokensOf(records) \in Nat /\ TokensOf(ThisMonth) \in Nat
  <2>1. IsFiniteSet(records) /\ ThisMonth \subseteq records /\ \A x \in records : x.tokens \in Nat
    BY DEF ThisMonth, MInv, NumberInv, Record
  <2>2. IsFiniteSet(ThisMonth)
    BY <2>1, FS_Subset
  <2> QED
    BY <2>1, <2>2, TokensSum
<1>4. /\ page \in [period : Periods, data : Periods \cup {None}, totals : Nat, models : Nat, loading : BOOLEAN]
      /\ \A q \in loads : q.n >= 1 /\ q \in [n : Nat, period : Periods, stage : {"days", "models"}]
      /\ ghost.asked \in Nat
  BY HoldsAside DEF MInv, PageInv, Types, Ghost
<1>5. PageInv'
  <2>1. ASSUME NEW p \in Periods, Choose(p) PROVE PageInv'
    <3> DEFINE a == ghost.asked + 1
               q == [n |-> a, period |-> AskedPeriod(p), stage |-> "days"]
    <3>1. page' = [page EXCEPT !.period = p, !.loading = TRUE] /\ loads' = loads \cup {q}
      BY <2>1 DEF Choose
    <3>2. q.n = a /\ a >= 1
      BY <1>4
    <3> HIDE DEF a, q
    <3>3. \A o \in loads' : o.n >= 1
      BY <1>4, <3>1, <3>2
    <3> QED
      BY <1>4, <3>1, <3>3 DEF PageInv
  <2>2. ASSUME NEW q \in loads, Shown(q) PROVE PageInv'
    <3>1. \A o \in loads' : o.n >= 1
      <4> DEFINE m == [q EXCEPT !.stage = "models"]
      <4>1. m.n = q.n
        BY <1>4
      <4>2. loads' \subseteq loads \cup {m}
        BY <2>2 DEF Shown, Answered
      <4> HIDE DEF m
      <4> QED
        BY <1>4, <4>1, <4>2
    <3>2. q.period \in Periods
      BY <1>4
    <3> DEFINE t == TokensOf(ThisMonth)
               m == TokensOf(records)
    <3>3. \/ page' = [page EXCEPT !.data = q.period, !.totals = t]
          \/ page' = [page EXCEPT !.models = m, !.loading = FALSE]
          \/ page' = [page EXCEPT !.loading = FALSE]
      BY <2>2 DEF Shown, Answered
    <3> HIDE DEF t, m
    <3>4. t \in Nat /\ m \in Nat
      BY <1>3 DEF t, m
    <3> QED
      BY <1>4, <3>1, <3>2, <3>3, <3>4 DEF PageInv
  <2> QED
    BY <2>1, <2>2
<1> QED
  BY <1>1, <1>2, <1>5, HoldsAside, AsideStep DEF redisVars

-----------------------------------------------------------------------------
(* The theorems of the money.                                              *)

LEMMA InitMoney == Init => MInv
<1> SUFFICES ASSUME Init PROVE MInv
  OBVIOUS
<1> USE LedgerAssumption
<1>1. Idle.at = "idle" /\ Idle.day = 0 /\ \A r \in Requests : reqs[r] = Idle
  BY DEF Init, Idle
<1>2. KeyInv /\ PageInv
  BY <1>1 DEF Init, KeyInv, PageInv, Periods, Keyring, At
<1>3. ClockInv
  BY <1>1 DEF Init, ClockInv
<1>4. ghost.past = 0 /\ ghost.n = 0 /\ ghost.base = Opening /\ ghost.goneCents = 0 /\ ghost.goneTokens = 0
  BY DEF Init
<1>5. records = {} /\ IsFiniteSet(records)
  BY FS_EmptySet DEF Init
<1>6. NumberInv
  BY <1>1, <1>4, <1>5 DEF NumberInv, Charged, At
<1>7. Due = {} /\ Since(records) = {} /\ Since(Due) = {}
  BY <1>1, <1>5 DEF Due, At, Since
<1>8. user.balance = Opening /\ user.used = 0
  BY DEF Init
<1>9. Balanced /\ Used /\ Lost
  BY <1>4, <1>5, <1>7, <1>8, EmptySum DEF Balanced, Used, Lost
<1>10. ~Loaded
  BY DEF Init, Loaded
<1> QED
  BY <1>2, <1>3, <1>6, <1>9, <1>10, SumsNamed DEF MInv

LEMMA NextMoney == IInv /\ MInv /\ [Next]_vars => MInv'
<1>1. ASSUME IInv, MInv, Next PROVE MInv'
  <2>1. Types
    BY <1>1 DEF IInv
  <2> QED
    BY <1>1, <2>1, HandleMoney, ClockMoney, KeysMoney, PaymentMoney, ConsoleMoney, PageMoney DEF Next
<1>2. ASSUME IInv, MInv, UNCHANGED vars PROVE MInv'
  BY <1>2, HoldsAside, AsideStep DEF vars, redisVars, IInv
<1> QED
  BY <1>1, <1>2

LEMMA MoneyInvariance == Spec => [](IInv /\ MInv)
  BY InitInv, NextInv, InitMoney, NextMoney, PTL DEF Spec

\* Every variable keeps its type: in particular no sum that a page shows is anything but a number
\* of tokens, no day is skipped and no question of a page is numbered beyond the last one asked.
THEOREM TypeCorrect == Spec => []TypeOK
<1>1. IInv /\ MInv => TypeOK
  <2> SUFFICES ASSUME IInv, MInv PROVE TypeOK
    OBVIOUS
  <2>1. loads \subseteq [n : 1..ghost.asked, period : Periods, stage : {"days", "models"}]
    <3>1. /\ \A q \in loads : q \in [n : Nat, period : Periods, stage : {"days", "models"}]
          /\ \A q \in loads : q.n >= 1 /\ q.n <= ghost.asked
      BY DEF IInv, MInv, Types, PageInv, ChartInv
    <3>2. ghost.asked \in Nat
      BY DEF IInv, Types, Ghost
    <3>3. ASSUME NEW q \in loads PROVE q \in [n : 1..ghost.asked, period : Periods, stage : {"days", "models"}]
      <4>1. q.n \in 1..ghost.asked
        BY <3>1, <3>2
      <4> QED
        BY <3>1, <4>1
    <3> QED
      BY <3>3
  <2>2. console.row \in Row \cup {None} /\ console.loading \in BOOLEAN
    BY DEF IInv, Types
  <2>3. ghost.n \in Nat /\ ghost.plain \in BOOLEAN
    BY DEF IInv, Types, Ghost
  <2>4. /\ left \in Cap /\ day \in 0..LastDay /\ key \in [Keys -> Keyring] /\ channel \in {"live", "deleted"}
        /\ \A x \in records : x \in Record
    BY DEF MInv, ClockInv, KeyInv, NumberInv
  <2> QED
    BY <2>1, <2>2, <2>3, <2>4 DEF IInv, MInv, Types, PageInv, TypeOK
<1> QED
  BY <1>1, MoneyInvariance, PTL

\* However charges, payments, edits and deletions of keys and channels interleave, and however many
\* there are: between two absolute writes the balance is what was there and what was credited less
\* what was recorded, is due or was lost, the tokens likewise, and a record is only lost on an error
\* of the database or when its key or its channel was deleted (recordBilling, webhook, PATCH of
\* users, DELETE of keys and of channels).
THEOREM BalanceExplained == Spec => []Explained
<1>1. IInv /\ MInv => Explained
  BY DEF MInv
<1> QED
  BY <1>1, MoneyInvariance, PTL

\* A counter that was loaded without a charge in between knows all tokens but those that are about
\* to be added, whatever the number of requests that load it at the same time (CheckDailyQuota,
\* recordBilling).
THEOREM QuotaCounted == Spec => []Counted
<1>1. IInv /\ MInv => Counted
  BY DEF MInv
<1> QED
  BY <1>1, MoneyInvariance, PTL
=============================================================================
