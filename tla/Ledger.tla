------------------------------- MODULE Ledger -------------------------------
(***************************************************************************)
(* The money and the daily quota of one user: the checks of the gateway    *)
(* before a request (billing/quota.go, called by handler/proxy.go), the    *)
(* charge after it (billing/record.go), the routes that write the same     *)
(* columns (api/billing/webhook, PATCH of api/admin/users with the users'  *)
(* table of the console, api/keys) and the pages that show the records.    *)
(*                                                                         *)
(* Users share none of this state, so there is one.  A request costs Price *)
(* per token; one cent is Unit of what a token's price is counted in.  A   *)
(* model with prices in both tables, of a pool and of its own, is left to  *)
(* Pricing.                                                                *)
(***************************************************************************)
EXTENDS Integers, FiniteSets, Sums

CONSTANTS
  Requests,       \* slots for requests between their checks and their charge
  Keys,           \* API keys
  None,           \* no value
  Tiers, Free,    \* subscription tiers; that of a new user
  PlanQuota,      \* [Tiers -> Nat]: the quota that a plan brings
  Sizes,          \* numbers of tokens a request may take
  Price, Unit,
  MaxCents,       \* no request costs more cents
  Deposits,       \* cents that a payment credits
  Edits,          \* balances and quotas that an administrator types
  Opening,        \* cents at the start
  MonthLength,    \* days of a month
  LastDay,        \* bound: the last day, from 0
  Caps            \* bounds: how often each kind of event happens

Periods == {"7d", "30d"}
Cents(n) == (n * Price) \div Unit   \* whole cents, the rest is dropped
Cap == [posts : Nat, embeddings : Nat, credits : Nat, edits : Nat, deletes : Nat, asks : Nat, days : Nat,
        misses : Nat, faults : Nat]

ASSUME LedgerAssumption ==
  /\ IsFiniteSet(Requests) /\ Requests # {}
  /\ Free \in Tiers /\ None \notin Tiers \cup Keys \cup Nat \cup Periods
  /\ PlanQuota \in [Tiers -> Nat]
  /\ Sizes \subseteq Nat /\ Sizes # {}
  /\ Price \in Nat /\ Unit \in Nat \ {0} /\ MonthLength \in Nat \ {0} /\ LastDay \in Nat
  /\ MaxCents \in Nat \ {0} /\ \A n \in Sizes : Cents(n) \in 0..MaxCents
  /\ Deposits \subseteq Nat /\ Edits \subseteq Nat /\ Opening \in Nat
  /\ Caps \subseteq Cap

VARIABLES
  user,      \* the row of users: [balance, used, quota, tier]
  key,       \* key[k]: "unborn", "live" or "deleted"
  channel,   \* "live" or "deleted": one of the channels that serve the user
  auth,      \* auth[k]: the tier in the gateway's cache of k, or None
  count,     \* Redis: user:{id}:daily_tokens, or None
  limitOf,   \* Redis: quota:reset:{id}:{day} of each day, or None
  day,
  reqs,      \* reqs[r]: the request in slot r
  records,   \* billing_records
  console,   \* the users' table of the console: [row, loading]
  lists,     \* its questions that are not answered yet: [n, row]
  page,      \* a page of usage: [period, data, totals, models, loading]
  loads,     \* its questions that are not answered yet: [n, period, stage]
  left,      \* what is left of the bounds
  ghost      \* history, see Ghost

consoleVars == <<console, lists>>
pageVars == <<page, loads>>
redisVars == <<auth, count, limitOf>>
vars == <<user, key, channel, redisVars, day, reqs, records, consoleVars, pageVars, left, ghost>>

Row == [balance : Int, used : Nat, quota : Nat, tier : Tiers]
Keyring == {"unborn", "live", "deleted"}
Steps == {"idle", "fill", "balance", "count", "limit", "select", "setlimit", "setcount",
          "serve", "charge", "record", "publish"}
Idle == [at |-> "idle", key |-> None, tier |-> None, day |-> 0, limit |-> 0, used |-> 0,
         size |-> 0, checked |-> FALSE, cents |-> 0, after |-> 0, n |-> 0]
Request == [at : Steps, key : Keys \cup {None}, tier : Tiers \cup {None}, day : Nat, limit : Nat,
            used : Nat, size : Nat, checked : BOOLEAN, cents : Nat, after : Int, n : Nat]
Record == [n : Nat, key : Keys, tokens : Nat, cents : Nat, after : Int, day : Nat]

(***************************************************************************)
(* History of the money: base, the balance last written as such and what   *)
(* was credited since; past, the number of charges before that; goneCents  *)
(* since then and goneTokens, of charges whose record was refused; exact,  *)
(* cents, n, what requests were worth, what they paid and how many paid;   *)
(* waived, what those were worth whose price was not found; unchecked, the *)
(* cents that were charged without a look at the balance before (checked   *)
(* in a request); plain, nobody typed a balance; tiers that he has had.    *)
(* Of the quota: crossed, a charge ran while the counter was loaded;       *)
(* refused, with nothing used today; spent, tokens charged today.          *)
(* Of the pages: asked, the questions so far; newest row and load that     *)
(* were answered; overtaken, by an older one; failed, a question; settled, *)
(* the console wrote last.                                                 *)
(***************************************************************************)
Ghost == [base : Int, past : Nat, goneCents : Nat, goneTokens : Nat, exact : Nat, cents : Nat,
          n : Nat, waived : Nat, unchecked : Nat, plain : BOOLEAN, tiers : SUBSET Tiers,
          faulty : BOOLEAN, crossed : BOOLEAN, refused : BOOLEAN,
          spent : Nat, asked : Nat, newest : [row : Nat, load : Nat], overtaken : BOOLEAN,
          failed : BOOLEAN, settled : BOOLEAN]

At(r, step) == reqs[r].at = step
Goto(r, step) == reqs' = [reqs EXCEPT ![r].at = step]
Leave(r) == reqs' = [reqs EXCEPT ![r] = Idle]
Spend(what) == left[what] > 0 /\ left' = [left EXCEPT ![what] = @ - 1]
Fault == Spend("faults") /\ ghost' = [ghost EXCEPT !.faulty = TRUE]
\* Mutant: a miss is passed on.
AsItIs(x) == x
OrZero(x) == IF x = None THEN 0 ELSE x
TokensOf(S) == Total([x \in S |-> x.tokens])
CentsOf(S) == Total([x \in S |-> x.cents])

-----------------------------------------------------------------------------
Init ==
  /\ user = [balance |-> Opening, used |-> 0, quota |-> PlanQuota[Free], tier |-> Free]
  /\ key = [k \in Keys |-> "unborn"] /\ channel = "live"
  /\ auth = [k \in Keys |-> None]
  /\ count = None /\ limitOf = [d \in 0..LastDay |-> None] /\ day = 0
  /\ reqs = [r \in Requests |-> Idle]
  /\ records = {}
  /\ console = [row |-> None, loading |-> TRUE] /\ lists = {}
  /\ page = [period |-> "30d", data |-> None, totals |-> 0, models |-> 0, loading |-> TRUE]
  /\ loads = {}
  /\ left \in Caps
  /\ ghost = [base |-> Opening, past |-> 0, goneCents |-> 0, goneTokens |-> 0, exact |-> 0,
              cents |-> 0, n |-> 0, waived |-> 0, unchecked |-> 0, plain |-> TRUE, tiers |-> {Free},
              faulty |-> FALSE, crossed |-> FALSE, refused |-> FALSE, spent |-> 0, asked |-> 0,
              newest |-> [row |-> 0, load |-> 0], overtaken |-> FALSE, failed |-> FALSE, settled |-> FALSE]

-----------------------------------------------------------------------------
(***************************************************************************)
(* Before a request.                                                       *)
(***************************************************************************)
\* Auth: the tier is the cached one, or that of the row, which is then cached.
Auth(r) ==
  /\ At(r, "idle") /\ Spend("posts")
  /\ \E k \in Keys :
       \/ /\ auth[k] # None
          /\ reqs' = [reqs EXCEPT ![r] = [Idle EXCEPT !.at = "balance", !.key = k, !.tier = auth[k]]]
       \/ /\ auth[k] = None /\ key[k] = "live"
          /\ reqs' = [reqs EXCEPT ![r] = [Idle EXCEPT !.at = "fill", !.key = k, !.tier = user.tier]]
  /\ UNCHANGED <<user, redisVars, records, ghost>>

Fill(r) ==
  /\ At(r, "fill")
  /\ auth' = [auth EXCEPT ![reqs[r].key] = reqs[r].tier]
  /\ Goto(r, "balance")
  /\ UNCHANGED <<user, count, limitOf, records, left, ghost>>

\* CheckBalance: only the tier of the row excuses.
\* Mutant: a balance that is one cent short will do.
SufficientOrOneShort(need) == user.tier # Free \/ user.balance + 1 >= need
Sufficient(need) == user.tier # Free \/ user.balance >= need

(***************************************************************************)
(* Only the free tier, by the cached tier, is checked, and only models of  *)
(* model_pricing are.  The need is the price of the prompt, which is a     *)
(* part of the request, or less when the pool's price is not found, and at *)
(* least a cent.                                                           *)
(***************************************************************************)
CheckBalance(r) ==
  /\ At(r, "balance")
  /\ \/ reqs[r].tier # Free /\ Goto(r, "serve")
     \/ reqs[r].tier = Free /\ Goto(r, "count")
     \/ /\ reqs[r].tier = Free
        /\ \E n \in Sizes : \E need \in {1, Cents(n)} \ {0} :
             IF Sufficient(need)
             THEN reqs' = [reqs EXCEPT ![r].at = "count", ![r].size = n,
                                       ![r].checked = (user.tier = Free)]
             ELSE Leave(r)
  /\ UNCHANGED <<user, redisVars, records, left, ghost>>

\* Neither the balance nor the quota is looked at.
Embeddings(r) ==
  /\ At(r, "balance") /\ Spend("embeddings") /\ Goto(r, "serve")
  /\ UNCHANGED <<user, redisVars, records, ghost>>

\* CheckDailyQuota: GET of the counter, of which a miss or an error counts for nothing.
GetCount(r) ==
  /\ At(r, "count")
  /\ reqs' = [reqs EXCEPT ![r].at = "limit", ![r].used = OrZero(count), ![r].day = day]
  /\ UNCHANGED <<user, redisVars, records, left, ghost>>

\* The ghost of a decision; a request that midnight overtook is not judged.
Judged(r, limit, remaining) ==
  [ghost EXCEPT !.refused =
     @ \/ (reqs[r].day = day /\ remaining <= 0 /\ limit > 0 /\ ghost.spent = 0)]
Decide(r, remaining) == IF remaining <= 0 THEN Leave(r) ELSE Goto(r, "serve")

\* The limit of the day on which the check began.
KeyDay(r) == reqs[r].day

GetLimit(r) ==
  LET limit == limitOf[KeyDay(r)] IN
  /\ At(r, "limit")
  /\ IF limit # None
     THEN /\ Decide(r, limit - reqs[r].used)
          /\ ghost' = Judged(r, limit, limit - reqs[r].used)
     ELSE Goto(r, "select") /\ UNCHANGED ghost
  /\ UNCHANGED <<user, redisVars, records, left>>

Select(r) ==
  /\ At(r, "select")
  /\ reqs' = [reqs EXCEPT ![r].at = "setlimit", ![r].limit = user.quota, ![r].used = user.used]
  /\ UNCHANGED <<user, redisVars, records, left, ghost>>

SetLimit(r) ==
  /\ At(r, "setlimit")
  /\ \/ limitOf' = [limitOf EXCEPT ![KeyDay(r)] = reqs[r].limit] /\ UNCHANGED <<left, ghost>>
     \/ Fault /\ UNCHANGED limitOf
  /\ Goto(r, "setcount")
  /\ UNCHANGED <<user, auth, count, records>>

\* SET of the counter to what the SELECT read, whatever was charged since, and the decision.
SetCount(r) ==
  LET remaining == reqs[r].limit - reqs[r].used
      judged == Judged(r, reqs[r].limit, remaining) IN
  /\ At(r, "setcount")
  /\ \/ /\ count' = reqs[r].used
        /\ ghost' = [judged EXCEPT !.crossed = @ \/ user.used # reqs[r].used]
        /\ UNCHANGED left
     \/ /\ Spend("faults") /\ UNCHANGED count
        /\ ghost' = [judged EXCEPT !.faulty = TRUE]
  /\ Decide(r, remaining)
  /\ UNCHANGED <<user, auth, limitOf, records>>

\* Upstream answers, with at least the tokens of the prompt, or not at all.
Serve(r) ==
  /\ At(r, "serve")
  /\ \/ Leave(r)
     \/ \E n \in Sizes :
          /\ n >= reqs[r].size
          /\ reqs' = [reqs EXCEPT ![r].at = "charge", ![r].size = n]
  /\ UNCHANGED <<user, redisVars, records, left, ghost>>

-----------------------------------------------------------------------------
(***************************************************************************)
(* After a request (recordBilling): the UPDATE, without which nothing      *)
(* else happens, the INSERT, whose failure is only logged, and Redis.      *)
(***************************************************************************)
\* Mutant: a cent that is begun counts.
DeductRounded(n) == Cents(n) + 1
Deduct(n) == Cents(n)

\* The price is not found when the lookups fail, or the pool was switched off meanwhile.
Charge(r) ==
  LET n == reqs[r].size IN
  /\ At(r, "charge")
  /\ \/ \E found \in BOOLEAN :
          LET c == IF found THEN Deduct(n) ELSE 0 IN
          /\ user' = [user EXCEPT !.balance = @ - c, !.used = @ + n]
          /\ reqs' = [reqs EXCEPT ![r].at = "record", ![r].cents = c,
                                  ![r].after = user.balance - c, ![r].n = ghost.n + 1]
          /\ ghost' = [ghost EXCEPT !.exact = @ + n * Price, !.cents = @ + c, !.n = @ + 1,
                                    !.waived = IF found THEN @ ELSE @ + n * Price,
                                    !.unchecked = IF reqs[r].checked THEN @ ELSE @ + c,
                                    !.spent = @ + n, !.settled = FALSE]
          /\ IF found THEN UNCHANGED left ELSE Spend("misses")
     \/ Fault /\ Leave(r) /\ UNCHANGED user
  /\ UNCHANGED <<redisVars, records>>

\* The row names the key and the channel, so that it is refused when one of them is gone.
Entry(r) == [n |-> reqs[r].n, key |-> reqs[r].key, tokens |-> reqs[r].size,
             cents |-> reqs[r].cents, after |-> reqs[r].after, day |-> day]
Omitted(r) == [ghost EXCEPT !.goneTokens = @ + reqs[r].size,
                 !.goneCents = IF reqs[r].n > ghost.past THEN @ + reqs[r].cents ELSE @]
RecordIt(r) ==
  /\ At(r, "record")
  /\ \/ key[reqs[r].key] = "live" /\ records' = records \cup {Entry(r)} /\ UNCHANGED <<left, ghost>>
     \/ /\ key[reqs[r].key] # "live" \/ channel # "live"
        /\ ghost' = Omitted(r) /\ UNCHANGED <<left, records>>
     \/ /\ Spend("faults") /\ ghost' = [Omitted(r) EXCEPT !.faulty = TRUE]
        /\ UNCHANGED records
  /\ Goto(r, "publish")
  /\ UNCHANGED <<user, redisVars>>

\* Mutant: the counter counts cents.
AddedCents(r) == reqs[r].cents
Added(r) == reqs[r].size

\* INCRBY of the counter, which has no TTL when the key is new.  (The balance that goes
\* into Redis next to it is read by nobody.)
Publish(r) ==
  /\ At(r, "publish")
  /\ \/ count' = OrZero(count) + Added(r) /\ UNCHANGED <<left, ghost>>
     \/ Fault /\ count' \in {count, OrZero(count) + 2 * Added(r)}
  /\ Leave(r)
  /\ UNCHANGED <<user, auth, limitOf, records>>

Handle(r) ==
  /\ \/ Auth(r) \/ Fill(r) \/ CheckBalance(r) \/ Embeddings(r) \/ GetCount(r) \/ GetLimit(r)
     \/ Select(r) \/ SetLimit(r) \/ SetCount(r) \/ Serve(r) \/ Charge(r) \/ RecordIt(r) \/ Publish(r)
  /\ UNCHANGED <<key, channel, day, consoleVars, pageVars>>

-----------------------------------------------------------------------------
(***************************************************************************)
(* Time.  The limit of a day lives for 24 hours, longer than the day; the  *)
(* counter, written with it, outlives it by a moment.                      *)
(***************************************************************************)
NextDay ==
  /\ day < LastDay /\ Spend("days")
  /\ day' = day + 1
  /\ ghost' = [ghost EXCEPT !.spent = 0]
  /\ UNCHANGED <<user, key, channel, redisVars, reqs, records, consoleVars, pageVars>>

AuthExpires(k) ==
  /\ auth[k] # None /\ auth' = [auth EXCEPT ![k] = None]
  /\ UNCHANGED <<user, key, channel, count, limitOf, day, reqs, records, consoleVars, pageVars, left, ghost>>

CountExpires ==
  /\ count # None /\ (limitOf[day] = None \/ ghost.faulty)
  /\ count' = None
  /\ UNCHANGED <<user, key, channel, auth, limitOf, day, reqs, records, consoleVars, pageVars, left, ghost>>

-----------------------------------------------------------------------------
(***************************************************************************)
(* The owner's keys (api/keys).  The tier that goes into the cache is that *)
(* of the session's token, which may be old.  A key that has records is    *)
(* kept by their foreign key, and the DELETE fails.                        *)
(***************************************************************************)
CreateKey(k) ==
  /\ key[k] = "unborn"
  /\ key' = [key EXCEPT ![k] = "live"]
  /\ \/ \E t \in ghost.tiers : auth' = [auth EXCEPT ![k] = t] /\ UNCHANGED <<left, ghost>>
     \/ Fault /\ UNCHANGED auth
  /\ UNCHANGED <<user, channel, count, limitOf, day, reqs, records, consoleVars, pageVars>>

DeleteKey(k) ==
  /\ key[k] = "live" /\ \A x \in records : x.key # k
  /\ Spend("deletes")
  /\ key' = [key EXCEPT ![k] = "deleted"]
  /\ UNCHANGED <<user, channel, redisVars, day, reqs, records, consoleVars, pageVars, ghost>>

\* DELETE of api/admin/channels, after it took the channel's name off the records.
DeleteChannel ==
  /\ channel = "live" /\ Spend("deletes")
  /\ channel' = "deleted"
  /\ UNCHANGED <<user, key, redisVars, day, reqs, records, consoleVars, pageVars, ghost>>

-----------------------------------------------------------------------------
(***************************************************************************)
(* Payments (webhook/route.ts).  Every delivery of a completed session or  *)
(* a succeeded payment counts, also a repeated one.                        *)
(***************************************************************************)
Regarded(u, credit) ==
  [ghost EXCEPT !.base = @ + credit, !.tiers = @ \cup {u.tier}, !.settled = FALSE]

\* Mutant: the balance is written, as the administrator's PATCH does it.
PayAbsolute(c, t) == [balance |-> c, used |-> user.used, tier |-> t,
                      quota |-> IF t = Free THEN user.quota ELSE PlanQuota[t]]
Paid(c, t) == [user EXCEPT !.balance = @ + c, !.tier = t,
                           !.quota = IF t = Free THEN @ ELSE PlanQuota[t]]
Completed ==
  /\ Spend("credits")
  /\ \E c \in Deposits, t \in Tiers : user' = Paid(c, t) /\ ghost' = Regarded(Paid(c, t), c)
  /\ UNCHANGED <<key, channel, redisVars, day, reqs, records, consoleVars, pageVars>>

Cancelled ==
  /\ Spend("credits")
  /\ user' = [user EXCEPT !.tier = Free, !.quota = PlanQuota[Free]]
  /\ ghost' = Regarded([user EXCEPT !.quota = PlanQuota[Free], !.tier = Free], 0)
  /\ UNCHANGED <<key, channel, redisVars, day, reqs, records, consoleVars, pageVars>>

-----------------------------------------------------------------------------
(***************************************************************************)
(* The users' table of the console.  A question is read when it is asked;  *)
(* answers come in any order.  While it loads, no row is shown.            *)
(***************************************************************************)
AskRow(u) == lists' = lists \cup {[n |-> ghost.asked + 1, row |-> u]}

ListUsers ==
  /\ Spend("asks") /\ AskRow(user)
  /\ console' = [console EXCEPT !.loading = TRUE]
  /\ ghost' = [ghost EXCEPT !.asked = @ + 1]
  /\ UNCHANGED <<user, key, channel, redisVars, day, reqs, records, pageVars>>

Listed(q) ==
  /\ lists' = lists \ {q}
  /\ \/ /\ console' = [row |-> q.row, loading |-> FALSE]
        /\ ghost' = [ghost EXCEPT !.overtaken = @ \/ q.n < ghost.newest.row, !.newest.row = q.n]
        /\ UNCHANGED left
     \/ /\ console' = [console EXCEPT !.loading = FALSE]
        /\ Spend("faults") /\ ghost' = [ghost EXCEPT !.failed = TRUE]
  /\ UNCHANGED <<user, key, channel, redisVars, day, reqs, records, pageVars>>

\* Mutant: the answer of a save is not followed by a question.
SavedOnly(u) == UNCHANGED lists
Reload(u) == AskRow(u)

\* A value is saved as it was typed, when it differs from the one that is shown.
SaveField ==
  /\ console.row # None /\ ~console.loading
  /\ Spend("edits")
  /\ \E v \in Edits, t \in Tiers :
       \/ /\ v # console.row.balance /\ user' = [user EXCEPT !.balance = v]
          /\ ghost' = [ghost EXCEPT !.base = v, !.past = ghost.n, !.goneCents = 0, !.plain = FALSE,
                                    !.asked = @ + 1, !.settled = TRUE]
       \/ /\ v # console.row.quota /\ user' = [user EXCEPT !.quota = v]
          /\ ghost' = [ghost EXCEPT !.asked = @ + 1, !.settled = TRUE]
       \/ /\ t # console.row.tier /\ user' = [user EXCEPT !.tier = t]
          /\ ghost' = [ghost EXCEPT !.tiers = @ \cup {t}, !.asked = @ + 1, !.settled = TRUE]
  /\ Reload(user')
  /\ console' = [console EXCEPT !.loading = TRUE]
  /\ UNCHANGED <<key, channel, redisVars, day, reqs, records, pageVars>>

-----------------------------------------------------------------------------
(***************************************************************************)
(* The page of usage.  Each choice of a period asks for the days of it and *)
(* then for the models; what is read is read when the answer comes.        *)
(***************************************************************************)
ThisMonth == {x \in records : x.day \div MonthLength = day \div MonthLength}

\* Mutant: load is made once and asks for the period it was made with.
FirstPeriod(p) == "30d"
AskedPeriod(p) == p

\* The page is opened, a period is chosen, or refresh is clicked, which loading disables.
Choose(p) ==
  /\ Spend("asks")
  /\ IF page.loading /\ loads = {} THEN p = "30d" ELSE p # page.period \/ ~page.loading
  /\ page' = [page EXCEPT !.period = p, !.loading = TRUE]
  /\ loads' = loads \cup {[n |-> ghost.asked + 1, period |-> AskedPeriod(p), stage |-> "days"]}
  /\ ghost' = [ghost EXCEPT !.asked = @ + 1]
  /\ UNCHANGED <<user, key, channel, redisVars, day, reqs, records, consoleVars>>

Answered(q) ==
  \/ /\ q.stage = "days"
     /\ page' = [page EXCEPT !.data = q.period, !.totals = TokensOf(ThisMonth)]
     /\ loads' = (loads \ {q}) \cup {[q EXCEPT !.stage = "models"]}
     /\ ghost' = [ghost EXCEPT !.overtaken = @ \/ q.n < ghost.newest.load, !.newest.load = q.n]
     /\ UNCHANGED left
  \/ /\ q.stage = "models"
     /\ page' = [page EXCEPT !.models = TokensOf(records), !.loading = FALSE]
     /\ loads' = loads \ {q}
     /\ UNCHANGED <<left, ghost>>
  \/ /\ page' = [page EXCEPT !.loading = FALSE]
     /\ loads' = loads \ {q}
     /\ Spend("faults") /\ ghost' = [ghost EXCEPT !.failed = TRUE]

Shown(q) ==
  /\ Answered(q)
  /\ UNCHANGED <<user, key, channel, redisVars, day, reqs, records, consoleVars>>

Next ==
  \/ \E r \in Requests : Handle(r)
  \/ NextDay \/ CountExpires \/ \E k \in Keys : AuthExpires(k) \/ CreateKey(k) \/ DeleteKey(k)
  \/ DeleteChannel
  \/ Completed \/ Cancelled
  \/ ListUsers \/ SaveField \/ \E q \in lists : Listed(q)
  \/ \E p \in Periods : Choose(p)
  \/ \E q \in loads : Shown(q)

Spec == Init /\ [][Next]_vars

-----------------------------------------------------------------------------
TypeOK ==
  /\ user \in Row /\ key \in [Keys -> Keyring] /\ channel \in {"live", "deleted"}
  /\ auth \in [Keys -> Tiers \cup {None}]
  /\ day \in 0..LastDay /\ count \in Nat \cup {None}
  /\ limitOf \in [0..LastDay -> Nat \cup {None}]
  /\ reqs \in [Requests -> Request]
  /\ \A x \in records : x \in Record
  /\ console.row \in Row \cup {None} /\ console.loading \in BOOLEAN
  /\ \A q \in lists : q.n \in Nat /\ q.row \in Row
  /\ page \in [period : Periods, data : Periods \cup {None}, totals : Nat, models : Nat,
               loading : BOOLEAN]
  /\ loads \subseteq [n : 1..ghost.asked, period : Periods, stage : {"days", "models"}]
  /\ left \in Cap /\ ghost.n \in Nat /\ ghost.plain \in BOOLEAN

\* A user whose balance nobody typed is never deeper in debt than the requests that may run
\* between check and charge can cost, and what was charged without a look at the balance: whoever
\* of the free tier asks for a model with a price and finds no cent is refused (CheckBalance,
\* recordBilling), but no embeddings are, no models without a price and no other tiers.
Overdraft ==
  ghost.plain => user.balance + ghost.unchecked > -(Cardinality(Requests) * MaxCents)

\* Between two absolute writes of an administrator the balance is what was there and what was
\* credited less the records, the charges about to be recorded and those whose record was
\* refused; the tokens likewise, since ever.  A record is refused only on a database error or
\* when its key or its channel was deleted meanwhile, because the cache and the pool served on
\* (recordBilling, webhook, DELETE of api/keys and of api/admin/channels).
Explained ==
  LET due == {[n |-> reqs[r].n, tokens |-> reqs[r].size, cents |-> reqs[r].cents] :
                r \in {q \in Requests : At(q, "record")}}
      new(S) == {x \in S : x.n > ghost.past} IN
  /\ user.balance = ghost.base - CentsOf(new(records)) - CentsOf(new(due)) - ghost.goneCents
  /\ user.used = TokensOf(records) + TokensOf(due) + ghost.goneTokens
  /\ ghost.goneTokens > 0 =>
       ghost.faulty \/ channel = "deleted" \/ \E k \in Keys : key[k] = "deleted"

\* Per request less than a cent is given away, and never one too many is taken, although each
\* cost is cut to whole cents on its own; only a request whose price is not found when it is
\* charged is given away whole (record.go).
Undercharged ==
  /\ ghost.cents * Unit <= ghost.exact
  /\ ghost.exact <= ghost.cents * Unit + ghost.n * (Unit - 1) + ghost.waived

\* Once the limit of the day is loaded, and as long as no charge ran into the loading and Redis
\* worked, the counter knows every token that was charged, except of charges that are about to
\* add them: nobody gets more than the quota because of the cache (CheckDailyQuota).
Counted ==
  LET owed == {[n |-> reqs[r].n, tokens |-> reqs[r].size] :
                 r \in {q \in Requests : At(q, "record") \/ At(q, "publish")}} IN
  /\ limitOf[day] # None /\ ~ghost.crossed /\ ~ghost.faulty
  /\ \A r \in Requests : ~At(r, "setcount")
  => count # None /\ count + TokensOf(owed) >= user.used

\* After the last answer a screen shows what was last asked of it: the console the row that it
\* saved, unless somebody else wrote since, and the page of usage the period that is chosen; unless
\* a question failed, or an old answer overtook a newer one, which no screen drops (UsersTab,
\* UsageTab, BillingContent).
ScreensSettle ==
  ~ghost.overtaken /\ ~ghost.failed =>
    /\ lists = {} /\ ghost.settled => console.row = user
    /\ loads = {} /\ page.data # None => page.data = page.period

\* What the code says and does not do.

\* "daily token quota exceeded (%d/%d). Resets at %s": a user who has used nothing today is not
\* refused by a quota that is not zero.
QuotaResets == ~ghost.refused
=============================================================================
