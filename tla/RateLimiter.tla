----------------------------- MODULE RateLimiter -----------------------------
(***************************************************************************)
(* The limits per minute of ratelimit/token_bucket.go as handler/proxy.go  *)
(* applies them: a sliding window of requests per IP address and one per   *)
(* user (AllowSlidingWindow, a script on a sorted set of Redis), and a     *)
(* counter of tokens (CheckTPM, a pipeline of INCRBY and EXPIRE).  The     *)
(* limit of concurrent requests is in Gateway.                             *)
(*                                                                         *)
(* Users share no window but that of their address; here one user asks     *)
(* from one address.  A gateway reads its own clock before it calls Redis, *)
(* which runs the script later and counts the TTL by its own clock, now.   *)
(***************************************************************************)
EXTENDS FiniteSetsExt, Sums

CONSTANTS
  Clients,    \* who asks, one request at a time: a key, an endpoint, a gateway
  None,       \* no value
  Setups,     \* limits, clocks and bounds, see Setup
  MaxAhead,   \* ticks that gateways' clocks may be ahead of Redis'
  Second,     \* in ticks
  Window,     \* the time.Minute of a window, in ticks
  Minute,     \* the time.Minute of CheckTPM, in ticks
  MaxDelay,   \* ticks that a call of Redis may take
  Salts,      \* what math.random returns in a script
  MaxFaults   \* bound: calls of Redis that fail

VARIABLES
  setup,     \* chosen at the start
  now,       \* the clock of Redis
  win,       \* win[k]: the sorted set of window k
  expiry,    \* expiry[k]: when it expires
  tokens,    \* the counter of tokens: [n, expiry], None for never
  reqs,      \* reqs[c]: the request of client c
  posts, faults,
  ghost      \* history, see Ghost

vars == <<setup, now, win, expiry, tokens, reqs, posts, faults, ghost>>
windowVars == <<win, expiry>>

Steps == {"idle", "ip", "rpm", "incr", "expire", "again", "through", "refused"}

(***************************************************************************)
(* chats are the clients that ask for completions, the others ask for      *)
(* embeddings; perIP, perUser are requests per minute, perMinute tokens,   *)
(* 0 for any; sizes are those of prompts, ahead the gateways' clocks.      *)
(* Bounds: late, the calls that may take time; failing, those that may     *)
(* fail; time, in ticks; posts, of requests.                               *)
(***************************************************************************)
Setup == [chats : SUBSET Clients, perIP : Nat, perUser : [Clients -> Nat],
          perMinute : [Clients -> Nat], sizes : SUBSET Nat, ahead : [Clients -> 0..MaxAhead],
          late : SUBSET Steps, failing : SUBSET Steps, time : Nat, posts : Nat]

Chats == setup.chats
IPLimit == setup.perIP
Limit == setup.perUser
TokenLimit == setup.perMinute
Ahead == setup.ahead

Keys == {"ip", "rpm"}
LimitOf(c, k) == IF k = "ip" THEN IPLimit ELSE Limit[c]
Greatest(k) == IF k = "ip" THEN IPLimit ELSE Max({Limit[c] : c \in Clients})
\* Seconds, rounded up.
Seconds(ticks) == (ticks + Second - 1) \div Second
\* A period by Redis' clock that is surely within one minute by every gateway's.
Surely == Window - MaxDelay - MaxAhead

ASSUME LimiterAssumption ==
  /\ IsFiniteSet(Clients) /\ Clients # {} /\ None \notin Nat
  /\ Setups # {} /\ Setups \subseteq Setup
  /\ Second \in Nat \ {0} /\ Window \in Nat \ {0} /\ Minute \in Nat \ {0}
  /\ MaxDelay \in Nat /\ MaxAhead \in Nat /\ Surely > 0 /\ Salts # {} /\ MaxFaults \in Nat

Member == [score : Nat, salt : Salts]
\* stamp is the gateway's clock before the call, by and until what a refused client was told, seen
\* the answer to INCRBY.  History: quiet, nobody was let through since, and the window was not
\* over this client's limit; alone, no INCRBY was run in the last minute.
Idle == [at |-> "idle", stamp |-> 0, size |-> 0, seen |-> 0, n |-> 0, by |-> "none",
         until |-> None, quiet |-> FALSE, early |-> FALSE, alone |-> FALSE]
Request == [at : Steps, stamp : Nat, size : Nat, seen : Nat, n : Nat, by : Keys \cup {"tpm", "none"},
            until : Nat \cup {None}, quiet : BOOLEAN, early : BOOLEAN, alone : BOOLEAN]

(***************************************************************************)
(* History: entered[k], members that scripts added, with the time; asked,  *)
(* the tokens of requests, with the time, the counter after them, and how  *)
(* they were let through, both as long as they matter; last, when the      *)
(* counter was touched; slipped, it expired between INCRBY and EXPIRE; *)
(* bare, an EXPIRE was lost.                                               *)
(***************************************************************************)
Entry == [t : Nat, member : Member, n : Nat]
Ways == {"not", "counted", "unchecked"}
Asked == [t : Nat, n : Nat, size : Nat, seen : Nat, let : Ways]
Ghost == [last : Int, slipped : BOOLEAN, bare : BOOLEAN,
          entered : [Keys -> SUBSET Entry], asked : SUBSET Asked]

At(c, step) == reqs[c].at = step
Alive == tokens.expiry # 0
Fails(c) == reqs[c].at \in setup.failing /\ faults < MaxFaults /\ faults' = faults + 1

Gone == [n |-> 0, expiry |-> 0]

Init ==
  /\ setup \in Setups /\ now = 0
  /\ win = [k \in Keys |-> {}] /\ expiry = [k \in Keys |-> 0]
  /\ tokens = Gone
  /\ reqs = [c \in Clients |-> Idle]
  /\ posts = 0 /\ faults = 0
  /\ ghost = [last |-> -Minute, slipped |-> FALSE, bare |-> FALSE,
              entered |-> [k \in Keys |-> {}], asked |-> {}]

\* Redis drops a key at its time.  The reply to a call comes within MaxDelay, or the client
\* library gives up.
Tick ==
  /\ now < setup.time /\ now' = now + 1
  /\ \A c \in Clients : reqs[c].at \in Keys \cup {"expire", "again"} =>
       reqs[c].at \in setup.late /\ now' <= reqs[c].stamp - Ahead[c] + MaxDelay
  /\ tokens' = IF tokens.expiry = None \/ now' < tokens.expiry THEN tokens ELSE Gone
  /\ ghost' = [ghost EXCEPT
       !.slipped = @ \/ (tokens' # tokens /\ \E c \in Clients : At(c, "expire")),
       !.entered = [k \in Keys |-> {x \in @[k] : x.t > now' - Surely}],
       !.asked = {x \in @ : x.t > now' - Minute}]
  /\ win' = [k \in Keys |-> IF now' < expiry[k] THEN win[k] ELSE {}]
  /\ expiry' = [k \in Keys |-> IF now' < expiry[k] THEN expiry[k] ELSE 0]
  /\ UNCHANGED <<setup, reqs, posts, faults>>

-----------------------------------------------------------------------------
(***************************************************************************)
(* The windows.  Each is asked with the clock read anew.  An error of      *)
(* Redis lets the request through, whether or not the script was run; the  *)
(* client library may also run it again, with the same arguments.          *)
(***************************************************************************)
Reach(c, step) == [reqs EXCEPT ![c].at = step, ![c].stamp = now + Ahead[c]]

Post(c) ==
  /\ At(c, "idle") /\ posts < setup.posts /\ posts' = posts + 1
  /\ reqs' = [Reach(c, IF c \in Chats THEN "ip" ELSE "rpm") EXCEPT
                ![c].n = posts + 1, ![c].early = FALSE]
  /\ UNCHANGED <<setup, now, windowVars, tokens, faults, ghost>>

Kept(c, k) == {m \in win[k] : m.score > reqs[c].stamp - Window}
\* Mutant: one too many.
FitsOneMore(c, k) == Cardinality(Kept(c, k)) <= LimitOf(c, k)
Fits(c, k) == Cardinality(Kept(c, k)) < LimitOf(c, k)

\* Mutant: the key lives a minute from the first request on.
FirstExpiry(k) ==
  IF win[k] = {} THEN now + (Seconds(Window) + 1) * Second ELSE expiry[k]
NextExpiry(k) == now + (Seconds(Window) + 1) * Second

Entered(c, k, m) ==
  /\ win' = [win EXCEPT ![k] = Kept(c, k) \cup {m}]
  /\ expiry' = [expiry EXCEPT ![k] = NextExpiry(k)]
  /\ ghost' = [ghost EXCEPT !.entered[k] = @ \cup {[t |-> now, member |-> m, n |-> reqs[c].n]}]

Unentered(c, k) ==
  /\ win' = [win EXCEPT ![k] = Kept(c, k)]
  /\ UNCHANGED <<expiry, ghost>>

After(c, k) == IF k = "ip" THEN "rpm" ELSE IF c \in Chats THEN "incr" ELSE "through"

\* Others that wait by k were not alone.
Noticed(c, k, rs) ==
  [d \in Clients |-> IF d # c /\ rs[d].by = k THEN [rs[d] EXCEPT !.quiet = FALSE] ELSE rs[d]]

Oldest(c, k) == Min({m.score : m \in Kept(c, k)})
\* Mutant: whole seconds, rounded down.
RetryInWholeSeconds(c, k) ==
  IF Kept(c, k) = {} THEN 1 ELSE Max({1, (Oldest(c, k) + Window - reqs[c].stamp) \div Second})
RetryAfter(c, k) ==
  IF Kept(c, k) = {} THEN 1 ELSE Max({1, Seconds(Oldest(c, k) + Window + 1 - reqs[c].stamp)})

Pass(c, k) ==
  /\ At(c, k) /\ Fits(c, k)
  /\ \E s \in Salts : Entered(c, k, [score |-> reqs[c].stamp, salt |-> s])
  /\ reqs' = Noticed(c, k, [Reach(c, After(c, k)) EXCEPT ![c].by = IF @ = k THEN "none" ELSE @])
  /\ UNCHANGED <<setup, now, tokens, posts, faults>>

Refuse(c, k) ==
  LET r == reqs[c] IN
  /\ At(c, k) /\ ~Fits(c, k) /\ Unentered(c, k)
  /\ reqs' = [reqs EXCEPT ![c] =
       [r EXCEPT !.at = "refused", !.by = k, !.until = r.stamp + RetryAfter(c, k) * Second,
                 !.quiet = Cardinality(Kept(c, k)) = LimitOf(c, k) /\ LimitOf(c, k) > 0,
                 !.early = r.by = k /\ r.quiet /\ r.until <= r.stamp]]
  /\ UNCHANGED <<setup, now, tokens, posts, faults>>

WindowFails(c, k) ==
  /\ At(c, k) /\ Fails(c)
  /\ \/ UNCHANGED <<windowVars, ghost>> /\ reqs' = Reach(c, After(c, k))
     \/ /\ \/ Fits(c, k) /\ \E s \in Salts : Entered(c, k, [score |-> reqs[c].stamp, salt |-> s])
           \/ ~Fits(c, k) /\ Unentered(c, k)
        /\ reqs' \in {Noticed(c, k, Reach(c, After(c, k))),
                     Noticed(c, k, [reqs EXCEPT ![c].quiet = FALSE])}
  /\ UNCHANGED <<setup, now, tokens, posts>>

-----------------------------------------------------------------------------
(***************************************************************************)
(* The tokens.  INCRBY and EXPIRE are sent together, but Redis runs other  *)
(* commands, and lets keys expire, in between.  What is refused is counted *)
(* as well.  The client library sends both again when the reply is lost;   *)
(* an error lets the request through, whatever was run.                    *)
(***************************************************************************)
Sizes(c) == IF At(c, "again") THEN {reqs[c].size} ELSE setup.sizes
\* The history of c's tokens.
Notes(c, n, seen, way) ==
  {x \in ghost.asked : x.n # reqs[c].n}
    \cup {[t |-> now, n |-> reqs[c].n, size |-> n, seen |-> seen, let |-> way]}
Judged(c, way) == {IF x.n = reqs[c].n THEN [x EXCEPT !.let = way] ELSE x : x \in ghost.asked}

Incr(c) ==
  /\ reqs[c].at \in {"incr", "again"} /\ TokenLimit[c] > 0
  /\ \E n \in Sizes(c) :
       LET sum == IF Alive THEN tokens.n + n ELSE n IN
       /\ tokens' = [n |-> sum, expiry |-> IF Alive THEN tokens.expiry ELSE None]
       /\ reqs' = [Reach(c, "expire") EXCEPT ![c].size = n, ![c].seen = sum,
                     ![c].alone = now - ghost.last >= Minute /\ \A d \in Clients : ~At(d, "expire")]
       /\ ghost' = [ghost EXCEPT !.last = now, !.asked = Notes(c, n, sum, "not")]
  /\ UNCHANGED <<setup, now, windowVars, posts, faults>>

Unlimited(c) ==
  /\ At(c, "incr") /\ TokenLimit[c] = 0
  /\ reqs' = [reqs EXCEPT ![c].at = "through"]
  /\ UNCHANGED <<setup, now, windowVars, tokens, posts, faults, ghost>>

\* Mutant: only a new counter is given its minute.
RenewedOnce == IF tokens.expiry = None THEN now + Minute ELSE tokens.expiry
\* Mutant: the minute is added to what is left.
RenewedMore == IF tokens.expiry = None THEN now + Minute ELSE tokens.expiry + Minute
Renewed == now + Minute

\* EXPIRE does nothing when the key is gone.
Expire == tokens' = IF Alive THEN [tokens EXCEPT !.expiry = Renewed] ELSE tokens

Enough(c) == reqs[c].seen <= TokenLimit[c]

Expired(c) ==
  /\ At(c, "expire") /\ Expire
  /\ reqs' = [reqs EXCEPT ![c].at = IF Enough(c) THEN "through" ELSE "refused",
                          ![c].by = IF Enough(c) THEN @ ELSE "tpm"]
  /\ ghost' = [ghost EXCEPT !.last = now,
       !.asked = Judged(c, IF Enough(c) THEN "counted" ELSE "not")]
  /\ UNCHANGED <<setup, now, windowVars, posts, faults>>

\* The reply is lost, EXPIRE perhaps with it.
TokensAgain(c) ==
  /\ At(c, "expire") /\ Fails(c)
  /\ \/ UNCHANGED tokens /\ ghost' = [ghost EXCEPT !.bare = TRUE]
     \/ Expire /\ ghost' = [ghost EXCEPT !.last = now]
  /\ reqs' = [reqs EXCEPT ![c].at = "again"]
  /\ UNCHANGED <<setup, now, windowVars, posts>>

TokensFail(c) ==
  /\ Fails(c) /\ TokenLimit[c] > 0
  /\ \/ /\ At(c, "incr") /\ UNCHANGED tokens
        /\ \E n \in setup.sizes : ghost' = [ghost EXCEPT !.asked = Notes(c, n, 0, "unchecked")]
     \/ /\ reqs[c].at \in {"expire", "again"} /\ UNCHANGED tokens
        /\ ghost' = [ghost EXCEPT !.bare = @ \/ At(c, "expire"), !.asked = Judged(c, "unchecked")]
     \/ /\ At(c, "expire") /\ Expire
        /\ ghost' = [ghost EXCEPT !.last = now, !.asked = Judged(c, "unchecked")]
  /\ reqs' = [reqs EXCEPT ![c].at = "through"]
  /\ UNCHANGED <<setup, now, windowVars, posts>>

\* The answer; a client that was told when to come again remembers that.
Answer(c) ==
  /\ reqs[c].at \in {"through", "refused"}
  /\ reqs' = [reqs EXCEPT ![c] =
       IF At(c, "refused") /\ @.by \in Keys
       THEN [Idle EXCEPT !.by = reqs[c].by, !.until = reqs[c].until, !.quiet = reqs[c].quiet]
       ELSE Idle]
  /\ UNCHANGED <<setup, now, windowVars, tokens, posts, faults, ghost>>

Next ==
  \/ Tick
  \/ \E c \in Clients :
       \/ Post(c) \/ \E k \in Keys : Pass(c, k) \/ Refuse(c, k) \/ WindowFails(c, k)
       \/ Incr(c) \/ Unlimited(c) \/ Expired(c) \/ TokensAgain(c) \/ TokensFail(c) \/ Answer(c)

Spec == Init /\ [][Next]_vars

-----------------------------------------------------------------------------
TypeOK ==
  /\ setup \in Setups /\ now \in 0..setup.time
  /\ win \in [Keys -> SUBSET Member] /\ \A k \in Keys : Cardinality(win[k]) <= Greatest(k)
  /\ expiry \in [Keys -> Nat] /\ tokens.n \in Nat /\ tokens.expiry \in Nat \cup {None}
  /\ reqs \in [Clients -> Request]
  /\ posts \in 0..setup.posts /\ faults \in 0..MaxFaults
  /\ ghost \in Ghost

\* In no period that is shorter than a minute by the delays and by what the gateways' clocks
\* differ, a window lets more through than the limit, although each gateway cleans it by its own
\* clock and scripts run in another order than clocks were read.  Requests of one instant with
\* the same random number count as one (AllowSlidingWindow).
WindowHolds ==
  \A k \in Keys : Cardinality({x.member : x \in ghost.entered[k]}) <= Greatest(k)

\* A client that comes again when it was told to is not refused again by the same window, unless
\* somebody else was let through since, or the window holds more than the client's own limit, as
\* keys and endpoints have limits of their own (retry in AllowSlidingWindow).
RetryIsEnough == \A c \in Clients : At(c, "refused") => ~reqs[c].early

TokensOf(S) == Total([x \in S |-> x.size])

LetThrough(ways) == {x \in ghost.asked : x.let \in ways}

\* In no minute are more tokens let through than the limit and what was let through unchecked,
\* as a failed pipeline lets everybody through, whether or not it was counted, unless the counter
\* expired between INCRBY and EXPIRE (CheckTPM).
TokensHold ==
  ~ghost.slipped =>
    TokensOf(LetThrough({"counted", "unchecked"}))
      <= Max({TokenLimit[c] : c \in Clients}) + TokensOf(LetThrough({"unchecked"}))

\* Refused requests count and renew the TTL, but when no INCRBY was run in the last minute, not
\* the request's own either that is sent again after a lost reply, a user is refused for the
\* request's own size only, unless an EXPIRE was lost (CheckTPM).
SilenceHelps ==
  \A c \in Clients :
    At(c, "refused") /\ reqs[c].by = "tpm" /\ reqs[c].alone /\ ~ghost.bare
      => reqs[c].size > TokenLimit[c]
=============================================================================
