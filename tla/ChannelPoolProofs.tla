-------------------------- MODULE ChannelPoolProofs -------------------------
(***************************************************************************)
(* For any number of replicas, channels and handlers, and any limits: the  *)
(* shared counters say what they should and the limits hold up to what the *)
(* counters have lost, whatever is reloaded, fails, is repeated or dies;   *)
(* and they lose nothing as long as no DECR takes effect twice and no      *)
(* counter goes while a handler still has its slot.                        *)
(***************************************************************************)
EXTENDS ChannelPool, FiniteSetTheorems, TLAPS

NothingLost == Faults \intersect {"lateExpiry", "shutdown", "repeat"} = {}

CountInv == SlotsAccounted /\ SlotsBounded

\* A counter that has lost nothing is never negative, so that nobody comes to SET 0.
ExactInv == (\A c \in Channels : spare[c] = 0) /\ \A r \in Requests : pc[r] # "zero"

-----------------------------------------------------------------------------
(* Types                                                                   *)

\* The type invariant by what a step touches.
DbTypes ==
  /\ db \in [Channels -> {"active", "error", "disabled", "gone"}]
  /\ admin \in 0..MaxAdmin

RedisTypes ==
  /\ count \in [Channels -> Int \union {Absent}]
  /\ ttl \in [Channels -> BOOLEAN]
  /\ faults \in 0..MaxFaults
  /\ leaked \in [Channels -> Nat] /\ spare \in [Channels -> Nat]

MapTypes ==
  /\ byID \in [Replicas -> SUBSET Channels]
  /\ breaker \in [Replicas -> [Channels -> Breaker]]
  /\ load \in [Replicas -> {"idle", "queried", "filling"}]
  /\ rows \in [Replicas -> SUBSET Channels]

ReqTypes ==
  /\ pc \in [Requests -> Steps]
  /\ at \in [Requests -> Replicas]
  /\ cand \in [Requests -> Seq(Channels)]
  /\ \A r \in Requests : pc[r] # "idle" => cand[r] # <<>>
  /\ stale \in [Requests -> BOOLEAN]
  /\ report \in [Requests -> [status : {"active", "error"}, clears : BOOLEAN]]

\* What sortSnapshots returns are sequences of channels.
LEMMA SortedType ==
  ASSUME NEW S \in SUBSET Channels, NEW seen, NEW s \in Sorted(S, seen)
  PROVE  s \in Seq(Channels)
<1>1. IsFiniteSet(S)
  BY PoolAssumption, FS_Subset
<1>2. Cardinality(S) \in Nat
  BY <1>1, FS_CardinalityType
<1>3. s \in [1..Cardinality(S) -> S]
  BY DEF Sorted, SetToSeqs
<1> QED
  BY <1>2, <1>3

LEMMA CodeType == \A out \in AllOutcomes : Code(out) \in FailureCodes
BY DEF Code, FailureCodes, AuthFailures, RateLimited, AllOutcomes

LEMMA NewBreakerType == NewBreaker \in Breaker
BY BreakerAssumption DEF NewBreaker, Breaker, BreakerStates

\* A handler that has something to do has a channel.
LEMMA CurrentType ==
  ASSUME TypeOK, NEW r \in Requests, pc[r] # "idle"
  PROVE  Current(r) \in Channels /\ Tail(cand[r]) \in Seq(Channels)
<1>1. cand[r] \in Seq(Channels) /\ cand[r] # <<>>
  BY DEF TypeOK
<1> QED
  BY <1>1 DEF Current

LEMMA ValueType ==
  ASSUME TypeOK, NEW c \in Channels
  PROVE  Value(c) \in Int
BY DEF TypeOK, Value

LEMMA TypeParts == DbTypes' /\ RedisTypes' /\ MapTypes' /\ ReqTypes' => TypeOK'
BY DEF TypeOK, DbTypes, RedisTypes, MapTypes, ReqTypes

\* What a step leaves alone keeps its types.
LEMMA TypeFrames ==
  ASSUME TypeOK
  PROVE  /\ UNCHANGED dbVars => DbTypes'
         /\ UNCHANGED <<redisVars, faults>> => RedisTypes'
         /\ UNCHANGED mapVars => MapTypes'
         /\ UNCHANGED reqVars => ReqTypes'
<1>1. UNCHANGED dbVars => DbTypes'
  BY DEF TypeOK, DbTypes, dbVars
<1>2. UNCHANGED <<redisVars, faults>> => RedisTypes'
  BY DEF TypeOK, RedisTypes, redisVars
<1>3. UNCHANGED mapVars => MapTypes'
  BY DEF TypeOK, MapTypes, mapVars
<1>4. UNCHANGED reqVars => ReqTypes'
  BY DEF TypeOK, ReqTypes, reqVars
<1> QED
  BY <1>1, <1>2, <1>3, <1>4

\* The ways in which a handler moves on.
LEMMA MoveTypes ==
  ASSUME TypeOK, NEW r \in Requests, pc[r] # "idle"
  PROVE  /\ \A step \in Steps :
              Goto(r, step) /\ UNCHANGED <<at, cand, stale, report>> => ReqTypes'
         /\ NextCandidate(r) /\ UNCHANGED <<at, stale, report>> => ReqTypes'
         /\ Done(r) => ReqTypes'
<1> USE DEF TypeOK, ReqTypes
<1>1. ASSUME NEW step \in Steps, Goto(r, step), UNCHANGED <<at, cand, stale, report>>
      PROVE  ReqTypes'
  BY <1>1 DEF Goto
<1>2. ASSUME NextCandidate(r), UNCHANGED <<at, stale, report>>
      PROVE  ReqTypes'
  <2>1. Tail(cand[r]) \in Seq(Channels)
    BY CurrentType
  <2>2. cand' \in [Requests -> Seq(Channels)]
    BY <1>2, <2>1 DEF NextCandidate
  <2>3. pc' \in [Requests -> Steps]
    BY <1>2 DEF NextCandidate, Steps
  <2>4. \A q \in Requests : pc'[q] # "idle" => cand'[q] # <<>>
    BY <1>2 DEF NextCandidate
  <2> QED
    BY <1>2, <2>2, <2>3, <2>4
<1>3. ASSUME Done(r)
      PROVE  ReqTypes'
  BY <1>3 DEF Done, NoReport, Steps
<1> QED
  BY <1>1, <1>2, <1>3

LEMMA Finite ==
  ASSUME NEW c \in Channels
  PROVE  /\ IsFiniteSet(Window(c)) /\ Cardinality(Window(c)) \in Nat
         /\ IsFiniteSet(Holders(c)) /\ Cardinality(Holders(c)) \in Nat
         /\ Cardinality(Holders(c)) <= Cardinality(Window(c))
<1>1. IsFiniteSet(Requests)
  BY PoolAssumption
<1>2. Window(c) \in SUBSET Requests /\ Holders(c) \in SUBSET Window(c)
  BY DEF Window, Holders
<1> QED
  BY <1>1, <1>2, FS_Subset, FS_CardinalityType

LEMMA FiniteNext ==
  ASSUME NEW c \in Channels
  PROVE  /\ IsFiniteSet(Window(c)') /\ Cardinality(Window(c)') \in Nat
         /\ IsFiniteSet(Holders(c)') /\ Cardinality(Holders(c)') \in Nat
         /\ Cardinality(Holders(c)') <= Cardinality(Window(c)')
<1>1. IsFiniteSet(Requests)
  BY PoolAssumption
<1>2. Window(c)' \in SUBSET Requests /\ Holders(c)' \in SUBSET Window(c)'
  BY DEF Window, Holders
<1> QED
  BY <1>1, <1>2, FS_Subset, FS_CardinalityType

\* The ways in which a counter and its history change.
LEMMA AddIs ==
  ASSUME TypeOK, NEW d \in Channels, NEW n \in Int, Add(d, n)
  PROVE  /\ count' \in [Channels -> Int \union {Absent}] /\ ttl' \in [Channels -> BOOLEAN]
         /\ Value(d)' = Value(d) + n
         /\ \A c \in Channels \ {d} : Value(c)' = Value(c)
<1>1. Value(d) + n \in Int
  BY ValueType
<1>2. count' = [count EXCEPT ![d] = Value(d) + n] /\ ttl' = ttl
  BY DEF Add
<1>3. count \in [Channels -> Int \union {Absent}] /\ ttl \in [Channels -> BOOLEAN]
  BY DEF TypeOK
<1>4. count'[d] = Value(d) + n /\ \A c \in Channels \ {d} : count'[c] = count[c]
  BY <1>2, <1>3
<1>5. Value(d) + n # Absent
  BY <1>1, PoolAssumption
<1>6. count' \in [Channels -> Int \union {Absent}]
  BY <1>1, <1>2, <1>3
<1> QED
  BY <1>2, <1>3, <1>4, <1>5, <1>6 DEF Value

LEMMA LeakIs ==
  ASSUME TypeOK, NEW d \in Channels, NEW n \in Nat, Leak(d, n)
  PROVE  /\ leaked' \in [Channels -> Nat] /\ spare' \in [Channels -> Nat]
         /\ leaked'[d] = leaked[d] + n /\ spare'[d] = spare[d]
         /\ \A c \in Channels \ {d} : leaked'[c] = leaked[c] /\ spare'[c] = spare[c]
BY DEF Leak, TypeOK

LEMMA SpareIs ==
  ASSUME TypeOK, NEW d \in Channels, NEW n \in Nat, Spare(d, n)
  PROVE  /\ leaked' \in [Channels -> Nat] /\ spare' \in [Channels -> Nat]
         /\ leaked'[d] = leaked[d] /\ spare'[d] = spare[d] + n
         /\ \A c \in Channels \ {d} : leaked'[c] = leaked[c] /\ spare'[c] = spare[c]
BY DEF Spare, TypeOK

LEMMA ForgetIs ==
  ASSUME TypeOK, NEW S \in SUBSET Channels, Forget(S)
  PROVE  /\ leaked' \in [Channels -> Nat] /\ spare' \in [Channels -> Nat]
         /\ \A c \in S : leaked'[c] = 0 /\ spare'[c] = Cardinality(Window(c))
         /\ \A c \in Channels \ S : leaked'[c] = leaked[c] /\ spare'[c] = spare[c]
<1>1. \A c \in Channels : Cardinality(Window(c)) \in Nat
  BY Finite
<1> QED
  BY <1>1 DEF Forget, TypeOK

LEMMA DropIs ==
  ASSUME TypeOK, NEW S \in SUBSET Channels, Drop(S)
  PROVE  /\ count' \in [Channels -> Int \union {Absent}] /\ ttl' \in [Channels -> BOOLEAN]
         /\ leaked' \in [Channels -> Nat] /\ spare' \in [Channels -> Nat]
         /\ \A c \in S : Value(c)' = 0
         /\ \A c \in Channels \ S : Value(c)' = Value(c)
<1>1. Forget(S)
  BY DEF Drop
<1>2. count' \in [Channels -> Int \union {Absent}] /\ ttl' \in [Channels -> BOOLEAN]
  BY DEF Drop, TypeOK
<1>3. \A c \in S : Value(c)' = 0
  BY DEF Drop, Value
<1>4. \A c \in Channels \ S : Value(c)' = Value(c)
  BY DEF Drop, Value
<1> QED
  BY <1>1, <1>2, <1>3, <1>4, ForgetIs

LEMMA SetZeroIs ==
  ASSUME TypeOK, NEW d \in Channels, SetZero(d)
  PROVE  /\ count' \in [Channels -> Int \union {Absent}] /\ ttl' \in [Channels -> BOOLEAN]
         /\ leaked' \in [Channels -> Nat] /\ spare' \in [Channels -> Nat]
         /\ Value(d)' = 0
         /\ \A c \in Channels \ {d} : Value(c)' = Value(c)
<1>1. Forget({d}) /\ {d} \in SUBSET Channels
  BY DEF SetZero
<1>2. count' \in [Channels -> Int \union {Absent}] /\ ttl' \in [Channels -> BOOLEAN]
  BY DEF SetZero, TypeOK
<1>3. Value(d)' = 0 /\ \A c \in Channels \ {d} : Value(c)' = Value(c)
  BY PoolAssumption DEF SetZero, Value, TypeOK
<1> QED
  BY <1>1, <1>2, <1>3, ForgetIs

\* What a handler does to Redis keeps the types.
LEMMA RedisStep ==
  ASSUME TypeOK, NEW r \in Requests, pc[r] # "idle",
         UNCHANGED faults \/ \E f \in AllFaults : MayFail(f),
         \/ UNCHANGED <<count, ttl>> \/ \E n \in {-1, 1} : Add(Current(r), n)
         \/ SetZero(Current(r))
         \/ UNCHANGED count /\ ttl' = [ttl EXCEPT ![Current(r)] = count[Current(r)] # Absent],
         \/ UNCHANGED <<leaked, spare>> \/ Leak(Current(r), 1) \/ Spare(Current(r), 1)
         \/ SetZero(Current(r))
  PROVE  RedisTypes'
<1>0. PICK d \in Channels : d = Current(r)
  BY CurrentType
<1>1. faults' \in 0..MaxFaults
  BY PoolAssumption DEF MayFail, TypeOK
<1>2. count' \in [Channels -> Int \union {Absent}] /\ ttl' \in [Channels -> BOOLEAN]
  <2>1. CASE UNCHANGED <<count, ttl>>
    BY <2>1 DEF TypeOK
  <2>2. CASE \E n \in {-1, 1} : Add(Current(r), n)
    BY <1>0, <2>2, AddIs
  <2>3. CASE SetZero(Current(r))
    BY <1>0, <2>3, SetZeroIs
  <2>4. CASE UNCHANGED count /\ ttl' = [ttl EXCEPT ![Current(r)] = count[Current(r)] # Absent]
    <3>1. ttl' \in [Channels -> BOOLEAN]
      BY <1>0, <2>4 DEF TypeOK
    <3> QED
      BY <2>4, <3>1 DEF TypeOK
  <2> QED
    BY <2>1, <2>2, <2>3, <2>4
<1>3. leaked' \in [Channels -> Nat] /\ spare' \in [Channels -> Nat]
  BY <1>0, LeakIs, SpareIs, SetZeroIs DEF TypeOK
<1> QED
  BY <1>1, <1>2, <1>3 DEF RedisTypes

\* A breaker's new state, that of a method.
LEMMA BreakerTypes ==
  ASSUME TypeOK, NEW p \in Replicas, NEW c \in Channels, NEW b \in Breaker,
         SetBreaker(p, c, b), UNCHANGED <<byID, load, rows>>
  PROVE  MapTypes'
<1>1. breaker' \in [Replicas -> [Channels -> Breaker]]
  BY DEF TypeOK, SetBreaker
<1> QED
  BY <1>1 DEF TypeOK, MapTypes

\* The methods that a handler calls leave a well-formed breaker behind.
LEMMA OpsTypes ==
  ASSUME NEW b \in Breaker
  PROVE  /\ AfterSuccess(b) \in Breaker
         /\ \A code \in FailureCodes : AfterFailure(b, code) \in Breaker
<1> USE BreakerAssumption DEF Breaker, BreakerStates
<1>1. AfterSuccess(b) \in Breaker
  <2>1. CASE b.state # "halfOpen"
    BY <2>1 DEF AfterSuccess
  <2>2. CASE b.state = "halfOpen" /\ b.succs + 1 >= SuccessThreshold
    BY <2>2 DEF AfterSuccess, Closed
  <2>3. CASE b.state = "halfOpen" /\ b.succs + 1 < SuccessThreshold
    <3> DEFINE s == [b EXCEPT !.fails = 0]
    <3>1. s \in Breaker /\ s.succs = b.succs
      OBVIOUS
    <3>2. AfterSuccess(b) = [s EXCEPT !.succs = s.succs + 1]
      BY <2>3 DEF AfterSuccess
    <3> HIDE DEF s
    <3> QED
      BY <2>3, <3>1, <3>2
  <2> QED
    BY <2>1, <2>2, <2>3
<1>2. ASSUME NEW code \in FailureCodes
      PROVE  AfterFailure(b, code) \in Breaker
  <2>1. Counted(b) \in Breaker
    BY DEF Counted, AtMost
  <2>2. \A ticks \in 1..MaxCooldown : OpenedFor(Counted(b), ticks) \in Breaker
    BY <2>1 DEF OpenedFor
  <2>3. Doubled(b.cooldown) \in 1..MaxCooldown
    BY DEF Doubled, AtMost
  <2> QED
    BY <2>1, <2>2, <2>3 DEF AfterFailure, Ordinary
<1> QED
  BY <1>1, <1>2

\* Every replica's breakers, and the breakers the methods leave behind.
LEMMA BreakerAfter ==
  ASSUME TypeOK, NEW p \in Replicas, NEW c \in Channels
  PROVE  /\ breaker[p][c] \in Breaker
         /\ AfterSuccess(breaker[p][c]) \in Breaker
         /\ \A out \in Outcomes : AfterFailure(breaker[p][c], Code(out)) \in Breaker
<1>1. breaker[p][c] \in Breaker
  BY DEF TypeOK
<1>2. \A out \in Outcomes : Code(out) \in FailureCodes
  BY PoolAssumption, CodeType
<1> QED
  BY <1>1, <1>2, OpsTypes

\* A replica that is started again.
LEMMA RestartTypes ==
  ASSUME TypeOK, NEW p \in Replicas, Restart(p)
  PROVE  /\ DbTypes' /\ MapTypes' /\ ReqTypes'
         /\ leaked' \in [Channels -> Nat] /\ UNCHANGED <<count, ttl, spare>>
<1>1. DbTypes'
  BY DEF Restart, TypeOK, DbTypes, dbVars
<1>2. MapTypes'
  <2>1. byID' \in [Replicas -> SUBSET Channels]
    BY DEF Restart, TypeOK
  <2>2. breaker' \in [Replicas -> [Channels -> Breaker]]
    BY NewBreakerType DEF Restart, TypeOK
  <2>3. load' \in [Replicas -> {"idle", "queried", "filling"}] /\ rows' \in [Replicas -> SUBSET Channels]
    BY DEF Restart, TypeOK
  <2> QED
    BY <2>1, <2>2, <2>3 DEF MapTypes
<1>3. ReqTypes'
  <2>1. pc' \in [Requests -> Steps] /\ at' \in [Requests -> Replicas]
    BY DEF Restart, TypeOK, Steps
  <2>2. cand' \in [Requests -> Seq(Channels)]
    BY DEF Restart, TypeOK
  <2>3. \A r \in Requests : pc'[r] # "idle" => cand'[r] # <<>>
    BY DEF Restart, TypeOK
  <2>4. stale' \in [Requests -> BOOLEAN]
    BY DEF Restart, TypeOK
  <2>5. report' \in [Requests -> [status : {"active", "error"}, clears : BOOLEAN]]
    BY DEF Restart, TypeOK, NoReport
  <2> QED
    BY <2>1, <2>2, <2>3, <2>4, <2>5 DEF ReqTypes
<1>4. leaked' \in [Channels -> Nat]
  <2>1. \A c \in Channels : Cardinality({r \in Window(c) : at[r] = p}) \in Nat
    BY PoolAssumption, FS_Subset, FS_CardinalityType DEF Window
  <2>2. ASSUME NEW c \in Channels
        PROVE  leaked[c] + Cardinality({r \in Window(c) : at[r] = p}) \in Nat
    <3> DEFINE k == Cardinality({r \in Window(c) : at[r] = p})
    <3>1. k \in Nat
      BY <2>1
    <3>2. leaked[c] \in Nat
      BY DEF TypeOK
    <3> HIDE DEF k
    <3> QED
      BY <3>1, <3>2 DEF k
  <2> QED
    BY <2>2 DEF Restart
<1> QED
  BY <1>1, <1>2, <1>3, <1>4 DEF Restart

\* Every step keeps the types.
LEMMA TypeStep ==
  ASSUME TypeOK, Next
  PROVE  TypeOK'
<1>1. ASSUME NEW r \in Requests, Try(r) PROVE TypeOK'
  <2>1. DbTypes' /\ MapTypes'
    BY <1>1, TypeFrames DEF Try, dbVars, mapVars, reqVars
  <2>2. RedisTypes'
    BY <1>1, RedisStep DEF Try
  <2>3. ReqTypes'
    BY <1>1, MoveTypes DEF Try, Steps, Busy, Over
  <2> QED
    BY <2>1, <2>2, <2>3, TypeParts
<1>2. ASSUME NEW r \in Requests, TryFails(r) PROVE TypeOK'
  <2>1. DbTypes' /\ MapTypes'
    BY <1>2, TypeFrames DEF TryFails, dbVars, mapVars, reqVars
  <2>2. RedisTypes'
    BY <1>2, RedisStep DEF TryFails, AllFaults, redisVars
  <2>3. ReqTypes'
    BY <1>2, MoveTypes DEF TryFails
  <2> QED
    BY <2>1, <2>2, <2>3, TypeParts
<1>3. ASSUME NEW r \in Requests, Undo(r) PROVE TypeOK'
  <2>1. DbTypes' /\ MapTypes'
    BY <1>3, TypeFrames DEF Undo, dbVars, mapVars, reqVars
  <2>2. RedisTypes'
    BY <1>3, RedisStep DEF Undo
  <2>3. ReqTypes'
    BY <1>3, MoveTypes DEF Undo
  <2> QED
    BY <2>1, <2>2, <2>3, TypeParts
<1>4. ASSUME NEW r \in Requests, UndoFails(r) PROVE TypeOK'
  <2>1. DbTypes' /\ MapTypes'
    BY <1>4, TypeFrames DEF UndoFails, dbVars, mapVars, reqVars
  <2>2. RedisTypes'
    BY <1>4, RedisStep DEF UndoFails, AllFaults
  <2>3. ReqTypes'
    BY <1>4, MoveTypes DEF UndoFails
  <2> QED
    BY <2>1, <2>2, <2>3, TypeParts
<1>5. ASSUME NEW r \in Requests, Lookup(r) PROVE TypeOK'
  <2>1. DbTypes' /\ RedisTypes' /\ MapTypes'
    BY <1>5, TypeFrames DEF Lookup, dbVars, mapVars, reqVars
  <2>2. ReqTypes'
    BY <1>5, MoveTypes DEF Lookup, Steps, Busy
  <2> QED
    BY <2>1, <2>2, TypeParts
<1>6. ASSUME NEW r \in Requests, LookupNil(r) PROVE TypeOK'
  <2>1. DbTypes' /\ MapTypes'
    BY <1>6, TypeFrames DEF LookupNil, dbVars, mapVars, reqVars
  <2>2. RedisTypes'
    BY <1>6, RedisStep DEF LookupNil
  <2>3. ReqTypes'
    BY <1>6, MoveTypes DEF LookupNil
  <2> QED
    BY <2>1, <2>2, <2>3, TypeParts
<1>7. ASSUME NEW r \in Requests, Answered(r) PROVE TypeOK'
  <2>1. DbTypes' /\ RedisTypes'
    BY <1>7, TypeFrames DEF Answered, dbVars, mapVars, reqVars
  <2>2. MapTypes'
    <3>1. at[r] \in Replicas /\ Current(r) \in Channels
      BY <1>7, CurrentType DEF Answered, TypeOK
    <3> QED
      BY <1>7, <3>1, BreakerAfter, BreakerTypes, TypeFrames DEF Answered, mapVars
  <2>3. ReqTypes'
    BY <1>7, MoveTypes DEF Answered, Steps, Busy
  <2> QED
    BY <2>1, <2>2, <2>3, TypeParts
<1>8. ASSUME NEW r \in Requests, Failed(r) PROVE TypeOK'
  <2>1. DbTypes' /\ RedisTypes'
    BY <1>8, TypeFrames DEF Failed, dbVars, mapVars, reqVars
  <2>2. MapTypes'
    <3>1. at[r] \in Replicas /\ Current(r) \in Channels
      BY <1>8, CurrentType DEF Failed, TypeOK
    <3> QED
      BY <1>8, <3>1, BreakerAfter, BreakerTypes, TypeFrames DEF Failed, mapVars
  <2>3. ReqTypes'
    BY <1>8 DEF Failed, StatusToWrite, Goto, TypeOK, ReqTypes, Steps, Busy
  <2> QED
    BY <2>1, <2>2, <2>3, TypeParts
<1>9. ASSUME NEW r \in Requests, Persist(r) PROVE TypeOK'
  <2>1. RedisTypes' /\ MapTypes'
    BY <1>9, TypeFrames DEF Persist, dbVars, mapVars, reqVars
  <2>2. DbTypes'
    BY <1>9 DEF Persist, TypeOK, DbTypes, Current
  <2>3. ReqTypes'
    BY <1>9 DEF Persist, Goto, NoReport, TypeOK, ReqTypes, Steps, Busy
  <2> QED
    BY <2>1, <2>2, <2>3, TypeParts
<1>10. ASSUME NEW r \in Requests, ClearFailures(r) PROVE TypeOK'
  <2>1. DbTypes' /\ RedisTypes'
    BY <1>10, TypeFrames DEF ClearFailures, dbVars, mapVars, reqVars
  <2>2. MapTypes'
    <3>1. at[r] \in Replicas /\ Current(r) \in Channels
      BY <1>10, CurrentType DEF ClearFailures, TypeOK
    <3> QED
      BY <1>10, <3>1, BreakerAfter, BreakerTypes, TypeFrames DEF ClearFailures, mapVars
  <2>3. ReqTypes'
    BY <1>10, MoveTypes DEF ClearFailures, Steps, Busy
  <2> QED
    BY <2>1, <2>2, <2>3, TypeParts
<1>11. ASSUME NEW r \in Requests, Release(r) PROVE TypeOK'
  <2>1. DbTypes' /\ MapTypes'
    BY <1>11, TypeFrames DEF Release, dbVars, mapVars, reqVars
  <2>2. RedisTypes'
    BY <1>11, RedisStep DEF Release
  <2>3. ReqTypes'
    BY <1>11, MoveTypes DEF Release, Steps, Busy
  <2> QED
    BY <2>1, <2>2, <2>3, TypeParts
<1>12. ASSUME NEW r \in Requests, ReleaseFails(r) PROVE TypeOK'
  <2>1. DbTypes' /\ MapTypes'
    BY <1>12, TypeFrames DEF ReleaseFails, dbVars, mapVars, reqVars
  <2>2. RedisTypes'
    BY <1>12, RedisStep DEF ReleaseFails, AllFaults
  <2>3. ReqTypes'
    BY <1>12, MoveTypes DEF ReleaseFails, Steps, Busy
  <2> QED
    BY <2>1, <2>2, <2>3, TypeParts
<1>13. ASSUME NEW r \in Requests, Floor(r) PROVE TypeOK'
  <2>1. DbTypes' /\ MapTypes'
    BY <1>13, TypeFrames DEF Floor, dbVars, mapVars, reqVars
  <2>2. RedisTypes'
    BY <1>13, RedisStep DEF Floor, AllFaults, redisVars
  <2>3. ReqTypes'
    BY <1>13, MoveTypes DEF Floor, Steps, Busy
  <2> QED
    BY <2>1, <2>2, <2>3, TypeParts
<1>14. ASSUME NEW r \in Requests, Zero(r) PROVE TypeOK'
  <2>1. DbTypes' /\ MapTypes'
    BY <1>14, TypeFrames DEF Zero, dbVars, mapVars, reqVars
  <2>2. RedisTypes'
    BY <1>14, RedisStep DEF Zero, AllFaults, redisVars
  <2>3. ReqTypes'
    BY <1>14, MoveTypes DEF Zero
  <2> QED
    BY <2>1, <2>2, <2>3, TypeParts
<1>15. ASSUME NEW r \in Requests, NEW p \in Replicas, Arrive(r, p) \/ ArriveBlind(r, p)
       PROVE  TypeOK'
  <2>1. PICK seen : ArriveSeeing(r, p, seen)
    BY <1>15 DEF Arrive, ArriveBlind
  <2>2. DbTypes' /\ MapTypes'
    BY <2>1, TypeFrames DEF ArriveSeeing, dbVars, mapVars, reqVars
  <2>3. RedisTypes'
    BY <1>15, <2>1, PoolAssumption
       DEF Arrive, ArriveBlind, ArriveSeeing, MayFail, RedisTypes, TypeOK, redisVars
  <2>4. ReqTypes'
    <3>1. PICK s \in Sorted({c \in Channels : Eligible(p, c, seen)}, seen) :
            s # <<>> /\ cand' = [cand EXCEPT ![r] = s]
      BY <2>1 DEF ArriveSeeing
    <3>2. s \in Seq(Channels)
      BY SortedType
    <3> QED
      BY <2>1, <3>1, <3>2 DEF ArriveSeeing, Goto, TypeOK, ReqTypes, Steps
  <2> QED
    BY <2>2, <2>3, <2>4, TypeParts
<1>16. ASSUME NEW p \in Replicas, Query(p) PROVE TypeOK'
  <2>1. DbTypes' /\ RedisTypes' /\ ReqTypes'
    BY <1>16, TypeFrames DEF Query, dbVars, mapVars, reqVars
  <2>2. MapTypes'
    BY <1>16 DEF Query, Listed, TypeOK, MapTypes
  <2> QED
    BY <2>1, <2>2, TypeParts
<1>17. ASSUME NEW p \in Replicas, Clear(p) PROVE TypeOK'
  <2>1. DbTypes' /\ RedisTypes'
    BY <1>17, TypeFrames DEF Clear, dbVars, mapVars, reqVars
  <2>2. MapTypes'
    <3>1. breaker' \in [Replicas -> [Channels -> Breaker]]
      BY <1>17, NewBreakerType DEF Clear, TypeOK
    <3> QED
      BY <1>17, <3>1 DEF Clear, TypeOK, MapTypes
  <2>3. ReqTypes'
    BY <1>17 DEF Clear, TypeOK, ReqTypes
  <2> QED
    BY <2>1, <2>2, <2>3, TypeParts
<1>18. ASSUME NEW p \in Replicas, Fill(p) PROVE TypeOK'
  <2>1. DbTypes' /\ ReqTypes'
    BY <1>18, TypeFrames DEF Fill, dbVars, mapVars, reqVars
  <2>2. RedisTypes'
    BY <1>18, ValueType DEF Fill, TypeOK, RedisTypes
  <2>3. MapTypes'
    BY <1>18 DEF Fill, TypeOK, MapTypes
  <2> QED
    BY <2>1, <2>2, <2>3, TypeParts
<1>19. ASSUME NEW p \in Replicas, Crash(p) PROVE TypeOK'
  BY <1>19, RestartTypes, TypeParts, PoolAssumption DEF Crash, MayFail, TypeOK, RedisTypes
<1>20. ASSUME NEW p \in Replicas, LookupRace(p) PROVE TypeOK'
  BY <1>20, RestartTypes, TypeParts DEF LookupRace, TypeOK, RedisTypes
<1>21. ASSUME NEW p \in Replicas, Shutdown(p) PROVE TypeOK'
  <2>1. DbTypes' /\ MapTypes' /\ ReqTypes'
    BY <1>21, TypeFrames DEF Shutdown, dbVars, mapVars, reqVars
  <2>2. Drop(byID[p]) /\ byID[p] \in SUBSET Channels /\ faults' \in 0..MaxFaults
    BY <1>21, PoolAssumption DEF Shutdown, TypeOK, MayFail
  <2>3. RedisTypes'
    BY <2>2, DropIs DEF RedisTypes
  <2> QED
    BY <2>1, <2>3, TypeParts
<1>22. ASSUME NEW c \in Channels, Administer(c) PROVE TypeOK'
  <2>1. RedisTypes' /\ MapTypes' /\ ReqTypes'
    BY <1>22, TypeFrames DEF Administer, dbVars, mapVars, reqVars
  <2>2. DbTypes'
    <3>1. admin' \in 0..MaxAdmin
      BY <1>22, PoolAssumption DEF Administer, TypeOK
    <3>2. db' \in [Channels -> {"active", "error", "disabled", "gone"}]
      BY <1>22 DEF Administer, TypeOK
    <3> QED
      BY <3>1, <3>2 DEF DbTypes
  <2> QED
    BY <2>1, <2>2, TypeParts
<1>23. ASSUME NEW c \in Channels, ExpireIdle(c) PROVE TypeOK'
  <2>1. DbTypes' /\ MapTypes' /\ ReqTypes'
    BY <1>23, TypeFrames DEF ExpireIdle, dbVars, mapVars, reqVars
  <2>2. Drop({c}) /\ {c} \in SUBSET Channels /\ faults' \in 0..MaxFaults
    BY <1>23, PoolAssumption DEF ExpireIdle, TypeOK
  <2>3. RedisTypes'
    BY <2>2, DropIs DEF RedisTypes
  <2> QED
    BY <2>1, <2>3, TypeParts
<1>24. ASSUME NEW c \in Channels, ExpireLate(c) PROVE TypeOK'
  <2>1. DbTypes' /\ MapTypes' /\ ReqTypes'
    BY <1>24, TypeFrames DEF ExpireLate, dbVars, mapVars, reqVars
  <2>2. Drop({c}) /\ {c} \in SUBSET Channels /\ faults' \in 0..MaxFaults
    BY <1>24, PoolAssumption DEF ExpireLate, TypeOK, MayFail
  <2>3. RedisTypes'
    BY <2>2, DropIs DEF RedisTypes
  <2> QED
    BY <2>1, <2>3, TypeParts
<1>25. ASSUME NEW r \in Requests, TryAgain(r) PROVE TypeOK'
  <2>1. DbTypes' /\ MapTypes' /\ ReqTypes'
    BY <1>25, TypeFrames DEF TryAgain
  <2>2. RedisTypes'
    BY <1>25, RedisStep DEF TryAgain, AllFaults
  <2> QED
    BY <2>1, <2>2, TypeParts
<1>26. ASSUME NEW r \in Requests, DecrAgain(r) PROVE TypeOK'
  <2>1. DbTypes' /\ MapTypes' /\ ReqTypes'
    BY <1>26, TypeFrames DEF DecrAgain
  <2>2. RedisTypes'
    BY <1>26, RedisStep DEF DecrAgain, AllFaults
  <2> QED
    BY <2>1, <2>2, TypeParts
<1>27. ASSUME NEW r \in Requests, ZeroAgain(r) PROVE TypeOK'
  <2>1. DbTypes' /\ MapTypes' /\ ReqTypes'
    BY <1>27, TypeFrames DEF ZeroAgain
  <2>2. RedisTypes'
    BY <1>27, RedisStep DEF ZeroAgain, AllFaults
  <2> QED
    BY <2>1, <2>2, TypeParts
<1>28. ASSUME NEW r \in Requests, Renew(r) PROVE TypeOK'
  <2>1. DbTypes' /\ MapTypes'
    BY <1>28, TypeFrames DEF Renew
  <2>2. RedisTypes'
    BY <1>28, RedisStep DEF Renew, AllFaults
  <2>3. ReqTypes'
    BY <1>28, MoveTypes DEF Renew, Steps, Busy, Over
  <2> QED
    BY <2>1, <2>2, <2>3, TypeParts
<1> QED
  BY <1>1, <1>2, <1>3, <1>4, <1>5, <1>6, <1>7, <1>8, <1>9, <1>10, <1>11,
     <1>12, <1>13, <1>14, <1>15, <1>16, <1>17, <1>18, <1>19, <1>20, <1>21,
     <1>22, <1>23, <1>24, <1>25, <1>26, <1>27, <1>28 DEF Next, Handle, Reload

LEMMA TypeInit == Init => TypeOK
BY NewBreakerType, PoolAssumption DEF Init, TypeOK, Steps, NoReport

\* Every variable keeps its type (the whole of the model).
THEOREM TypeCorrect == Spec => []TypeOK
<1>1. TypeOK /\ UNCHANGED vars => TypeOK'
  BY TypeFrames, TypeParts DEF vars
<1> QED
  BY <1>1, TypeInit, TypeStep, PTL DEF Spec

-----------------------------------------------------------------------------
(* Counting                                                                *)

\* What there is to show of each channel.
Tallied(c) ==
  /\ Value(c) = Cardinality(Window(c)) + leaked[c] - spare[c]
  /\ Cardinality(Holders(c)) <= MaxConcurrency[c] + spare[c]

LEMMA CountParts == CountInv <=> \A c \in Channels : Tallied(c)
BY DEF CountInv, SlotsAccounted, SlotsBounded, Tallied

LEMMA CountPartsNext ==
  ASSUME \A c \in Channels : Tallied(c)'
  PROVE  CountInv'
BY DEF CountInv, SlotsAccounted, SlotsBounded, Tallied

LEMMA Numbers ==
  ASSUME TypeOK, NEW c \in Channels
  PROVE  Value(c) \in Int /\ leaked[c] \in Nat /\ spare[c] \in Nat /\ MaxConcurrency[c] \in Nat
BY ValueType, PoolAssumption DEF TypeOK

LEMMA NumbersNext ==
  ASSUME TypeOK', NEW c \in Channels
  PROVE  Value(c)' \in Int /\ leaked'[c] \in Nat /\ spare'[c] \in Nat
BY PoolAssumption DEF TypeOK, Value

\* A channel whose counter follows its handlers and the history, and that no
\* handler newly holds.
LEMMA Follows ==
  ASSUME TypeOK, TypeOK', CountInv, NEW c \in Channels,
         Value(c)' - Value(c) =
           (Cardinality(Window(c)') - Cardinality(Window(c)))
             + (leaked'[c] - leaked[c]) - (spare'[c] - spare[c]),
         Holders(c)' \subseteq Holders(c), spare'[c] >= spare[c]
  PROVE  Tallied(c)'
<1>1. Tallied(c)
  BY CountParts
<1>2. Cardinality(Holders(c)') <= Cardinality(Holders(c))
  BY Finite, FS_Subset
<1>3. /\ Cardinality(Holders(c)') \in Nat /\ Cardinality(Holders(c)) \in Nat
      /\ Cardinality(Window(c)') \in Nat /\ Cardinality(Window(c)) \in Nat
  BY Finite, FiniteNext
<1>4. Cardinality(Holders(c)') <= MaxConcurrency[c] + spare'[c]
  BY <1>1, <1>2, <1>3, Numbers, NumbersNext DEF Tallied
<1>5. Value(c)' = Cardinality(Window(c)') + leaked'[c] - spare'[c]
  BY <1>1, <1>3, Numbers, NumbersNext DEF Tallied
<1> QED
  BY <1>4, <1>5 DEF Tallied

\* A channel that the step does not touch.
LEMMA Untouched ==
  ASSUME TypeOK, TypeOK', CountInv, NEW c \in Channels,
         Value(c)' = Value(c), leaked'[c] = leaked[c], spare'[c] = spare[c],
         Window(c)' = Window(c), Holders(c)' \subseteq Holders(c)
  PROVE  Tallied(c)'
BY Follows, Numbers, Finite

\* A channel whose counter has gone, or is set to 0.
LEMMA Forgotten ==
  ASSUME TypeOK, NEW c \in Channels, Value(c)' = 0, leaked'[c] = 0,
         spare'[c] = Cardinality(Window(c)), Window(c)' = Window(c)
  PROVE  Tallied(c)'
BY FiniteNext, Numbers DEF Tallied

\* When one handler moves, the windows change by at most that handler.
LEMMA OneMoves ==
  ASSUME NEW r \in Requests, NEW c \in Channels,
         \A q \in Requests \ {r} : pc'[q] = pc[q] /\ cand'[q] = cand[q]
  PROVE  /\ (r \in Window(c) <=> r \in Window(c)') => Window(c)' = Window(c)
         /\ r \notin Window(c) /\ r \in Window(c)' =>
              Cardinality(Window(c)') = Cardinality(Window(c)) + 1
         /\ r \in Window(c) /\ r \notin Window(c)' =>
              Cardinality(Window(c)') = Cardinality(Window(c)) - 1
         /\ (r \in Holders(c)' => r \in Holders(c)) => Holders(c)' \subseteq Holders(c)
<1>1. \A q \in Requests \ {r} : /\ q \in Window(c)' <=> q \in Window(c)
                                /\ q \in Holders(c)' <=> q \in Holders(c)
  BY DEF Window, Holders, Current
<1>2. Window(c) \subseteq Requests /\ Window(c)' \subseteq Requests
      /\ Holders(c) \subseteq Requests /\ Holders(c)' \subseteq Requests
  BY DEF Window, Holders
<1>3. ASSUME r \notin Window(c), r \in Window(c)'
      PROVE  Cardinality(Window(c)') = Cardinality(Window(c)) + 1
  <2>1. Window(c)' = Window(c) \union {r}
    BY <1>1, <1>2, <1>3
  <2> QED
    BY <1>3, <2>1, Finite, FS_AddElement
<1>4. ASSUME r \in Window(c), r \notin Window(c)'
      PROVE  Cardinality(Window(c)') = Cardinality(Window(c)) - 1
  <2>1. Window(c)' = Window(c) \ {r}
    BY <1>1, <1>2, <1>4
  <2> QED
    BY <1>4, <2>1, Finite, FS_RemoveElement
<1> QED
  BY <1>1, <1>2, <1>3, <1>4

\* A step of one handler, if any, that enters no window and leaves none, and by
\* which the counter of one channel and its history move alike.
LEMMA Stays ==
  ASSUME TypeOK, TypeOK', CountInv, NEW r \in Requests, NEW d \in Channels,
         \A q \in Requests \ {r} : pc'[q] = pc[q] /\ cand'[q] = cand[q],
         \A c \in Channels : /\ r \in Window(c) <=> r \in Window(c)'
                             /\ r \in Holders(c)' => r \in Holders(c),
         \/ UNCHANGED <<count, leaked, spare>>
         \/ Add(d, 1) /\ Leak(d, 1)
         \/ Add(d, -1) /\ Spare(d, 1)
  PROVE  CountInv'
<1>1. \A c \in Channels : Window(c)' = Window(c) /\ Holders(c)' \subseteq Holders(c)
  BY OneMoves
<1>2. CASE UNCHANGED <<count, leaked, spare>>
  <2>1. \A c \in Channels : Value(c)' = Value(c)
    BY <1>2 DEF Value
  <2> QED
    BY <1>1, <1>2, <2>1, Untouched, CountPartsNext
<1>3. CASE (Add(d, 1) /\ Leak(d, 1)) \/ (Add(d, -1) /\ Spare(d, 1))
  <2>1. /\ \A c \in Channels \ {d} : /\ Value(c)' = Value(c)
                                     /\ leaked'[c] = leaked[c] /\ spare'[c] = spare[c]
        /\ \/ Value(d)' = Value(d) + 1 /\ leaked'[d] = leaked[d] + 1 /\ spare'[d] = spare[d]
           \/ Value(d)' = Value(d) + (-1) /\ leaked'[d] = leaked[d] /\ spare'[d] = spare[d] + 1
    BY <1>3, AddIs, LeakIs, SpareIs
  <2>2. \A c \in Channels \ {d} : Tallied(c)'
    BY <1>1, <2>1, Untouched
  <2>3. Value(d)' - Value(d) =
          (Cardinality(Window(d)') - Cardinality(Window(d)))
            + (leaked'[d] - leaked[d]) - (spare'[d] - spare[d])
    BY <1>1, <2>1, Numbers, Finite
  <2>4. spare'[d] >= spare[d]
    BY <2>1, Numbers
  <2>5. Tallied(d)'
    BY <1>1, <2>3, <2>4, Follows
  <2> QED
    BY <2>2, <2>5, CountPartsNext
<1> QED
  BY <1>2, <1>3

\* A handler leaves the window of its channel: it gives its slot back, or the
\* slot is lost.
LEMMA Leaves ==
  ASSUME TypeOK, TypeOK', CountInv, NEW r \in Requests, pc[r] \in Busy \union Over,
         \A q \in Requests \ {r} : pc'[q] = pc[q] /\ cand'[q] = cand[q],
         pc'[r] \notin Busy \union Over,
         \/ Add(Current(r), -1) /\ UNCHANGED <<leaked, spare>>
         \/ UNCHANGED count /\ Leak(Current(r), 1)
  PROVE  CountInv'
<1>0. PICK d \in Channels : d = Current(r)
  BY CurrentType DEF Busy, Over
<1>1. r \in Window(d) /\ \A c \in Channels \ {d} : r \notin Window(c)
  BY <1>0 DEF Window
<1>2. \A c \in Channels : r \notin Window(c)' /\ r \notin Holders(c)'
  BY DEF Window, Holders
<1>3. /\ \A c \in Channels \ {d} : /\ Value(c)' = Value(c)
                                   /\ leaked'[c] = leaked[c] /\ spare'[c] = spare[c]
      /\ \/ Value(d)' = Value(d) + (-1) /\ leaked'[d] = leaked[d] /\ spare'[d] = spare[d]
         \/ Value(d)' = Value(d) /\ leaked'[d] = leaked[d] + 1 /\ spare'[d] = spare[d]
  <2>1. CASE Add(Current(r), -1) /\ UNCHANGED <<leaked, spare>>
    BY <1>0, <2>1, AddIs
  <2>2. CASE UNCHANGED count /\ Leak(Current(r), 1)
    BY <1>0, <2>2, LeakIs DEF Value
  <2> QED
    BY <2>1, <2>2
<1>4. ASSUME NEW c \in Channels, c # d
      PROVE  Tallied(c)'
  <2>1. Window(c)' = Window(c) /\ Holders(c)' \subseteq Holders(c)
    BY <1>1, <1>2, <1>4, OneMoves
  <2> QED
    BY <1>3, <1>4, <2>1, Untouched
<1>5. Tallied(d)'
  <2>1. /\ Cardinality(Window(d)') = Cardinality(Window(d)) - 1
        /\ Holders(d)' \subseteq Holders(d)
    BY <1>1, <1>2, OneMoves
  <2>2. Value(d)' - Value(d) =
          (Cardinality(Window(d)') - Cardinality(Window(d)))
            + (leaked'[d] - leaked[d]) - (spare'[d] - spare[d])
    BY <1>3, <2>1, Numbers, Finite
  <2>3. spare'[d] >= spare[d]
    BY <1>3, Numbers
  <2> QED
    BY <2>1, <2>2, <2>3, Follows
<1> QED
  BY <1>4, <1>5, CountPartsNext

\* INCR.  The handler enters the window, and holds a slot only when the new value
\* is within the limit.
LEMMA TryCounts ==
  ASSUME TypeOK, TypeOK', CountInv, NEW r \in Requests, Try(r)
  PROVE  CountInv'
<1>1. PICK d \in Channels : d = Current(r)
  BY CurrentType DEF Try
<1>2. \A q \in Requests \ {r} : pc'[q] = pc[q] /\ cand'[q] = cand[q]
  BY DEF Try, Goto
<1>3. \A c \in Channels : r \notin Window(c) /\ r \notin Holders(c)
  BY DEF Try, Window, Holders, Busy, Over
<1>4. /\ pc'[r] = IF Value(d) + 1 > MaxConcurrency[d] THEN "expireOver" ELSE "expire"
      /\ cand'[r] = cand[r] /\ Add(d, 1) /\ UNCHANGED <<leaked, spare>>
  BY <1>1 DEF Try, Goto, TypeOK
<1>5. r \in Window(d)' /\ \A c \in Channels \ {d} : r \notin Window(c)' /\ r \notin Holders(c)'
  BY <1>1, <1>4 DEF Window, Holders, Busy, Over, Current
<1>6. Value(d)' = Value(d) + 1 /\ \A c \in Channels \ {d} : Value(c)' = Value(c)
  BY <1>4, AddIs
<1>7. ASSUME NEW c \in Channels, c # d
      PROVE  Tallied(c)'
  <2>1. Window(c)' = Window(c) /\ Holders(c)' \subseteq Holders(c)
    BY <1>2, <1>3, <1>5, <1>7, OneMoves
  <2> QED
    BY <1>4, <1>6, <1>7, <2>1, Untouched
<1>8. Value(d)' = Cardinality(Window(d)') + leaked'[d] - spare'[d]
  <2>1. Cardinality(Window(d)') = Cardinality(Window(d)) + 1
    BY <1>2, <1>3, <1>5, OneMoves
  <2>2. Value(d) = Cardinality(Window(d)) + leaked[d] - spare[d]
    BY CountParts DEF Tallied
  <2> QED
    BY <1>4, <1>6, <2>1, <2>2, Finite, Numbers
<1>9. Cardinality(Holders(d)') <= MaxConcurrency[d] + spare'[d]
  <2>1. CASE Value(d) + 1 > MaxConcurrency[d]
    <3>1. Holders(d)' \subseteq Holders(d)
      <4>1. r \notin Holders(d)'
        BY <1>4, <2>1 DEF Holders, Busy
      <4> QED
        BY <1>2, <4>1, OneMoves
    <3>2. Cardinality(Holders(d)') <= Cardinality(Holders(d))
      BY <3>1, Finite, FS_Subset
    <3>3. Cardinality(Holders(d)) <= MaxConcurrency[d] + spare[d]
      BY CountParts DEF Tallied
    <3> QED
      BY <1>4, <3>2, <3>3, Finite, FiniteNext, Numbers
  <2>2. CASE ~(Value(d) + 1 > MaxConcurrency[d])
    <3>1. Cardinality(Window(d)') <= MaxConcurrency[d] + spare'[d]
      BY <1>4, <1>6, <1>8, <2>2, FiniteNext, Numbers
    <3> QED
      BY <1>4, <3>1, FiniteNext, Numbers
  <2> QED
    BY <2>1, <2>2
<1> QED
  BY <1>7, <1>8, <1>9, CountPartsNext DEF Tallied

\* A replica that dies takes its handlers out of every window and leaves their
\* slots behind.
LEMMA RestartCounts ==
  ASSUME TypeOK, TypeOK', CountInv, NEW p \in Replicas, Restart(p)
  PROVE  CountInv'
<1>1. ASSUME NEW c \in Channels
      PROVE  Tallied(c)'
  <2> DEFINE K == {r \in Window(c) : at[r] = p}
  <2>1. Window(c)' = Window(c) \ K
    BY DEF Restart, Window, Current, Busy, Over, TypeOK
  <2>2. Holders(c)' \subseteq Holders(c)
    BY DEF Restart, Holders, Current, Busy, TypeOK
  <2>3. Window(c) \cap K = K /\ K \subseteq Window(c)
    OBVIOUS
  <2>4. Value(c)' = Value(c) /\ leaked'[c] = leaked[c] + Cardinality(K) /\ spare'[c] = spare[c]
    BY DEF Restart, Value
  <2>5. K \in SUBSET Window(c) /\ IsFiniteSet(Window(c))
    BY <2>3, Finite
  <2>6. Cardinality(K) \in Nat
    BY <2>5, FS_Subset, FS_CardinalityType
  <2> HIDE DEF K
  <2>7. Cardinality(Window(c)') = Cardinality(Window(c)) - Cardinality(K)
    BY <2>1, <2>3, <2>5, FS_Difference
  <2>8. Value(c)' - Value(c) =
          (Cardinality(Window(c)') - Cardinality(Window(c)))
            + (leaked'[c] - leaked[c]) - (spare'[c] - spare[c])
    BY <2>4, <2>6, <2>7, Numbers, Finite
  <2>9. spare'[c] >= spare[c]
    BY <2>4, Numbers
  <2> QED
    BY <2>2, <2>8, <2>9, Follows
<1> QED
  BY <1>1, CountPartsNext

\* Counters that go, or are set to 0.
LEMMA ForgetCounts ==
  ASSUME TypeOK, TypeOK', CountInv, NEW S \in SUBSET Channels, Drop(S),
         \A c \in Channels : Window(c)' = Window(c) /\ Holders(c)' = Holders(c)
  PROVE  CountInv'
<1>1. Forget(S)
  BY DEF Drop
<1>2. \A c \in S : Tallied(c)'
  BY <1>1, ForgetIs, DropIs, Forgotten
<1>3. \A c \in Channels \ S : Tallied(c)'
  BY <1>1, ForgetIs, DropIs, Untouched
<1> QED
  BY <1>2, <1>3, CountPartsNext

LEMMA ZeroCounts ==
  ASSUME TypeOK, TypeOK', CountInv, NEW d \in Channels, SetZero(d),
         \A c \in Channels : Window(c)' = Window(c) /\ Holders(c)' = Holders(c)
  PROVE  CountInv'
<1>1. Forget({d}) /\ {d} \in SUBSET Channels
  BY DEF SetZero
<1>2. Tallied(d)'
  BY <1>1, ForgetIs, SetZeroIs, Forgotten
<1>3. \A c \in Channels \ {d} : Tallied(c)'
  BY <1>1, ForgetIs, SetZeroIs, Untouched
<1> QED
  BY <1>2, <1>3, CountPartsNext

\* A step that no handler takes and that leaves every counter's value.
LEMMA AsideCounts ==
  ASSUME TypeOK, TypeOK', CountInv, UNCHANGED <<pc, cand, leaked, spare>>,
         \A c \in Channels : Value(c)' = Value(c)
  PROVE  CountInv'
<1>1. \A c \in Channels : Window(c)' = Window(c) /\ Holders(c)' = Holders(c)
  BY DEF Window, Holders, Current
<1> QED
  BY <1>1, Untouched, CountPartsNext

\* Every step keeps the counters accounted for.
LEMMA CountStep ==
  ASSUME TypeOK, TypeOK', CountInv, Next
  PROVE  CountInv'
<1>1. ASSUME NEW r \in Requests, Try(r) PROVE CountInv'
  BY <1>1, TryCounts
<1>2. ASSUME NEW r \in Requests, TryFails(r) PROVE CountInv'
  <2>1. PICK d \in Channels : d = Current(r)
    BY <1>2, CurrentType DEF TryFails
  <2>2. \A q \in Requests \ {r} : pc'[q] = pc[q] /\ cand'[q] = cand[q]
    BY <1>2 DEF TryFails, NextCandidate
  <2>3. pc[r] = "try" /\ pc'[r] \in {"idle", "try"}
    BY <1>2 DEF TryFails, NextCandidate, TypeOK
  <2>4. \A c \in Channels : r \notin Window(c) /\ r \notin Window(c)' /\ r \notin Holders(c)'
    BY <2>3 DEF Window, Holders, Busy, Over
  <2>5. UNCHANGED <<count, leaked, spare>> \/ (Add(d, 1) /\ Leak(d, 1))
    BY <1>2, <2>1 DEF TryFails, redisVars
  <2> QED
    BY <2>2, <2>4, <2>5, Stays
<1>3. ASSUME NEW r \in Requests, Undo(r) \/ UndoFails(r) PROVE CountInv'
  <2>1. NextCandidate(r) /\ pc[r] = "undo"
    BY <1>3 DEF Undo, UndoFails
  <2>2. /\ \A q \in Requests \ {r} : pc'[q] = pc[q] /\ cand'[q] = cand[q]
        /\ pc'[r] \in {"idle", "try"}
    BY <2>1 DEF NextCandidate, TypeOK
  <2> QED
    BY <1>3, <2>1, <2>2, Leaves DEF Undo, UndoFails, Busy, Over
<1>4. ASSUME NEW r \in Requests, TryAgain(r) \/ DecrAgain(r) PROVE CountInv'
  <2>1. PICK d \in Channels : d = Current(r)
    BY <1>4, CurrentType DEF TryAgain, DecrAgain
  <2>2. UNCHANGED <<pc, cand>>
    BY <1>4 DEF TryAgain, DecrAgain, reqVars
  <2>3. \A c \in Channels : Window(c)' = Window(c) /\ Holders(c)' = Holders(c)
    BY <2>2 DEF Window, Holders, Current
  <2>4. (Add(d, 1) /\ Leak(d, 1)) \/ (Add(d, -1) /\ Spare(d, 1))
    BY <1>4, <2>1 DEF TryAgain, DecrAgain
  <2> QED
    BY <2>2, <2>3, <2>4, Stays
<1>5. ASSUME NEW r \in Requests, \E step \in Steps : Goto(r, step),
             \/ pc[r] \in Busy /\ pc'[r] \in Busy
             \/ pc[r] \in Over /\ pc'[r] \in Over,
             UNCHANGED <<cand, count, leaked, spare>>
      PROVE  CountInv'
  <2>1. \A q \in Requests \ {r} : pc'[q] = pc[q] /\ cand'[q] = cand[q]
    BY <1>5 DEF Goto
  <2>2. \A c \in Channels : /\ r \in Window(c) <=> r \in Window(c)'
                            /\ r \in Holders(c)' => r \in Holders(c)
    BY <1>5, <2>1 DEF Window, Holders, Current, Busy, Over
  <2>3. PICK d \in Channels : d = Current(r)
    BY <1>5, CurrentType DEF Busy, Over
  <2> QED
    BY <1>5, <2>1, <2>2, <2>3, Stays
<1>6. ASSUME NEW r \in Requests,
             \/ Renew(r) \/ Lookup(r) \/ Answered(r) \/ Failed(r) \/ Persist(r)
             \/ ClearFailures(r)
      PROVE  CountInv'
  <2>1. UNCHANGED <<cand, count, leaked, spare>>
    BY <1>6 DEF Renew, Lookup, Answered, Failed, Persist, ClearFailures, redisVars
  <2>2. PICK step \in Steps : /\ Goto(r, step)
                              /\ \/ pc[r] \in Busy /\ step \in Busy
                                 \/ pc[r] \in Over /\ step \in Over
    BY <1>6 DEF Renew, Lookup, Answered, Failed, Persist, ClearFailures, Steps, Busy, Over
  <2>3. pc'[r] = step
    BY <2>2 DEF Goto, TypeOK
  <2> QED
    BY <1>5, <2>1, <2>2, <2>3
<1>7. ASSUME NEW r \in Requests, LookupNil(r) PROVE CountInv'
  <2>1. pc[r] = "lookup" /\ pc'[r] = "idle"
    BY <1>7 DEF LookupNil, Done, TypeOK
  <2>2. \A q \in Requests \ {r} : pc'[q] = pc[q] /\ cand'[q] = cand[q]
    BY <1>7 DEF LookupNil, Done
  <2> QED
    BY <1>7, <2>1, <2>2, Leaves DEF LookupNil, Busy, Over
<1>8. ASSUME NEW r \in Requests, Release(r) \/ ReleaseFails(r) PROVE CountInv'
  <2>1. pc[r] = "release" /\ Goto(r, "floor") /\ UNCHANGED cand
    BY <1>8 DEF Release, ReleaseFails
  <2>2. \A q \in Requests \ {r} : pc'[q] = pc[q] /\ cand'[q] = cand[q]
    BY <2>1 DEF Goto, TypeOK
  <2>3. pc'[r] = "floor"
    BY <2>1 DEF Goto, TypeOK
  <2> QED
    BY <1>8, <2>1, <2>2, <2>3, Leaves DEF Release, ReleaseFails, Busy, Over
<1>9. ASSUME NEW r \in Requests, pc[r] \in {"floor", "zero"}, Goto(r, "zero") \/ Done(r)
      PROVE  /\ \A q \in Requests \ {r} : pc'[q] = pc[q] /\ (Done(r) => cand'[q] = cand[q])
             /\ \A c \in Channels : /\ r \notin Window(c) /\ r \notin Window(c)'
                                    /\ r \notin Holders(c) /\ r \notin Holders(c)'
  <2>1. pc'[r] \in {"idle", "zero"}
    BY <1>9 DEF Goto, Done, TypeOK
  <2>2. \A q \in Requests \ {r} : pc'[q] = pc[q] /\ (Done(r) => cand'[q] = cand[q])
    BY <1>9 DEF Goto, Done, TypeOK
  <2> QED
    BY <1>9, <2>1, <2>2 DEF Window, Holders, Busy, Over
<1>10. ASSUME NEW r \in Requests, Floor(r) PROVE CountInv'
  <2>1. pc[r] = "floor" /\ UNCHANGED <<count, leaked, spare>>
    BY <1>10 DEF Floor, redisVars
  <2>2. (Goto(r, "zero") /\ UNCHANGED cand) \/ Done(r)
    BY <1>10 DEF Floor
  <2>3. PICK d \in Channels : d = Current(r)
    BY <2>1, CurrentType
  <2> QED
    BY <1>9, <2>1, <2>2, <2>3, Stays
<1>11. ASSUME NEW r \in Requests, Zero(r) PROVE CountInv'
  <2>1. pc[r] = "zero" /\ Done(r)
    BY <1>11 DEF Zero
  <2>2. PICK d \in Channels : d = Current(r)
    BY <2>1, CurrentType
  <2>3. CASE UNCHANGED redisVars
    BY <1>9, <2>1, <2>2, <2>3, Stays DEF redisVars
  <2>4. CASE SetZero(Current(r))
    <3>1. \A c \in Channels : Window(c)' = Window(c) /\ Holders(c)' = Holders(c)
      BY <1>9, <2>1 DEF Window, Holders, Current
    <3> QED
      BY <2>2, <2>4, <3>1, ZeroCounts
  <2> QED
    BY <1>11, <2>3, <2>4 DEF Zero
<1>12. ASSUME NEW r \in Requests, ZeroAgain(r) PROVE CountInv'
  <2>1. PICK d \in Channels : d = Current(r)
    BY <1>12, CurrentType DEF ZeroAgain
  <2>2. SetZero(d) /\ UNCHANGED <<pc, cand>>
    BY <1>12, <2>1 DEF ZeroAgain, reqVars
  <2>3. \A c \in Channels : Window(c)' = Window(c) /\ Holders(c)' = Holders(c)
    BY <2>2 DEF Window, Holders, Current
  <2> QED
    BY <2>2, <2>3, ZeroCounts
<1>13. ASSUME NEW r \in Requests, NEW p \in Replicas, Arrive(r, p) \/ ArriveBlind(r, p)
       PROVE  CountInv'
  <2>1. PICK seen : ArriveSeeing(r, p, seen)
    BY <1>13 DEF Arrive, ArriveBlind
  <2>2. pc[r] = "idle" /\ pc'[r] = "try" /\ UNCHANGED <<count, leaked, spare>>
    BY <2>1 DEF ArriveSeeing, Goto, TypeOK, redisVars
  <2>3. \A q \in Requests \ {r} : pc'[q] = pc[q] /\ cand'[q] = cand[q]
    BY <2>1 DEF ArriveSeeing, Goto
  <2>4. \A c \in Channels : /\ r \notin Window(c) /\ r \notin Window(c)'
                            /\ r \notin Holders(c)'
    BY <2>2 DEF Window, Holders, Busy, Over
  <2>5. PICK d \in Channels : d = Current(r)'
    <3>1. cand'[r] \in Seq(Channels) /\ cand'[r] # <<>>
      BY <2>2 DEF TypeOK
    <3> QED
      BY <3>1 DEF Current
  <2> QED
    BY <2>2, <2>3, <2>4, <2>5, Stays
<1>14. ASSUME NEW p \in Replicas, Query(p) \/ Clear(p) PROVE CountInv'
  BY <1>14, AsideCounts DEF Query, Clear, Value, reqVars, redisVars
<1>15. ASSUME NEW p \in Replicas, Fill(p) PROVE CountInv'
  <2>1. \A c \in Channels : Value(c)' = Value(c)
    BY <1>15, ValueType, PoolAssumption DEF Fill, Value
  <2> QED
    BY <1>15, <2>1, AsideCounts DEF Fill, reqVars
<1>16. ASSUME NEW p \in Replicas, Crash(p) \/ LookupRace(p) PROVE CountInv'
  BY <1>16, RestartCounts DEF Crash, LookupRace
<1>17. ASSUME NEW c \in Channels, Administer(c) PROVE CountInv'
  BY <1>17, AsideCounts DEF Administer, Value, reqVars, redisVars
<1>18. ASSUME NEW S \in SUBSET Channels, Drop(S), UNCHANGED reqVars PROVE CountInv'
  <2>1. \A c \in Channels : Window(c)' = Window(c) /\ Holders(c)' = Holders(c)
    BY <1>18 DEF Window, Holders, Current, reqVars
  <2> QED
    BY <1>18, <2>1, ForgetCounts
<1>19. ASSUME NEW c \in Channels, ExpireIdle(c) \/ ExpireLate(c) PROVE CountInv'
  BY <1>18, <1>19 DEF ExpireIdle, ExpireLate
<1>20. ASSUME NEW p \in Replicas, Shutdown(p) PROVE CountInv'
  BY <1>18, <1>20 DEF Shutdown, TypeOK
<1> QED
  BY <1>1, <1>2, <1>3, <1>4, <1>6, <1>7, <1>8, <1>10, <1>11, <1>12, <1>13,
     <1>14, <1>15, <1>16, <1>17, <1>19, <1>20
     DEF Next, Handle, Reload

LEMMA NobodyAtFirst ==
  ASSUME Init, NEW c \in Channels
  PROVE  Window(c) = {} /\ Holders(c) = {} /\ Value(c) = 0
BY DEF Init, Window, Holders, Busy, Over, Value

LEMMA CountInit == Init => CountInv
<1> SUFFICES ASSUME Init PROVE CountInv
  OBVIOUS
<1>1. ASSUME NEW c \in Channels
      PROVE  Window(c) = {} /\ Holders(c) = {} /\ Value(c) = 0 /\ leaked[c] = 0 /\ spare[c] = 0
  BY NobodyAtFirst DEF Init
<1>2. \A c \in Channels : 0 <= MaxConcurrency[c] + 0
  BY PoolAssumption
<1> QED
  BY <1>1, <1>2, FS_EmptySet DEF CountInv, SlotsAccounted, SlotsBounded

LEMMA CountInvariant == Spec => [](TypeOK /\ CountInv)
<1>1. Init => TypeOK /\ CountInv
  BY TypeInit, CountInit
<1>2. TypeOK /\ CountInv /\ [Next]_vars => (TypeOK /\ CountInv)'
  <2>1. ASSUME TypeOK, CountInv, UNCHANGED vars
        PROVE  (TypeOK /\ CountInv)'
    <3>1. TypeOK'
      BY <2>1, TypeFrames, TypeParts DEF vars
    <3>2. CountInv'
      BY <2>1, <3>1, AsideCounts DEF vars, reqVars, redisVars, Value
    <3> QED
      BY <3>1, <3>2
  <2> QED
    BY <2>1, TypeStep, CountStep
<1> QED
  BY <1>1, <1>2, PTL DEF Spec

\* The shared counters say what they should, over all replicas, whatever is
\* reloaded, fails, is repeated or dies: they count the handlers between their
\* INCR and their DECR, up to what faults have added and taken off
\* (AcquireChannel, ReleaseChannel, LoadFromDB).
THEOREM CountersAccounted == Spec => []SlotsAccounted
BY CountInvariant, PTL DEF CountInv

\* No channel is used by more handlers than its max_concurrency and what its
\* counter has lost (AcquireChannel).
THEOREM LimitsHold == Spec => []SlotsBounded
BY CountInvariant, PTL DEF CountInv

-----------------------------------------------------------------------------
(* Counters that lose nothing                                              *)

\* ReleaseChannel never finds a negative counter.
LEMMA NeverNegative ==
  ASSUME TypeOK, CountInv, ExactInv, NEW c \in Channels
  PROVE  Value(c) >= 0
<1>1. Value(c) = Cardinality(Window(c)) + leaked[c] - spare[c] /\ spare[c] = 0
  BY DEF CountInv, SlotsAccounted, ExactInv
<1> QED
  BY <1>1, Finite, Numbers

LEMMA ExactStep ==
  ASSUME TypeOK, TypeOK', CountInv, ExactInv, NothingLost, [Next]_vars
  PROVE  ExactInv'
<1>1. ASSUME NEW f \in {"lateExpiry", "shutdown", "repeat"}, MayFail(f)
      PROVE  FALSE
  BY <1>1 DEF MayFail, NothingLost
<1>2. ASSUME NEW r \in Requests, Handle(r) PROVE ExactInv'
  <2>1. CASE Try(r) \/ Renew(r) \/ Lookup(r) \/ Answered(r) \/ Failed(r) \/ Persist(r)
             \/ ClearFailures(r) \/ Release(r) \/ ReleaseFails(r)
    <3>1. PICK step \in Steps \ {"zero"} : Goto(r, step) /\ UNCHANGED spare
      BY <2>1 DEF Try, Renew, Lookup, Answered, Failed, Persist, ClearFailures, Release,
                  ReleaseFails, Steps, Busy, Over, redisVars, Leak
    <3> QED
      BY <3>1 DEF ExactInv, Goto, TypeOK
  <2>2. CASE TryFails(r) \/ Undo(r) \/ UndoFails(r)
    <3>1. NextCandidate(r) /\ UNCHANGED spare
      BY <2>2 DEF TryFails, Undo, UndoFails, Leak, redisVars
    <3> QED
      BY <3>1 DEF ExactInv, NextCandidate, TypeOK
  <2>3. CASE LookupNil(r)
    <3>1. Done(r) /\ UNCHANGED spare
      BY <2>3 DEF LookupNil, Leak
    <3> QED
      BY <3>1 DEF ExactInv, Done, TypeOK
  <2>4. CASE Floor(r)
    <3>1. Value(Current(r)) >= 0 /\ Value(Current(r)) \in Int
      BY <2>4, CurrentType, NeverNegative, ValueType DEF Floor
    <3>2. Done(r) /\ UNCHANGED spare
      BY <2>4, <3>1 DEF Floor, redisVars
    <3> QED
      BY <3>2 DEF ExactInv, Done, TypeOK
  <2>5. CASE Zero(r) \/ ZeroAgain(r)
    BY <2>5 DEF Zero, ZeroAgain, ExactInv
  <2>6. CASE TryAgain(r) \/ DecrAgain(r)
    BY <1>1, <2>6 DEF TryAgain, DecrAgain
  <2> QED
    BY <1>2, <2>1, <2>2, <2>3, <2>4, <2>5, <2>6 DEF Handle
<1>3. ASSUME NEW r \in Requests, NEW p \in Replicas, Arrive(r, p) \/ ArriveBlind(r, p)
      PROVE  ExactInv'
  BY <1>3 DEF Arrive, ArriveBlind, ArriveSeeing, Goto, ExactInv, TypeOK, redisVars
<1>4. ASSUME NEW p \in Replicas, Reload(p) PROVE ExactInv'
  BY <1>4 DEF Reload, Query, Clear, Fill, ExactInv, redisVars, reqVars
<1>5. ASSUME NEW p \in Replicas, Crash(p) \/ LookupRace(p) PROVE ExactInv'
  BY <1>5 DEF Crash, LookupRace, Restart, ExactInv
<1>6. ASSUME NEW p \in Replicas, Shutdown(p) PROVE ExactInv'
  BY <1>1, <1>6 DEF Shutdown
<1>7. ASSUME NEW c \in Channels, ExpireIdle(c) PROVE ExactInv'
  <2>1. Forget({c}) /\ Window(c) = {} /\ UNCHANGED pc
    BY <1>7 DEF ExpireIdle, Drop, reqVars
  <2>2. \A d \in Channels : spare'[d] = 0
    BY <2>1, ForgetIs, FS_EmptySet DEF ExactInv
  <2> QED
    BY <2>1, <2>2 DEF ExactInv
<1>8. ASSUME NEW c \in Channels, ExpireLate(c) PROVE ExactInv'
  BY <1>1, <1>8 DEF ExpireLate
<1>9. ASSUME NEW c \in Channels, Administer(c) PROVE ExactInv'
  BY <1>9 DEF Administer, ExactInv, redisVars, reqVars
<1>10. CASE UNCHANGED vars
  BY <1>10 DEF vars, ExactInv, redisVars, reqVars
<1> QED
  BY <1>2, <1>3, <1>4, <1>5, <1>6, <1>7, <1>8, <1>9, <1>10 DEF Next

\* Unless a DECR takes effect twice, or a counter goes under its handlers, the
\* counters lose nothing, even when handlers panic, replicas die and replies are
\* lost; then no channel is ever used by more handlers than its max_concurrency
\* (AcquireChannel, ReleaseChannel).
THEOREM LimitsExact ==
  ASSUME NothingLost
  PROVE  Spec => [](SlotsBounded /\ \A c \in Channels : spare[c] = 0)
<1>1. Init => ExactInv
  BY DEF Init, ExactInv
<1>2. (TypeOK /\ CountInv) /\ (TypeOK /\ CountInv)' /\ ExactInv /\ [Next]_vars => ExactInv'
  BY ExactStep
<1>3. CountInv /\ ExactInv => SlotsBounded /\ \A c \in Channels : spare[c] = 0
  BY DEF CountInv, ExactInv
<1> QED
  BY <1>1, <1>2, <1>3, CountInvariant, PTL DEF Spec

-----------------------------------------------------------------------------
(* The pool implements a semaphore.                                        *)

LEMMA SlotIs ==
  ASSUME TypeOK
  PROVE  /\ Slot \in [Requests -> SUBSET Channels]
         /\ \A r \in Requests : /\ pc[r] \notin Busy => Slot[r] = {}
                                /\ pc[r] \in Busy => Slot[r] = {Current(r)}
         /\ \A c \in Channels : Limit!Inside(c) = Holders(c)
<1>1. \A r \in Requests : pc[r] \in Busy => Current(r) \in Channels
  BY CurrentType DEF Busy
<1>2. \A r \in Requests : Slot[r] = IF pc[r] \in Busy THEN {Current(r)} ELSE {}
  BY DEF Slot
<1>3. \A c \in Channels : Limit!Inside(c) = Holders(c)
  BY <1>2 DEF Limit!Inside, Holders
<1> QED
  BY <1>1, <1>2, <1>3 DEF Slot

LEMMA SameCardinality == \A T : Limit!Cardinality(T) = Cardinality(T)
BY DEF Limit!Cardinality, Cardinality

\* A handler that moves keeps the slot it has, or leaves.
LEMMA KeepsOrLeaves ==
  ASSUME NEW r \in Requests, \A q \in Requests \ {r} : pc'[q] = pc[q] /\ cand'[q] = cand[q],
         UNCHANGED spare,
         \/ pc'[r] \notin Busy
         \/ pc[r] \in Busy /\ cand'[r] = cand[r]
  PROVE  [Limit!Next]_<<Slot, spare>>
<1>1. \A q \in Requests \ {r} : Slot'[q] = Slot[q]
  BY DEF Slot, Current
<1>2. CASE pc'[r] \notin Busy
  <2>1. Slot'[r] = {}
    BY <1>2 DEF Slot
  <2>2. Slot' = [q \in Requests |-> IF q \in {r} THEN {} ELSE Slot[q]]
    BY <1>1, <2>1 DEF Slot
  <2>3. Limit!Leave({r})
    BY <2>2 DEF Limit!Leave
  <2> QED
    BY <2>3 DEF Limit!Next
<1>3. CASE pc'[r] \in Busy /\ pc[r] \in Busy /\ cand'[r] = cand[r]
  <2>1. Slot'[r] = Slot[r]
    BY <1>3 DEF Slot, Current
  <2>2. Slot' = Slot
    BY <1>1, <2>1 DEF Slot
  <2> QED
    BY <2>2
<1> QED
  BY <1>2, <1>3

\* INCR within the limit: a slot was free or to spare, since the counter has all
\* holders but those it has lost.
LEMMA TryEnters ==
  ASSUME TypeOK, CountInv, NEW r \in Requests, Try(r)
  PROVE  [Limit!Next]_<<Slot, spare>>
<1>1. PICK d \in Channels : d = Current(r)
  BY CurrentType DEF Try
<1>2. /\ pc[r] = "try" /\ cand' = cand /\ UNCHANGED spare
      /\ \A q \in Requests \ {r} : pc'[q] = pc[q] /\ cand'[q] = cand[q]
      /\ pc'[r] = IF Value(d) + 1 > MaxConcurrency[d] THEN "expireOver" ELSE "expire"
  BY <1>1 DEF Try, Goto, TypeOK
<1>3. CASE Value(d) + 1 > MaxConcurrency[d]
  BY <1>2, <1>3, KeepsOrLeaves DEF Busy
<1>4. CASE ~(Value(d) + 1 > MaxConcurrency[d])
  <2>1. Cardinality(Limit!Inside(d)) < MaxConcurrency[d] + spare[d]
    <3>1. Value(d) = Cardinality(Window(d)) + leaked[d] - spare[d]
      BY DEF CountInv, SlotsAccounted
    <3>2. Limit!Inside(d) = Holders(d)
      BY SlotIs
    <3>3. Cardinality(Holders(d)) < MaxConcurrency[d] + spare[d]
      BY <1>4, <3>1, Finite, Numbers
    <3> QED
      BY <3>2, <3>3
  <2>2. Slot[r] = {} /\ Slot' = [Slot EXCEPT ![r] = {d}]
    <3>1. pc[r] \notin Busy /\ pc'[r] \in Busy
      BY <1>2, <1>4 DEF Busy
    <3>2. Slot[r] = {} /\ Slot'[r] = {d} /\ \A q \in Requests \ {r} : Slot'[q] = Slot[q]
      BY <1>1, <1>2, <3>1 DEF Slot, Current
    <3> QED
      BY <3>2 DEF Slot
  <2>3. Limit!Enter(r, d)
    BY <1>2, <2>1, <2>2, SameCardinality DEF Limit!Enter
  <2> QED
    BY <2>3 DEF Limit!Next
<1> QED
  BY <1>3, <1>4

LEMMA RestartLeaves ==
  ASSUME NEW p \in Replicas, Restart(p)
  PROVE  [Limit!Next]_<<Slot, spare>>
<1> DEFINE U == {r \in Requests : at[r] = p}
<1>1. \A r \in Requests : r \in U => pc'[r] = "idle"
  BY DEF Restart
<1>2. \A r \in Requests : r \notin U => pc'[r] = pc[r] /\ cand'[r] = cand[r]
  BY DEF Restart
<1>3. U \in SUBSET Requests /\ UNCHANGED spare
  BY DEF Restart
<1> HIDE DEF U
<1>4. Slot' = [r \in Requests |-> IF r \in U THEN {} ELSE Slot[r]]
  BY <1>1, <1>2 DEF Slot, Current, Busy
<1>5. Limit!Leave(U)
  BY <1>3, <1>4 DEF Limit!Leave
<1> QED
  BY <1>3, <1>5 DEF Limit!Next

\* A step in which no handler gets or gives up a slot: what counters may lose
\* leaves the limit as it is proved above.
LEMMA NobodyMoves ==
  ASSUME TypeOK', CountInv', UNCHANGED Slot
  PROVE  [Limit!Next]_<<Slot, spare>>
<1>1. spare' \in [Channels -> Nat]
  BY DEF TypeOK
<1>2. \A c \in Channels : Cardinality(Limit!Inside(c)) <= MaxConcurrency[c] + spare'[c]
  <2>1. ASSUME NEW c \in Channels
        PROVE  Limit!Inside(c) = Holders(c)'
    <3>1. \A r \in Requests : Slot'[r] = IF pc'[r] \in Busy THEN {Current(r)'} ELSE {}
      BY DEF Slot
    <3> QED
      BY <3>1 DEF Limit!Inside, Holders
  <2>2. \A c \in Channels : Cardinality(Holders(c)') <= MaxConcurrency[c] + spare'[c]
    BY DEF CountInv, SlotsBounded
  <2> QED
    BY <2>1, <2>2
<1>3. Limit!Miscount
  BY <1>1, <1>2, SameCardinality DEF Limit!Miscount
<1> QED
  BY <1>3 DEF Limit!Next

LEMMA SemaphoreStep ==
  ASSUME TypeOK, CountInv, TypeOK', CountInv', [Next]_vars
  PROVE  [Limit!Next]_<<Slot, spare>>
<1>1. ASSUME UNCHANGED <<pc, cand>> PROVE [Limit!Next]_<<Slot, spare>>
  <2>1. UNCHANGED Slot
    BY <1>1 DEF Slot, Current
  <2> QED
    BY <2>1, NobodyMoves
<1>2. ASSUME NEW r \in Requests, Handle(r) PROVE [Limit!Next]_<<Slot, spare>>
  <2>1. CASE Try(r)
    BY <2>1, TryEnters
  <2>2. CASE TryFails(r) \/ Undo(r) \/ UndoFails(r)
    <3>1. NextCandidate(r) /\ UNCHANGED spare
      BY <2>2 DEF TryFails, Undo, UndoFails, Leak, redisVars
    <3>2. /\ \A q \in Requests \ {r} : pc'[q] = pc[q] /\ cand'[q] = cand[q]
          /\ pc'[r] \in {"idle", "try"}
      BY <3>1 DEF NextCandidate, TypeOK
    <3> QED
      BY <3>1, <3>2, KeepsOrLeaves DEF Busy
  <2>3. CASE LookupNil(r)
    <3>1. Done(r) /\ UNCHANGED spare
      BY <2>3 DEF LookupNil, Leak
    <3>2. \A q \in Requests \ {r} : pc'[q] = pc[q] /\ cand'[q] = cand[q]
      BY <3>1 DEF Done
    <3>3. pc'[r] = "idle"
      BY <3>1 DEF Done, TypeOK
    <3> QED
      BY <3>1, <3>2, <3>3, KeepsOrLeaves DEF Busy
  <2>4. CASE Renew(r) \/ Lookup(r) \/ Answered(r) \/ Failed(r) \/ Persist(r) \/ ClearFailures(r)
             \/ Release(r) \/ ReleaseFails(r)
    <3>1. PICK step \in Steps : Goto(r, step) /\ UNCHANGED <<cand, spare>>
      BY <2>4 DEF Renew, Lookup, Answered, Failed, Persist, ClearFailures, Release, ReleaseFails,
                  Steps, Busy, Over, redisVars, Leak
    <3>2. /\ \A q \in Requests \ {r} : pc'[q] = pc[q] /\ cand'[q] = cand[q]
          /\ pc'[r] = step /\ cand' = cand
      BY <3>1 DEF Goto, TypeOK
    <3>3. step \in Busy => pc[r] \in Busy
      BY <2>4, <3>2 DEF Renew, Lookup, Answered, Failed, Persist, ClearFailures, Release,
                        ReleaseFails, Goto, Busy, TypeOK
    <3> QED
      BY <3>1, <3>2, <3>3, KeepsOrLeaves
  <2>5. CASE Floor(r) \/ Zero(r)
    <3>1. /\ pc[r] \in {"floor", "zero"}
          /\ (Goto(r, "zero") /\ UNCHANGED cand) \/ Done(r)
      BY <2>5 DEF Floor, Zero
    <3>2. \A q \in Requests \ {r} : pc'[q] = pc[q] /\ cand'[q] = cand[q]
      BY <3>1 DEF Goto, Done, TypeOK
    <3>3. pc'[r] \in {"idle", "zero"}
      BY <3>1 DEF Goto, Done, TypeOK
    <3>4. UNCHANGED Slot
      BY <3>1, <3>2, <3>3 DEF Slot, Current, Busy
    <3> QED
      BY <3>4, NobodyMoves
  <2>6. CASE TryAgain(r) \/ DecrAgain(r) \/ ZeroAgain(r)
    BY <1>1, <2>6 DEF TryAgain, DecrAgain, ZeroAgain, reqVars
  <2> QED
    BY <1>2, <2>1, <2>2, <2>3, <2>4, <2>5, <2>6 DEF Handle
<1>3. ASSUME NEW r \in Requests, NEW p \in Replicas, Arrive(r, p) \/ ArriveBlind(r, p)
      PROVE  [Limit!Next]_<<Slot, spare>>
  <2>1. PICK seen : ArriveSeeing(r, p, seen)
    BY <1>3 DEF Arrive, ArriveBlind
  <2>2. /\ \A q \in Requests \ {r} : pc'[q] = pc[q] /\ cand'[q] = cand[q]
        /\ pc'[r] = "try" /\ UNCHANGED spare
    BY <2>1 DEF ArriveSeeing, Goto, TypeOK, redisVars
  <2> QED
    BY <2>2, KeepsOrLeaves DEF Busy
<1>4. ASSUME NEW p \in Replicas, Query(p) \/ Clear(p) \/ Fill(p) \/ Shutdown(p)
      PROVE  [Limit!Next]_<<Slot, spare>>
  BY <1>1, <1>4 DEF Query, Clear, Fill, Shutdown, reqVars
<1>5. ASSUME NEW p \in Replicas, Crash(p) \/ LookupRace(p) PROVE [Limit!Next]_<<Slot, spare>>
  BY <1>5, RestartLeaves DEF Crash, LookupRace
<1>6. ASSUME NEW c \in Channels, Administer(c) \/ ExpireIdle(c) \/ ExpireLate(c)
      PROVE  [Limit!Next]_<<Slot, spare>>
  BY <1>1, <1>6 DEF Administer, ExpireIdle, ExpireLate, reqVars
<1>7. CASE UNCHANGED vars
  BY <1>1, <1>7 DEF vars, reqVars
<1> QED
  BY <1>2, <1>3, <1>4, <1>5, <1>6, <1>7 DEF Next, Reload

\* The pool, with its old snapshots, its counters in Redis, reloads, failing and
\* repeated calls and dying replicas, does what a semaphore for each channel does,
\* with what its counters have lost to spare (AcquireChannel, ReleaseChannel).
THEOREM PoolIsSemaphore == Spec => SlotsLimited
<1>1. Init => Limit!Init
  BY DEF Init, Limit!Init, Slot, Busy
<1>2. (TypeOK /\ CountInv) /\ (TypeOK /\ CountInv)' /\ [Next]_vars => [Limit!Next]_<<Slot, spare>>
  BY SemaphoreStep
<1> QED
  BY <1>1, <1>2, CountInvariant, PTL DEF Spec, SlotsLimited, Limit!Spec
=============================================================================
