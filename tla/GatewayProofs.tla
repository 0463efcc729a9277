--------------------------- MODULE GatewayProofs ----------------------------
(***************************************************************************)
(* For any number of requests, users and attempts: the counter of a user   *)
(* is exact and the limit holds while Redis answers, and each request      *)
(* gives its channel slot back once and is billed at most once.            *)
(***************************************************************************)
EXTENDS Gateway, FiniteSetTheorems, TLAPS

(***************************************************************************)
(* The slot of a channel is held between the attempt that was answered (or *)
(* is under way) and the deferred release, which embeddings reaches after  *)
(* the body was closed and chat before.                                    *)
(***************************************************************************)
HoldsSlot(r) ==
  \/ pc[r] \in {"upstream", "respond", "enqueue", "relChannel"}
  \/ pc[r] = "closeBody" /\ mode[r] = "embeddings"

SlotInv == \A r \in Requests : slots[r] = lost[r] + (IF HoldsSlot(r) THEN 1 ELSE 0)

(***************************************************************************)
(* Of the handler and the goroutine that bills a stream only one ever has  *)
(* the request's bill before it: until the answer is passed on nothing is  *)
(* billed and no stream runs, and a handler that has started a stream does *)
(* not come to its own Enqueue.                                            *)
(***************************************************************************)
Unanswered == {"auth", "fill", "throttle", "limit", "checks", "acquire", "upstream"}

BillInv ==
  \A r \in Requests :
    /\ tasks[r] \in 0..1
    /\ pc[r] \in Unanswered => body[r] = "none" /\ lost[r] = 0
    /\ pc[r] \in {"respond", "enqueue"} => body[r] # "none" /\ writer[r] = "none" /\ tasks[r] = 0
    /\ body[r] = "none" => writer[r] = "none" /\ tasks[r] = 0
    /\ writer[r] \in {"running", "ended"} => tasks[r] = 0
    /\ lost[r] = 1 => body[r] = "none" /\ pc[r] \in {"relUser", "done"}

\* A counter that is exact is also within the limit.
CounterInv ==
  calm => \A u \in Users : Value(u) = Cardinality(Inside(u)) /\ Value(u) <= UserLimit

IInv == TypeOK /\ SlotInv /\ BillInv /\ CounterInv

-----------------------------------------------------------------------------
\* Every step keeps the types.
LEMMA TypeStep ==
  ASSUME IInv, Next
  PROVE  TypeOK'
<1> USE GatewayAssumption DEF IInv, TypeOK, BillInv, vars, keyVars, concVars, handlerVars,
     answerVars,
          Steps, Counted, Modes, Value, RedisWorks, alive
<1>1. ASSUME NEW r \in Requests, AuthHit(r) PROVE TypeOK'
  BY <1>1 DEF AuthHit, At, Goto
<1>2. ASSUME NEW r \in Requests, AuthMiss(r) PROVE TypeOK'
  BY <1>2 DEF AuthMiss, RedisFails, At, Goto
<1>3. ASSUME NEW r \in Requests, Fill(r) PROVE TypeOK'
  BY <1>3 DEF Fill, RedisFails, At, Goto
<1>4. ASSUME NEW r \in Requests, Throttle(r) PROVE TypeOK'
  BY <1>4 DEF Throttle, At, Goto
<1>5. ASSUME NEW r \in Requests, CheckUserConcurrency(r) PROVE TypeOK'
  BY <1>5 DEF CheckUserConcurrency, Script, Limit, At, Goto
<1>6. ASSUME NEW r \in Requests, ConcurrencyFails(r) PROVE TypeOK'
  <2>1. faults' \in 0..MaxFaults
    BY <1>6 DEF ConcurrencyFails, RedisFails
  <2>2. conc' \in [Users -> Int \union {Absent}] /\ lasting' \in [Users -> BOOLEAN]
    <3>1. CASE UNCHANGED concVars
      BY <3>1
    <3>2. CASE Script(UserOf[r], Limit(r))
      <4>1. UserOf[r] \in Users
        OBVIOUS
      <4> DEFINE v == IF Value(UserOf[r]) + 1 <= Limit(r) THEN Value(UserOf[r]) + 1
                      ELSE Value(UserOf[r])
      <4>2. Value(UserOf[r]) \in Int
        BY <4>1
      <4>3. v \in Int
        BY <4>2
      <4>4. conc' = [conc EXCEPT ![UserOf[r]] = v]
        BY <3>2 DEF Script
      <4> HIDE DEF v
      <4>5. lasting' = [lasting EXCEPT ![UserOf[r]] = FALSE]
        BY <3>2 DEF Script
      <4> QED
        BY <4>1, <4>3, <4>4, <4>5
    <3> QED
      BY <1>6, <3>1, <3>2 DEF ConcurrencyFails
  <2>3. pc' \in [Requests -> Steps]
    BY <1>6 DEF ConcurrencyFails, Goto
  <2>4. UNCHANGED <<keyVars, mode, tries, slots, answerVars, tasks, process, lost>>
    BY <1>6 DEF ConcurrencyFails
  <2> QED
    BY <2>1, <2>2, <2>3, <2>4
<1>7. ASSUME NEW r \in Requests, Checks(r) PROVE TypeOK'
  BY <1>7 DEF Checks, At, Goto
<1>8. ASSUME NEW r \in Requests, Acquire(r) PROVE TypeOK'
  BY <1>8 DEF Acquire, At, Goto
<1>9. ASSUME NEW r \in Requests, AcquireFails(r) PROVE TypeOK'
  BY <1>9 DEF AcquireFails, Retry, At, Goto
<1>10. ASSUME NEW r \in Requests, AcquireNil(r) PROVE TypeOK'
  BY <1>10 DEF AcquireNil, At, Goto
<1>11. ASSUME NEW r \in Requests, AttemptFails(r) PROVE TypeOK'
  BY <1>11 DEF AttemptFails, Retry, At, Goto
<1>12. ASSUME NEW r \in Requests, Answer(r) PROVE TypeOK'
  BY <1>12 DEF Answer, At, Goto
<1>13. ASSUME NEW r \in Requests, Stream(r) PROVE TypeOK'
  BY <1>13 DEF Stream, Unwind, At, Goto
<1>14. ASSUME NEW r \in Requests, Buffer(r) PROVE TypeOK'
  BY <1>14 DEF Buffer, Unwind, At, Goto
<1>15. ASSUME NEW r \in Requests, Enqueue(r) PROVE TypeOK'
  BY <1>15 DEF Enqueue, Unwind, At, Goto
<1>16. ASSUME NEW r \in Requests, ReleaseChannel(r) PROVE TypeOK'
  BY <1>16 DEF ReleaseChannel, At, Goto
<1>17. ASSUME NEW r \in Requests, CloseBody(r) PROVE TypeOK'
  BY <1>17 DEF CloseBody, At, Goto
<1>18. ASSUME NEW r \in Requests, ReleaseUserConcurrency(r) PROVE TypeOK'
  BY <1>18 DEF ReleaseUserConcurrency, Given, At, Goto
<1>19. ASSUME NEW r \in Requests, ReleaseUserFails(r) PROVE TypeOK'
  BY <1>19 DEF ReleaseUserFails, RedisFails, At, Goto
<1>20. ASSUME NEW r \in Requests, StreamEnds(r) PROVE TypeOK'
  BY <1>20 DEF StreamEnds
<1>21. ASSUME NEW r \in Requests, BillStream(r) PROVE TypeOK'
  BY <1>21 DEF BillStream
<1>22. ASSUME NEW r \in Requests, StaleContext(r) PROVE TypeOK'
  BY <1>22 DEF StaleContext
<1>23. ASSUME NEW u \in Users, CacheExpires(u) PROVE TypeOK'
  BY <1>23 DEF CacheExpires
<1>24. ASSUME NEW u \in Users, Toggle(u) PROVE TypeOK'
  BY <1>24 DEF Toggle
<1>25. ASSUME NEW u \in Users, CounterExpires(u) PROVE TypeOK'
  BY <1>25 DEF CounterExpires
<1>26. ASSUME CloseBilling PROVE TypeOK'
  BY <1>26 DEF CloseBilling
<1>27. ASSUME StopServer PROVE TypeOK'
  BY <1>27 DEF StopServer
<1>28. ASSUME MainReturns PROVE TypeOK'
  BY <1>28 DEF MainReturns
<1>29. ASSUME NEW r \in Requests, SentAgain(r) PROVE TypeOK'
  <2>1. faults' \in 0..MaxFaults
    BY <1>29 DEF SentAgain, RedisFails
  <2>2. UserOf[r] \in Users /\ Value(UserOf[r]) \in Int
    OBVIOUS
  <2>3. \E v \in Int, l \in BOOLEAN : /\ conc' = [conc EXCEPT ![UserOf[r]] = v]
                                      /\ lasting' = [lasting EXCEPT ![UserOf[r]] = l]
    <3>1. CASE Script(UserOf[r], Limit(r))
      <4> DEFINE v == IF Value(UserOf[r]) + 1 <= Limit(r) THEN Value(UserOf[r]) + 1
                      ELSE Value(UserOf[r])
      <4>1. v \in Int
        BY <2>2
      <4>2. conc' = [conc EXCEPT ![UserOf[r]] = v] /\ lasting' = [lasting EXCEPT ![UserOf[r]] = FALSE]
        BY <3>1 DEF Script
      <4> HIDE DEF v
      <4> QED
        BY <4>1, <4>2
    <3>2. CASE Given(UserOf[r])
      <4> DEFINE v == Value(UserOf[r]) - 1
      <4>1. v \in Int
        BY <2>2
      <4>2. conc' = [conc EXCEPT ![UserOf[r]] = v]
        BY <3>2 DEF Given
      <4>3. \E l \in BOOLEAN : lasting' = [lasting EXCEPT ![UserOf[r]] = l]
        BY <3>2, <2>2 DEF Given
      <4> HIDE DEF v
      <4> QED
        BY <4>1, <4>2, <4>3
    <3> QED
      BY <1>29, <3>1, <3>2 DEF SentAgain
  <2>4. conc' \in [Users -> Int \union {Absent}] /\ lasting' \in [Users -> BOOLEAN]
    BY <2>2, <2>3
  <2>5. UNCHANGED <<keyVars, handlerVars, slots, answerVars, tasks, process, lost>>
    BY <1>29 DEF SentAgain
  <2> QED
    BY <2>1, <2>4, <2>5
<1> QED
  BY <1>1, <1>2, <1>3, <1>4, <1>5, <1>6, <1>7, <1>8, <1>9, <1>10, <1>11, <1>12, <1>13,
       <1>14, <1>15, <1>16, <1>17, <1>18, <1>19, <1>20, <1>21, <1>22, <1>23, <1>24, <1>25,
            <1>26, <1>27, <1>28, <1>29
  DEF Next, Handle, Background, Shutdown

\* Every step keeps the account of the channel slots.
LEMMA SlotStep ==
  ASSUME IInv, Next
  PROVE  SlotInv'
<1> USE DEF IInv, TypeOK, SlotInv, BillInv, HoldsSlot, Unanswered, vars, keyVars, concVars,
     handlerVars, answerVars,
          Steps, Counted, Modes
<1>1. ASSUME NEW r \in Requests, AuthHit(r) PROVE SlotInv'
  BY <1>1 DEF AuthHit, At, Goto
<1>2. ASSUME NEW r \in Requests, AuthMiss(r) PROVE SlotInv'
  BY <1>2 DEF AuthMiss, RedisFails, At, Goto
<1>3. ASSUME NEW r \in Requests, Fill(r) PROVE SlotInv'
  BY <1>3 DEF Fill, RedisFails, At, Goto
<1>4. ASSUME NEW r \in Requests, Throttle(r) PROVE SlotInv'
  BY <1>4 DEF Throttle, At, Goto
<1>5. ASSUME NEW r \in Requests, CheckUserConcurrency(r) PROVE SlotInv'
  BY <1>5 DEF CheckUserConcurrency, Script, Limit, At, Goto
<1>6. ASSUME NEW r \in Requests, ConcurrencyFails(r) PROVE SlotInv'
  BY <1>6 DEF ConcurrencyFails, RedisFails, Script, Limit, At, Goto
<1>7. ASSUME NEW r \in Requests, Checks(r) PROVE SlotInv'
  BY <1>7 DEF Checks, At, Goto
<1>8. ASSUME NEW r \in Requests, Acquire(r) PROVE SlotInv'
  BY <1>8 DEF Acquire, At, Goto
<1>9. ASSUME NEW r \in Requests, AcquireFails(r) PROVE SlotInv'
  BY <1>9 DEF AcquireFails, Retry, At, Goto
<1>10. ASSUME NEW r \in Requests, AcquireNil(r) PROVE SlotInv'
  BY <1>10 DEF AcquireNil, At, Goto
<1>11. ASSUME NEW r \in Requests, AttemptFails(r) PROVE SlotInv'
  <2>1. pc[r] = "upstream" /\ slots' = [slots EXCEPT ![r] = @ - 1]
    BY <1>11 DEF AttemptFails, At
  <2>2. \A q \in Requests : IF q = r THEN pc'[q] \in {"acquire", "relUser"} ELSE pc'[q] = pc[q]
    BY <1>11 DEF AttemptFails, Retry, Goto
  <2>3. mode' = mode /\ lost' = lost
    BY <1>11 DEF AttemptFails
  <2> SUFFICES ASSUME NEW q \in Requests
               PROVE  (slots[q] = lost[q] + (IF HoldsSlot(q) THEN 1 ELSE 0))'
    OBVIOUS
  <2>4. CASE q = r
    <3>1. HoldsSlot(q) /\ slots[q] = lost[q] + 1 /\ lost[q] \in Int
      BY <2>1, <2>4
    <3>2. ~HoldsSlot(q)'
      BY <2>2, <2>4
    <3>3. slots'[q] = slots[q] - 1 /\ lost'[q] = lost[q]
      BY <2>1, <2>3, <2>4
    <3> QED
      BY <3>1, <3>2, <3>3
  <2>5. CASE q # r
    BY <2>1, <2>2, <2>3, <2>5
  <2> QED
    BY <2>4, <2>5
<1>12. ASSUME NEW r \in Requests, Answer(r) PROVE SlotInv'
  BY <1>12 DEF Answer, At, Goto
<1>13. ASSUME NEW r \in Requests, Stream(r) PROVE SlotInv'
  BY <1>13 DEF Stream, Unwind, At, Goto
<1>14. ASSUME NEW r \in Requests, Buffer(r) PROVE SlotInv'
  BY <1>14 DEF Buffer, Unwind, At, Goto
<1>15. ASSUME NEW r \in Requests, Enqueue(r) PROVE SlotInv'
  BY <1>15 DEF Enqueue, Unwind, At, Goto
<1>16. ASSUME NEW r \in Requests, ReleaseChannel(r) PROVE SlotInv'
  BY <1>16 DEF ReleaseChannel, At, Goto
<1>17. ASSUME NEW r \in Requests, CloseBody(r) PROVE SlotInv'
  BY <1>17 DEF CloseBody, At, Goto
<1>18. ASSUME NEW r \in Requests, ReleaseUserConcurrency(r) PROVE SlotInv'
  BY <1>18 DEF ReleaseUserConcurrency, Given, At, Goto
<1>19. ASSUME NEW r \in Requests, ReleaseUserFails(r) PROVE SlotInv'
  BY <1>19 DEF ReleaseUserFails, RedisFails, At, Goto
<1>20. ASSUME NEW r \in Requests, StreamEnds(r) PROVE SlotInv'
  BY <1>20 DEF StreamEnds
<1>21. ASSUME NEW r \in Requests, BillStream(r) PROVE SlotInv'
  BY <1>21 DEF BillStream
<1>22. ASSUME NEW r \in Requests, StaleContext(r) PROVE SlotInv'
  BY <1>22 DEF StaleContext
<1>23. ASSUME NEW u \in Users, CacheExpires(u) PROVE SlotInv'
  BY <1>23 DEF CacheExpires
<1>24. ASSUME NEW u \in Users, Toggle(u) PROVE SlotInv'
  BY <1>24 DEF Toggle
<1>25. ASSUME NEW u \in Users, CounterExpires(u) PROVE SlotInv'
  BY <1>25 DEF CounterExpires
<1>26. ASSUME CloseBilling PROVE SlotInv'
  BY <1>26 DEF CloseBilling
<1>27. ASSUME StopServer PROVE SlotInv'
  BY <1>27 DEF StopServer
<1>28. ASSUME MainReturns PROVE SlotInv'
  BY <1>28 DEF MainReturns
<1>29. ASSUME NEW r \in Requests, SentAgain(r) PROVE SlotInv'
  BY <1>29 DEF SentAgain, RedisFails, Script, Given, Limit, At
<1> QED
  BY <1>1, <1>2, <1>3, <1>4, <1>5, <1>6, <1>7, <1>8, <1>9, <1>10, <1>11, <1>12, <1>13,
       <1>14, <1>15, <1>16, <1>17, <1>18, <1>19, <1>20, <1>21, <1>22, <1>23, <1>24, <1>25,
            <1>26, <1>27, <1>28, <1>29
  DEF Next, Handle, Background, Shutdown

\* Every step keeps the account of the bills.
LEMMA BillStep ==
  ASSUME IInv, Next
  PROVE  BillInv'
<1> USE DEF IInv, TypeOK, BillInv, Unanswered, vars, keyVars, concVars, handlerVars, answerVars,
          Steps, Counted, Modes
<1>1. ASSUME NEW r \in Requests, AuthHit(r) PROVE BillInv'
  BY <1>1 DEF AuthHit, At, Goto
<1>2. ASSUME NEW r \in Requests, AuthMiss(r) PROVE BillInv'
  BY <1>2 DEF AuthMiss, RedisFails, At, Goto
<1>3. ASSUME NEW r \in Requests, Fill(r) PROVE BillInv'
  BY <1>3 DEF Fill, RedisFails, At, Goto
<1>4. ASSUME NEW r \in Requests, Throttle(r) PROVE BillInv'
  BY <1>4 DEF Throttle, At, Goto
<1>5. ASSUME NEW r \in Requests, CheckUserConcurrency(r) PROVE BillInv'
  BY <1>5 DEF CheckUserConcurrency, Script, Limit, At, Goto
<1>6. ASSUME NEW r \in Requests, ConcurrencyFails(r) PROVE BillInv'
  BY <1>6 DEF ConcurrencyFails, RedisFails, Script, Limit, At, Goto
<1>7. ASSUME NEW r \in Requests, Checks(r) PROVE BillInv'
  BY <1>7 DEF Checks, At, Goto
<1>8. ASSUME NEW r \in Requests, Acquire(r) PROVE BillInv'
  BY <1>8 DEF Acquire, At, Goto
<1>9. ASSUME NEW r \in Requests, AcquireFails(r) PROVE BillInv'
  BY <1>9 DEF AcquireFails, Retry, At, Goto
<1>10. ASSUME NEW r \in Requests, AcquireNil(r) PROVE BillInv'
  BY <1>10 DEF AcquireNil, At, Goto
<1>11. ASSUME NEW r \in Requests, AttemptFails(r) PROVE BillInv'
  BY <1>11 DEF AttemptFails, Retry, At, Goto
<1>12. ASSUME NEW r \in Requests, Answer(r) PROVE BillInv'
  BY <1>12 DEF Answer, At, Goto
<1>13. ASSUME NEW r \in Requests, Stream(r) PROVE BillInv'
  BY <1>13 DEF Stream, Unwind, At, Goto
<1>14. ASSUME NEW r \in Requests, Buffer(r) PROVE BillInv'
  BY <1>14 DEF Buffer, Unwind, At, Goto
<1>15. ASSUME NEW r \in Requests, Enqueue(r) PROVE BillInv'
  BY <1>15 DEF Enqueue, Unwind, At, Goto
<1>16. ASSUME NEW r \in Requests, ReleaseChannel(r) PROVE BillInv'
  BY <1>16 DEF ReleaseChannel, At, Goto
<1>17. ASSUME NEW r \in Requests, CloseBody(r) PROVE BillInv'
  BY <1>17 DEF CloseBody, At, Goto
<1>18. ASSUME NEW r \in Requests, ReleaseUserConcurrency(r) PROVE BillInv'
  BY <1>18 DEF ReleaseUserConcurrency, Given, At, Goto
<1>19. ASSUME NEW r \in Requests, ReleaseUserFails(r) PROVE BillInv'
  BY <1>19 DEF ReleaseUserFails, RedisFails, At, Goto
<1>20. ASSUME NEW r \in Requests, StreamEnds(r) PROVE BillInv'
  BY <1>20 DEF StreamEnds
<1>21. ASSUME NEW r \in Requests, BillStream(r) PROVE BillInv'
  BY <1>21 DEF BillStream
<1>22. ASSUME NEW r \in Requests, StaleContext(r) PROVE BillInv'
  BY <1>22 DEF StaleContext
<1>23. ASSUME NEW u \in Users, CacheExpires(u) PROVE BillInv'
  BY <1>23 DEF CacheExpires
<1>24. ASSUME NEW u \in Users, Toggle(u) PROVE BillInv'
  BY <1>24 DEF Toggle
<1>25. ASSUME NEW u \in Users, CounterExpires(u) PROVE BillInv'
  BY <1>25 DEF CounterExpires
<1>26. ASSUME CloseBilling PROVE BillInv'
  BY <1>26 DEF CloseBilling
<1>27. ASSUME StopServer PROVE BillInv'
  BY <1>27 DEF StopServer
<1>28. ASSUME MainReturns PROVE BillInv'
  BY <1>28 DEF MainReturns
<1>29. ASSUME NEW r \in Requests, SentAgain(r) PROVE BillInv'
  BY <1>29 DEF SentAgain, RedisFails, Script, Given, Limit, At
<1> QED
  BY <1>1, <1>2, <1>3, <1>4, <1>5, <1>6, <1>7, <1>8, <1>9, <1>10, <1>11, <1>12, <1>13,
       <1>14, <1>15, <1>16, <1>17, <1>18, <1>19, <1>20, <1>21, <1>22, <1>23, <1>24, <1>25,
            <1>26, <1>27, <1>28, <1>29
  DEF Next, Handle, Background, Shutdown

-----------------------------------------------------------------------------
(* The counter of a user *)

\* A step that moves no handler in or out leaves Inside alone.
LEMMA SameInside ==
  ASSUME NEW u \in Users,
         \A r \in Requests : pc'[r] \in Counted <=> pc[r] \in Counted
  PROVE  Inside(u)' = Inside(u)
BY DEF Inside

LEMMA InsideFinite ==
  ASSUME NEW u \in Users
  PROVE  IsFiniteSet(Inside(u)) /\ Cardinality(Inside(u)) \in Nat
<1>1. Inside(u) \subseteq Requests
  BY DEF Inside
<1> QED
  BY <1>1, GatewayAssumption, FS_Subset, FS_CardinalityType

\* A quiet step: no handler comes in or leaves, no counter changes, and a calm
\* that holds after it held before.
Quiet ==
  /\ \A r \in Requests : pc'[r] \in Counted <=> pc[r] \in Counted
  /\ conc' = conc
  /\ calm' => calm

LEMMA QuietStep ==
  ASSUME CounterInv, Quiet
  PROVE  CounterInv'
<1> SUFFICES ASSUME calm', NEW u \in Users
             PROVE  (Value(u) = Cardinality(Inside(u)) /\ Value(u) <= UserLimit)'
  BY DEF CounterInv
<1>1. Inside(u)' = Inside(u)
  BY SameInside DEF Quiet
<1>2. Value(u)' = Value(u)
  BY DEF Quiet, Value
<1> QED
  BY <1>1, <1>2 DEF Quiet, CounterInv

\* CheckUserConcurrency takes the handler in, or leaves everything as it was.
LEMMA EnterStep ==
  ASSUME IInv, NEW r \in Requests, CheckUserConcurrency(r)
  PROVE  CounterInv'
<1> SUFFICES ASSUME calm', NEW u \in Users
             PROVE  (Value(u) = Cardinality(Inside(u)) /\ Value(u) <= UserLimit)'
  BY DEF CounterInv
<1> USE GatewayAssumption DEF IInv, TypeOK
<1>1. calm
  BY DEF CheckUserConcurrency, calm, RedisWorks, alive
<1>2. Value(u) = Cardinality(Inside(u)) /\ Value(u) <= UserLimit /\ Value(UserOf[r]) \in Int
      /\ Value(u) \in Int
  BY <1>1 DEF CounterInv, Value
<1>3. pc[r] = "limit"
  BY DEF CheckUserConcurrency, At
<1>4. CASE u # UserOf[r]
  <2>1. Inside(u)' = Inside(u)
    BY <1>4 DEF CheckUserConcurrency, Inside, Goto
  <2>2. Value(u)' = Value(u)
    BY <1>4 DEF CheckUserConcurrency, Script, Value
  <2> QED
    BY <2>1, <2>2, <1>2
<1>5. CASE u = UserOf[r] /\ Value(u) + 1 <= Limit(r)
  <2>1. Inside(u)' = Inside(u) \union {r}
    BY <1>5 DEF CheckUserConcurrency, Inside, Goto, Counted
  <2>2. r \notin Inside(u)
    BY <1>3 DEF Inside, Counted
  <2>3. Value(u)' = Value(u) + 1
    BY <1>5, <1>2 DEF CheckUserConcurrency, Script, Value
  <2>4. Cardinality(Inside(u) \union {r}) = Cardinality(Inside(u)) + 1
    <3>1. IsFiniteSet(Inside(u))
      BY InsideFinite
    <3> QED
      BY ONLY <2>2, <3>1, FS_AddElement
  <2>5. Cardinality(Inside(u)') = Cardinality(Inside(u)) + 1
    BY ONLY <2>1, <2>4
  <2>6. Limit(r) \in Int /\ Limit(r) <= UserLimit
    BY DEF Limit
  <2> QED
    BY <2>3, <2>5, <2>6, <1>2, <1>5
<1>6. CASE u = UserOf[r] /\ ~(Value(u) + 1 <= Limit(r))
  <2>1. Inside(u)' = Inside(u)
    BY <1>6, <1>3 DEF CheckUserConcurrency, Inside, Goto, Counted
  <2>2. Value(u)' = Value(u)
    BY <1>6, <1>2 DEF CheckUserConcurrency, Script, Value
  <2> QED
    BY <2>1, <2>2, <1>2
<1> QED
  BY <1>4, <1>5, <1>6

\* ReleaseUserConcurrency takes it out.
LEMMA LeaveStep ==
  ASSUME IInv, NEW r \in Requests, ReleaseUserConcurrency(r)
  PROVE  CounterInv'
<1> SUFFICES ASSUME calm', NEW u \in Users
             PROVE  (Value(u) = Cardinality(Inside(u)) /\ Value(u) <= UserLimit)'
  BY DEF CounterInv
<1> USE GatewayAssumption DEF IInv, TypeOK
<1>1. calm
  BY DEF ReleaseUserConcurrency, calm, RedisWorks, alive
<1>2. Value(u) = Cardinality(Inside(u)) /\ Value(u) <= UserLimit /\ Value(u) \in Int
  BY <1>1 DEF CounterInv, Value
<1>3. pc[r] = "relUser"
  BY DEF ReleaseUserConcurrency, At
<1>4. CASE u # UserOf[r]
  <2>1. Inside(u)' = Inside(u)
    BY <1>4 DEF ReleaseUserConcurrency, Inside, Goto
  <2>2. Value(u)' = Value(u)
    BY <1>4 DEF ReleaseUserConcurrency, Given, Value
  <2> QED
    BY <2>1, <2>2, <1>2
<1>5. CASE u = UserOf[r]
  <2>1. Inside(u)' = Inside(u) \ {r}
    BY <1>5 DEF ReleaseUserConcurrency, Inside, Goto, Counted
  <2>2. r \in Inside(u)
    BY <1>3, <1>5 DEF Inside, Counted
  <2>3. Value(u)' = Value(u) - 1
    BY <1>5, <1>2 DEF ReleaseUserConcurrency, Given, Value
  <2>4. Cardinality(Inside(u) \ {r}) = Cardinality(Inside(u)) - 1
    <3>1. IsFiniteSet(Inside(u))
      BY InsideFinite
    <3> QED
      BY ONLY <2>2, <3>1, FS_RemoveElement
  <2>5. Cardinality(Inside(u)') = Cardinality(Inside(u)) - 1
    BY ONLY <2>1, <2>4
  <2> QED
    BY <2>3, <2>5, <1>2
<1> QED
  BY <1>4, <1>5

\* A counter expires under its handlers only by a fault; that of an idle user
\* counts nobody.
LEMMA ExpiryStep ==
  ASSUME IInv, NEW v \in Users, CounterExpires(v)
  PROVE  CounterInv'
<1> SUFFICES ASSUME calm', NEW u \in Users
             PROVE  (Value(u) = Cardinality(Inside(u)) /\ Value(u) <= UserLimit)'
  BY DEF CounterInv
<1> USE GatewayAssumption DEF IInv, TypeOK
<1>1. calm /\ Inside(v) = {}
  BY DEF CounterExpires, calm, RedisWorks
<1>2. Inside(u)' = Inside(u)
  BY DEF CounterExpires, handlerVars, Inside
<1>3. CASE u # v
  BY <1>1, <1>2, <1>3 DEF CounterInv, CounterExpires, Value
<1>4. CASE u = v
  <2>1. Value(u)' = 0
    BY <1>4 DEF CounterExpires, Value
  <2>2. Cardinality(Inside(u)') = 0
    BY <1>1, <1>2, <1>4, FS_EmptySet
  <2> QED
    BY <2>1, <2>2
<1> QED
  BY <1>3, <1>4

\* Every other step is quiet, or ends the calm.
LEMMA CounterStep ==
  ASSUME IInv, Next
  PROVE  CounterInv'
<1> USE DEF IInv, TypeOK, vars, keyVars, concVars, handlerVars, answerVars,
          Steps, Counted, Modes
<1>1. ASSUME NEW r \in Requests, AuthHit(r) PROVE CounterInv'
  <2>1. Quiet
    BY <1>1 DEF AuthHit, At, Goto, Quiet, calm, RedisWorks, alive
  <2> QED
    BY <2>1, QuietStep
<1>2. ASSUME NEW r \in Requests, AuthMiss(r) PROVE CounterInv'
  <2>1. Quiet
    BY <1>2 DEF AuthMiss, RedisFails, At, Goto, Quiet, calm, RedisWorks, alive
  <2> QED
    BY <2>1, QuietStep
<1>3. ASSUME NEW r \in Requests, Fill(r) PROVE CounterInv'
  <2>1. Quiet
    BY <1>3 DEF Fill, RedisFails, At, Goto, Quiet, calm, RedisWorks, alive
  <2> QED
    BY <2>1, QuietStep
<1>4. ASSUME NEW r \in Requests, Throttle(r) PROVE CounterInv'
  <2>1. Quiet
    BY <1>4 DEF Throttle, At, Goto, Quiet, calm, RedisWorks, alive
  <2> QED
    BY <2>1, QuietStep
<1>5. ASSUME NEW r \in Requests, CheckUserConcurrency(r) PROVE CounterInv'
  BY <1>5, EnterStep
<1>6. ASSUME NEW r \in Requests, ConcurrencyFails(r) PROVE CounterInv'
  <2>1. ~calm'
    BY <1>6 DEF ConcurrencyFails, RedisFails, At, calm, RedisWorks, alive
  <2> QED
    BY <2>1 DEF CounterInv
<1>7. ASSUME NEW r \in Requests, Checks(r) PROVE CounterInv'
  <2>1. Quiet
    BY <1>7 DEF Checks, At, Goto, Quiet, calm, RedisWorks, alive
  <2> QED
    BY <2>1, QuietStep
<1>8. ASSUME NEW r \in Requests, Acquire(r) PROVE CounterInv'
  <2>1. Quiet
    BY <1>8 DEF Acquire, At, Goto, Quiet, calm, RedisWorks, alive
  <2> QED
    BY <2>1, QuietStep
<1>9. ASSUME NEW r \in Requests, AcquireFails(r) PROVE CounterInv'
  <2>1. Quiet
    BY <1>9 DEF AcquireFails, Retry, At, Goto, Quiet, calm, RedisWorks, alive
  <2> QED
    BY <2>1, QuietStep
<1>10. ASSUME NEW r \in Requests, AcquireNil(r) PROVE CounterInv'
  <2>1. Quiet
    BY <1>10 DEF AcquireNil, At, Goto, Quiet, calm, RedisWorks, alive
  <2> QED
    BY <2>1, QuietStep
<1>11. ASSUME NEW r \in Requests, AttemptFails(r) PROVE CounterInv'
  <2>1. Quiet
    BY <1>11 DEF AttemptFails, Retry, At, Goto, Quiet, calm, RedisWorks, alive
  <2> QED
    BY <2>1, QuietStep
<1>12. ASSUME NEW r \in Requests, Answer(r) PROVE CounterInv'
  <2>1. Quiet
    BY <1>12 DEF Answer, At, Goto, Quiet, calm, RedisWorks, alive
  <2> QED
    BY <2>1, QuietStep
<1>13. ASSUME NEW r \in Requests, Stream(r) PROVE CounterInv'
  <2>1. Quiet
    BY <1>13 DEF Stream, Unwind, At, Goto, Quiet, calm, RedisWorks, alive
  <2> QED
    BY <2>1, QuietStep
<1>14. ASSUME NEW r \in Requests, Buffer(r) PROVE CounterInv'
  <2>1. Quiet
    BY <1>14 DEF Buffer, Unwind, At, Goto, Quiet, calm, RedisWorks, alive
  <2> QED
    BY <2>1, QuietStep
<1>15. ASSUME NEW r \in Requests, Enqueue(r) PROVE CounterInv'
  <2>1. Quiet
    BY <1>15 DEF Enqueue, Unwind, At, Goto, Quiet, calm, RedisWorks, alive
  <2> QED
    BY <2>1, QuietStep
<1>16. ASSUME NEW r \in Requests, ReleaseChannel(r) PROVE CounterInv'
  <2>1. Quiet
    BY <1>16 DEF ReleaseChannel, At, Goto, Quiet, calm, RedisWorks, alive
  <2> QED
    BY <2>1, QuietStep
<1>17. ASSUME NEW r \in Requests, CloseBody(r) PROVE CounterInv'
  <2>1. Quiet
    BY <1>17 DEF CloseBody, At, Goto, Quiet, calm, RedisWorks, alive
  <2> QED
    BY <2>1, QuietStep
<1>18. ASSUME NEW r \in Requests, ReleaseUserConcurrency(r) PROVE CounterInv'
  BY <1>18, LeaveStep
<1>19. ASSUME NEW r \in Requests, ReleaseUserFails(r) PROVE CounterInv'
  <2>1. ~calm'
    BY <1>19 DEF ReleaseUserFails, RedisFails, At, calm, RedisWorks, alive
  <2> QED
    BY <2>1 DEF CounterInv
<1>20. ASSUME NEW r \in Requests, StreamEnds(r) PROVE CounterInv'
  <2>1. Quiet
    BY <1>20 DEF StreamEnds, Quiet, calm, RedisWorks, alive
  <2> QED
    BY <2>1, QuietStep
<1>21. ASSUME NEW r \in Requests, BillStream(r) PROVE CounterInv'
  <2>1. Quiet
    BY <1>21 DEF BillStream, Quiet, calm, RedisWorks, alive
  <2> QED
    BY <2>1, QuietStep
<1>22. ASSUME NEW r \in Requests, StaleContext(r) PROVE CounterInv'
  <2>1. Quiet
    BY <1>22 DEF StaleContext, Quiet, calm, RedisWorks, alive
  <2> QED
    BY <2>1, QuietStep
<1>23. ASSUME NEW u \in Users, CacheExpires(u) PROVE CounterInv'
  <2>1. Quiet
    BY <1>23 DEF CacheExpires, Quiet, calm, RedisWorks, alive
  <2> QED
    BY <2>1, QuietStep
<1>24. ASSUME NEW u \in Users, Toggle(u) PROVE CounterInv'
  <2>1. Quiet
    BY <1>24 DEF Toggle, Quiet, calm, RedisWorks, alive
  <2> QED
    BY <2>1, QuietStep
<1>25. ASSUME NEW u \in Users, CounterExpires(u) PROVE CounterInv'
  BY <1>25, ExpiryStep
<1>26. ASSUME CloseBilling PROVE CounterInv'
  <2>1. Quiet
    BY <1>26 DEF CloseBilling, Quiet, calm, RedisWorks, alive
  <2> QED
    BY <2>1, QuietStep
<1>27. ASSUME StopServer PROVE CounterInv'
  <2>1. Quiet
    BY <1>27 DEF StopServer, Quiet, calm, RedisWorks, alive
  <2> QED
    BY <2>1, QuietStep
<1>28. ASSUME MainReturns PROVE CounterInv'
  <2>1. Quiet
    BY <1>28 DEF MainReturns, Quiet, calm, RedisWorks, alive
  <2> QED
    BY <2>1, QuietStep
<1>29. ASSUME NEW r \in Requests, SentAgain(r) PROVE CounterInv'
  <2>1. ~calm'
    BY <1>29 DEF SentAgain, RedisFails, calm, RedisWorks, alive
  <2> QED
    BY <2>1 DEF CounterInv
<1> QED
  BY <1>1, <1>2, <1>3, <1>4, <1>5, <1>6, <1>7, <1>8, <1>9, <1>10, <1>11, <1>12, <1>13,
       <1>14, <1>15, <1>16, <1>17, <1>18, <1>19, <1>20, <1>21, <1>22, <1>23, <1>24, <1>25,
            <1>26, <1>27, <1>28, <1>29
  DEF Next, Handle, Background, Shutdown

-----------------------------------------------------------------------------
LEMMA InitInv == Init => IInv
<1> SUFFICES ASSUME Init PROVE IInv
  OBVIOUS
<1> USE GatewayAssumption DEF Init
<1>1. TypeOK
  BY DEF TypeOK, Steps, Modes
<1>2. SlotInv
  BY DEF SlotInv, HoldsSlot
<1>3. BillInv
  BY DEF BillInv
<1>4. CounterInv
  <2> SUFFICES ASSUME NEW u \in Users
               PROVE  Value(u) = Cardinality(Inside(u)) /\ Value(u) <= UserLimit
    BY DEF CounterInv
  <2>1. Inside(u) = {}
    BY DEF Inside, Counted
  <2>2. Value(u) = 0
    BY DEF Value
  <2> QED
    BY <2>1, <2>2, FS_EmptySet
<1> QED
  BY <1>1, <1>2, <1>3, <1>4 DEF IInv

LEMMA NextInv == IInv /\ [Next]_vars => IInv'
<1> SUFFICES ASSUME IInv, [Next]_vars PROVE IInv'
  OBVIOUS
<1>1. CASE Next
  BY <1>1, TypeStep, SlotStep, BillStep, CounterStep DEF IInv
<1>2. CASE UNCHANGED vars
  <2> USE <1>2 DEF vars, keyVars, concVars, handlerVars, answerVars
  <2>1. TypeOK'
    BY DEF IInv, TypeOK
  <2>2. SlotInv' /\ BillInv'
    BY DEF IInv, SlotInv, BillInv, HoldsSlot
  <2>3. CounterInv'
    BY QuietStep DEF IInv, Quiet, calm, RedisWorks, alive
  <2> QED
    BY <2>1, <2>2, <2>3 DEF IInv
<1> QED
  BY <1>1, <1>2

LEMMA Invariance == Spec => []IInv
  BY InitInv, NextInv, PTL DEF Spec

\* Keys, counters, handlers and streams keep to their types (proxy.go, auth.go).
THEOREM TypeCorrect == Spec => []TypeOK
<1>1. IInv => TypeOK
  BY DEF IInv
<1> QED
  BY <1>1, Invariance, PTL

\* While Redis answers in time and the server is not stopping, a user never has
\* more requests at work than the tier allows
\* (AcquireConcurrency, ReleaseConcurrency, every return of the handlers).
THEOREM UserLimited == Spec => []UserLimitHolds
<1>1. IInv => UserLimitHolds
  BY DEF IInv, CounterInv, UserLimitHolds
<1> QED
  BY <1>1, Invariance, PTL

\* The counter is the number of those handlers: what the requests before them took
\* was given back, once, whatever ended them.
THEOREM CounterExact == Spec => []UserCounterExact
<1>1. IInv => UserCounterExact
  BY DEF IInv, CounterInv, UserCounterExact
<1> QED
  BY <1>1, Invariance, PTL

\* Whatever the attempts of a request come to, its handler gives back the slots
\* that it took (executeWithRetry, the deferred ReleaseChannel).
THEOREM SlotsReturned == Spec => []SlotsSettled
<1>1. IInv => SlotsSettled
  <2> SUFFICES ASSUME IInv, NEW r \in Requests, pc[r] = "done"
               PROVE  slots[r] = lost[r] /\ lost[r] + tasks[r] <= 1
    BY DEF SlotsSettled
  <2> QED
    BY DEF IInv, TypeOK, SlotInv, BillInv, HoldsSlot
<1> QED
  BY <1>1, Invariance, PTL

\* A request is billed at most once, by its handler or by the goroutine of its
\* stream, and only when upstream answered (Enqueue in proxy.go).
THEOREM BilledAtMostOnce == Spec => []BilledOnce
<1>1. IInv => BilledOnce
  BY DEF IInv, BillInv, BilledOnce
<1> QED
  BY <1>1, Invariance, PTL
=============================================================================
