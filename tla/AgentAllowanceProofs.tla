----------------------- MODULE AgentAllowanceProofs -----------------------
(* Proofs about the on-chain limiter, for every policy, clock and set of   *)
(* limiters.                                                               *)
EXTENDS AgentAllowance, FiniteSetTheorems, TLAPS

\* Multiplication by a natural is monotone, and with it division.
LEMMA TimesMonotone == \A b, p, q \in Nat : p <= q => b * p <= b * q
  <1> SUFFICES ASSUME NEW b \in Nat, NEW p \in Nat, NEW q \in Nat, p <= q
               PROVE  b * p <= b * q
    OBVIOUS
  <1>1. q - p \in Nat /\ q = p + (q - p)
    OBVIOUS
  <1>2. b * (p + (q - p)) = b * p + b * (q - p)
    BY <1>1
  <1>3. b * (q - p) >= 0
    BY <1>1
  <1>4. QED
    BY <1>1, <1>2, <1>3

LEMMA DivFacts == \A a \in Nat, b \in Nat \ {0} :
                    a \div b \in Nat /\ b * (a \div b) <= a /\ a < b * (a \div b) + b
  OBVIOUS

LEMMA DivMonotone == \A a, c \in Nat, b \in Nat \ {0} : a <= c => a \div b <= c \div b
  <1> SUFFICES ASSUME NEW a \in Nat, NEW c \in Nat, NEW b \in Nat \ {0},
                      a <= c, a \div b > c \div b
               PROVE  FALSE
    BY DivFacts
  <1> DEFINE p == a \div b
             q == c \div b
  <1>1. p \in Nat /\ q \in Nat /\ b * p <= a /\ c < b * q + b
    BY DivFacts
  <1>2. q + 1 <= p
    BY <1>1
  <1>3. b * (q + 1) <= b * p
    BY <1>1, <1>2, TimesMonotone
  <1>4. b * (q + 1) = b * q + b
    BY <1>1
  <1>5. QED
    BY <1>1, <1>3, <1>4

\* Every tick of the clock falls on a day of the model, and later ticks on later days.
LEMMA DayOfTick ==
  /\ LastDay \in Nat /\ 0 \in Days /\ Days \subseteq Nat
  /\ \A t \in 0..MaxTime : t \div DayLength \in Days
  /\ \A t, u \in 0..MaxTime : t <= u => t \div DayLength <= u \div DayLength
  <1>1. MaxTime \in Nat /\ DayLength \in Nat \ {0} /\ LastDay \in Nat
    BY ClockAssumption, DivFacts DEF LastDay
  <1>2. ASSUME NEW t \in 0..MaxTime PROVE t \div DayLength \in Days
    <2>1. t \in Nat /\ t <= MaxTime
      BY <1>1
    <2>2. t \div DayLength \in Nat /\ t \div DayLength <= MaxTime \div DayLength
      BY <1>1, <2>1, DivFacts, DivMonotone
    <2>3. QED
      BY <1>1, <2>2 DEF Days, LastDay
  <1>3. ASSUME NEW t \in 0..MaxTime, NEW u \in 0..MaxTime, t <= u
        PROVE  t \div DayLength <= u \div DayLength
    BY <1>1, <1>3, DivMonotone
  <1>4. QED
    BY <1>1, <1>2, <1>3 DEF Days

\* The current day is a day of the model.
LEMMA TodayIsADay == TypeOK => Today \in Days
  BY DayOfTick DEF TypeOK, Today

\* Every variable keeps its type (the storage of AgentAllowance.sol 37-41 and the
\* token state it draws on).
THEOREM Typing == Spec => []TypeOK
  <1>1. Init => TypeOK
    BY ClockAssumption, AmountAssumption
    DEF Init, TypeOK, Days, LastDay, SpentEvent
  <1>2. TypeOK /\ [Next]_vars => TypeOK'
    <2> SUFFICES ASSUME TypeOK, [Next]_vars PROVE TypeOK'
      OBVIOUS
    <2>1. ASSUME NEW l \in Limiters, NEW daily \in Caps, NEW per \in Caps,
                 NEW until \in 1..MaxTime, Deploy(l, daily, per, until)
          PROVE TypeOK'
      BY <2>1, AmountAssumption, ClockAssumption
      DEF TypeOK, Deploy, storage, history, Days
    <2>2. ASSUME NEW l \in Limiters, NEW caller \in Addresses, NEW payee \in Addresses,
                 NEW amount \in 0..MaxAmount, NEW ref \in Refs,
                 Spend(l, caller, payee, amount, ref)
          PROVE TypeOK'
      <3>1. Today \in Days /\ SpentSoFar(l) \in Nat /\ amount \in Nat
        BY TodayIsADay, AmountAssumption DEF SpentSoFar, TypeOK
      <3>2. log' \in SUBSET SpentEvent
        BY <2>2, <3>1 DEF Spend, TypeOK, SpentEvent
      <3>3. movedOn' \in [Limiters -> [Days -> Nat]]
        <4>1. movedOn[l] \in [Days -> Nat]
          BY DEF TypeOK
        <4>2. Credit(movedOn[l], Today, amount) \in [Days -> Nat]
          BY <3>1, <4>1 DEF Credit
        <4>3. movedOn' = [movedOn EXCEPT ![l] = Credit(movedOn[l], Today, amount)]
          BY <2>2 DEF Spend
        <4>4. QED
          BY <4>2, <4>3 DEF TypeOK
      <3>4. QED
        BY <2>2, <3>1, <3>2, <3>3 DEF Spend, TypeOK, immutables
    <2>3. ASSUME NEW l \in Limiters, NEW caller \in Addresses, Pause(l, caller)
          PROVE TypeOK'
      BY <2>3 DEF TypeOK, Pause, immutables, history
    <2>4. ASSUME NEW l \in Limiters, NEW amount \in 0..MaxAmount, Approve(l, amount)
          PROVE TypeOK'
      BY <2>4, AmountAssumption DEF TypeOK, Approve, immutables, storage, history
    <2>5. ASSUME NEW balance \in 0..MaxAmount, OwnerMoves(balance)
          PROVE TypeOK'
      BY <2>5, AmountAssumption DEF TypeOK, OwnerMoves, immutables, storage, history
    <2>6. CASE Tick
      BY <2>6, ClockAssumption DEF TypeOK, Tick, immutables, storage, history
    <2>7. CASE UNCHANGED vars
      BY <2>7 DEF TypeOK, vars, immutables, storage, history
    <2>8. QED
      BY <2>1, <2>2, <2>3, <2>4, <2>5, <2>6, <2>7 DEF Next
  <1>3. QED
    BY <1>1, <1>2, PTL DEF Spec

\* What a purchase does to one limiter's ledger: today's total grows by the amount,
\* every other day and every other limiter keeps its own.
LEMMA SpendLedger ==
  ASSUME TypeOK, NEW l \in Limiters, NEW caller \in Addresses, NEW payee \in Addresses,
         NEW amount \in 0..MaxAmount, NEW ref \in Refs,
         Spend(l, caller, payee, amount, ref), NEW k \in Limiters, NEW d \in Days
  PROVE  movedOn'[k][d] = movedOn[k][d] + (IF k = l /\ d = Today THEN amount ELSE 0)
  <1>1. movedOn[k] \in [Days -> Nat] /\ movedOn[l] \in [Days -> Nat] /\ Today \in Days
    BY TodayIsADay DEF TypeOK
  <1>2. amount \in Nat
    BY AmountAssumption
  <1>3. movedOn' = [movedOn EXCEPT ![l] = Credit(movedOn[l], Today, amount)]
    BY DEF Spend
  <1>4. movedOn'[k] = IF k = l THEN Credit(movedOn[l], Today, amount) ELSE movedOn[k]
    BY <1>3 DEF TypeOK
  <1>5. QED
    BY <1>1, <1>2, <1>4 DEF Credit

\* The counter's invariant holds in every reachable state.
THEOREM CounterIsRight == Spec => []CounterInv
  <1>1. Init => CounterInv
    <2>1. 0 \in 0..MaxTime /\ AmountAssumption
      BY ClockAssumption, AmountAssumption
    <2>2. Init => Today \in Nat /\ 0 \in Days
      BY <2>1, DayOfTick DEF Init, Today
    <2>3. QED
      BY <2>2 DEF Init, CounterInv
  <1>2. TypeOK /\ TypeOK' /\ CounterInv /\ [Next]_vars => CounterInv'
    <2> SUFFICES ASSUME TypeOK, TypeOK', CounterInv, [Next]_vars PROVE CounterInv'
      OBVIOUS
    <2>1. ASSUME NEW l \in Limiters, NEW daily \in Caps, NEW per \in Caps,
                 NEW until \in 1..MaxTime, Deploy(l, daily, per, until)
          PROVE CounterInv'
      <3>1. Today' = Today /\ daily \in Nat
        BY <2>1, AmountAssumption DEF Deploy, Today
      <3>2. QED
        BY <2>1, <3>1 DEF Deploy, CounterInv, TypeOK, storage, history
    <2>2. ASSUME NEW l \in Limiters, NEW caller \in Addresses, NEW payee \in Addresses,
                 NEW amount \in 0..MaxAmount, NEW ref \in Refs,
                 Spend(l, caller, payee, amount, ref)
          PROVE CounterInv'
      <3> SUFFICES ASSUME NEW k \in Limiters
                   PROVE  /\ (day[k] <= Today)'
                          /\ (spentToday[k] = movedOn[k][day[k]])'
                          /\ (\A d \in Days : d > day[k] => movedOn[k][d] = 0)'
                          /\ (\A d \in Days : movedOn[k][d] <= dailyCap[k])'
                          /\ (k \notin deployed => ~paused[k] /\ dailyCap[k] = 0)'
        BY DEF CounterInv
      <3>1. Today' = Today /\ Today \in Days /\ amount \in Nat
        BY <2>2, TodayIsADay, AmountAssumption DEF Spend, Today
      <3>2. \A d \in Days : movedOn'[k][d] = movedOn[k][d]
                                          + (IF k = l /\ d = Today THEN amount ELSE 0)
        BY <2>2, SpendLedger
      <3>3. UNCHANGED <<dailyCap, deployed, paused>>
        BY <2>2 DEF Spend, immutables
      <3>4. \A d \in Days : movedOn[k][d] \in Nat
        BY DEF TypeOK
      <3>5. day[l] \in Nat /\ Today \in Nat
        BY <3>1, DayOfTick DEF TypeOK
      <3>6. CASE k # l
        <4>1. day'[k] = day[k] /\ spentToday'[k] = spentToday[k] /\ day[k] \in Days
          BY <2>2, <3>6 DEF Spend, TypeOK
        <4>2. \A d \in Days : movedOn'[k][d] = movedOn[k][d]
          BY <3>2, <3>4, <3>6
        <4>3. QED
          BY <3>1, <3>3, <4>1, <4>2 DEF CounterInv
      <3>7. CASE k = l
        <4>1. day'[l] = Today /\ spentToday'[l] = SpentSoFar(l) + amount
          BY <2>2 DEF Spend, TypeOK
        <4>2. SpentSoFar(l) = movedOn[l][Today]
          <5>1. CASE Today = day[l]
            BY <5>1 DEF SpentSoFar, CounterInv
          <5>2. CASE Today # day[l]
            <6>1. Today > day[l]
              BY <5>2, <3>5 DEF CounterInv
            <6>2. QED
              BY <5>2, <6>1, <3>1 DEF SpentSoFar, CounterInv
          <5>3. QED
            BY <5>1, <5>2
        <4>3. movedOn[l][Today] + amount <= dailyCap[l]
          BY <2>2, <4>2 DEF Spend, MayPay, UnderDailyCap
        <4>4. \A d \in Days : d > Today => movedOn'[l][d] = 0
          <5> TAKE d \in Days
          <5> HAVE d > Today
          <5>1. d > day[l] /\ d # Today
            BY <3>5, DayOfTick DEF CounterInv
          <5>2. QED
            BY <5>1, <3>2, <3>4, <3>7 DEF CounterInv
        <4>5. \A d \in Days : movedOn'[l][d] <= dailyCap[l]
          BY <3>1, <3>2, <3>4, <3>7, <4>3 DEF CounterInv
        <4>6. QED
          BY <3>1, <3>2, <3>3, <3>7, <4>1, <4>2, <4>4, <4>5, <2>2
          DEF CounterInv, Spend, Days
      <3>8. QED
        BY <3>6, <3>7
    <2>3. ASSUME NEW l \in Limiters, NEW caller \in Addresses, Pause(l, caller)
          PROVE CounterInv'
      BY <2>3 DEF TypeOK, CounterInv, Pause, immutables, history, Today
    <2>4. ASSUME NEW l \in Limiters, NEW amount \in 0..MaxAmount, Approve(l, amount)
          PROVE CounterInv'
      BY <2>4 DEF CounterInv, Approve, immutables, storage, history, Today
    <2>5. ASSUME NEW balance \in 0..MaxAmount, OwnerMoves(balance)
          PROVE CounterInv'
      BY <2>5 DEF CounterInv, OwnerMoves, immutables, storage, history, Today
    <2>6. CASE Tick
      <3>1. now \in 0..MaxTime /\ now' \in 0..MaxTime /\ now <= now'
        BY <2>6 DEF Tick, TypeOK
      <3>2. Today \in Nat /\ Today' \in Nat /\ Today <= Today'
        BY <3>1, DayOfTick DEF Today
      <3>3. \A l \in Limiters : day[l] \in Nat
        BY DayOfTick DEF TypeOK
      <3>4. QED
        BY <2>6, <3>1, <3>2, <3>3 DEF CounterInv, Tick, immutables, storage, history, TypeOK
    <2>7. CASE UNCHANGED vars
      BY <2>7 DEF CounterInv, vars, immutables, storage, history, Today
    <2>8. QED
      BY <2>1, <2>2, <2>3, <2>4, <2>5, <2>6, <2>7 DEF Next
  <1>3. QED
    BY <1>1, <1>2, Typing, PTL DEF Spec

\* On no UTC day does a limiter move more than its daily cap, whatever the agent's key
\* calls and whenever.
THEOREM DailyCap == Spec => []DailyCapHolds
  <1>1. TypeOK /\ CounterInv => DailyCapHolds
    BY DEF TypeOK, CounterInv, DailyCapHolds
  <1>2. QED
    BY <1>1, Typing, CounterIsRight, PTL

\* What remainingToday() answers is what the chain's own record of the day leaves of
\* the cap: the gateway never quotes, or funds from, a counter of another day.
THEOREM ExactQuote == Spec => []QuoteIsExact
  <1>1. TypeOK /\ CounterInv => QuoteIsExact
    <2> SUFFICES ASSUME TypeOK, CounterInv, NEW l \in deployed PROVE
                   RemainingToday(l) = IF paused[l] \/ now >= expiry[l] THEN 0
                                       ELSE dailyCap[l] - movedOn[l][Today]
      BY DEF QuoteIsExact
    <2>1. l \in Limiters /\ day[l] \in Nat /\ Today \in Nat /\ Today \in Days
      BY DayOfTick, TodayIsADay DEF TypeOK
    <2>2. SpentSoFar(l) = movedOn[l][Today]
      BY <2>1 DEF SpentSoFar, CounterInv
    <2>3. now \in Nat /\ expiry[l] \in Nat
      BY <2>1, ClockAssumption DEF TypeOK
    <2>4. IsLive(l) <=> ~(paused[l] \/ now >= expiry[l])
      BY <2>3 DEF IsLive
    <2>5. QED
      BY <2>2, <2>4 DEF RemainingToday
  <1>2. QED
    BY <1>1, Typing, CounterIsRight, PTL

\* No reference pays twice on one limiter, on any day.
THEOREM RefOnce == Spec => []RefPaysOnce
  <1>1. Init => RefInv /\ RefPaysOnce
    BY DEF Init, RefInv, RefPaysOnce
  <1>2. TypeOK /\ RefInv /\ RefPaysOnce /\ [Next]_vars => RefInv' /\ RefPaysOnce'
    <2> SUFFICES ASSUME TypeOK, RefInv, RefPaysOnce, [Next]_vars
                 PROVE  RefInv' /\ RefPaysOnce'
      OBVIOUS
    <2>1. CASE UNCHANGED <<log, usedRef>>
      BY <2>1 DEF RefInv, RefPaysOnce
    <2>2. ASSUME NEW l \in Limiters, NEW caller \in Addresses, NEW payee \in Addresses,
                 NEW amount \in 0..MaxAmount, NEW ref \in Refs,
                 Spend(l, caller, payee, amount, ref)
          PROVE  RefInv' /\ RefPaysOnce'
      <3> DEFINE new == [limiter |-> l, ref |-> ref, amount |-> amount, at |-> now]
      <3>1. log' = log \cup {new} /\ ref \notin usedRef[l]
        BY <2>2 DEF Spend, MayPay, RefIsFresh
      <3>2. \A k \in Limiters : usedRef[k] \subseteq usedRef'[k]
        BY <2>2 DEF Spend, TypeOK
      <3>3. ref \in usedRef'[l]
        BY <2>2 DEF Spend, TypeOK
      <3>4. \A e \in log : e.limiter \in Limiters /\ e.ref \in usedRef[e.limiter]
        BY DEF RefInv, TypeOK, SpentEvent
      <3>5. \A e \in log : ~(e.limiter = l /\ e.ref = ref)
        BY <3>1, <3>4
      <3>6. QED
        BY <3>1, <3>2, <3>3, <3>4, <3>5 DEF RefInv, RefPaysOnce
    <2>3. QED
      BY <2>1, <2>2
      DEF Next, Deploy, Pause, Approve, OwnerMoves, Tick, vars, storage, history
  <1>3. QED
    BY <1>1, <1>2, Typing, PTL DEF Spec

\* Once paused or expired, a limiter is stopped for good and its ledger never moves.
THEOREM StopHolds == Spec => StopIsFinal
  <1>1. TypeOK /\ TypeOK' /\ [Next]_vars =>
          \A l \in Limiters : Stopped(l) => (Stopped(l)' /\ movedOn'[l] = movedOn[l])
    <2> SUFFICES ASSUME TypeOK, TypeOK', [Next]_vars, NEW k \in Limiters, Stopped(k)
                 PROVE  Stopped(k)' /\ movedOn'[k] = movedOn[k]
      OBVIOUS
    <2>0. now \in Nat /\ now' \in Nat /\ expiry[k] \in Nat
      BY ClockAssumption DEF TypeOK
    <2>1. ASSUME NEW l \in Limiters, NEW daily \in Caps, NEW per \in Caps,
                 NEW until \in 1..MaxTime, Deploy(l, daily, per, until)
          PROVE  Stopped(k)' /\ movedOn'[k] = movedOn[k]
      BY <2>1, <2>0 DEF Deploy, Stopped, TypeOK, storage, history
    <2>2. ASSUME NEW l \in Limiters, NEW caller \in Addresses, NEW payee \in Addresses,
                 NEW amount \in 0..MaxAmount, NEW ref \in Refs,
                 Spend(l, caller, payee, amount, ref)
          PROVE  Stopped(k)' /\ movedOn'[k] = movedOn[k]
      <3>1. k # l
        BY <2>0, <2>2 DEF Spend, MayPay, IsLive, Stopped
      <3>2. QED
        BY <2>2, <3>1 DEF Spend, Stopped, TypeOK, immutables
    <2>3. ASSUME NEW l \in Limiters, NEW caller \in Addresses, Pause(l, caller)
          PROVE  Stopped(k)' /\ movedOn'[k] = movedOn[k]
      BY <2>3 DEF Pause, Stopped, TypeOK, immutables, history
    <2>4. ASSUME NEW l \in Limiters, NEW amount \in 0..MaxAmount, Approve(l, amount)
          PROVE  Stopped(k)' /\ movedOn'[k] = movedOn[k]
      BY <2>4 DEF Approve, Stopped, immutables, storage, history
    <2>5. ASSUME NEW balance \in 0..MaxAmount, OwnerMoves(balance)
          PROVE  Stopped(k)' /\ movedOn'[k] = movedOn[k]
      BY <2>5 DEF OwnerMoves, Stopped, immutables, storage, history
    <2>6. CASE Tick
      BY <2>0, <2>6 DEF Tick, Stopped, immutables, storage, history
    <2>7. CASE UNCHANGED vars
      BY <2>7 DEF Stopped, vars, immutables, storage, history
    <2>8. QED
      BY <2>1, <2>2, <2>3, <2>4, <2>5, <2>6, <2>7 DEF Next
  <1>2. QED
    BY <1>1, Typing, PTL DEF Spec, StopIsFinal

-----------------------------------------------------------------------------
(* What a limiter moves in any stretch as long as a day                    *)

\* The units of two sets of events together.
LEMMA UnitsTogether ==
  \A A, B : /\ Units(A \cup B) = Units(A) \cup Units(B)
            /\ A \subseteq B => Units(A) \subseteq Units(B)
  BY DEF Units

\* The events of two sets move at most what each of the two moves.
LEMMA SumOfTwo ==
  ASSUME NEW A, IsFiniteSet(Units(A)), NEW B, IsFiniteSet(Units(B)), NEW C, C \subseteq A \cup B
  PROVE  /\ IsFiniteSet(Units(C))
         /\ SumOf(A) \in Nat /\ SumOf(B) \in Nat /\ SumOf(C) \in Nat
         /\ SumOf(C) <= SumOf(A) + SumOf(B)
  <1> DEFINE both == Units(A) \cup Units(B)
  <1>1. /\ IsFiniteSet(both)
        /\ Cardinality(both) = SumOf(A) + SumOf(B) - Cardinality(Units(A) \cap Units(B))
    BY FS_Union DEF SumOf
  <1>2. IsFiniteSet(Units(A) \cap Units(B))
    BY FS_Subset
  <1>3. SumOf(A) \in Nat /\ SumOf(B) \in Nat /\ Cardinality(Units(A) \cap Units(B)) \in Nat
    BY <1>2, FS_CardinalityType DEF SumOf
  <1>4. Units(C) \subseteq both
    BY UnitsTogether
  <1>5. IsFiniteSet(Units(C)) /\ SumOf(C) <= Cardinality(both)
    BY <1>1, <1>4, FS_Subset DEF SumOf
  <1>6. SumOf(C) \in Nat
    BY <1>5, FS_CardinalityType DEF SumOf
  <1> HIDE DEF both
  <1>7. QED
    BY <1>1, <1>3, <1>5, <1>6

\* One event moves its amount.
LEMMA SumOfOne ==
  ASSUME NEW e, e.amount \in Nat
  PROVE  IsFiniteSet(Units({e})) /\ SumOf({e}) = e.amount
  <1>1. Units({e}) = {e} \X (1..e.amount)
    BY DEF Units
  <1>2. IsFiniteSet(1..e.amount) /\ Cardinality(1..e.amount) = e.amount
    BY FS_Interval
  <1>3. IsFiniteSet({e}) /\ Cardinality({e}) = 1
    BY FS_Singleton
  <1>4. /\ IsFiniteSet({e} \X (1..e.amount))
        /\ Cardinality({e} \X (1..e.amount)) = Cardinality({e}) * Cardinality(1..e.amount)
    BY <1>2, <1>3, FS_Product
  <1>5. Cardinality({e} \X (1..e.amount)) = e.amount
    BY <1>2, <1>3, <1>4
  <1>6. QED
    BY <1>1, <1>4, <1>5 DEF SumOf

\* A purchase adds one event to the day, of the amount that the record of the day grows by.
LEMMA SpendEvent ==
  ASSUME TypeOK, LogInv, NEW l \in Limiters, NEW caller \in Addresses, NEW payee \in Addresses,
         NEW amount \in 0..MaxAmount, NEW ref \in Refs,
         Spend(l, caller, payee, amount, ref), NEW k \in Limiters, NEW d \in Days
  PROVE  /\ IsFiniteSet(Units(DayEvents(k, d)))'
         /\ (SumOf(DayEvents(k, d)) <= movedOn[k][d])'
  <1> DEFINE e == [limiter |-> l, ref |-> ref, amount |-> amount, at |-> now]
  <1>1. log' = log \cup {e}
    BY DEF Spend
  <1>2. e.limiter = l /\ e.at \div DayLength = Today /\ e.amount = amount /\ amount \in Nat
    BY AmountAssumption DEF Today
  <1>3. movedOn'[k][d] = movedOn[k][d] + (IF k = l /\ d = Today THEN amount ELSE 0)
        /\ movedOn[k][d] \in Nat
    BY SpendLedger DEF TypeOK
  <1>4. IsFiniteSet(Units(DayEvents(k, d))) /\ SumOf(DayEvents(k, d)) <= movedOn[k][d]
    BY DEF LogInv
  <1> HIDE DEF e
  <1>5. CASE k = l /\ d = Today
    <2>1. DayEvents(k, d)' = DayEvents(k, d) \cup {e}
      BY <1>1, <1>2, <1>5 DEF DayEvents
    <2>2. IsFiniteSet(Units({e})) /\ SumOf({e}) = amount
      BY <1>2, SumOfOne
    <2> DEFINE A == DayEvents(k, d)
               C == A \cup {e}
    <2> HIDE DEF A
    <2>3. IsFiniteSet(Units(A)) /\ SumOf(A) <= movedOn[k][d]
      BY <1>4 DEF A
    <2>4. /\ IsFiniteSet(Units(C)) /\ SumOf(A) \in Nat /\ SumOf(C) \in Nat
          /\ SumOf(C) <= SumOf(A) + SumOf({e})
      BY <2>2, <2>3, SumOfTwo
    <2>5. SumOf(C) <= movedOn'[k][d]
      BY <1>2, <1>3, <1>5, <2>2, <2>3, <2>4
    <2>6. Units(DayEvents(k, d))' = Units(C) /\ SumOf(DayEvents(k, d))' = SumOf(C)
      BY <2>1 DEF Units, SumOf, A
    <2>7. QED
      BY <2>4, <2>5, <2>6
  <1>6. CASE ~(k = l /\ d = Today)
    <2>1. DayEvents(k, d)' = DayEvents(k, d)
      BY <1>1, <1>2, <1>6 DEF DayEvents
    <2>2. Units(DayEvents(k, d))' = Units(DayEvents(k, d))
          /\ SumOf(DayEvents(k, d))' = SumOf(DayEvents(k, d))
      BY <2>1 DEF Units, SumOf
    <2>3. QED
      BY <1>3, <1>4, <1>6, <2>2
  <1>7. QED
    BY <1>5, <1>6

\* The events of a day are within the chain's record of the day (the Spent event and the
\* transfer are one call).
THEOREM EventsAreCounted == Spec => []LogInv
  <1>1. Init => LogInv
    <2> SUFFICES ASSUME Init, NEW l \in Limiters, NEW d \in Days
                 PROVE  /\ IsFiniteSet(Units(DayEvents(l, d)))
                        /\ SumOf(DayEvents(l, d)) <= movedOn[l][d]
      BY DEF LogInv
    <2>1. Units(DayEvents(l, d)) = {}
      BY DEF Init, DayEvents, Units
    <2>2. IsFiniteSet({}) /\ Cardinality({}) = 0
      BY FS_EmptySet
    <2>3. movedOn[l][d] = 0
      BY DEF Init
    <2>4. QED
      BY <2>1, <2>2, <2>3 DEF SumOf
  <1>2. TypeOK /\ LogInv /\ [Next]_vars => LogInv'
    <2> SUFFICES ASSUME TypeOK, LogInv, [Next]_vars PROVE LogInv'
      OBVIOUS
    <2>1. CASE UNCHANGED <<log, movedOn>>
      BY <2>1 DEF LogInv, DayEvents, SumOf, Units
    <2>2. ASSUME NEW l \in Limiters, NEW caller \in Addresses, NEW payee \in Addresses,
                 NEW amount \in 0..MaxAmount, NEW ref \in Refs,
                 Spend(l, caller, payee, amount, ref)
          PROVE  LogInv'
      BY <2>2, SpendEvent DEF LogInv
    <2>3. QED
      BY <2>1, <2>2 DEF Next, Deploy, Pause, Approve, OwnerMoves, Tick, vars, history
  <1>3. QED
    BY <1>1, <1>2, Typing, PTL DEF Spec

\* A stretch as long as a day touches two days at most.
LEMMA TwoDays ==
  ASSUME NEW t \in 0..MaxTime, NEW u \in 0..MaxTime, u \in t..(t + DayLength - 1)
  PROVE  u \div DayLength \in {t \div DayLength, t \div DayLength + 1}
  <1> DEFINE b == DayLength
             d == t \div DayLength
             p == u \div DayLength
  <1>1. b \in Nat \ {0} /\ t \in Nat /\ u \in Nat /\ t <= u /\ u < t + b
    BY ClockAssumption
  <1>2. d \in Nat /\ p \in Nat /\ b * p <= u /\ t < b * d + b
    BY <1>1, DivFacts
  <1>3. d <= p
    BY <1>1, DayOfTick
  <1> HIDE DEF b, d, p
  <1>4. ~(d + 2 <= p)
    <2> SUFFICES ASSUME d + 2 <= p PROVE FALSE
      OBVIOUS
    <2>1. b * (d + 2) <= b * p
      BY <1>1, <1>2, TimesMonotone
    <2>2. b * (d + 2) = b * d + b + b
      BY <1>1, <1>2
    <2>3. b * d \in Nat /\ b * p \in Nat
      BY <1>1, <1>2
    <2>4. QED
      BY <1>1, <1>2, <2>1, <2>2, <2>3
  <1>5. p = d \/ p = d + 1
    BY <1>2, <1>3, <1>4
  <1>6. QED
    BY <1>5 DEF d, p

\* In any stretch as long as a day, around midnight too, a limiter moves at most two caps.
THEOREM TwoCaps == Spec => []TwoCapsInAnyDayLong
  <1>1. TypeOK /\ CounterInv /\ LogInv => TwoCapsInAnyDayLong
    <2> SUFFICES ASSUME TypeOK, CounterInv, LogInv, NEW l \in deployed, NEW t \in 0..MaxTime
                 PROVE  SumOf(WindowEvents(l, t)) <= 2 * dailyCap[l]
      BY DEF TwoCapsInAnyDayLong
    <2> DEFINE d == t \div DayLength
               W == WindowEvents(l, t)
    <2>1. l \in Limiters /\ d \in Days /\ d \in Nat /\ dailyCap[l] \in Nat
      BY DayOfTick DEF TypeOK
    <2>2. \A c \in Days : /\ IsFiniteSet(Units(DayEvents(l, c)))
                          /\ SumOf(DayEvents(l, c)) <= dailyCap[l]
      <3> SUFFICES ASSUME NEW c \in Days
                   PROVE  /\ IsFiniteSet(Units(DayEvents(l, c)))
                          /\ SumOf(DayEvents(l, c)) <= dailyCap[l]
        OBVIOUS
      <3>1. movedOn[l][c] \in Nat /\ movedOn[l][c] <= dailyCap[l]
        BY <2>1 DEF TypeOK, CounterInv
      <3>2. IsFiniteSet(Units(DayEvents(l, c))) /\ SumOf(DayEvents(l, c)) <= movedOn[l][c]
        BY <2>1 DEF LogInv
      <3>3. SumOf(DayEvents(l, c)) \in Nat
        BY <3>2, FS_CardinalityType DEF SumOf
      <3>4. QED
        BY <2>1, <3>1, <3>2, <3>3
    <2>3. \A e \in W : /\ e \in log /\ e.limiter = l /\ e.at \div DayLength \in Days
                       /\ e.at \div DayLength \in {d, d + 1}
      <3> SUFFICES ASSUME NEW e \in W
                   PROVE  /\ e \in log /\ e.limiter = l /\ e.at \div DayLength \in Days
                          /\ e.at \div DayLength \in {d, d + 1}
        OBVIOUS
      <3>1. e \in log /\ e.limiter = l /\ e.at \in t..(t + DayLength - 1)
        BY DEF WindowEvents
      <3>2. e.at \in 0..MaxTime
        BY <3>1 DEF TypeOK, SpentEvent
      <3>3. QED
        BY <3>1, <3>2, TwoDays, DayOfTick
    <2> HIDE DEF d, W
    <2>4. CASE d + 1 \in Days
      <3>1. W \subseteq DayEvents(l, d) \cup DayEvents(l, d + 1)
        BY <2>3 DEF DayEvents
      <3>2. /\ SumOf(DayEvents(l, d)) \in Nat /\ SumOf(DayEvents(l, d + 1)) \in Nat
            /\ SumOf(W) \in Nat
            /\ SumOf(W) <= SumOf(DayEvents(l, d)) + SumOf(DayEvents(l, d + 1))
        BY <2>1, <2>2, <2>4, <3>1, SumOfTwo
      <3>3. QED
        BY <2>1, <2>2, <2>4, <3>2 DEF W
    <2>5. CASE d + 1 \notin Days
      <3>1. W \subseteq DayEvents(l, d) \cup DayEvents(l, d)
        BY <2>3, <2>5 DEF DayEvents
      <3>2. /\ SumOf(DayEvents(l, d)) \in Nat /\ SumOf(W) \in Nat
            /\ SumOf(W) <= SumOf(DayEvents(l, d)) + SumOf(DayEvents(l, d))
        BY <2>1, <2>2, <3>1, SumOfTwo
      <3>3. QED
        BY <2>1, <2>2, <3>2 DEF W
    <2>6. QED
      BY <2>4, <2>5
  <1>2. QED
    BY <1>1, Typing, CounterIsRight, EventsAreCounted, PTL

-----------------------------------------------------------------------------
(* Each limiter implements the budget its owner was promised.              *)

LEMMA BudgetInit == ASSUME Init, NEW l \in Limiters PROVE Budget(l)!Init
  <1>1. Today = 0
    <2>1. DayLength \in Nat \ {0} /\ 0 \div DayLength \in Nat
          /\ DayLength * (0 \div DayLength) <= 0
      BY ClockAssumption, DivFacts
    <2>2. 0 \div DayLength = 0
      <3>1. 0 \div DayLength > 0 => DayLength * 1 <= DayLength * (0 \div DayLength)
        BY <2>1, TimesMonotone
      <3>2. QED
        BY <2>1, <3>1
    <2>3. QED
      BY <2>2 DEF Init, Today
  <1>2. QED
    BY <1>1 DEF Init, Budget!Init, Phase, Days

\* One step of the limiters, seen through the mapping of one of them.
LEMMA BudgetStep ==
  ASSUME TypeOK, TypeOK', CounterInv, CounterInv', [Next]_vars, NEW k \in Limiters
  PROVE  Budget(k)!Next \/ UNCHANGED Budget(k)!vars
  <1> USE DEF Budget!Next, Budget!vars, Phase
  <1>0. /\ now \in Nat /\ now' \in Nat /\ expiry[k] \in Nat
        /\ Today \in Days /\ Today \in Nat /\ LastDay \in Nat
    <2>1. Today \in Days /\ Today \in Nat /\ LastDay \in Nat
      BY DayOfTick, TodayIsADay
    <2>2. now \in Nat /\ now' \in Nat /\ expiry[k] \in Nat
      BY ClockAssumption DEF TypeOK
    <2>3. QED
      BY <2>1, <2>2
  <1>1. ASSUME NEW l \in Limiters, NEW daily \in Caps, NEW per \in Caps,
               NEW until \in 1..MaxTime, Deploy(l, daily, per, until)
        PROVE  Budget(k)!Next \/ UNCHANGED Budget(k)!vars
    <2>1. /\ Today' = Today /\ movedOn' = movedOn /\ allowance' = allowance
          /\ paused' = paused /\ now' = now
      BY <1>1 DEF Deploy, storage, history, Today
    <2>2. CASE k # l
      BY <1>1, <2>1, <2>2 DEF Deploy, Stopped, TypeOK
    <2>3. CASE k = l
      <3>1. ~paused[k] /\ k \notin deployed /\ k \in deployed' /\ ~(now >= expiry'[k])
        BY <1>0, <1>1, <2>3 DEF Deploy, CounterInv, TypeOK
      <3>2. dailyCap'[k] \in Nat \ {0}
        BY <1>1, <2>3, AmountAssumption DEF Deploy, TypeOK
      <3>3. Budget(k)!Open
        BY <2>1, <3>1, <3>2 DEF Budget!Open, Stopped
      <3>4. QED
        BY <3>3
    <2>4. QED
      BY <2>2, <2>3
  <1>2. ASSUME NEW l \in Limiters, NEW caller \in Addresses, NEW payee \in Addresses,
               NEW amount \in 0..MaxAmount, NEW ref \in Refs,
               Spend(l, caller, payee, amount, ref)
        PROVE  Budget(k)!Next \/ UNCHANGED Budget(k)!vars
    <2>1. /\ Today' = Today /\ now' = now /\ deployed' = deployed /\ paused' = paused
          /\ dailyCap' = dailyCap /\ expiry' = expiry
      BY <1>2 DEF Spend, immutables, Today
    <2>2. CASE k # l
      <3>1. movedOn'[k] = movedOn[k] /\ allowance'[k] = allowance[k]
        BY <1>2, <2>2 DEF Spend, TypeOK
      <3>2. QED
        BY <2>1, <3>1 DEF Stopped
    <2>3. CASE k = l
      <3>1. amount \in 1..allowance[k]
        BY <1>2, <2>3, AmountAssumption DEF Spend, MayPay, TypeOK
      <3>2. k \in deployed /\ ~Stopped(k)
        BY <1>0, <1>2, <2>3 DEF Spend, MayPay, IsLive, Stopped
      <3>3. SpentSoFar(k) = movedOn[k][Today]
        <4>1. day[k] \in Nat
          BY DayOfTick DEF TypeOK
        <4>2. QED
          BY <1>0, <4>1 DEF SpentSoFar, CounterInv
      <3>4. movedOn[k][Today] + amount <= dailyCap[k]
        BY <1>2, <2>3, <3>3 DEF Spend, MayPay, UnderDailyCap
      <3>5. movedOn'[k] = [movedOn[k] EXCEPT ![Today] = @ + amount]
        BY <1>2, <2>3 DEF Spend, TypeOK, Credit
      <3>6. allowance'[k] = allowance[k] - amount
        BY <1>2, <2>3 DEF Spend, TypeOK
      <3>7. Budget(k)!Spend
        BY <2>1, <3>1, <3>2, <3>4, <3>5, <3>6 DEF Budget!Spend, Stopped
      <3>8. QED
        BY <3>7
    <2>4. QED
      BY <2>2, <2>3
  <1>3. ASSUME NEW l \in Limiters, NEW caller \in Addresses, Pause(l, caller)
        PROVE  Budget(k)!Next \/ UNCHANGED Budget(k)!vars
    <2>1. /\ Today' = Today /\ now' = now /\ deployed' = deployed /\ movedOn' = movedOn
          /\ dailyCap' = dailyCap /\ expiry' = expiry /\ allowance' = allowance
          /\ l \in deployed /\ paused' = [paused EXCEPT ![l] = TRUE]
      BY <1>3 DEF Pause, immutables, history, Today
    <2>2. CASE k # l \/ Stopped(k)
      BY <2>1, <2>2 DEF Stopped, TypeOK
    <2>3. CASE k = l /\ ~Stopped(k)
      <3>1. Budget(k)!Close
        BY <2>1, <2>3 DEF Budget!Close, Stopped, TypeOK
      <3>2. QED
        BY <3>1
    <2>4. QED
      BY <2>2, <2>3
  <1>4. ASSUME NEW l \in Limiters, NEW amount \in 0..MaxAmount, Approve(l, amount)
        PROVE  Budget(k)!Next \/ UNCHANGED Budget(k)!vars
    <2>1. /\ Today' = Today /\ now' = now /\ deployed' = deployed /\ movedOn' = movedOn
          /\ dailyCap' = dailyCap /\ expiry' = expiry /\ paused' = paused
      BY <1>4 DEF Approve, immutables, storage, history, Today
    <2>2. allowance'[k] \in Nat
      BY DEF TypeOK
    <2>3. Budget(k)!SetCeiling
      BY <2>1, <2>2 DEF Budget!SetCeiling, Stopped
    <2>4. QED
      BY <2>3
  <1>5. ASSUME NEW balance \in 0..MaxAmount, OwnerMoves(balance)
        PROVE  Budget(k)!Next \/ UNCHANGED Budget(k)!vars
    BY <1>5 DEF OwnerMoves, immutables, storage, history, Stopped, Today
  <1>6. CASE Tick
    <2>1. /\ deployed' = deployed /\ movedOn' = movedOn /\ dailyCap' = dailyCap
          /\ expiry' = expiry /\ paused' = paused /\ allowance' = allowance
          /\ now' >= now
      BY <1>0, <1>6 DEF Tick, immutables, storage, history
    <2>2. now \in 0..MaxTime /\ now' \in 0..MaxTime
      BY DEF TypeOK
    <2>3. Today' \in Today..LastDay
      BY <1>0, <2>1, <2>2, DayOfTick DEF Today, Days
    <2>4. Budget(k)!Pass
      BY <1>0, <2>1, <2>3 DEF Budget!Pass, Stopped
    <2>5. QED
      BY <2>4
  <1>7. CASE UNCHANGED vars
    BY <1>7 DEF vars, immutables, storage, history, Stopped, Today
  <1>8. QED
    BY <1>1, <1>2, <1>3, <1>4, <1>5, <1>6, <1>7 DEF Next

\* The limiter keeps the promise of SpendBudget, with the chain's record of each day
\* as the abstract ledger and the ERC-20 allowance as the ceiling.
THEOREM LimiterImplementsBudget == Spec => ImplementsBudget
  <1>1. Init => \A l \in Limiters : Budget(l)!Init
    BY BudgetInit
  <1>2. TypeOK /\ TypeOK' /\ CounterInv /\ CounterInv' /\ [Next]_vars =>
          \A l \in Limiters : Budget(l)!Next \/ UNCHANGED Budget(l)!vars
    BY BudgetStep
  <1>3. QED
    BY <1>1, <1>2, Typing, CounterIsRight, PTL DEF Spec, ImplementsBudget
=============================================================================
