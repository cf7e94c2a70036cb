------------------------ MODULE SolanaBudgetProofs -------------------------
(* Proofs about the Solana spending ledger, for any number of calls,       *)
(* processes and orders and any limits.                                    *)
EXTENDS SolanaBudget, FiniteSetTheorems, TLAPS

-----------------------------------------------------------------------------
(* Sums as numbers of units                                                *)

\* The units of one booking are as many as its amount.
LEMMA UnitsOfOne ==
  ASSUME NEW c, NEW n \in Nat
  PROVE  IsFiniteSet({c} \X (1..n)) /\ Cardinality({c} \X (1..n)) \in Nat
         /\ Cardinality({c} \X (1..n)) <= n
  <1> DEFINE f == [i \in 1..n |-> <<c, i>>]
  <1>1. f \in Surjection(1..n, {c} \X (1..n))
    <2>1. f \in [1..n -> {c} \X (1..n)]
      OBVIOUS
    <2>2. ASSUME NEW t \in {c} \X (1..n) PROVE \E i \in 1..n : f[i] = t
      <3>1. PICK i \in 1..n : t = <<c, i>>
        OBVIOUS
      <3>2. f[i] = t
        BY <3>1
      <3>3. QED
        BY <3>2
    <2>3. QED
      BY <2>1, <2>2 DEF Surjection
  <1>2. IsFiniteSet(1..n) /\ Cardinality(1..n) = n
    BY FS_Interval
  <1>3. IsFiniteSet({c} \X (1..n)) /\ Cardinality({c} \X (1..n)) <= n
    BY <1>1, <1>2, FS_Surjection
  <1>4. QED
    BY <1>3, FS_CardinalityType

\* A set within another one, one booking of n units and no more, counts at most n more.
LEMMA OneMore ==
  ASSUME NEW S, IsFiniteSet(S), NEW T, NEW c, NEW n \in Nat,
         T \subseteq S \cup ({c} \X (1..n))
  PROVE  /\ IsFiniteSet(T) /\ Cardinality(T) \in Nat /\ Cardinality(S) \in Nat
         /\ Cardinality(T) <= Cardinality(S) + n
  <1> DEFINE one == {c} \X (1..n)
             both == S \cup one
  <1>1. IsFiniteSet(one) /\ Cardinality(one) \in Nat /\ Cardinality(one) <= n
    BY UnitsOfOne
  <1>2. /\ IsFiniteSet(both)
        /\ Cardinality(both) = Cardinality(S) + Cardinality(one) - Cardinality(S \cap one)
    BY <1>1, FS_Union
  <1>3. IsFiniteSet(S \cap one)
    BY <1>1, FS_Subset
  <1>4. Cardinality(S) \in Nat /\ Cardinality(S \cap one) \in Nat
    BY <1>3, FS_CardinalityType
  <1>5. IsFiniteSet(T) /\ Cardinality(T) <= Cardinality(both)
    BY <1>2, FS_Subset
  <1>6. Cardinality(T) \in Nat
    BY <1>5, FS_CardinalityType
  <1> HIDE DEF one, both
  <1>7. QED
    BY <1>1, <1>2, <1>4, <1>5, <1>6

\* A set within two others counts at most as much as both.
LEMMA AtMostBoth ==
  ASSUME NEW S, IsFiniteSet(S), NEW R, IsFiniteSet(R), NEW T, T \subseteq S \cup R
  PROVE  /\ Cardinality(T) \in Nat /\ Cardinality(S) \in Nat /\ Cardinality(R) \in Nat
         /\ Cardinality(T) <= Cardinality(S) + Cardinality(R)
  <1> DEFINE both == S \cup R
  <1>1. /\ IsFiniteSet(both)
        /\ Cardinality(both) = Cardinality(S) + Cardinality(R) - Cardinality(S \cap R)
    BY FS_Union
  <1>2. IsFiniteSet(S \cap R)
    BY FS_Subset
  <1>3. Cardinality(S) \in Nat /\ Cardinality(R) \in Nat /\ Cardinality(S \cap R) \in Nat
    BY <1>2, FS_CardinalityType
  <1>4. IsFiniteSet(T) /\ Cardinality(T) <= Cardinality(both)
    BY <1>1, FS_Subset
  <1>5. Cardinality(T) \in Nat
    BY <1>4, FS_CardinalityType
  <1> HIDE DEF both
  <1>6. QED
    BY <1>1, <1>3, <1>4, <1>5

\* A set within a finite one counts at most as much.
LEMMA Fewer ==
  ASSUME NEW S, IsFiniteSet(S), NEW T, T \subseteq S
  PROVE  /\ IsFiniteSet(T) /\ Cardinality(T) \in Nat /\ Cardinality(S) \in Nat
         /\ Cardinality(T) <= Cardinality(S)
  BY FS_Subset, FS_CardinalityType

\* Units are the pairs of a booking of S and a number up to its amount.
LEMMA UnitsPairs ==
  ASSUME NEW S, NEW size
  PROVE  \A u : u \in Units(S, size) <=> \E c \in S : \E i \in 1..size[c] : u = <<c, i>>
  BY DEF Units

\* Fewer bookings of no larger amounts have fewer units.
LEMMA UnitsMonotone ==
  ASSUME NEW S, NEW T, NEW p, NEW q,
         \A c \in S : c \in T /\ p[c] \in Nat /\ q[c] \in Nat /\ p[c] <= q[c]
  PROVE  Units(S, p) \subseteq Units(T, q)
  <1> SUFFICES ASSUME NEW u \in Units(S, p) PROVE u \in Units(T, q)
    OBVIOUS
  <1>1. PICK c \in S : \E i \in 1..p[c] : u = <<c, i>>
    BY UnitsPairs
  <1>2. PICK i \in 1..p[c] : u = <<c, i>>
    BY <1>1
  <1>3. c \in T /\ i \in 1..q[c]
    <2>1. p[c] \in Nat /\ q[c] \in Nat /\ p[c] <= q[c] /\ c \in T
      OBVIOUS
    <2>2. i \in Int /\ 1 <= i /\ i <= p[c]
      BY <2>1, <1>2
    <2>3. QED
      BY <2>1, <2>2
  <1>4. QED
    BY <1>2, <1>3, UnitsPairs

\* One booking more, of n units, has at most those units more.
LEMMA UnitsOneMore ==
  ASSUME NEW S, NEW T, NEW c, NEW n \in Nat, NEW p, NEW q,
         \A e \in S : e # c => e \in T /\ p[e] \in Nat /\ q[e] \in Nat /\ p[e] <= q[e],
         p[c] = n
  PROVE  Units(S, p) \subseteq Units(T, q) \cup ({c} \X (1..n))
  <1> SUFFICES ASSUME NEW u \in Units(S, p), u \notin {c} \X (1..n) PROVE u \in Units(T, q)
    OBVIOUS
  <1>1. PICK e \in S : \E i \in 1..p[e] : u = <<e, i>>
    BY UnitsPairs
  <1>2. PICK i \in 1..p[e] : u = <<e, i>>
    BY <1>1
  <1>3. e # c
    BY <1>2
  <1>4. e \in T /\ i \in 1..q[e]
    <2>1. p[e] \in Nat /\ q[e] \in Nat /\ p[e] <= q[e] /\ e \in T
      BY <1>3
    <2>2. i \in Int /\ 1 <= i /\ i <= p[e]
      BY <2>1, <1>2
    <2>3. QED
      BY <2>1, <2>2
  <1>5. QED
    BY <1>2, <1>4, UnitsPairs

-----------------------------------------------------------------------------
(* What a step does to the ledger and to the chain                         *)

LEMMA ClockFacts ==
  ASSUME TypeOK, NEW c \in Calls, NEW s \in ClockOf(c)
  PROVE  s \in Days /\ s \in Nat /\ today \in Nat /\ day[c] \in Nat
         /\ day[c] <= s /\ s <= today /\ today <= s + 1
  BY AmountsAssumption DEF TypeOK, ClockOf, Days

\* Every variable keeps its type; a limits row is never above the server's daily ceiling
\* (set_limits, the ledger's rows and the chain's transfers).
THEOREM Typing == Spec => []TypeOK
  <1>1. Init => TypeOK
    <2>1. 0 \in Days /\ 0 <= MaxDaily
      BY AmountsAssumption DEF Days
    <2>2. NoLimits \in [daily: Nat, per: Nat, expiry: Nat]
          /\ NoLimits.per <= NoLimits.daily /\ NoLimits.daily <= MaxDaily
      BY <2>1 DEF NoLimits
    <2> SUFFICES ASSUME Init PROVE TypeOK
      OBVIOUS
    <2>3. /\ limits \in [daily: Nat, per: Nat, expiry: Nat]
          /\ limits.per <= limits.daily /\ limits.daily <= MaxDaily
      BY <2>2 DEF Init
    <2>4. /\ today \in Days /\ paused \in BOOLEAN /\ claimed \subseteq Orders
          /\ stage \in [Calls -> Stages] /\ order \in [Buys -> Orders]
          /\ process \in [Calls -> Processes]
      BY <2>1 DEF Init, Stages
    <2>5. /\ booked \in [Calls -> {"none", "row", "hold"}]
          /\ tx \in [Calls -> {"none", "pending", "landed", "dead"}]
          /\ day \in [Calls -> Days] /\ landedOn \in [Calls -> Days]
          /\ amount \in [Calls -> Nat] /\ charge \in [Calls -> Nat]
      BY <2>1 DEF Init
    <2>6. QED
      BY <2>3, <2>4, <2>5 DEF TypeOK
  <1>2. TypeOK /\ [Next]_vars => TypeOK'
    <2> SUFFICES ASSUME TypeOK, [Next]_vars PROVE TypeOK'
      OBVIOUS
    <2> USE DEF TypeOK, ledger, chain
    <2>1. ASSUME NEW l \in Limits, NEW life \in Lifetimes, Setup(l, life) PROVE TypeOK'
      <3>1. today + life \in Nat /\ l.daily \in Nat /\ l.per \in Nat
        BY AmountsAssumption DEF Days
      <3>2. QED
        BY <2>1, <3>1 DEF Setup
    <2>2. CASE Pause \/ Resume
      BY <2>2 DEF Pause, Resume
    <2>3. ASSUME NEW c \in Calls, CallStep(c) PROVE TypeOK'
      <3>1. CASE Begin(c)
        BY <3>1 DEF Begin, Stages
      <3>2. CASE Refused(c) \/ Claim(c) \/ Accepted(c) \/ Unclear(c) \/ AskUnclear(c)
        BY <3>2 DEF Refused, Claim, Accepted, Unclear, AskUnclear, Stages
      <3>3. CASE Reserve(c)
        <4>1. PICK s \in ClockOf(c) : day' = [day EXCEPT ![c] = s]
          BY <3>3 DEF Reserve
        <4>2. Size(c) \in Nat
          BY AmountsAssumption DEF Size, Calls
        <4>3. QED
          BY <3>3, <4>1, <4>2, ClockFacts DEF Reserve, Stages
      <3>4. CASE NothingSent(c) \/ Failed(c)
        BY <3>4 DEF NothingSent, Failed, TakeBack, Stages
      <3>5. CASE Submit(c)
        <4>1. PICK n \in 1..amount[c] : charge' = [charge EXCEPT ![c] = n]
          BY <3>5 DEF Submit
        <4>2. amount[c] \in Nat /\ n \in Nat
          BY <4>1
        <4>3. QED
          BY <3>5, <4>1, <4>2 DEF Submit, Stages
      <3>6. CASE Answered402(c) \/ AskRefused(c)
        BY <3>6 DEF Answered402, AskRefused, TakeBack, Stages
      <3>7. CASE AskPaid(c) \/ Recover(c)
        <4>1. \/ TakeBack(c)
              \/ \E s \in ClockOf(c) : /\ day' = [day EXCEPT ![c] = s]
                                       /\ booked' = [booked EXCEPT ![c] = "row"]
                                       /\ amount' = [amount EXCEPT ![c] = charge[c]]
          BY <3>7 DEF AskPaid, Recover, Settle
        <4>2. booked' \in [Calls -> {"none", "row", "hold"}]
              /\ day' \in [Calls -> Days] /\ amount' \in [Calls -> Nat]
          BY <4>1, ClockFacts DEF TakeBack
        <4>3. QED
          BY <3>7, <4>2 DEF AskPaid, Recover, Stages
      <3>8. CASE Land(c) \/ Die(c)
        BY <3>8 DEF Land, Die
      <3>9. QED
        BY <2>3, <3>1, <3>2, <3>3, <3>4, <3>5, <3>6, <3>7, <3>8 DEF CallStep
    <2>4. ASSUME NEW p \in Processes, Crash(p) PROVE TypeOK'
      BY <2>4 DEF Crash, Stages
    <2>5. CASE NextDay
      BY <2>5, AmountsAssumption DEF NextDay, Days
    <2>6. CASE UNCHANGED vars
      BY <2>6 DEF vars
    <2>7. QED
      BY <2>1, <2>2, <2>3, <2>4, <2>5, <2>6 DEF Next
  <1>3. QED
    BY <1>1, <1>2, PTL DEF Spec

\* The booking of each stage of a call.
LEMMA BookStep ==
  ASSUME TypeOK, BookInv, [Next]_vars
  PROVE  BookInv'
  <1> USE DEF TypeOK, ledger, chain
  <1>1. ASSUME NEW l \in Limits, NEW life \in Lifetimes, Setup(l, life) PROVE BookInv'
    BY <1>1 DEF Setup, BookInv, BookOf
  <1>2. CASE Pause \/ Resume
    BY <1>2 DEF Pause, Resume, BookInv, BookOf
  <1>3. ASSUME NEW c \in Calls, CallStep(c) PROVE BookInv'
    <2>1. ASSUME NEW e \in Calls, e # c PROVE BookOf(e)'
      <3>1. /\ stage'[e] = stage[e] /\ booked'[e] = booked[e] /\ amount'[e] = amount[e]
            /\ tx'[e] = tx[e] /\ charge'[e] = charge[e]
        BY <1>3, <2>1
        DEF CallStep, Begin, Refused, Reserve, Claim, NothingSent, Submit, Accepted, Failed,
            Answered402, Unclear, AskRefused, AskPaid, AskUnclear, Recover, Land, Die,
            TakeBack, Settle
      <3>2. QED
        BY <3>1 DEF BookInv, BookOf
    <2>2. BookOf(c)'
      <3> USE DEF BookInv, BookOf
      <3>1. CASE Begin(c) \/ Refused(c)
        BY <3>1 DEF Begin, Refused
      <3>2. CASE Reserve(c)
        BY <3>2 DEF Reserve
      <3>3. CASE Claim(c)
        BY <3>3, CallsAssumption DEF Claim
      <3>4. CASE NothingSent(c)
        BY <3>4 DEF NothingSent, TakeBack
      <3>5. CASE Submit(c)
        <4>1. PICK n \in 1..amount[c] : charge' = [charge EXCEPT ![c] = n]
          BY <3>5 DEF Submit
        <4>2. amount[c] \in Nat /\ n \in Nat /\ n <= amount[c]
          BY <4>1
        <4>3. QED
          BY <3>5, <4>1, <4>2 DEF Submit
      <3>6. CASE Accepted(c) \/ Unclear(c) \/ AskUnclear(c)
        BY <3>6, CallsAssumption DEF Accepted, Unclear, AskUnclear
      <3>7. CASE Failed(c)
        BY <3>7 DEF Failed, TakeBack
      <3>8. CASE Answered402(c)
        BY <3>8, CallsAssumption DEF Answered402, TakeBack
      <3>9. CASE AskRefused(c)
        BY <3>9 DEF AskRefused, TakeBack
      <3>10. CASE AskPaid(c)
        BY <3>10 DEF AskPaid, Settle
      <3>11. CASE AskUnclear(c)
        BY <3>11 DEF AskUnclear
      <3>12. CASE Recover(c)
        BY <3>12 DEF Recover, Settle, TakeBack
      <3>13. CASE Land(c) \/ Die(c)
        BY <3>13 DEF Land, Die
      <3>14. QED
        BY <1>3, <3>1, <3>2, <3>3, <3>4, <3>5, <3>6, <3>7, <3>8, <3>9, <3>10, <3>11, <3>12,
           <3>13 DEF CallStep
    <2>3. QED
      BY <2>1, <2>2 DEF BookInv
  <1>4. ASSUME NEW p \in Processes, Crash(p) PROVE BookInv'
    BY <1>4 DEF Crash, InFlight, BookInv, BookOf
  <1>5. CASE NextDay
    BY <1>5 DEF NextDay, BookInv, BookOf
  <1>6. CASE UNCHANGED vars
    BY <1>6 DEF vars, BookInv, BookOf
  <1>7. QED
    BY <1>1, <1>2, <1>3, <1>4, <1>5, <1>6 DEF Next

\* What the chain holds of each call is counted, step by step, when a 402 is final.
LEMMA CoverStep ==
  ASSUME TypeOK, BookInv, Covered, [Next]_vars, RefusalIsFinal
  PROVE  Covered'
  <1> USE DEF TypeOK, ledger, chain
  <1>1. ASSUME NEW c \in Calls, CallStep(c) PROVE Covered'
    <2> DEFINE Safe(e) == tx[e] \in {"pending", "landed"} =>
                            booked[e] # "none" /\ charge[e] <= amount[e]
    <2>1. ASSUME NEW e \in Calls, e # c PROVE Safe(e)'
      <3>1. /\ booked'[e] = booked[e] /\ amount'[e] = amount[e]
            /\ tx'[e] = tx[e] /\ charge'[e] = charge[e]
        BY <1>1, <2>1
        DEF CallStep, Begin, Refused, Reserve, Claim, NothingSent, Submit, Accepted, Failed,
            Answered402, Unclear, AskRefused, AskPaid, AskUnclear, Recover, Land, Die,
            TakeBack, Settle
      <3>2. QED
        BY <3>1 DEF Covered
    <2>2. Safe(c)'
      <3> USE DEF BookInv, BookOf, Covered
      <3>1. CASE Begin(c) \/ Refused(c) \/ Claim(c) \/ Accepted(c) \/ Unclear(c) \/ AskUnclear(c)
        BY <3>1 DEF Begin, Refused, Claim, Accepted, Unclear, AskUnclear
      <3>2. CASE Reserve(c) \/ NothingSent(c)
        BY <3>2 DEF Reserve, NothingSent
      <3>3. CASE Submit(c)
        <4>1. PICK n \in 1..amount[c] : charge' = [charge EXCEPT ![c] = n]
          BY <3>3 DEF Submit
        <4>2. amount[c] \in Nat /\ n \in Nat /\ n <= amount[c]
          BY <4>1
        <4>3. booked[c] # "none"
          BY <3>3 DEF Submit
        <4>4. QED
          BY <3>3, <4>1, <4>2, <4>3 DEF Submit
      <3>4. CASE Failed(c) \/ Answered402(c) \/ AskRefused(c)
        BY <3>4 DEF Failed, Answered402, AskRefused, TakeBack
      <3>5. CASE AskPaid(c)
        BY <3>5 DEF AskPaid, Settle
      <3>6. CASE Recover(c)
        BY <3>6 DEF Recover, Settle, TakeBack
      <3>7. CASE Land(c) \/ Die(c)
        BY <3>7 DEF Land, Die
      <3>8. QED
        BY <1>1, <3>1, <3>2, <3>3, <3>4, <3>5, <3>6, <3>7 DEF CallStep
    <2>3. QED
      BY <2>1, <2>2 DEF Covered
  <1>2. CASE ~ \E c \in Calls : CallStep(c)
    <2>1. UNCHANGED <<ledger, chain>>
      BY <1>2 DEF Next, Setup, Pause, Resume, Crash, NextDay, vars
    <2>2. QED
      BY <2>1 DEF Covered
  <1>3. QED
    BY <1>1, <1>2

\* Every call's booking and transfer are what its stage says: nothing before the reservation,
\* no transfer before the attempt is claimed, a hold open until it is settled or released.
THEOREM Booked == Spec => []BookInv
  <1>1. Init => BookInv
    BY DEF Init, BookInv, BookOf
  <1>2. TypeOK /\ BookInv /\ [Next]_vars => BookInv'
    BY BookStep
  <1>3. QED
    BY <1>1, <1>2, Typing, PTL DEF Spec

\* When a 402 is final, money that has moved or may still move is counted ("taken back
\* only when the payment surely did not leave", solana_allowance.py 783-784).
THEOREM Counted ==
  ASSUME RefusalIsFinal
  PROVE  Spec => []Covered
  <1>1. Init => Covered
    BY DEF Init, Covered
  <1>2. TypeOK /\ BookInv /\ Covered /\ [Next]_vars => Covered'
    BY CoverStep
  <1>3. QED
    BY <1>1, <1>2, Typing, Booked, PTL DEF Spec

-----------------------------------------------------------------------------
(* The caps                                                                *)

Booking == {c \in Calls : booked[c] # "none"}
FiniteLedger == IsFiniteSet(Units(Booking, amount))

\* What a step that reserves nothing does to one booking.
Shrunk(c) ==
  \/ booked'[c] = "none"
  \/ booked'[c] = booked[c] /\ day'[c] = day[c] /\ amount'[c] = amount[c]
  \/ /\ booked[c] = "hold" /\ booked'[c] = "row"
     /\ day[c] <= day'[c] /\ amount'[c] <= amount[c]

\* A step reserves for one call, or takes back, settles or leaves alone.
LEMMA LedgerStep ==
  ASSUME TypeOK, BookInv, [Next]_vars
  PROVE  (\E c \in Calls : Reserve(c)) \/ (\A c \in Calls : Shrunk(c))
  <1> USE DEF TypeOK, ledger, chain
  <1>1. ASSUME NEW c \in Calls, CallStep(c), ~Reserve(c), NEW e \in Calls PROVE Shrunk(e)
    <2>1. CASE e # c
      <3>1. booked'[e] = booked[e] /\ day'[e] = day[e] /\ amount'[e] = amount[e]
        BY <1>1, <2>1
        DEF CallStep, Begin, Refused, Claim, NothingSent, Submit, Accepted, Failed,
            Answered402, Unclear, AskRefused, AskPaid, AskUnclear, Recover, Land, Die,
            TakeBack, Settle
      <3>2. QED
        BY <3>1 DEF Shrunk
    <2>2. CASE e = c
      <3>1. CASE Begin(c)
        BY <3>1, <2>2 DEF Begin, BookInv, BookOf, Shrunk
      <3>2. CASE UNCHANGED ledger
        BY <3>2 DEF Shrunk
      <3>3. CASE TakeBack(c)
        BY <3>3, <2>2 DEF TakeBack, Shrunk
      <3>4. CASE Settle(c)
        <4>1. PICK s \in ClockOf(c) : day' = [day EXCEPT ![c] = s]
          BY <3>4 DEF Settle
        <4>2. day[c] <= s
          BY <4>1, ClockFacts
        <4>3. QED
          BY <3>4, <4>1, <4>2, <2>2 DEF Settle, Shrunk
      <3>5. QED
        BY <1>1, <3>1, <3>2, <3>3, <3>4
        DEF CallStep, Refused, Claim, NothingSent, Submit, Accepted, Failed,
            Answered402, Unclear, AskRefused, AskPaid, AskUnclear, Recover, Land, Die
    <2>3. QED
      BY <2>1, <2>2
  <1>2. CASE ~ \E c \in Calls : CallStep(c)
    <2>1. UNCHANGED ledger
      BY <1>2 DEF Next, Setup, Pause, Resume, Crash, NextDay, vars
    <2>2. QED
      BY <2>1 DEF Shrunk
  <1>3. QED
    BY <1>1, <1>2

\* What is counted for day d after a step that reserves nothing was counted before.
LEMMA CountedBefore ==
  ASSUME TypeOK, TypeOK', NEW c \in Calls, Shrunk(c), NEW d \in Days
  PROVE  /\ c \in CountedOn(d)' => c \in CountedOn(d) /\ amount'[c] <= amount[c]
         /\ c \in Booking' => c \in Booking /\ amount'[c] <= amount[c]
  <1>1. /\ d \in Nat /\ day[c] \in Nat /\ day'[c] \in Nat
        /\ amount[c] \in Nat /\ amount'[c] \in Nat
        /\ booked[c] \in {"none", "row", "hold"}
    BY AmountsAssumption DEF TypeOK, Days
  <1>2. CASE booked'[c] = "none"
    BY <1>2 DEF CountedOn, Booking
  <1>3. CASE booked'[c] = booked[c] /\ day'[c] = day[c] /\ amount'[c] = amount[c]
    BY <1>1, <1>3 DEF CountedOn, Booking
  <1>4. CASE /\ booked[c] = "hold" /\ booked'[c] = "row"
             /\ day[c] <= day'[c] /\ amount'[c] <= amount[c]
    BY <1>1, <1>4 DEF CountedOn, Booking
  <1>5. QED
    BY <1>2, <1>3, <1>4 DEF Shrunk

\* The ledger stays finite: a step adds one booking at most.
LEMMA FiniteStep ==
  ASSUME TypeOK, TypeOK', BookInv, FiniteLedger, [Next]_vars
  PROVE  FiniteLedger'
  <1>1. CASE \A c \in Calls : Shrunk(c)
    <2>1. \A c \in Booking' : /\ c \in Booking /\ amount'[c] \in Nat /\ amount[c] \in Nat
                              /\ amount'[c] <= amount[c]
      <3> SUFFICES ASSUME NEW c \in Booking'
                   PROVE  /\ c \in Booking /\ amount'[c] \in Nat /\ amount[c] \in Nat
                          /\ amount'[c] <= amount[c]
        OBVIOUS
      <3>1. c \in Calls /\ 0 \in Days
        BY AmountsAssumption DEF Booking, Days
      <3>2. amount'[c] \in Nat /\ amount[c] \in Nat
        BY <3>1 DEF TypeOK
      <3>3. QED
        BY <1>1, <3>1, <3>2, CountedBefore
    <2>2. Units(Booking', amount') \subseteq Units(Booking, amount)
      BY <2>1, UnitsMonotone
    <2>3. QED
      BY <2>2, Fewer DEF FiniteLedger, Units
  <1>2. ASSUME NEW c \in Calls, Reserve(c) PROVE FiniteLedger'
    <2>1. amount'[c] \in Nat
      BY DEF TypeOK
    <2>2. \A e \in Booking' : e # c => /\ e \in Booking /\ amount'[e] \in Nat
                                       /\ amount[e] \in Nat /\ amount'[e] <= amount[e]
      BY <1>2 DEF Reserve, Booking, TypeOK
    <2>3. Units(Booking', amount') \subseteq
            Units(Booking, amount) \cup ({c} \X (1..amount'[c]))
      BY <2>1, <2>2, UnitsOneMore
    <2>4. QED
      BY <2>1, <2>3, OneMore DEF FiniteLedger
  <1>3. QED
    BY <1>1, <1>2, LedgerStep

\* A reservation of n for s leaves room for n on every day it is counted on, and what it
\* leaves counted since s is at most n more.
LEMMA RoomFor ==
  ASSUME TypeOK, TypeOK', FiniteLedger, NEW c \in Calls, Reserve(c)
  PROVE  /\ amount'[c] = Size(c) /\ amount'[c] \in Nat
         /\ CheckBudget(Size(c), day'[c])
         /\ \A T : (\A e \in T : /\ e \in Calls /\ booked'[e] # "none"
                                 /\ e # c => e \in RowsSince(day'[c]) \cup Holds) =>
              /\ IsFiniteSet(Units(T, amount'))
              /\ Sum(T, amount') \in Nat /\ UsedSince(day'[c]) \in Nat
              /\ Sum(T, amount') <= UsedSince(day'[c]) + amount'[c]
  <1>1. PICK s \in ClockOf(c) : CheckBudget(Size(c), s) /\ day' = [day EXCEPT ![c] = s]
    BY DEF Reserve
  <1>2. day'[c] = s /\ amount' = [amount EXCEPT ![c] = Size(c)] /\ amount'[c] = Size(c)
        /\ amount'[c] \in Nat
    BY <1>1 DEF Reserve, TypeOK
  <1> DEFINE U == Units(RowsSince(s) \cup Holds, amount)
  <1>3. IsFiniteSet(U)
    <2>1. \A e \in RowsSince(s) \cup Holds :
            /\ e \in Booking /\ amount[e] \in Nat /\ amount[e] <= amount[e]
      BY DEF RowsSince, Holds, Booking, TypeOK
    <2>2. U \subseteq Units(Booking, amount)
      BY <2>1, UnitsMonotone
    <2>3. QED
      BY <2>2, Fewer DEF FiniteLedger
  <1>4. ASSUME NEW T, \A e \in T : /\ e \in Calls /\ booked'[e] # "none"
                                   /\ e # c => e \in RowsSince(s) \cup Holds
        PROVE  /\ IsFiniteSet(Units(T, amount')) /\ Cardinality(Units(T, amount')) \in Nat
               /\ Cardinality(U) \in Nat
               /\ Cardinality(Units(T, amount')) <= Cardinality(U) + amount'[c]
    <2>1. \A e \in T : e # c => /\ e \in RowsSince(s) \cup Holds /\ amount'[e] \in Nat
                                /\ amount[e] \in Nat /\ amount'[e] <= amount[e]
      BY <1>2, <1>4 DEF TypeOK
    <2>2. Units(T, amount') \subseteq U \cup ({c} \X (1..amount'[c]))
      BY <1>2, <2>1, UnitsOneMore
    <2>3. QED
      BY <1>2, <1>3, <2>2, OneMore
  <1>5. QED
    BY <1>1, <1>2, <1>4 DEF Sum, UsedSince

\* What is counted for a day stays within the server's ceiling.
LEMMA CapStep ==
  ASSUME TypeOK, TypeOK', BookInv, FiniteLedger, DayWithinCap, [Next]_vars
  PROVE  DayWithinCap'
  <1> SUFFICES ASSUME NEW d \in Days PROVE Sum(CountedOn(d)', amount') <= MaxDaily
    BY DEF DayWithinCap
  <1>1. /\ IsFiniteSet(Units(CountedOn(d), amount)) /\ Sum(CountedOn(d), amount) \in Nat
        /\ Sum(CountedOn(d), amount) <= MaxDaily
    <2>1. \A e \in CountedOn(d) : e \in Booking /\ amount[e] \in Nat /\ amount[e] <= amount[e]
      BY DEF CountedOn, Booking, TypeOK
    <2>2. Units(CountedOn(d), amount) \subseteq Units(Booking, amount)
      BY <2>1, UnitsMonotone
    <2>3. QED
      BY <2>2, Fewer DEF FiniteLedger, DayWithinCap, Sum
  <1>2. CASE \A e \in CountedOn(d)' : e \in CountedOn(d) /\ amount'[e] <= amount[e]
    <2>1. \A e \in CountedOn(d)' : /\ e \in CountedOn(d) /\ amount'[e] \in Nat
                                   /\ amount[e] \in Nat /\ amount'[e] <= amount[e]
      BY <1>2 DEF CountedOn, TypeOK
    <2>2. Units(CountedOn(d)', amount') \subseteq Units(CountedOn(d), amount)
      BY <2>1, UnitsMonotone
    <2>3. /\ Sum(CountedOn(d)', amount') \in Nat
          /\ Sum(CountedOn(d)', amount') <= Sum(CountedOn(d), amount)
      BY <1>1, <2>2, Fewer DEF Sum
    <2>4. QED
      BY <1>1, <2>3, AmountsAssumption
  <1>3. CASE \A c \in Calls : Shrunk(c)
    <2>1. \A e \in CountedOn(d)' : e \in Calls
      BY DEF CountedOn
    <2>2. QED
      BY <1>2, <1>3, <2>1, CountedBefore
  <1>4. ASSUME NEW c \in Calls, Reserve(c) PROVE Sum(CountedOn(d)', amount') <= MaxDaily
    <2>1. \A e \in Calls : e # c => /\ booked'[e] = booked[e] /\ day'[e] = day[e]
                                    /\ amount'[e] = amount[e]
      BY <1>4 DEF Reserve, TypeOK
    <2>2. CASE c \notin CountedOn(d)'
      <3>1. \A e \in CountedOn(d)' : e \in CountedOn(d) /\ amount'[e] = amount[e]
        BY <2>1, <2>2 DEF CountedOn
      <3>2. \A e \in CountedOn(d)' : amount[e] \in Nat
        BY DEF CountedOn, TypeOK
      <3>3. QED
        BY <1>2, <3>1, <3>2
    <2>3. CASE c \in CountedOn(d)'
      <3>1. day'[c] \in Nat /\ d \in Nat /\ day'[c] <= d
        BY <2>3, AmountsAssumption DEF CountedOn, TypeOK, Days
      <3>2. \A e \in CountedOn(d)' : /\ e \in Calls /\ booked'[e] # "none"
                                     /\ e # c => e \in RowsSince(day'[c]) \cup Holds
        BY <2>1, <3>1 DEF CountedOn, RowsSince, Holds
      <3>3. /\ Sum(CountedOn(d)', amount') \in Nat /\ UsedSince(day'[c]) \in Nat
            /\ Sum(CountedOn(d)', amount') <= UsedSince(day'[c]) + amount'[c]
        BY <1>4, <3>2, RoomFor
      <3>4. amount'[c] \in Nat /\ UsedSince(day'[c]) + amount'[c] <= MaxDaily
        BY <1>4, RoomFor DEF CheckBudget
      <3>5. QED
        BY <3>3, <3>4, AmountsAssumption
    <2>4. QED
      BY <2>2, <2>3
  <1>5. QED
    BY <1>3, <1>4, LedgerStep

\* Nothing is booked at the start.
LEMMA EmptyLedger == ASSUME Init PROVE FiniteLedger /\ DayWithinCap
  <1>1. Units(Booking, amount) = {} /\ \A d \in Days : Units(CountedOn(d), amount) = {}
    BY DEF Init, Units, Booking, CountedOn
  <1>2. IsFiniteSet({}) /\ Cardinality({}) = 0
    BY FS_EmptySet
  <1>3. QED
    BY <1>1, <1>2, AmountsAssumption DEF FiniteLedger, DayWithinCap, Sum

\* In every reachable state the ledger's bookings are a finite set of units, so what it
\* counts is a number.
THEOREM Finite == Spec => []FiniteLedger
  <1>1. Init => FiniteLedger
    BY EmptyLedger
  <1>2. TypeOK /\ TypeOK' /\ BookInv /\ FiniteLedger /\ [Next]_vars => FiniteLedger'
    BY FiniteStep
  <1>3. QED
    BY <1>1, <1>2, Typing, Booked, PTL DEF Spec

\* On no day does the ledger count more than the server's daily ceiling, whatever other
\* processes, midnight and settlements do (_check_budget, solana_allowance.py 309-337).
THEOREM DailyCeiling == Spec => []DayWithinCap
  <1>1. Init => DayWithinCap
    BY EmptyLedger
  <1>2. TypeOK /\ TypeOK' /\ BookInv /\ FiniteLedger /\ DayWithinCap /\ [Next]_vars
          => DayWithinCap'
    BY CapStep
  <1>3. QED
    BY <1>1, <1>2, Typing, Booked, Finite, PTL DEF Spec

\* Nothing is reserved while a stop is in force, by calls that began before it either.
THEOREM Stopped == Spec => StopHolds
  <1>1. TypeOK /\ BookInv /\ [Next]_vars => [paused => \A c \in Calls : ~Opens(c)]_vars
    <2> SUFFICES ASSUME TypeOK, BookInv, [Next]_vars, paused, NEW c \in Calls, Opens(c)
                 PROVE FALSE
      OBVIOUS
    <2>1. CASE \A e \in Calls : Shrunk(e)
      BY <2>1 DEF Opens, Shrunk
    <2>2. ASSUME NEW e \in Calls, Reserve(e) PROVE FALSE
      BY <2>2 DEF Reserve, CheckBudget
    <2>3. QED
      BY <2>1, <2>2, LedgerStep
  <1>2. QED
    BY <1>1, Typing, Booked, PTL DEF Spec, StopHolds

\* A reservation fits the limits in force in the transaction that makes it.
THEOREM InForce == Spec => LimitsInForce
  <1> DEFINE Fits(c) == /\ amount'[c] <= limits.per
                        /\ \E s \in Days : day'[c] = s /\ UsedSince(s)' <= limits.daily
  <1>1. TypeOK /\ TypeOK' /\ BookInv /\ FiniteLedger /\ [Next]_vars
          => [\A c \in Calls : Opens(c) => Fits(c)]_vars
    <2> SUFFICES ASSUME TypeOK, TypeOK', BookInv, FiniteLedger, [Next]_vars,
                        NEW c \in Calls, Opens(c)
                 PROVE  Fits(c)
      OBVIOUS
    <2>1. CASE \A e \in Calls : Shrunk(e)
      BY <2>1 DEF Opens, Shrunk
    <2>2. ASSUME NEW e \in Calls, Reserve(e) PROVE Fits(c)
      <3>1. e = c
        BY <2>2 DEF Reserve, Opens, TypeOK
      <3>2. PICK s \in Days : day'[c] = s
        BY DEF TypeOK
      <3> DEFINE T == {b \in Calls : \/ booked'[b] = "row" /\ day'[b] >= s
                                     \/ booked'[b] = "hold"}
      <3>3. \A b \in T : /\ b \in Calls /\ booked'[b] # "none"
                         /\ b # c => b \in RowsSince(day'[c]) \cup Holds
        BY <2>2, <3>1, <3>2 DEF Reserve, RowsSince, Holds, TypeOK
      <3>4. /\ Sum(T, amount') \in Nat /\ UsedSince(s) \in Nat /\ amount'[c] \in Nat
            /\ Sum(T, amount') <= UsedSince(s) + amount'[c]
        BY <2>2, <3>1, <3>2, <3>3, RoomFor
      <3>5. amount'[c] <= limits.per /\ UsedSince(s) + amount'[c] <= limits.daily
        BY <2>2, <3>1, <3>2, RoomFor DEF CheckBudget
      <3>6. UsedSince(s)' = Sum(T, amount')
        <4>1. T = RowsSince(s)' \cup Holds'
          BY DEF RowsSince, Holds
        <4>2. QED
          BY <4>1 DEF UsedSince, Sum, Units
      <3>7. limits.daily \in Nat
        BY DEF TypeOK
      <3> HIDE DEF T
      <3>8. UsedSince(s)' <= limits.daily
        BY <3>4, <3>5, <3>6, <3>7
      <3>9. \E t \in Days : day'[c] = t /\ UsedSince(t)' <= limits.daily
        BY <3>2, <3>8
      <3>10. QED
        BY <3>5, <3>9
    <2>3. QED
      BY <2>1, <2>2, LedgerStep
  <1>2. QED
    BY <1>1, Typing, Booked, Finite, PTL DEF Spec, LimitsInForce

-----------------------------------------------------------------------------
(* An order is submitted once                                              *)

\* An attempt begins with the order's claim, which only one call can make.
LEMMA OrderStep ==
  ASSUME TypeOK, BookInv, OrderInv, [Next]_vars
  PROVE  OrderInv'
  <1> USE DEF TypeOK, ledger, chain
  <1> DEFINE Backed == \A b \in Buys : Attempted(b)' =>
                         Attempted(b) \/ (order[b] \notin claimed /\ order[b] \in claimed')
  <1>1. order' = order /\ claimed \subseteq claimed'
    BY DEF Next, CallStep, Setup, Pause, Resume, Begin, Refused, Reserve, Claim, NothingSent,
           Submit, Accepted, Failed, Answered402, Unclear, AskRefused, AskPaid, AskUnclear,
           Recover, Land, Die, Crash, NextDay, vars
  <1>2. ASSUME NEW c \in Buys, Claim(c) PROVE OrderInv'
    <2>1. \A b \in Buys : b # c => (Attempted(b)' <=> Attempted(b))
      BY <1>2 DEF Claim, Attempted
    <2>2. order[c] \notin claimed /\ order[c] \in claimed'
      BY <1>2 DEF Claim
    <2>3. QED
      BY <1>1, <2>1, <2>2 DEF OrderInv
  <1>3. CASE \A b \in Buys : Attempted(b)' => Attempted(b)
    BY <1>1, <1>3 DEF OrderInv
  <1>4. ASSUME NEW c \in Calls, CallStep(c), ~Claim(c), NEW b \in Buys, Attempted(b)'
        PROVE  Attempted(b)
    <2> b \in Calls
      BY DEF Calls
    <2>1. CASE b # c
      BY <1>4, <2>1
      DEF Attempted, CallStep, Begin, Refused, Reserve, NothingSent, Submit, Accepted,
          Failed, Answered402, Unclear, AskRefused, AskPaid, AskUnclear, Recover, Land, Die
    <2>2. CASE b = c
      <3>1. CASE Submit(c)
        BY <2>2, <3>1, CallsAssumption DEF Submit, Attempted
      <3>2. CASE ~Submit(c)
        BY <1>4, <2>2, <3>2, CallsAssumption
        DEF BookInv, BookOf, Attempted, CallStep, Begin, Refused, Reserve, NothingSent, Accepted,
            Failed, Answered402, Unclear, AskRefused, AskPaid, AskUnclear, Recover, Land, Die
      <3>3. QED
        BY <3>1, <3>2
    <2>3. QED
      BY <2>1, <2>2
  <1>5. ASSUME ~ \E c \in Calls : CallStep(c), NEW b \in Buys, Attempted(b)'
        PROVE  Attempted(b)
    BY <1>5 DEF Next, Setup, Pause, Resume, Crash, NextDay, vars, Attempted, Calls
  <1>6. \A c \in Calls : Claim(c) => c \in Buys
    BY DEF Claim
  <1>7. QED
    BY <1>2, <1>3, <1>4, <1>5, <1>6

\* Two calls for one order, at once or one after the other, submit it once (store.mjs 27-43).
THEOREM OneSubmission == Spec => []OrderPaidOnce
  <1>1. Init => OrderInv
    BY DEF Init, OrderInv, Attempted, Calls
  <1>2. OrderInv => OrderPaidOnce
    BY DEF OrderInv, OrderPaidOnce, Attempted
  <1>3. TypeOK /\ BookInv /\ OrderInv /\ [Next]_vars => OrderInv'
    BY OrderStep
  <1>4. QED
    BY <1>1, <1>2, <1>3, Typing, Booked, PTL DEF Spec

-----------------------------------------------------------------------------
(* What the chain moves in one day                                         *)

\* A call that may still move money was booked today or yesterday.
LEMMA TimeStep ==
  ASSUME TypeOK, TypeOK', BookInv, TimeInv, [Next]_vars
  PROVE  TimeInv'
  <1> USE DEF TypeOK, ledger, chain
  <1> DEFINE Recent(c) == \/ InFlight(c)
                          \/ tx[c] = "pending"
                          \/ tx[c] = "landed" /\ landedOn[c] = today /\ booked[c] = "row"
             Timed(c) == /\ day[c] <= today
                         /\ tx[c] = "landed" => landedOn[c] <= today
                         /\ Recent(c) => today <= day[c] + 1
  <1>1. /\ today \in Nat /\ today' \in Nat
        /\ \A c \in Calls : /\ day[c] \in Nat /\ day'[c] \in Nat
                            /\ landedOn[c] \in Nat /\ landedOn'[c] \in Nat
    BY AmountsAssumption DEF Days
  <1>2. \A c \in Calls : Timed(c)
    BY DEF TimeInv
  <1>3. ASSUME NEW c \in Calls, CallStep(c), NEW e \in Calls PROVE Timed(e)'
    <2>1. today' = today
      BY <1>3 DEF CallStep, Begin, Refused, Reserve, Claim, NothingSent, Submit, Accepted,
                  Failed, Answered402, Unclear, AskRefused, AskPaid, AskUnclear, Recover,
                  Land, Die
    <2>2. CASE e # c
      <3>1. /\ stage'[e] = stage[e] /\ booked'[e] = booked[e] /\ day'[e] = day[e]
            /\ tx'[e] = tx[e] /\ landedOn'[e] = landedOn[e]
        BY <1>3, <2>2
        DEF CallStep, Begin, Refused, Reserve, Claim, NothingSent, Submit, Accepted, Failed,
            Answered402, Unclear, AskRefused, AskPaid, AskUnclear, Recover, Land, Die,
            TakeBack, Settle
      <3>2. Timed(e)
        BY <1>2
      <3>3. QED
        BY <2>1, <3>1, <3>2 DEF InFlight
    <2>3. CASE e = c
      <3>1. Timed(c)
        BY <1>2
      <3>2. CASE Begin(c)
        <4>1. day'[c] = today
          BY <3>2 DEF Begin
        <4>2. tx'[c] = tx[c] /\ landedOn'[c] = landedOn[c]
          BY <3>2 DEF Begin
        <4>3. QED
          BY <1>1, <2>1, <2>3, <3>1, <4>1, <4>2
      <3>3. CASE Reserve(c) \/ Settle(c)
        <4>1. PICK s \in ClockOf(c) : day' = [day EXCEPT ![c] = s]
          BY <3>3 DEF Reserve, Settle
        <4>2. day'[c] = s /\ s <= today /\ today <= s + 1
          BY <4>1, ClockFacts
        <4>3. tx'[c] = tx[c] /\ landedOn'[c] = landedOn[c]
          BY <1>3, <3>3
          DEF CallStep, Begin, Refused, Reserve, Claim, NothingSent, Submit, Accepted, Failed,
              Answered402, Unclear, AskRefused, AskPaid, AskUnclear, Recover, Land, Die,
              Settle, TakeBack
        <4>4. QED
          BY <1>1, <2>1, <2>3, <3>1, <4>2, <4>3
      <3>4. CASE Submit(c)
        <4>1. InFlight(c) /\ tx'[c] = "pending" /\ day' = day
          BY <3>4 DEF Submit, InFlight
        <4>2. QED
          BY <1>1, <2>1, <2>3, <3>1, <4>1
      <3>5. CASE Land(c)
        <4>1. /\ tx[c] = "pending" /\ day' = day /\ landedOn'[c] = today
          BY <3>5 DEF Land
        <4>2. QED
          BY <1>1, <2>1, <2>3, <3>1, <4>1
      <3>6. CASE Die(c) \/ TakeBack(c) \/ UNCHANGED ledger
        <4>1. CASE Land(c) \/ Submit(c) \/ Begin(c) \/ Reserve(c) \/ Settle(c)
          BY <4>1, <3>2, <3>3, <3>4, <3>5
        <4>2. CASE ~(Land(c) \/ Submit(c) \/ Begin(c) \/ Reserve(c) \/ Settle(c))
          <5>1. /\ InFlight(c)' => InFlight(c)
                /\ tx'[c] = tx[c] \/ tx'[c] = "dead"
                /\ landedOn'[c] = landedOn[c] /\ day'[c] = day[c]
                /\ booked'[c] = "row" => booked[c] = "row"
            BY <1>3, <4>2
            DEF CallStep, Refused, Claim, NothingSent, Accepted, Failed,
                Answered402, Unclear, AskRefused, AskPaid, AskUnclear, Recover, Die,
                TakeBack, InFlight
          <5>2. QED
            BY <1>1, <2>1, <2>3, <3>1, <5>1
        <4>3. QED
          BY <4>1, <4>2
      <3>7. QED
        BY <1>3, <3>2, <3>3, <3>4, <3>5, <3>6
        DEF CallStep, Refused, Claim, NothingSent, Accepted, Failed,
            Answered402, Unclear, AskRefused, AskPaid, AskUnclear, Recover
    <2>4. QED
      BY <2>2, <2>3
  <1>4. CASE NextDay
    <2>1. ASSUME NEW c \in Calls PROVE Timed(c)'
      <3>1. /\ today' = today + 1
            /\ stage' = stage /\ tx' = tx /\ landedOn' = landedOn /\ day' = day
            /\ InFlight(c) \/ tx[c] = "pending" => day[c] = today
        BY <1>4 DEF NextDay
      <3>2. Timed(c)
        BY <1>2
      <3>3. day'[c] <= today' /\ (tx'[c] = "landed" => landedOn'[c] <= today')
        BY <1>1, <3>1, <3>2
      <3>4. CASE InFlight(c) \/ tx[c] = "pending"
        BY <1>1, <3>1, <3>3, <3>4
      <3>5. CASE ~(InFlight(c) \/ tx[c] = "pending")
        <4>1. ~Recent(c)'
          BY <1>1, <3>1, <3>2, <3>5 DEF InFlight
        <4>2. QED
          BY <3>3, <4>1
      <3>6. QED
        BY <3>4, <3>5
    <2>2. QED
      BY <2>1 DEF TimeInv
  <1>5. ASSUME NEW p \in Processes, Crash(p), NEW c \in Calls PROVE Timed(c)'
    <2>1. /\ InFlight(c)' => InFlight(c)
          /\ today' = today /\ tx' = tx /\ landedOn' = landedOn /\ day' = day
          /\ booked' = booked
      BY <1>5 DEF Crash, InFlight
    <2>2. Timed(c)
      BY <1>2
    <2>3. QED
      BY <2>1, <2>2
  <1>6. ASSUME \/ \E l \in Limits, life \in Lifetimes : Setup(l, life)
               \/ Pause \/ Resume \/ UNCHANGED vars
        PROVE  TimeInv'
    <2>1. UNCHANGED <<today, stage, ledger, chain>>
      BY <1>6 DEF Setup, Pause, Resume, vars
    <2>2. QED
      BY <2>1 DEF TimeInv, InFlight
  <1>7. QED
    BY <1>3, <1>4, <1>5, <1>6 DEF Next, TimeInv

\* A landed transfer keeps its charge and its day, and only Land adds one.
LEMMA LandedStep ==
  ASSUME TypeOK, BookInv, [Next]_vars, ~ \E c \in Calls : Land(c)
  PROVE  \A d \in Days : \A c \in LandedOn(d)' : c \in LandedOn(d) /\ charge'[c] = charge[c]
  <1> USE DEF TypeOK, ledger, chain
  <1>1. ASSUME NEW c \in Calls, CallStep(c), NEW e \in Calls, tx'[e] = "landed"
        PROVE  tx[e] = "landed" /\ charge'[e] = charge[e] /\ landedOn'[e] = landedOn[e]
    <2>1. CASE e # c
      BY <1>1, <2>1
      DEF CallStep, Begin, Refused, Reserve, Claim, NothingSent, Submit, Accepted,
          Failed, Answered402, Unclear, AskRefused, AskPaid, AskUnclear, Recover, Die
    <2>2. CASE e = c
      BY <1>1, <2>2
      DEF CallStep, Begin, Refused, Reserve, Claim, NothingSent, Submit, Accepted,
          Failed, Answered402, Unclear, AskRefused, AskPaid, AskUnclear, Recover, Die
    <2>3. QED
      BY <2>1, <2>2
  <1>2. CASE ~ \E c \in Calls : CallStep(c)
    <2>1. UNCHANGED chain
      BY <1>2 DEF Next, Setup, Pause, Resume, Crash, NextDay, vars
    <2>2. QED
      BY <2>1 DEF LandedOn
  <1>3. QED
    BY <1>1, <1>2 DEF LandedOn

\* The late transfers of one day fit the counts of that day and of the day before.
LEMMA TwoCapsStep ==
  ASSUME TypeOK, TypeOK', BookInv, Covered, Covered', FiniteLedger, FiniteLedger',
         DayWithinCap, TimeInv, TimeInv', TwoCapsInAnyDay, [Next]_vars
  PROVE  TwoCapsInAnyDay'
  <1> SUFFICES ASSUME NEW d \in Days PROVE Sum(LandedOn(d)', charge') <= 2 * MaxDaily
    BY DEF TwoCapsInAnyDay
  <1>1. CASE \A c \in LandedOn(d)' : c \in LandedOn(d) /\ charge'[c] = charge[c]
    <2>1. \A c \in LandedOn(d) : /\ c \in Booking /\ charge[c] \in Nat /\ amount[c] \in Nat
                                 /\ charge[c] <= amount[c]
      BY DEF LandedOn, Booking, Covered, TypeOK
    <2>2. Units(LandedOn(d), charge) \subseteq Units(Booking, amount)
      BY <2>1, UnitsMonotone
    <2>3. IsFiniteSet(Units(LandedOn(d), charge))
      BY <2>2, Fewer DEF FiniteLedger
    <2>4. \A c \in LandedOn(d)' : /\ c \in LandedOn(d) /\ charge'[c] \in Nat
                                  /\ charge[c] \in Nat /\ charge'[c] <= charge[c]
      BY <1>1, <2>1
    <2>5. Units(LandedOn(d)', charge') \subseteq Units(LandedOn(d), charge)
      BY <2>4, UnitsMonotone
    <2>6. /\ Sum(LandedOn(d)', charge') \in Nat /\ Sum(LandedOn(d), charge) \in Nat
          /\ Sum(LandedOn(d)', charge') <= Sum(LandedOn(d), charge)
      BY <2>3, <2>5, Fewer DEF Sum
    <2>7. Sum(LandedOn(d), charge) <= 2 * MaxDaily
      BY DEF TwoCapsInAnyDay
    <2>8. 2 * MaxDaily \in Nat
      BY AmountsAssumption
    <2>9. QED
      BY <2>6, <2>7, <2>8
  <1>2. ASSUME NEW c \in Calls, Land(c) PROVE Sum(LandedOn(d)', charge') <= 2 * MaxDaily
    <2>1. /\ tx'[c] = "landed" /\ landedOn'[c] = today
          /\ charge' = charge /\ today' = today /\ UNCHANGED ledger
          /\ \A e \in Calls : e # c => tx'[e] = tx[e] /\ landedOn'[e] = landedOn[e]
      BY <1>2 DEF Land, TypeOK
    <2>2. CASE d # today
      <3>1. \A e \in LandedOn(d)' : e \in LandedOn(d) /\ charge'[e] = charge[e]
        BY <2>1, <2>2 DEF LandedOn
      <3>2. QED
        BY <1>1, <3>1
    <2>3. CASE d = today
      <3> DEFINE y == IF today = 0 THEN 0 ELSE today - 1
      <3>1. y \in Days /\ today \in Days /\ today \in Nat
        BY AmountsAssumption DEF TypeOK, Days
      <3>2. \A e \in LandedOn(d)' :
              /\ e \in CountedOn(today) \/ e \in CountedOn(y)
              /\ charge[e] \in Nat /\ amount[e] \in Nat /\ charge[e] <= amount[e]
        <4> SUFFICES ASSUME NEW e \in LandedOn(d)'
                     PROVE  /\ e \in CountedOn(today) \/ e \in CountedOn(y)
                            /\ charge[e] \in Nat /\ amount[e] \in Nat /\ charge[e] <= amount[e]
          OBVIOUS
        <4>1. e \in Calls /\ tx'[e] = "landed" /\ landedOn'[e] = today
          BY <2>3 DEF LandedOn
        <4>2. booked'[e] # "none" /\ charge'[e] <= amount'[e]
          BY <4>1 DEF Covered
        <4>3. booked[e] # "none" /\ charge[e] <= amount[e] /\ day'[e] = day[e]
              /\ booked'[e] = booked[e]
          BY <2>1, <4>2 DEF ledger
        <4>4. charge[e] \in Nat /\ amount[e] \in Nat /\ day[e] \in Days /\ day[e] \in Nat
              /\ booked[e] \in {"row", "hold"}
          BY <4>1, <4>3, AmountsAssumption DEF TypeOK, Days
        <4>5. day[e] <= today /\ (booked[e] = "row" => today <= day[e] + 1)
          BY <2>1, <4>1, <4>3 DEF TimeInv
        <4>6. CASE booked[e] = "hold"
          BY <4>1, <4>3, <4>4, <4>5, <4>6 DEF CountedOn
        <4>7. CASE booked[e] = "row"
          <5>1. day[e] = today \/ day[e] = y
            BY <3>1, <4>4, <4>5, <4>7
          <5>2. QED
            BY <4>1, <4>3, <4>4, <4>7, <5>1 DEF CountedOn
        <4>8. QED
          BY <4>3, <4>4, <4>6, <4>7
      <3> HIDE DEF y
      <3> DEFINE A == Units(CountedOn(today), amount)
                 B == Units(CountedOn(y), amount)
      <3>3. ASSUME NEW t \in Days
            PROVE  /\ IsFiniteSet(Units(CountedOn(t), amount))
                   /\ Cardinality(Units(CountedOn(t), amount)) <= MaxDaily
        <4>1. \A e \in CountedOn(t) : e \in Booking /\ amount[e] \in Nat /\ amount[e] <= amount[e]
          BY DEF CountedOn, Booking, TypeOK
        <4>2. Units(CountedOn(t), amount) \subseteq Units(Booking, amount)
          BY <4>1, UnitsMonotone
        <4>3. QED
          BY <4>2, Fewer DEF FiniteLedger, DayWithinCap, Sum
      <3>4. Units(LandedOn(d)', charge') \subseteq A \cup B
        <4>1. \A e \in LandedOn(d)' : /\ e \in CountedOn(today) \cup CountedOn(y)
                                      /\ charge[e] \in Nat /\ amount[e] \in Nat
                                      /\ charge[e] <= amount[e]
          BY <3>2
        <4>2. Units(LandedOn(d)', charge) \subseteq Units(CountedOn(today) \cup CountedOn(y), amount)
          BY <4>1, UnitsMonotone
        <4>3. Units(CountedOn(today) \cup CountedOn(y), amount) \subseteq A \cup B
          BY DEF Units
        <4>4. QED
          BY <2>1, <4>2, <4>3
      <3>5. /\ Cardinality(Units(LandedOn(d)', charge')) \in Nat
            /\ Cardinality(A) \in Nat /\ Cardinality(B) \in Nat
            /\ Cardinality(Units(LandedOn(d)', charge')) <= Cardinality(A) + Cardinality(B)
        BY <3>1, <3>3, <3>4, AtMostBoth
      <3>6. Cardinality(A) <= MaxDaily /\ Cardinality(B) <= MaxDaily /\ MaxDaily \in Nat
        BY <3>1, <3>3, AmountsAssumption
      <3> HIDE DEF A, B
      <3>7. Cardinality(Units(LandedOn(d)', charge')) <= 2 * MaxDaily
        BY <3>5, <3>6
      <3>8. QED
        BY <3>7 DEF Sum
    <2>4. QED
      BY <2>2, <2>3
  <1>3. QED
    BY <1>1, <1>2, LandedStep

\* When a 402 is final, the chain moves at most two daily ceilings in a day: what was
\* counted today and what was counted yesterday and landed late.
THEOREM TwoCaps ==
  ASSUME RefusalIsFinal
  PROVE  Spec => []TwoCapsInAnyDay
  <1>1. Init => TimeInv
    BY AmountsAssumption DEF Init, TimeInv, InFlight
  <1>2. Init => TwoCapsInAnyDay
    <2> SUFFICES ASSUME Init, NEW d \in Days PROVE Sum(LandedOn(d), charge) <= 2 * MaxDaily
      BY DEF TwoCapsInAnyDay
    <2>1. Units(LandedOn(d), charge) = {}
      BY DEF Init, Units, LandedOn
    <2>2. Sum(LandedOn(d), charge) = 0
      BY <2>1, FS_EmptySet DEF Sum
    <2>3. QED
      BY <2>2, AmountsAssumption
  <1>3. TypeOK /\ TypeOK' /\ BookInv /\ TimeInv /\ [Next]_vars => TimeInv'
    BY TimeStep
  <1>4. Spec => []TimeInv
    BY <1>1, <1>3, Typing, Booked, PTL DEF Spec
  <1>5. /\ TypeOK /\ TypeOK' /\ BookInv /\ Covered /\ Covered' /\ FiniteLedger /\ FiniteLedger'
        /\ DayWithinCap /\ TimeInv /\ TimeInv' /\ TwoCapsInAnyDay /\ [Next]_vars
        => TwoCapsInAnyDay'
    BY TwoCapsStep
  <1>6. QED
    BY <1>2, <1>4, <1>5, Typing, Booked, Counted, Finite, DailyCeiling, PTL DEF Spec
-----------------------------------------------------------------------------
(* What an ask promises: MeteredHold, whatever a seller of buys does         *)

\* A question's money is under its hold while it may move, and under its row once settled.
AskInv ==
  \A c \in Asks : /\ tx[c] = "pending" => booked[c] = "hold"
                  /\ tx[c] = "landed" => booked[c] \in {"hold", "row"}
                  /\ booked[c] = "row" => tx[c] = "landed"

\* A step of one call leaves the booking and the transfer of every other as they were.
LEMMA OthersStay ==
  ASSUME TypeOK, NEW c \in Calls, CallStep(c), NEW e \in Calls, e # c
  PROVE  booked'[e] = booked[e] /\ tx'[e] = tx[e]
  BY DEF TypeOK, ledger, chain, CallStep, Begin, Refused, Reserve, Claim, NothingSent, Submit,
     Accepted, Failed, Answered402, Unclear, AskRefused, AskPaid, AskUnclear, Recover, Land,
     Die, TakeBack, Settle

\* Every other step touches no booking and no transfer.
LEMMA NoCallStep ==
  ASSUME [Next]_vars, \A c \in Calls : ~CallStep(c)
  PROVE  booked' = booked /\ tx' = tx
  BY DEF Next, Setup, Pause, Resume, Crash, NextDay, vars, ledger, chain

\* What a call's step does to an ask: one step of MeteredHold, or nothing.
AskMoves(c) ==
  \/ booked'[c] = booked[c] /\ tx'[c] = tx[c]
  \/ booked'[c] = booked[c] /\ "landed" \notin {tx[c], tx'[c]} /\ booked[c] = "hold"
  \/ booked[c] = "none" /\ booked'[c] = "hold" /\ tx[c] # "landed" /\ tx'[c] = tx[c]
  \/ booked[c] = "hold" /\ booked'[c] = "hold" /\ tx[c] = "pending" /\ tx'[c] = "landed"
  \/ booked[c] = "hold" /\ booked'[c] = "row" /\ tx[c] = "landed" /\ tx'[c] = "landed"
  \/ booked[c] = "hold" /\ booked'[c] = "none" /\ tx'[c] \in {"none", "dead"} /\ tx[c] # "landed"

\* No step of pay() or _recover() does anything else to its question.
LEMMA AskMovesOnly ==
  ASSUME TypeOK, BookInv, AskInv, NEW c \in Asks, CallStep(c)
  PROVE  AskMoves(c)
  <1> c \in Calls
    BY DEF Calls
  <1> USE CallsAssumption DEF TypeOK, BookInv, BookOf, AskInv, AskMoves, ledger, chain
  <1>1. CASE Begin(c) \/ Refused(c) \/ AskUnclear(c)
    BY <1>1 DEF Begin, Refused, AskUnclear
  <1>2. CASE Claim(c) \/ Accepted(c) \/ Failed(c) \/ Answered402(c) \/ Unclear(c)
    BY <1>2 DEF Claim, Accepted, Failed, Answered402, Unclear
  <1>3. CASE Reserve(c)
    BY <1>3 DEF Reserve
  <1>4. CASE NothingSent(c)
    BY <1>4 DEF NothingSent, TakeBack
  <1>5. CASE Submit(c)
    BY <1>5 DEF Submit
  <1>6. CASE AskRefused(c)
    BY <1>6 DEF AskRefused, TakeBack
  <1>7. CASE AskPaid(c)
    BY <1>7 DEF AskPaid, Settle
  <1>8. CASE Recover(c)
    BY <1>8 DEF Recover, Settle, TakeBack
  <1>9. CASE Land(c) \/ Die(c)
    BY <1>9 DEF Land, Die
  <1> QED
    BY <1>1, <1>2, <1>3, <1>4, <1>5, <1>6, <1>7, <1>8, <1>9 DEF CallStep

\* Every question of the account keeps the promise of MeteredHold (ask_solana.py 1-5), with
\* buys, crashes, midnights, stops and changed limits around it, and whether a seller's 402
\* is final or not.
THEOREM AsksKeepThePromise == Spec => AsksImplementHold
  <1> DEFINE held == [c \in Asks |-> IF booked[c] = "hold" THEN "open"
                                     ELSE IF booked[c] = "row" THEN "charged" ELSE "none"]
             paid == {c \in Asks : tx[c] = "landed"}
  <1>1. Init => AskInv /\ AskHold!Init
    BY DEF Init, AskInv, AskHold!Init, Calls
  <1>2. TypeOK /\ BookInv /\ AskInv /\ [Next]_vars => AskInv' /\ [AskHold!Next]_(AskHold!vars)
    <2> SUFFICES ASSUME TypeOK, BookInv, AskInv, [Next]_vars
                 PROVE  AskInv' /\ (AskHold!Next \/ UNCHANGED <<held, paid>>)
      BY DEF AskHold!vars
    <2>1. CASE \A c \in Calls : ~CallStep(c)
      BY <2>1, NoCallStep DEF AskInv
    <2>2. ASSUME NEW c \in Calls, CallStep(c), c \notin Asks
          PROVE  AskInv' /\ UNCHANGED <<held, paid>>
      <3>1. \A e \in Asks : booked'[e] = booked[e] /\ tx'[e] = tx[e]
        BY <2>2, OthersStay DEF Calls
      <3> QED
        BY <3>1 DEF AskInv
    <2>3. ASSUME NEW c \in Asks, CallStep(c)
          PROVE  AskInv' /\ (AskHold!Next \/ UNCHANGED <<held, paid>>)
      <3>1. AskMoves(c)
        BY <2>3, AskMovesOnly
      <3>2. \A e \in Asks : e # c => booked'[e] = booked[e] /\ tx'[e] = tx[e]
        BY <2>3, OthersStay DEF Calls
      <3>3. AskInv'
        BY <3>1, <3>2 DEF AskInv, AskMoves
      <3>4. CASE booked'[c] = booked[c] /\ (tx'[c] = "landed" <=> tx[c] = "landed")
        <4>1. held' = held /\ paid' = paid
          BY <3>2, <3>4
        <4> QED
          BY <3>3, <4>1
      <3>5. CASE booked[c] = "none" /\ booked'[c] = "hold" /\ tx[c] # "landed" /\ tx'[c] = tx[c]
        <4>1. held' = [held EXCEPT ![c] = "open"] /\ paid' = paid
          BY <3>2, <3>5
        <4> QED
          BY <3>3, <3>5, <4>1 DEF AskHold!Next, AskHold!Open
      <3>6. CASE /\ booked[c] = "hold" /\ booked'[c] = "hold"
                 /\ tx[c] = "pending" /\ tx'[c] = "landed"
        <4>1. held' = held /\ paid' = paid \cup {c}
          BY <3>2, <3>6
        <4> QED
          BY <3>3, <3>6, <4>1 DEF AskHold!Next, AskHold!Move
      <3>7. CASE /\ booked[c] = "hold" /\ booked'[c] = "row"
                 /\ tx[c] = "landed" /\ tx'[c] = "landed"
        <4>1. held' = [held EXCEPT ![c] = "charged"] /\ paid' = paid
          BY <3>2, <3>7
        <4> QED
          BY <3>3, <3>7, <4>1 DEF AskHold!Next, AskHold!Charge
      <3>8. CASE /\ booked[c] = "hold" /\ booked'[c] = "none"
                 /\ tx'[c] \in {"none", "dead"} /\ tx[c] # "landed"
        <4>1. held' = [held EXCEPT ![c] = "none"] /\ paid' = paid
          BY <3>2, <3>8
        <4> QED
          BY <3>3, <3>8, <4>1 DEF AskHold!Next, AskHold!Release
      <3> QED
        BY <3>1, <3>3, <3>4, <3>5, <3>6, <3>7, <3>8 DEF AskMoves
    <2> QED
      BY <2>1, <2>2, <2>3
  <1> QED
    BY <1>1, <1>2, Typing, Booked, PTL DEF Spec, AsksImplementHold, AskHold!Spec
=============================================================================
