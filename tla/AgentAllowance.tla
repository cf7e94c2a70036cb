--------------------------- MODULE AgentAllowance ---------------------------
(***************************************************************************)
(* The on-chain limiter: agent-allowance/src/AgentAllowance.sol, one or    *)
(* more deployments of it over one owner's USDC, with the ERC-20 allowance *)
(* and balance they draw on, the chain's clock, and an agent key that may  *)
(* call `spend` with any arguments at all (a stolen key calls it too).     *)
(*                                                                         *)
(* A contract call is one step: it runs to its end or reverts whole, and   *)
(* USDC has no transfer hook that could call back into the limiter.        *)
(***************************************************************************)
EXTENDS Naturals, FiniteSets

CONSTANTS Limiters,     \* addresses limiters may be deployed at
          Owner, Agent, Guardian, ZeroAddress,
          Others,       \* every other address: sellers and strangers
          Refs,         \* purchase references
          ZeroRef,      \* bytes32(0), a member of Refs
          Caps,         \* amounts a policy's caps may take
          MaxAmount,    \* BOUND on one spend, one approval and the owner's balance
          DayLength,    \* clock ticks in one UTC day
          MaxTime       \* BOUND on the clock

Addresses == Limiters \cup Others \cup {Owner, Agent, Guardian, ZeroAddress}
LastDay == MaxTime \div DayLength
Days == 0..LastDay

ASSUME ClockAssumption == /\ DayLength \in Nat \ {0}
                          /\ MaxTime \in Nat
ASSUME AmountAssumption == /\ Caps \subseteq Nat
                           /\ MaxAmount \in Nat

VARIABLES now,          \* block.timestamp
          deployed,     \* the limiters that exist
          dailyCap, perPurchaseCap, expiry,   \* their immutables
          paused, day, spentToday, usedRef,   \* their storage
          allowance,    \* USDC.allowance(Owner, limiter)
          ownerBalance, \* USDC.balanceOf(Owner)
          log,          \* the Spent events on the chain
          movedOn       \* history: what each limiter moved on each day

immutables == <<dailyCap, perPurchaseCap, expiry>>
storage == <<paused, day, spentToday, usedRef>>
history == <<log, movedOn>>
vars == <<now, deployed, immutables, storage, allowance, ownerBalance, history>>

\* The event's payee and running total are left out: no property reads them.
SpentEvent == [limiter: Limiters, ref: Refs, amount: Nat, at: 0..MaxTime]

TypeOK ==
  /\ now \in 0..MaxTime
  /\ deployed \in SUBSET Limiters
  /\ dailyCap \in [Limiters -> Nat]
  /\ perPurchaseCap \in [Limiters -> Nat]
  /\ expiry \in [Limiters -> Nat]
  /\ paused \in [Limiters -> BOOLEAN]
  /\ day \in [Limiters -> Days]
  /\ spentToday \in [Limiters -> Nat]
  /\ usedRef \in [Limiters -> SUBSET Refs]
  /\ allowance \in [Limiters -> Nat]
  /\ ownerBalance \in Nat
  /\ log \in SUBSET SpentEvent
  /\ movedOn \in [Limiters -> [Days -> Nat]]

Today == now \div DayLength

Init ==
  /\ now = 0
  /\ deployed = {}
  /\ dailyCap = [l \in Limiters |-> 0]
  /\ perPurchaseCap = [l \in Limiters |-> 0]
  /\ expiry = [l \in Limiters |-> 0]
  /\ paused = [l \in Limiters |-> FALSE]
  /\ day = [l \in Limiters |-> 0]
  /\ spentToday = [l \in Limiters |-> 0]
  /\ usedRef = [l \in Limiters |-> {}]
  /\ allowance = [l \in Limiters |-> 0]
  /\ ownerBalance = MaxAmount
  /\ log = {}
  /\ movedOn = [l \in Limiters |-> [d \in Days |-> 0]]

-----------------------------------------------------------------------------
(* The contract                                                            *)

\* constructor: reverts on InvalidConfig, fixes the immutables.  The address
\* checks hold here because the roles are different members of Addresses.
Deploy(l, daily, per, until) ==
  /\ l \notin deployed
  /\ per # 0 /\ per <= daily /\ until > now
  /\ deployed' = deployed \cup {l}
  /\ dailyCap' = [dailyCap EXCEPT ![l] = daily]
  /\ perPurchaseCap' = [perPurchaseCap EXCEPT ![l] = per]
  /\ expiry' = [expiry EXCEPT ![l] = until]
  /\ UNCHANGED <<now, storage, allowance, ownerBalance, history>>

\* Mutant: a timestamp compared with a stored day.
SpentSoFarMixedUnits(l) == IF now = day[l] THEN spentToday[l] ELSE 0

\* What counts against today's cap: the counter is reset lazily, by reading it
\* as zero on a day that is not the one it was last written on.
SpentSoFar(l) == IF Today = day[l] THEN spentToday[l] ELSE 0

\* Mutant: a pause that only the views enforce.
IsUnexpired(l) == now < expiry[l]

IsLive(l) == ~paused[l] /\ now < expiry[l]

\* Mutant: references are not looked up.
RefIsGiven(l, ref) == ref # ZeroRef

RefIsFresh(l, ref) == ref # ZeroRef /\ ref \notin usedRef[l]

\* Mutant: the cap is compared with this purchase alone.
PurchaseUnderDailyCap(l, amount) == amount <= dailyCap[l]

UnderDailyCap(l, amount) == SpentSoFar(l) + amount <= dailyCap[l]

\* spend's checks, in the order of the code.
MayPay(l, caller, payee, amount, ref) ==
  /\ caller = Agent
  /\ IsLive(l)
  /\ payee \notin {ZeroAddress, l, Owner}
  /\ amount # 0 /\ amount <= perPurchaseCap[l]
  /\ RefIsFresh(l, ref)
  /\ UnderDailyCap(l, amount)

Credit(ledger, d, amount) == [ledger EXCEPT ![d] = @ + amount]

\* spend(payee, amount, ref): the checks, the three writes, transferFrom (which
\* reverts everything unless allowance and balance cover it) and the event.
Spend(l, caller, payee, amount, ref) ==
  /\ l \in deployed
  /\ MayPay(l, caller, payee, amount, ref)
  /\ usedRef' = [usedRef EXCEPT ![l] = @ \cup {ref}]
  /\ day' = [day EXCEPT ![l] = Today]
  /\ spentToday' = [spentToday EXCEPT ![l] = SpentSoFar(l) + amount]
  /\ amount <= allowance[l] /\ amount <= ownerBalance
  /\ allowance' = [allowance EXCEPT ![l] = @ - amount]
  /\ ownerBalance' = ownerBalance - amount
  /\ log' = log \cup {[limiter |-> l, ref |-> ref, amount |-> amount, at |-> now]}
  /\ movedOn' = [movedOn EXCEPT ![l] = Credit(@, Today, amount)]
  /\ UNCHANGED <<now, deployed, immutables, paused>>

\* Mutant: pause() toggles.
PauseToggles(l, caller) ==
  /\ l \in deployed /\ caller \in {Guardian, Owner}
  /\ paused' = [paused EXCEPT ![l] = ~@]
  /\ UNCHANGED <<now, deployed, immutables, day, spentToday, usedRef, allowance,
                 ownerBalance, history>>

\* pause(): one way.
Pause(l, caller) ==
  /\ l \in deployed
  /\ caller \in {Guardian, Owner}
  /\ paused' = [paused EXCEPT ![l] = TRUE]
  /\ UNCHANGED <<now, deployed, immutables, day, spentToday, usedRef, allowance,
                 ownerBalance, history>>

\* Mutant: the view reads the counter without resetting it.
RemainingStale(l) ==
  IF IsLive(l) THEN dailyCap[l] - spentToday[l] ELSE 0

\* remainingToday()
RemainingToday(l) ==
  IF IsLive(l) THEN dailyCap[l] - SpentSoFar(l) ELSE 0

-----------------------------------------------------------------------------
(* USDC and the clock                                                      *)

\* The owner's wallet (or a permit it signed) sets the ERC-20 allowance: it
\* replaces what was left, it does not add to it.
Approve(l, amount) ==
  /\ l \in deployed
  /\ allowance' = [allowance EXCEPT ![l] = amount]
  /\ UNCHANGED <<now, deployed, immutables, storage, ownerBalance, history>>

\* The owner sends or receives USDC of their own accord.
OwnerMoves(balance) ==
  /\ ownerBalance' = balance
  /\ UNCHANGED <<now, deployed, immutables, storage, allowance, history>>

Tick ==
  /\ now < MaxTime
  /\ now' = now + 1
  /\ UNCHANGED <<deployed, immutables, storage, allowance, ownerBalance, history>>

Next ==
  \/ \E l \in Limiters, daily \in Caps, per \in Caps, until \in 1..MaxTime :
       Deploy(l, daily, per, until)
  \/ \E l \in Limiters, caller \in Addresses, payee \in Addresses,
        amount \in 0..MaxAmount, ref \in Refs : Spend(l, caller, payee, amount, ref)
  \/ \E l \in Limiters, caller \in Addresses : Pause(l, caller)
  \/ \E l \in Limiters, amount \in 0..MaxAmount : Approve(l, amount)
  \/ \E balance \in 0..MaxAmount : OwnerMoves(balance)
  \/ Tick

Spec == Init /\ [][Next]_vars

-----------------------------------------------------------------------------
(* Properties                                                              *)

\* No limiter moves more than its daily cap on any UTC day, however the day's
\* counter was reset (AgentAllowance.sol 100-106; the Foundry invariant
\* "no day exceeds the daily cap").
DailyCapHolds ==
  \A l \in deployed, d \in Days : movedOn[l][d] <= dailyCap[l]

\* What remainingToday() quotes is exactly the cap less what the chain moved today:
\* the lazily reset counter never makes the gateway quote a stale day (124-128).
QuoteIsExact ==
  \A l \in deployed :
    RemainingToday(l) = IF paused[l] \/ now >= expiry[l] THEN 0
                        ELSE dailyCap[l] - movedOn[l][Today]

\* The inductive invariant behind the theorems: the counter is the running total of the
\* day it was last written on, no later day has moved anything, a limiter that does not
\* exist has done nothing, and every reference of the log is used up.
CounterInv ==
  \A l \in Limiters :
    /\ day[l] <= Today
    /\ spentToday[l] = movedOn[l][day[l]]
    /\ \A d \in Days : d > day[l] => movedOn[l][d] = 0
    /\ \A d \in Days : movedOn[l][d] <= dailyCap[l]
    /\ l \notin deployed => ~paused[l] /\ dailyCap[l] = 0
RefInv == \A e \in log : e.ref \in usedRef[e.limiter]

\* A reference pays at most once per limiter, on any day (94-95, 104).
RefPaysOnce ==
  \A e, f \in log : (e.limiter = f.limiter /\ e.ref = f.ref) => e = f

\* The sum of the amounts, as the number of atomic units: one pair for each unit of each
\* event.
Units(events) == UNION {{e} \X (1..e.amount) : e \in events}
SumOf(events) == Cardinality(Units(events))

\* The cost of the midnight reset, no more than the code's comment says (97-99): in
\* any DayLength consecutive ticks a limiter moves at most two daily caps.
WindowEvents(l, t) == {e \in log : e.limiter = l /\ e.at \in t..(t + DayLength - 1)}
TwoCapsInAnyDayLong ==
  \A l \in deployed, t \in 0..MaxTime : SumOf(WindowEvents(l, t)) <= 2 * dailyCap[l]

\* What makes it so: the events of a day move no more than the chain's record of the day.
DayEvents(l, d) == {e \in log : e.limiter = l /\ e.at \div DayLength = d}
LogInv ==
  \A l \in Limiters, d \in Days :
    IsFiniteSet(Units(DayEvents(l, d))) /\ SumOf(DayEvents(l, d)) <= movedOn[l][d]

\* After a pause or the expiry a limiter moves nothing, ever again, whatever is
\* approved to it later: there is no unpause (112-120).
Stopped(l) == paused[l] \/ (l \in deployed /\ now >= expiry[l])
StopIsFinal ==
  [][\A l \in Limiters : Stopped(l) => (Stopped(l)' /\ movedOn'[l] = movedOn[l])]_vars

\* Each limiter is the budget its owner was promised: the conjunction over the
\* limiters of Budget(l)!Spec, written so that one box holds every step.
Phase(l) == IF l \notin deployed THEN "unborn" ELSE IF Stopped(l) THEN "closed" ELSE "open"
Budget(l) == INSTANCE SpendBudget
               WITH phase <- Phase(l), cap <- dailyCap[l], today <- Today,
                    spentOn <- movedOn[l], ceiling <- allowance[l]
ImplementsBudget ==
  /\ \A l \in Limiters : Budget(l)!Init
  /\ [][\A l \in Limiters : Budget(l)!Next \/ UNCHANGED Budget(l)!vars]_vars
=============================================================================
