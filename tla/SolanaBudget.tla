---------------------------- MODULE SolanaBudget ----------------------------
(***************************************************************************)
(* One Solana account's spending ledger (sign402_gateway/solana_allowance  *)
(* .py): the limits its owner set, the emergency stop, the spends rows and *)
(* the metered holds, and every payment that is counted in them while it   *)
(* goes through a Node helper to a seller and to the chain.                *)
(*                                                                         *)
(* A call is one purchase in some process: a `buy` runs service.spend()    *)
(* around a helper payment (solana-x402-service), an `ask` runs the        *)
(* metered path of ask_solana.pay().  The ledger is one SQLite file shared *)
(* by the processes, each with a spend lock of its own; a write            *)
(* transaction is a step, and everything between two of them (a chain      *)
(* read, a helper run) is open to the other calls, to the owner, to        *)
(* midnight and to a crash.  A crash of a process takes its helpers with   *)
(* it.  Amounts are in atomic units.                                       *)
(***************************************************************************)
EXTENDS Naturals, FiniteSets

CONSTANTS Buys, Asks,       \* calls: purchases at a known price, metered questions
          Orders,           \* what a buy pays: an invoice, a quote or a data request
          Price,            \* [Orders -> amount]
          Ceiling,          \* the amount an ask holds
          Processes,        \* the processes that share the ledger
          Limits,           \* [daily, per] pairs the owner may ask for
          Lifetimes,        \* the days an owner may ask limits to last
          MaxDaily, MaxPerPurchase,   \* the server's own ceilings
          MaxDay,           \* BOUND on the calendar
          RefusalIsFinal    \* a seller that answers 402 to a payment never settles it

Calls == Buys \cup Asks
Days == 0..MaxDay
NoLimits == [daily |-> 0, per |-> 0, expiry |-> 0]

ASSUME CallsAssumption == Buys \cap Asks = {}
ASSUME AmountsAssumption == /\ Price \in [Orders -> Nat]
                            /\ Ceiling \in Nat /\ MaxDaily \in Nat
                            /\ Limits \subseteq [daily: Nat, per: Nat]
                            /\ Lifetimes \subseteq Nat /\ MaxDay \in Nat
                            /\ RefusalIsFinal \in BOOLEAN

VARIABLES today,
          limits, paused,   \* the limits row; _paused_at is not None
          stage,            \* where each call is
          order, process,   \* what a buy pays; which process runs the call
          booked,           \* how the ledger counts the call: "none", "row" or "hold"
          day, amount,      \* created_at and amount of that row or hold
          claimed,          \* orders with an attempt row in the helper's store
          tx,               \* the call's transfer, as the chain has it
          charge,           \* the amount of that transfer
          landedOn          \* history: the day it landed

ledger == <<booked, day, amount>>
chain == <<tx, charge, landedOn>>
vars == <<today, limits, paused, stage, order, process, ledger, claimed, chain>>

Stages == {"new", "reading", "reserved", "claimed", "sent", "unsettled", "over"}
InFlight(c) == stage[c] \in {"reading", "reserved", "claimed", "sent"}

TypeOK ==
  /\ today \in Days
  /\ limits \in [daily: Nat, per: Nat, expiry: Nat]
  /\ limits.per <= limits.daily /\ limits.daily <= MaxDaily
  /\ paused \in BOOLEAN
  /\ stage \in [Calls -> Stages]
  /\ order \in [Buys -> Orders]
  /\ process \in [Calls -> Processes]
  /\ booked \in [Calls -> {"none", "row", "hold"}]
  /\ day \in [Calls -> Days]
  /\ amount \in [Calls -> Nat]
  /\ claimed \subseteq Orders
  /\ tx \in [Calls -> {"none", "pending", "landed", "dead"}]
  /\ charge \in [Calls -> Nat]
  /\ landedOn \in [Calls -> Days]

Init ==
  /\ today = 0
  /\ limits = NoLimits
  /\ paused = FALSE
  /\ stage = [c \in Calls |-> "new"]
  /\ order \in [Buys -> Orders]
  /\ process \in [Calls -> Processes]
  /\ booked = [c \in Calls |-> "none"]
  /\ day = [c \in Calls |-> 0]
  /\ amount = [c \in Calls |-> 0]
  /\ claimed = {}
  /\ tx = [c \in Calls |-> "none"]
  /\ charge = [c \in Calls |-> 0]
  /\ landedOn = [c \in Calls |-> 0]

-----------------------------------------------------------------------------
(* The ledger                                                              *)

\* SUM(amount), as the number of atomic units: one pair for each unit of each booking.
Units(S, size) == UNION {{c} \X (1..size[c]) : c \in S}
Sum(S, size) == Cardinality(Units(S, size))

RowsSince(d) == {c \in Calls : booked[c] = "row" /\ day[c] >= d}
Holds == {c \in Calls : booked[c] = "hold"}

\* spent_since(): today's rows, and every hold whatever its age.
UsedSince(d) == Sum(RowsSince(d) \cup Holds, amount)

\* A clock read before a wait for the database's write lock: yesterday, over midnight.
ClockOf(c) == {d \in Days : day[c] <= d /\ d <= today /\ today <= d + 1}

\* Mutant: the metered holds are not counted.
CheckWithoutHolds(n, s) ==
  /\ limits # NoLimits /\ ~paused /\ n > 0 /\ limits.expiry > s
  /\ n <= limits.per /\ n <= MaxPerPurchase
  /\ Sum(RowsSince(s), amount) + n <= limits.daily

\* Mutant: the stop is looked up once, before the chain read.
CheckWithoutStop(n, s) ==
  /\ limits # NoLimits /\ n > 0 /\ limits.expiry > s
  /\ n <= limits.per /\ n <= MaxPerPurchase
  /\ UsedSince(s) + n <= limits.daily

\* Mutant: the ceilings handed in replace the owner's own.
CheckServerCeilings(n, s) ==
  /\ limits # NoLimits /\ ~paused /\ n > 0 /\ limits.expiry > s
  /\ n <= MaxPerPurchase
  /\ UsedSince(s) + n <= MaxDaily

\* _check_budget(): inside the write transaction that reserves n, with s as `now`.
CheckBudget(n, s) ==
  /\ limits # NoLimits /\ ~paused /\ n > 0 /\ limits.expiry > s
  /\ n <= limits.per /\ n <= MaxPerPurchase
  /\ UsedSince(s) + n <= limits.daily /\ UsedSince(s) + n <= MaxDaily

\* drop_spend() and release_metered(): the row or hold is deleted.
TakeBack(c) == /\ booked' = [booked EXCEPT ![c] = "none"]
               /\ UNCHANGED <<day, amount>>

\* settle_metered(): the hold becomes a row of the actual charge, stamped now.
Settle(c) ==
  /\ booked[c] = "hold" /\ charge[c] <= amount[c]
  /\ \E s \in ClockOf(c) : day' = [day EXCEPT ![c] = s]
  /\ booked' = [booked EXCEPT ![c] = "row"]
  /\ amount' = [amount EXCEPT ![c] = charge[c]]

-----------------------------------------------------------------------------
(* The owner                                                               *)

\* Mutant: the server's ceilings are not looked at.
SetupUnbounded(l, life) ==
  /\ l.per <= l.daily
  /\ limits' = [daily |-> l.daily, per |-> l.per, expiry |-> today + life]
  /\ UNCHANGED <<today, paused, stage, order, process, ledger, claimed, chain>>

\* setup(): new limits for every reservation from now on; past ones stay counted.
Setup(l, life) ==
  /\ l.per <= l.daily /\ l.daily <= MaxDaily /\ l.per <= MaxPerPurchase
  /\ limits' = [daily |-> l.daily, per |-> l.per, expiry |-> today + life]
  /\ UNCHANGED <<today, paused, stage, order, process, ledger, claimed, chain>>

\* pause(): recorded at once; no wallet, no transaction.
Pause ==
  /\ limits # NoLimits
  /\ paused' = TRUE
  /\ UNCHANGED <<today, limits, stage, order, process, ledger, claimed, chain>>

\* A wallet-signed GRANT prepared after the pause is recorded as DONE (finish_grant);
\* which grants lift a pause is outside this module.
Resume ==
  /\ paused
  /\ paused' = FALSE
  /\ UNCHANGED <<today, limits, stage, order, process, ledger, claimed, chain>>

-----------------------------------------------------------------------------
(* A call: spend() for a buy, ask_solana.pay() for an ask                  *)

LockFree(p) == \A c \in Calls : process[c] = p => ~InFlight(c)

\* An ask also takes the account's file lock, and a journal left by an earlier one that
\* is not settled up keeps it out.
NoAskOpen == \A c \in Asks : ~InFlight(c) /\ stage[c] # "unsettled"

\* The spend lock, then the checks that need no chain.
Begin(c) ==
  /\ stage[c] = "new" /\ LockFree(process[c])
  /\ limits # NoLimits
  /\ c \in Buys => ~paused
  /\ c \in Asks => NoAskOpen /\ Ceiling <= limits.per /\ Ceiling <= MaxPerPurchase
  /\ stage' = [stage EXCEPT ![c] = "reading"]
  /\ day' = [day EXCEPT ![c] = today]
  /\ UNCHANGED <<today, limits, paused, order, process, booked, amount, claimed, chain>>

\* The chain read refuses a buy, or the reservation refuses the call: nothing was booked.
Refused(c) ==
  /\ stage[c] = "reading"
  /\ stage' = [stage EXCEPT ![c] = "over"]
  /\ UNCHANGED <<today, limits, paused, order, process, ledger, claimed, chain>>

Size(c) == IF c \in Asks THEN Ceiling ELSE Price[order[c]]

\* reserve_spend() and reserve_metered(): the check and the insert in one transaction.
\* (A metered reservation is also handed the daily cap it read before; that ceiling can
\* only refuse more.)
Reserve(c) ==
  /\ stage[c] = "reading"
  /\ \E s \in ClockOf(c) : CheckBudget(Size(c), s) /\ day' = [day EXCEPT ![c] = s]
  /\ booked' = [booked EXCEPT ![c] = IF c \in Asks THEN "hold" ELSE "row"]
  /\ amount' = [amount EXCEPT ![c] = Size(c)]
  /\ stage' = [stage EXCEPT ![c] = "reserved"]
  /\ UNCHANGED <<today, limits, paused, order, process, claimed, chain>>

\* Mutant: the attempt row is not unique.
ClaimAgain(c) ==
  /\ c \in Buys /\ stage[c] = "reserved"
  /\ claimed' = claimed \cup {order[c]}
  /\ stage' = [stage EXCEPT ![c] = "claimed"]
  /\ UNCHANGED <<today, limits, paused, order, process, ledger, chain>>

\* The helper's attempt row, whose primary key is the order, before the only submission.
Claim(c) ==
  /\ c \in Buys /\ stage[c] = "reserved"
  /\ order[c] \notin claimed
  /\ claimed' = claimed \cup {order[c]}
  /\ stage' = [stage EXCEPT ![c] = "claimed"]
  /\ UNCHANGED <<today, limits, paused, order, process, ledger, chain>>

\* A refusal from before anything was signed or sent (NOTHING_SENT_CODES; for an ask, no
\* checkpoint), ALREADY_ATTEMPTED among them: the room is given back.
NothingSent(c) ==
  /\ stage[c] = "reserved"
  /\ TakeBack(c)
  /\ stage' = [stage EXCEPT ![c] = "over"]
  /\ UNCHANGED <<today, limits, paused, order, process, claimed, chain>>

\* The payload is handed to the seller (or the transfer to the chain).  An ask's helper
\* has written its checkpoint by then.
Submit(c) ==
  /\ stage[c] = IF c \in Asks THEN "reserved" ELSE "claimed"
  /\ \E n \in 1..amount[c] : charge' = [charge EXCEPT ![c] = n]
  /\ tx' = [tx EXCEPT ![c] = "pending"]
  /\ stage' = [stage EXCEPT ![c] = "sent"]
  /\ UNCHANGED <<today, limits, paused, order, process, ledger, claimed, landedOn>>

\* The seller or the chain answers a buy with accepted or confirmed: counted for good.
Accepted(c) ==
  /\ c \in Buys /\ stage[c] = "sent" /\ tx[c] # "dead"
  /\ stage' = [stage EXCEPT ![c] = "over"]
  /\ UNCHANGED <<today, limits, paused, order, process, ledger, claimed, chain>>

\* The chain carried the transfer with an error: `failed` gives the room back.
Failed(c) ==
  /\ c \in Buys /\ stage[c] = "sent" /\ tx[c] = "dead"
  /\ TakeBack(c)
  /\ stage' = [stage EXCEPT ![c] = "over"]
  /\ UNCHANGED <<today, limits, paused, order, process, claimed, chain>>

\* The seller answers 402 to the signed payment (ResourcePayments.pay).  The helper reads
\* the owner's balance again: not below what it was means PAYMENT_REFUSED, and the room is
\* given back.  The owner's own transfers decide that comparison as much as the payment.
Answered402(c) ==
  /\ c \in Buys /\ stage[c] = "sent"
  /\ IF RefusalIsFinal
     THEN tx[c] # "landed" /\ tx' = [tx EXCEPT ![c] = "dead"]
     ELSE UNCHANGED tx
  /\ \/ TakeBack(c)
     \/ UNCHANGED ledger
  /\ stage' = [stage EXCEPT ![c] = "over"]
  /\ UNCHANGED <<today, limits, paused, order, process, claimed, charge, landedOn>>

\* Mutant: a lost answer counts as a failure.
LostAnswerTakesBack(c) ==
  /\ c \in Buys /\ stage[c] \in {"reserved", "claimed", "sent"}
  /\ TakeBack(c)
  /\ stage' = [stage EXCEPT ![c] = "over"]
  /\ UNCHANGED <<today, limits, paused, order, process, claimed, chain>>

\* Any other code or state, a helper that is killed at its 240 s, a lost answer: the
\* purchase stays counted.
Unclear(c) ==
  /\ c \in Buys /\ stage[c] \in {"reserved", "claimed", "sent"}
  /\ stage' = [stage EXCEPT ![c] = "over"]
  /\ UNCHANGED <<today, limits, paused, order, process, ledger, claimed, chain>>

\* The merchant of asks refuses before it asks for settlement: it drops the payment.
AskRefused(c) ==
  /\ c \in Asks /\ stage[c] = "sent" /\ tx[c] # "landed"
  /\ tx' = [tx EXCEPT ![c] = "dead"]
  /\ TakeBack(c)
  /\ stage' = [stage EXCEPT ![c] = "over"]
  /\ UNCHANGED <<today, limits, paused, order, process, claimed, charge, landedOn>>

\* The receipt is checked on the chain, and the hold becomes the actual charge.
AskPaid(c) ==
  /\ c \in Asks /\ stage[c] = "sent" /\ tx[c] = "landed"
  /\ Settle(c)
  /\ stage' = [stage EXCEPT ![c] = "over"]
  /\ UNCHANGED <<today, limits, paused, order, process, claimed, chain>>

\* No usable answer after the checkpoint: the hold and the journal stay.
AskUnclear(c) ==
  /\ c \in Asks /\ stage[c] = "sent"
  /\ stage' = [stage EXCEPT ![c] = "unsettled"]
  /\ UNCHANGED <<today, limits, paused, order, process, ledger, claimed, chain>>

\* Mutant: recovery gives the hold back without asking the chain.
RecoverBlindly(c) ==
  /\ c \in Asks /\ stage[c] = "unsettled" /\ LockFree(process[c])
  /\ TakeBack(c)
  /\ stage' = [stage EXCEPT ![c] = "over"]
  /\ UNCHANGED <<today, limits, paused, order, process, claimed, chain>>

\* _recover(), at the account's next request: never submitted or never to land gives the
\* hold back, paid settles it, anything else keeps it.
Recover(c) ==
  /\ c \in Asks /\ stage[c] = "unsettled" /\ LockFree(process[c])
  /\ \/ tx[c] \in {"none", "dead"} /\ TakeBack(c)
     \/ tx[c] = "landed" /\ Settle(c)
  /\ stage' = [stage EXCEPT ![c] = "over"]
  /\ UNCHANGED <<today, limits, paused, order, process, claimed, chain>>

\* A process dies with the helper it runs.  A buy keeps its row if it has one; an ask
\* leaves its journal behind.
Crash(p) ==
  /\ \E c \in Calls : process[c] = p /\ InFlight(c)
  /\ stage' = [c \in Calls |->
                 IF process[c] = p /\ InFlight(c)
                 THEN IF c \in Asks /\ booked[c] = "hold" THEN "unsettled" ELSE "over"
                 ELSE stage[c]]
  /\ UNCHANGED <<today, limits, paused, order, process, ledger, claimed, chain>>

-----------------------------------------------------------------------------
(* The chain and the calendar                                              *)

Land(c) ==
  /\ tx[c] = "pending"
  /\ tx' = [tx EXCEPT ![c] = "landed"]
  /\ landedOn' = [landedOn EXCEPT ![c] = today]
  /\ UNCHANGED <<today, limits, paused, stage, order, process, ledger, claimed, charge>>

\* Refused by the token program, or its blockhash has expired.
Die(c) ==
  /\ tx[c] = "pending"
  /\ tx' = [tx EXCEPT ![c] = "dead"]
  /\ UNCHANGED <<today, limits, paused, stage, order, process, ledger, claimed, charge,
                 landedOn>>

\* A helper run (240 s) and a blockhash (a minute or so) last across one midnight at most.
NextDay ==
  /\ today < MaxDay
  /\ \A c \in Calls : InFlight(c) \/ tx[c] = "pending" => day[c] = today
  /\ today' = today + 1
  /\ UNCHANGED <<limits, paused, stage, order, process, ledger, claimed, chain>>

CallStep(c) ==
  \/ Begin(c) \/ Refused(c) \/ Reserve(c) \/ Claim(c) \/ NothingSent(c) \/ Submit(c)
  \/ Accepted(c) \/ Failed(c) \/ Answered402(c) \/ Unclear(c)
  \/ AskRefused(c) \/ AskPaid(c) \/ AskUnclear(c) \/ Recover(c)
  \/ Land(c) \/ Die(c)

Next ==
  \/ \E l \in Limits, life \in Lifetimes : Setup(l, life)
  \/ Pause \/ Resume
  \/ \E c \in Calls : CallStep(c)
  \/ \E p \in Processes : Crash(p)
  \/ NextDay

Spec == Init /\ [][Next]_vars

-----------------------------------------------------------------------------
(* Properties                                                              *)

\* What the ledger counts for a day, rows stamped that day and holds opened by then, is
\* within the server's daily ceiling, whatever midnight, settlements and changes of the
\* limits did in between (_check_budget 330-337, settle_metered 417-425).
CountedOn(d) == {c \in Calls : \/ booked[c] = "row" /\ day[c] = d
                               \/ booked[c] = "hold" /\ day[c] <= d}
DayWithinCap == \A d \in Days : Sum(CountedOn(d), amount) <= MaxDaily

\* Money that has moved or may still move is counted, for at least what moves: the room is
\* given back "only when the payment surely did not leave" (spend 783-784).
Covered ==
  \A c \in Calls : tx[c] \in {"pending", "landed"} =>
                     booked[c] # "none" /\ charge[c] <= amount[c]

\* Two calls for the same order, at once or one after the other, submit it once
\* (solana-x402-service store.mjs 27-43).
OrderPaidOnce ==
  \A b, c \in Buys : (order[b] = order[c] /\ tx[b] # "none" /\ tx[c] # "none") => b = c

\* What the chain moves on one day is at most two daily ceilings: a payment counted before
\* midnight may land after it, next to the new day's own.
LandedOn(d) == {c \in Calls : tx[c] = "landed" /\ landedOn[c] = d}
TwoCapsInAnyDay == \A d \in Days : Sum(LandedOn(d), charge) <= 2 * MaxDaily

\* From the moment a stop is recorded no new purchase or hold is reserved, also by a call
\* that had passed its own look at the stop before (the module's docstring 1-33).
Opens(c) == booked[c] = "none" /\ booked'[c] # "none"
StopHolds == [][paused => \A c \in Calls : ~Opens(c)]_vars

\* A reservation fits the limits in force when it is made, not those the call read
\* before its chain read (setup's change "applies to every new reservation", 311-317).
LimitsInForce ==
  [][\A c \in Calls : Opens(c) =>
       /\ amount'[c] <= limits.per
       /\ \E s \in Days : day'[c] = s /\ UsedSince(s)' <= limits.daily]_vars

\* Each question keeps the promise of MeteredHold: money moves only under its hold, and a
\* hold whose money moved becomes a charge (ask_solana.py 1-5).
AskHold == INSTANCE MeteredHold WITH
  Questions <- Asks,
  hold <- [c \in Asks |-> IF booked[c] = "hold" THEN "open"
                          ELSE IF booked[c] = "row" THEN "charged" ELSE "none"],
  moved <- {c \in Asks : tx[c] = "landed"}
AsksImplementHold == AskHold!Spec

\* The inductive invariants behind the theorems.  BookInv: what each stage of a call says
\* about its booking and its transfer.  OrderInv: an attempt is backed by the order's
\* claim.  TimeInv: a call that may still move money began today or yesterday.
BookOf(c) ==
  /\ stage[c] \in {"new", "reading"} => booked[c] = "none" /\ tx[c] = "none"
  /\ stage[c] \in {"reserved", "claimed"} => booked[c] # "none" /\ tx[c] = "none"
  /\ stage[c] = "sent" => booked[c] # "none" /\ tx[c] # "none"
  /\ stage[c] = "unsettled" => booked[c] = "hold"
  /\ booked[c] = "hold" => c \in Asks /\ stage[c] # "over"
  /\ booked[c] = "row" /\ c \in Asks => stage[c] = "over"
BookInv == \A c \in Calls : BookOf(c)
Attempted(c) == stage[c] = "claimed" \/ tx[c] # "none"
OrderInv ==
  \A b \in Buys : Attempted(b) =>
    /\ order[b] \in claimed
    /\ \A c \in Buys : Attempted(c) /\ order[c] = order[b] => c = b
TimeInv ==
  \A c \in Calls :
    /\ day[c] <= today
    /\ tx[c] = "landed" => landedOn[c] <= today
    /\ \/ InFlight(c)
       \/ tx[c] = "pending"
       \/ tx[c] = "landed" /\ landedOn[c] = today /\ booked[c] = "row"
       => today <= day[c] + 1

-----------------------------------------------------------------------------
(* What the documentation says of a seller that may settle after a 402     *)

\* A purchase whose count was taken back has not moved the money: it "surely did not
\* leave" (spend 783-784; "nothing was paid", resource.mjs 108).
TakenBackNeverMoved ==
  \A c \in Buys : booked[c] = "none" => tx[c] # "landed"
=============================================================================
