----------------------------- MODULE BaseSpend -----------------------------
(***************************************************************************)
(* Spending on the Base allowance lane, for one owner: pay_x402 and        *)
(* pay_transfer of sign402_gateway/agent_allowance.py with the settlements *)
(* and transfer_claims they keep, and rules 1 and 3 of                     *)
(* allowance_watcher.py, a second process that reads the chain and raises  *)
(* an alarm for a spend of the limiter to anyone but the agent, and for an *)
(* outflow of the agent that matches no purchase.                          *)
(*                                                                         *)
(* Payments is a set of x402 purchases of one price from one seller, so    *)
(* that the log of one looks like the log of the other; an order is a      *)
(* transfer to a deposit address of its own.  _fund has to succeed before  *)
(* anything below happens and its amounts are left out; so is the limiter, *)
(* which AgentAllowance has.                                               *)
(*                                                                         *)
(* Both processes read through nodes that may be Lag blocks behind, each   *)
(* read by itself: the newest block may come from one node and the logs up *)
(* to it from another that does not have them yet.                         *)
(***************************************************************************)
EXTENDS Naturals, Sequences, FiniteSets

CONSTANTS NumPayments,  \* purchases over x402, identical, in the order they are made
          Orders,       \* orders paid by a transfer
          Thefts,       \* transfers out of the agent that nobody bought with
          Strays,       \* spends of the active limiter to others than the agent
          Lag,          \* how many blocks a node may be behind
          HeadMargin,   \* HEAD_MARGIN_BLOCKS
          LogRange,     \* LOG_RANGE, the blocks of one eth_getLogs
          Grace,        \* OUTFLOW_GRACE_SECONDS in ticks
          CallTicks,    \* the longest a call takes from its payment to its end
          PassTicks,    \* the longest a pass takes from its reads to its alarms
          MaxBlocks,    \* BOUND on the chain
          Baskets,      \* BOUND: what one owner may do of all this
          MaxCrashes    \* BOUND on the restarts of the watcher

ASSUME BoundAssumption == /\ NumPayments \in Nat /\ Lag \in Nat /\ HeadMargin \in Nat /\ MaxBlocks \in Nat
                          /\ MaxCrashes \in Nat /\ LogRange \in Nat \ {0}
\* 120 s for the client, 6 s, 120 s again and 60 s for the search; and 120 s
\* and 40 s for the pause an alarm waits for; against 600 s.
ASSUME GraceAssumption == /\ Grace \in Nat /\ CallTicks \in Nat /\ PassTicks \in Nat
                          /\ CallTicks + PassTicks <= Grace
\* "load-balanced nodes lag the newest block by one or two", says the comment
\* on the margin of two.
ASSUME MarginAssumption == Lag <= HeadMargin

Payments == 1..NumPayments
Calls == Payments \cup Orders

\* A transfer out of the agent: of a call, its first or its second, or a theft;
\* or one past the agent.
Transfers == (Calls \X {1, 2}) \cup ((Thefts \cup Strays) \X {0})
Outflows == {t \in Transfers : t[1] \notin Strays}
NoCall == 0
None == <<NoCall, 0>>
Made == <<NoCall, 1>>     \* a claim without a transaction yet
Blocks == 1..MaxBlocks
NoHead == MaxBlocks + 1   \* find_settlement has not asked for the newest block yet

\* What leaves the agent for different reasons differs.
ASSUME NamesAssumption ==
  /\ NoCall \notin Orders \cup Thefts \cup Strays
  /\ Payments \cap (Orders \cup Thefts \cup Strays) = {}
  /\ Orders \cap (Thefts \cup Strays) = {} /\ Thefts \cap Strays = {}

VARIABLES basket,         \* what this owner does
          at, cur,        \* the call that holds the spend lock, and its step
          start,          \* its from_block
          scan, latest,   \* its search: the next block to read, the newest it was told
          delivered,      \* whether the seller answered 2xx
          shown,          \* history: whether every node had its transfer at that answer
          busy,           \* ticks since its payment was handed over
          outcome,        \* what each call told its user
          counted,        \* the settlements table
          claims,         \* the transfer_claims table: the tx of an order, if made
          transfer,       \* every transfer: signed or not, mined or not
          chain,          \* the blocks, each with at most one of them
          spentCursor,    \* the watch cursor of the limiter
          cursor,         \* that of the agent
          noted,          \* the agent_outflows table
          resolved,       \* its resolved column
          age,            \* ticks since first_seen
          left,           \* open outflows no settlement explained, yet to be judged
          raising,        \* the one whose alarm is under way
          waiting,        \* ticks since the pass read the two tables
          alarms,         \* history: the transfers raised
          lost,           \* history: outflows whose alarm a crash took along
          crashes

search == <<scan, latest>>
gateway == <<basket, at, cur, start, search, delivered, shown, outcome, counted, claims>>
watcher == <<spentCursor, cursor, noted, resolved, left, raising, alarms, lost, crashes>>
clock == <<busy, age, waiting>>
vars == <<gateway, transfer, chain, watcher, clock>>

Steps == {"idle", "asked", "checking", "retried", "answered", "claimed",
          "sent", "noted", "mined", "recording", "counted", "unpaid"}

\* The steps in which find_settlement reads the chain.
Searches == {"checking", "answered", "mined", "recording"}

\* The type invariant.
TypeOK ==
  /\ basket \in Baskets
  /\ at \in Steps
  /\ cur \in Calls \cup {NoCall}
  /\ start \in 0..MaxBlocks
  /\ scan \in 0..MaxBlocks + 1 /\ latest \in 0..NoHead
  /\ delivered \in BOOLEAN /\ shown \in BOOLEAN
  /\ busy \in 0..CallTicks
  /\ outcome \in [Calls -> {"new", "ok", "failed"}]
  /\ counted \subseteq Transfers
  /\ claims \in [Orders -> {None, Made} \cup Transfers]
  /\ transfer \in [Transfers -> {"none", "pending", "mined"}]
  /\ chain \in Seq(Transfers \cup {None})
  /\ \A c \in {spentCursor, cursor} :
       c \in 0..MaxBlocks /\ (c > 0 => c + HeadMargin <= Len(chain))
  /\ noted \subseteq Outflows
  /\ resolved \subseteq noted
  /\ age \in [Transfers -> 0..Grace + 1]
  /\ left \subseteq noted
  /\ raising \in Transfers \cup {None}
  /\ waiting \in 0..PassTicks
  /\ alarms \subseteq Transfers
  /\ lost \subseteq Transfers
  /\ crashes \in 0..MaxCrashes

Init ==
  /\ basket \in Baskets
  /\ at = "idle" /\ cur = NoCall
  /\ start = 0 /\ scan = 0 /\ latest = NoHead
  /\ delivered = FALSE /\ shown = FALSE /\ busy = 0
  /\ outcome = [c \in Calls |-> "new"]
  /\ counted = {}
  /\ claims = [o \in Orders |-> None]
  /\ transfer = [t \in Transfers |-> "none"]
  /\ chain = << >>
  /\ spentCursor = 0 /\ cursor = 0 /\ noted = {} /\ resolved = {}
  /\ age = [t \in Transfers |-> 0]
  /\ left = {} /\ raising = None
  /\ waiting = 0
  /\ alarms = {}
  /\ lost = {} /\ crashes = 0

-----------------------------------------------------------------------------
(* Reads                                                                   *)

\* What the newest block may be, for a node that answers now.
Heads == {n \in 0..Len(chain) : n + Lag >= Len(chain)}

\* Mutant: what was counted before is not left out.
NothingSeen == {}

\* `seen`: counted_settlements.
Seen == counted

\* Transfers that find_settlement cannot tell from one of this call.
Alike(c) == IF c \in Payments THEN Payments \X {1, 2} ELSE {c} \X {1, 2}

\* The last block of the eth_getLogs that is due: up to LogRange from `scan` on.
End == IF latest < scan + LogRange THEN latest ELSE scan + LogRange - 1

\* The blocks of it in which a node that has blocks up to `known` shows a match.
Matches(c, known) == {b \in Blocks : scan <= b /\ b <= End /\ b <= known /\ chain[b] \in Alike(c) \ Seen}

\* The first of them.
Found(c, known) ==
  IF Matches(c, known) = {} THEN None
  ELSE chain[CHOOSE b \in Matches(c, known) : \A x \in Matches(c, known) : b <= x]

\* The newest block is known and not read up to yet; or all is read up to it.
Reading == at \in Searches /\ latest # NoHead /\ scan <= latest
RoundOver == at \in Searches /\ latest # NoHead /\ scan > latest

-----------------------------------------------------------------------------
(* The gateway: one call at a time                                         *)

GatewayStep == UNCHANGED <<basket, chain, watcher, age, waiting>>

\* find_settlement begins, or is over.
SearchFrom(b) == scan' = b /\ latest' = NoHead
NoSearch == SearchFrom(0)

\* The call ends; the next one may have the lock.
Ends(c, told) ==
  /\ at' = "idle" /\ cur' = NoCall /\ delivered' = FALSE /\ shown' = FALSE /\ busy' = 0 /\ start' = 0
  /\ NoSearch
  /\ outcome' = [outcome EXCEPT ![c] = told]

\* Every node has the block with the transfer of the call in hand.
Shown == \E b \in DOMAIN chain : start <= b /\ b + Lag <= Len(chain) /\ chain[b] \in {cur} \X {1, 2}

\* find_settlement asks for the newest block, at first and when it has read up to the
\* last one.  (A round without a new block reads nothing and changes nothing.)
ReadHead(n) ==
  /\ at \in Searches
  /\ latest = NoHead \/ (RoundOver /\ scan <= n /\ at # "recording")
  /\ latest' = n
  /\ UNCHANGED <<at, cur, start, scan, delivered, shown, busy, outcome, counted, claims, transfer>> /\ GatewayStep

\* Nothing in these blocks: they are not read again.
ReadOn(known) ==
  /\ Reading
  /\ Found(cur, known) = None
  /\ scan' = End + 1
  /\ UNCHANGED <<at, cur, start, latest, delivered, shown, busy, outcome, counted, claims, transfer>> /\ GatewayStep

\* pay_x402, funded: the client signs an authorization and asks the seller.
Ask(p, n) ==
  /\ at = "idle" /\ outcome[p] = "new" /\ p \in basket
  /\ \A q \in 1..(p - 1) : outcome[q] # "new"
  /\ Len(chain) < MaxBlocks
  /\ at' = "asked" /\ cur' = p /\ start' = n /\ busy' = 0
  /\ transfer' = [transfer EXCEPT ![<<p, 1>>] = "pending"]
  /\ UNCHANGED <<search, delivered, shown, outcome, counted, claims>> /\ GatewayStep

\* The client is killed after 120 seconds, or its answer is unreadable.
AnswerLost ==
  /\ at \in {"asked", "retried"}
  /\ Ends(cur, "failed")
  /\ UNCHANGED <<counted, claims, transfer>> /\ GatewayStep

\* 402, "insufficient_funds": looked for before one more try.
ShortOfFunds ==
  /\ at = "asked"
  /\ at' = "checking" /\ SearchFrom(start) /\ shown' = Shown
  /\ UNCHANGED <<cur, start, delivered, busy, outcome, counted, claims, transfer>> /\ GatewayStep

Retry ==
  /\ at = "checking" /\ RoundOver
  /\ at' = "retried" /\ NoSearch /\ shown' = FALSE
  /\ transfer' = [transfer EXCEPT ![<<cur, 2>>] = "pending"]
  /\ UNCHANGED <<cur, start, delivered, busy, outcome, counted, claims>> /\ GatewayStep

MovedAnyway(known) ==
  /\ at = "checking" /\ Reading
  /\ Found(cur, known) # None
  /\ at' = "answered" /\ SearchFrom(start)
  /\ UNCHANGED <<cur, start, delivered, shown, busy, outcome, counted, claims, transfer>> /\ GatewayStep

\* Any other answer, or any answer to the second try.
Answer(good) ==
  /\ at \in {"asked", "retried"}
  /\ at' = "answered" /\ delivered' = good /\ SearchFrom(start) /\ shown' = Shown
  /\ UNCHANGED <<cur, start, busy, outcome, counted, claims, transfer>> /\ GatewayStep

\* The transfer shows and is counted: its primary key refuses a second time.
CountPayment(known) ==
  LET t == Found(cur, known)
  IN  /\ at = "answered" /\ Reading
      /\ t # None
      /\ counted' = counted \cup {t}
      /\ at' = IF t \in counted THEN "unpaid" ELSE "counted"
      /\ NoSearch
      /\ UNCHANGED <<cur, start, delivered, shown, busy, outcome, claims, transfer>> /\ GatewayStep

\* It has not shown in time: the deadline is looked at when all is read.
NoSettlement ==
  /\ at = "answered" /\ RoundOver
  /\ at' = "unpaid" /\ NoSearch
  /\ UNCHANGED <<cur, start, delivered, shown, busy, outcome, counted, claims, transfer>> /\ GatewayStep

Return ==
  /\ at \in {"counted", "unpaid"}
  /\ Ends(cur, IF at = "counted" /\ delivered THEN "ok" ELSE "failed")
  /\ UNCHANGED <<counted, claims, transfer>> /\ GatewayStep

\* Mutant: a claim counts only once its transaction is on record.
NoTransferNoted(o) == claims[o] \in {None, Made}

NotAttempted(o) == claims[o] = None

PaidAlready(o) == \E t \in counted : t[1] = o

\* pay_transfer: the claim is written before anything is funded or sent.
ClaimOrder(o) ==
  /\ at = "idle" /\ o \in basket
  /\ ~PaidAlready(o) /\ NotAttempted(o)
  /\ claims' = [claims EXCEPT ![o] = Made]
  /\ at' = "claimed" /\ cur' = o
  /\ UNCHANGED <<start, search, delivered, shown, busy, outcome, counted, transfer>> /\ GatewayStep

\* A retry: what left before is looked for once, from the first block on.
RecordClaimed(o) ==
  /\ at = "idle"
  /\ ~PaidAlready(o) /\ ~NotAttempted(o)
  /\ claims[o] \in Transfers
  /\ at' = "recording" /\ cur' = o /\ SearchFrom(0) /\ busy' = 0
  /\ UNCHANGED <<start, delivered, shown, outcome, counted, claims, transfer>> /\ GatewayStep

\* It is counted if it shows; nothing is sent, and the retry is told so.
CountClaimed(known) ==
  /\ at = "recording" /\ Reading
  /\ Found(cur, known) # None
  /\ counted' = counted \cup ({Found(cur, known)} \cap {claims[cur]})
  /\ Ends(cur, "failed")
  /\ UNCHANGED <<claims, transfer>> /\ GatewayStep

\* The limiter cannot fund it, gas runs out, no node answers, its log does not show
\* in time: it is over, and the claim stays.
OrderFails ==
  /\ at \in {"claimed", "noted"} \/ (at \in {"mined", "recording"} /\ RoundOver)
  /\ Ends(cur, "failed")
  /\ UNCHANGED <<counted, claims, transfer>> /\ GatewayStep

\* The transfer is signed and offered to a node, which may take it and not say so.
SendOrder(n, answered) ==
  \E k \in {1, 2} :
    /\ at = "claimed"
    /\ transfer[<<cur, k>>] = "none" /\ (k = 2 => transfer[<<cur, 1>>] # "none")
    /\ transfer' = [transfer EXCEPT ![<<cur, k>>] = "pending"]
    /\ IF answered
       THEN /\ at' = "sent" /\ start' = n /\ busy' = 0
            /\ UNCHANGED <<cur, search, delivered, shown, outcome>>
       ELSE Ends(cur, "failed")
    /\ UNCHANGED <<counted, claims>> /\ GatewayStep

\* The last one sent.
Sent(o) == IF transfer[<<o, 2>>] = "none" THEN <<o, 1>> ELSE <<o, 2>>

NoteTx ==
  /\ at = "sent"
  /\ claims' = [claims EXCEPT ![cur] = IF @ = Made THEN Sent(cur) ELSE @]
  /\ at' = "noted"
  /\ UNCHANGED <<cur, start, search, delivered, shown, busy, outcome, counted, transfer>> /\ GatewayStep

OrderMined ==
  /\ at = "noted"
  /\ transfer[Sent(cur)] = "mined"
  /\ at' = "mined" /\ SearchFrom(start)
  /\ UNCHANGED <<cur, start, delivered, shown, busy, outcome, counted, claims, transfer>> /\ GatewayStep

CountOrder(known) ==
  /\ at = "mined" /\ Reading
  /\ Found(cur, known) = Sent(cur)
  /\ counted' = counted \cup {Sent(cur)}
  /\ at' = "counted" /\ delivered' = TRUE /\ NoSearch
  /\ UNCHANGED <<cur, start, shown, busy, outcome, claims, transfer>> /\ GatewayStep

\* What a call that has begun does next.
CallStep ==
  \/ AnswerLost \/ ShortOfFunds \/ Retry \/ NoSettlement \/ Return \/ OrderFails \/ NoteTx \/ OrderMined
  \/ \E good \in BOOLEAN : Answer(good)
  \/ \E n \in Heads :
       \/ ReadHead(n) \/ ReadOn(n)
       \/ MovedAnyway(n) \/ CountPayment(n) \/ CountClaimed(n) \/ CountOrder(n)
       \/ \E answered \in BOOLEAN : SendOrder(n, answered)

\* The gateway dies; what is signed may still be mined.
Crash ==
  /\ at # "idle"
  /\ Ends(cur, "failed")
  /\ UNCHANGED <<counted, claims, transfer>> /\ GatewayStep

-----------------------------------------------------------------------------
(* The chain and the clock                                                 *)

\* A pass has outflows to judge, or waits for a pause.
Judging == left # {} \/ raising # None

\* BOUND: after it only empty blocks, so that every read gets past what was mined.
Room == MaxBlocks - HeadMargin

Mine(t) ==
  /\ transfer[t] = "pending" \/ (t[1] \in (Thefts \cup Strays) \cap basket /\ transfer[t] = "none")
  /\ Len(chain) < Room
  /\ chain' = Append(chain, t)
  /\ transfer' = [transfer EXCEPT ![t] = "mined"]
  /\ UNCHANGED <<gateway, watcher, clock>>

\* Blocks go on with the time; a call and a pass take no longer than they may.
Tick ==
  /\ at \notin {"idle", "claimed"} => busy < CallTicks
  /\ Judging => waiting < PassTicks
  /\ busy' = IF at \in {"idle", "claimed"} THEN 0 ELSE busy + 1
  /\ waiting' = IF Judging THEN waiting + 1 ELSE 0
  /\ age' = [t \in Transfers |-> IF t \in noted \ resolved /\ age[t] <= Grace
                                 THEN age[t] + 1 ELSE age[t]]
  /\ chain' = IF Len(chain) < MaxBlocks THEN Append(chain, None) ELSE chain
  /\ UNCHANGED <<gateway, transfer, watcher>>

-----------------------------------------------------------------------------
(* The watcher: passes over the limiter's spends and the agent's outflows  *)

WatcherStep == UNCHANGED <<gateway, transfer, chain, busy>>

\* Mutant: the cursor moves before the chunk is handled.
CursorFirst(old, e, handled) == e

\* Mutant: the block to read next is stored, and one is added to it again.
CursorOnNext(old, e, handled) == IF handled THEN e + 1 ELSE old

CursorAfter(old, e, handled) == IF handled THEN e ELSE old

\* _chunks: what a node that has blocks up to `known` shows from a cursor to
\* block `e`, which is older by the margin than another node's newest.
Chunk(old, e, head, known) ==
  IF old < e /\ e + HeadMargin <= head
  THEN {chain[b] : b \in {x \in Blocks : old < x /\ x <= e /\ x <= known}} \ {None}
  ELSE {}

\* The watcher dies unless it has handled the whole chunk.
Lives(handled) ==
  /\ ~handled => crashes < MaxCrashes
  /\ crashes' = IF handled THEN crashes ELSE crashes + 1

\* _report_spends: an alarm for each spend past the agent, one by one, and then
\* the cursor moves, unless the watcher dies with only `some` raised.  (BOUND:
\* this cursor is left alone where no such spend is to come.)
ReportSpends(e, head, known, some) ==
  LET handled == some = Chunk(spentCursor, e, head, known) \ Outflows
  IN  /\ ~Judging /\ basket \cap Strays # {}
      /\ spentCursor < e /\ e + HeadMargin <= head
      /\ alarms' = alarms \cup some
      /\ spentCursor' = CursorAfter(spentCursor, e, handled)
      /\ Lives(handled)
      /\ UNCHANGED <<cursor, noted, resolved, left, raising, lost, age, waiting>> /\ WatcherStep

\* note_outflow: rows are inserted one by one and the cursor moves after them,
\* unless the watcher dies with only `some` inserted; a row already there stays.
NoteChunk(e, head, known, some) ==
  LET handled == some = Chunk(cursor, e, head, known) \cap Outflows
  IN  /\ ~Judging
      /\ cursor < e /\ e + HeadMargin <= head
      /\ noted' = noted \cup some
      /\ cursor' = CursorAfter(cursor, e, handled)
      /\ Lives(handled)
      /\ UNCHANGED <<spentCursor, resolved, left, raising, alarms, lost, age, waiting>> /\ WatcherStep

\* Nodes that are up to date, and a watcher that lives to the end of the chunk.
Newest == Len(chain)
Settled == Newest - HeadMargin

CatchUp ==
  /\ Newest > HeadMargin
  /\ NoteChunk(Settled, Newest, Newest, Chunk(cursor, Settled, Newest, Newest) \cap Outflows)

CatchUpSpends ==
  /\ Newest > HeadMargin
  /\ ReportSpends(Settled, Newest, Newest, Chunk(spentCursor, Settled, Newest, Newest) \ Outflows)

\* The rest of the pass: counted_settlements, then open_outflows; the outflows
\* of counted settlements are resolved, the others judged one after another.
ReadTables ==
  /\ ~Judging
  /\ noted \ resolved # {}
  /\ resolved' = resolved \cup (noted \cap counted)
  /\ left' = noted \ (resolved \cup counted)
  /\ age' = [t \in Transfers |-> IF t \in counted THEN 0 ELSE age[t]]
  /\ waiting' = 0
  /\ UNCHANGED <<spentCursor, cursor, noted, raising, alarms, lost, crashes>> /\ WatcherStep

\* Mutant: the grace period is one tick short.
PastMostOfGrace(t) == age[t] >= Grace

PastGrace(t) == age[t] > Grace

NotYet(t) ==
  /\ raising = None /\ t \in left
  /\ ~PastGrace(t)
  /\ left' = left \ {t}
  /\ UNCHANGED <<spentCursor, cursor, noted, resolved, raising, alarms, lost, crashes, age, waiting>> /\ WatcherStep

\* Resolved first, then the pause and the alarm.
Unexplained(t) ==
  /\ raising = None /\ t \in left
  /\ PastGrace(t)
  /\ left' = left \ {t}
  /\ resolved' = resolved \cup {t}
  /\ age' = [age EXCEPT ![t] = 0]
  /\ raising' = t
  /\ UNCHANGED <<spentCursor, cursor, noted, alarms, lost, crashes, waiting>> /\ WatcherStep

Alarm ==
  /\ raising # None
  /\ alarms' = alarms \cup {raising}
  /\ raising' = None
  /\ UNCHANGED <<spentCursor, cursor, noted, resolved, left, lost, crashes, age, waiting>> /\ WatcherStep

\* The watcher dies in the middle of a pass.
WatcherCrash ==
  /\ Judging
  /\ crashes < MaxCrashes
  /\ crashes' = crashes + 1
  /\ lost' = lost \cup ({raising} \ {None})
  /\ left' = {} /\ raising' = None /\ waiting' = 0
  /\ UNCHANGED <<spentCursor, cursor, noted, resolved, alarms, age>> /\ WatcherStep

-----------------------------------------------------------------------------
Gateway ==
  \/ \E n \in Heads, p \in Payments : Ask(p, n)
  \/ \E o \in Orders : ClaimOrder(o) \/ RecordClaimed(o)
  \/ CallStep
  \/ Crash

Watch ==
  \/ \E e \in Blocks, head, known \in Heads :
       \/ \E some \in SUBSET (Chunk(spentCursor, e, head, known) \ Outflows) :
            ReportSpends(e, head, known, some)
       \/ \E some \in SUBSET (Chunk(cursor, e, head, known) \cap Outflows) :
            NoteChunk(e, head, known, some)
  \/ ReadTables
  \/ \E t \in left : NotYet(t) \/ Unexplained(t)
  \/ Alarm

Next ==
  \/ Gateway
  \/ Watch
  \/ WatcherCrash
  \/ \E t \in Transfers : Mine(t)
  \/ Tick

\* Blocks and time go on; a call goes on to its result or a timeout; the watcher
\* makes a pass every half minute, and reads on whenever there is more.
Fairness ==
  /\ WF_vars(Tick)
  /\ WF_vars(CallStep)
  /\ SF_vars(CatchUp) /\ SF_vars(CatchUpSpends)
  /\ WF_vars(ReadTables \/ Alarm \/ \E t \in left : NotYet(t) \/ Unexplained(t))

Spec == Init /\ [][Next]_vars /\ Fairness

-----------------------------------------------------------------------------
(* Properties                                                              *)

\* An order is paid by one transfer at most, however often it is tried, and
\* whether a crash or a lost reply left its claim without a transaction.
OrderSentOnce ==
  \A o \in Orders : transfer[<<o, 1>>] = "none" \/ transfer[<<o, 2>>] = "none"

\* A purchase whose transfer every node has when the seller answers is neither tried
\* again nor ends unpaid: whichever nodes the search reads, and although the transfer of
\* an identical purchase before it lies in its way.
ShownIsFound ==
  [][\A p \in Payments : cur = p /\ at \in {"checking", "answered"} /\ shown
       => at' \notin {"retried", "unpaid"}]_vars

\* The transfer that an ok call was credited with raises no alarm, although
\* the watcher reads the settlements before it looks at the clock.
PaidIsNotAlarmed ==
  \A t \in Transfers : t \in alarms /\ t \in counted
       => t[1] \in Orders /\ outcome[t[1]] # "ok"

\* Whatever leaves the agent is counted or raised, unless the watcher died
\* between resolving it and raising it, and whatever goes past the agent is
\* raised even then: nothing is skipped.
Answered(t) == t \in counted \/ t \in alarms \/ t \in lost

EveryOutflowAnswered ==
  []<>(\A t \in Transfers : transfer[t] = "mined" =>
         IF t \in Outflows THEN Answered(t) ELSE t \in alarms)

-----------------------------------------------------------------------------
(* What the code says of a transfer that shows later                       *)

\* The search has gone past the block with the call's transfer, and was told since then of
\* a block so new that every node has that one.
PassedOver == \E b \in DOMAIN chain :
                start <= b /\ b < scan /\ b + Lag <= latest /\ chain[b] \in {cur} \X {1, 2}

\* A delivery is looked for "until it shows" (agent_allowance.py 1667): a delivered call
\* does not end unpaid with its transfer in a block that every node has by the last round
\* of its search.
DeliveredIsPaid ==
  [][\A p \in Payments : cur = p /\ at = "answered" /\ delivered /\ PassedOver => at' # "unpaid"]_vars

-----------------------------------------------------------------------------
(* The inductive invariant behind the properties                           *)

\* A payment was handed over, and nothing was counted for it yet.
Asking == at \in {"asked", "checking", "retried", "answered"}

\* An order was sent, and not counted yet.
Sending == at \in {"sent", "noted", "mined"}

\* The step of the call in hand is one of its kind.
AtInv ==
  /\ at = "idle" <=> cur = NoCall
  /\ Asking \/ at = "unpaid" => cur \in Payments
  /\ Sending \/ at \in {"claimed", "recording"} => cur \in Orders
  /\ cur \in Payments => outcome[cur] = "new"

\* A search for a purchase never looks before its first block; and one that every
\* node had at the answer is in a block not read yet, and no newer than the last one
\* the search was told of.
SearchInv ==
  at \in {"checking", "answered"} =>
    /\ start <= scan
    /\ shown => \E b \in DOMAIN chain : /\ scan <= b /\ b <= latest /\ b + Lag <= Len(chain)
                                        /\ chain[b] \in {cur} \X {1, 2}

\* A block of the chain is the only one with its transfer; whatever was
\* counted, or noted by the watcher, is on the chain's side of mined.
ChainInv ==
  /\ Len(chain) <= MaxBlocks
  /\ \A b \in DOMAIN chain : chain[b] # None => transfer[chain[b]] = "mined"
  /\ \A b, x \in DOMAIN chain : chain[b] = chain[x] /\ chain[b] # None => b = x
  /\ counted \subseteq Calls \X {1, 2}
  /\ \A t \in counted \cup noted : transfer[t] = "mined"
  /\ \A t \in Transfers \ noted : age[t] = 0

\* An order has a second transfer never, a first one only under its claim, and
\* none while the claim is fresh; what it told as paid was counted.
OrderInv ==
  \A o \in Orders :
    /\ transfer[<<o, 2>>] = "none"
    /\ claims[o] = None => transfer[<<o, 1>>] = "none" /\ cur # o /\ outcome[o] # "ok"
    /\ cur = o /\ at = "claimed" => transfer[<<o, 1>>] = "none"
    /\ outcome[o] = "ok" \/ (cur = o /\ at = "counted") => <<o, 1>> \in counted
    /\ cur = o => outcome[o] # "ok"

\* A purchase not made yet has no transfer, and no second one before its retry;
\* one not counted yet has none counted.
FreshInv ==
  \A p \in Payments : outcome[p] = "new" =>
    /\ cur # p => transfer[<<p, 1>>] = "none"
    /\ cur # p \/ at \in {"asked", "checking"} => transfer[<<p, 2>>] = "none"
    /\ cur # p \/ Asking => \A k \in {1, 2} : <<p, k>> \notin counted

\* Its call was in time for the transfer: any purchase, and an order that was
\* counted by the call that sent it.
Timely(t) ==
  \/ t[1] \in Payments
  \/ t[1] \in Orders /\ (outcome[t[1]] = "ok" \/ (cur = t[1] /\ at = "counted"))

\* The watcher's clock for a transfer starts when the margin has passed over its
\* block, and, for one that the call in hand may count, no earlier than the call.
AgeInv ==
  /\ Len(chain) < MaxBlocks =>
       \A b \in DOMAIN chain : chain[b] \in noted => age[chain[b]] + b + HeadMargin <= Len(chain)
  /\ Asking => \A b \in DOMAIN chain : b >= start /\ chain[b] \in noted => age[chain[b]] <= busy
  /\ Sending => age[<<cur, 1>>] <= busy /\ <<cur, 1>> \notin counted \cup resolved
  /\ \A t \in left \cap counted : Timely(t) => age[t] <= CallTicks + waiting

\* An outflow is resolved before it is raised, and one that is resolved with
\* nothing counted for it is older than all that a call may count from now on.
RaiseInv ==
  /\ alarms \cap Outflows \subseteq resolved
  /\ raising # None => raising \in resolved
  /\ \A t \in counted : Timely(t) => t \notin alarms \cup {raising}
  /\ \A b \in DOMAIN chain : chain[b] \in resolved \ counted /\ chain[b][1] \in Payments =>
       /\ Len(chain) = MaxBlocks \/ b + Lag < Len(chain)
       /\ Asking => b < start

Inv == TypeOK /\ AtInv /\ SearchInv /\ ChainInv /\ OrderInv /\ FreshInv /\ AgeInv /\ RaiseInv
=============================================================================
