# SingItAI in TLA+

SingIt is an AI agent that spends its user's USDC. The user sets limits and
approves them once from a wallet; a gateway then pays sellers over x402, on
Base through a limiter contract and on Solana as a token delegate. These
modules state what keeps that safe when calls interleave, answers get lost,
processes die and midnight passes, check it with TLC on small instances, and
prove the central facts with TLAPS for instances of any size.

## The system

| Component | Source | State it keeps | Operations | What makes it correct |
| --- | --- | --- | --- | --- |
| On-chain limiter | `agent-allowance/src/AgentAllowance.sol` | caps, expiry, pause flag, the day's counter, used references | deploy, `spend`, `pause`, views | no day above its cap, a reference pays once, a stop is final, the quote is what is left |
| Solana spending ledger | `sign402_gateway/solana_allowance.py` (`limits`, `spends`, `metered_holds`, `pauses`) | the user's limits and stop, what counts against today | setup, pause, reserve, confirm, drop, hold, settle, release | whatever may have left is counted, no day above its cap, a stop stops every later reservation |
| Solana approvals | the same file (`ops`) | grants, revokes and gas transfers from prepared to confirmed | prepare, submit, operation (reconcile), expire, supersede | only an approval signed after a stop lifts it; one gas transfer at a time |
| Ask on Solana | `ask_solana.py` | the journal, the helper's checkpoint, an account lock | pay, recover | a hold is released only if its payment can never land |
| Solana helper | `solana-x402-service/src` | attempt rows (`attempts`, `invoice_attempts`) | pay, reconcile | an order is submitted once, ever |
| SingIt Ask quotes | `singit-ask/src/solana-quoted.mjs` | quotes and their status | prepare, pay | a quote is settled at most once, an answer is returned only when paid |
| Base lane | `agent_allowance.py`, `allowance_bitrefill.py` | limiters, operations, settlements, transfer claims | setup, grant, revoke, advance, pay_x402, pay_transfer, pause | a signed approve is broadcast once, one transfer settles one purchase |
| Watcher | `allowance_watcher.py` | log cursors, outflows, alerts | a pass over each active limiter | a spend past the agent, or an outflow no purchase explains, ends in an alarm and a pause |
| Trezor broker and companion | `trezor-sidecar/trezor_sidecar/broker_store.py`, `companion.py` | signing jobs | create, claim, sign, finish, expire | a request sends one signed approve, the one on its record |
| Trezor sidecar | `trezor_sidecar/service.py`, `store.py`, `server.py`, `poc_runner.py` | intents, the purchase attempt and its generation, payments, the log | approve, reserve, bind, pay, finalize | purchases are paid one after the other, an approval is spent once |
| Bankr purchases | `bankr_llm_purchase.py` | a row per purchase, the saved API key | start, terms, verify, resume, reconcile, credits, sweep | the tokens move once, the key leaves once, what was paid settles |
| The rest | `server.py`, the web API, Bitrefill runner, starter credit, Ledger and message approvals, CDP helper, clients | purchase records and sessions | HTTP, external services | listed with the reason in `PROJECT.json` |

The parts meet in a few places. Callers (the Bitrefill, Venice, data and
search tools of the gateway) hand `SolanaAllowanceService.spend` a price and a
function that runs one Node helper and waits for it. The helper keeps its own
attempts in its own file, talks to the seller and reads the chain. Two
processes open the same ledger: the gateway, which runs purchases, and the web
API, where users change limits and press the stop; each has a spend lock of
its own, so only the ledger's write transactions order them. A metered question
holds a ceiling first and becomes a row of the actual charge afterwards, or, if
its process dies, at the account's next request. On Base the gateway can do no
more than the limiter allows, whatever its own books say.

An owner approves a limiter on Base in one of three ways: the wallet sends a
transaction and the page names it, the wallet signs a permit and the gateway
sends it, or the gateway leaves a job with the broker, which a companion on the
owner's computer claims, has signed on the Trezor and reports back. The watcher
is a process of its own that shares only the gateway's database and the chain
with it. A purchase from a hardware wallet goes by the sidecar's own tables, in
one state file with its runner or, when the runner is remote, in two. The
requests of a Bankr purchase are threads of the gateway, each of which reads
the purchase, waits for Bankr, iMessage or the chain and then writes; a sweep
in the background goes over the same rows.

What is hard here is listed line by line in `PROJECT.json` under `hazards`:
reads that are stale after a slow chain read, the lazy reset of a daily counter
at midnight, answers lost after money may have left, retries of what was already
done, crashes between two durable steps, and a stop racing a purchase.

## Modules

| Module | What it is |
| --- | --- |
| `SpendBudget` | what a spending limit promises its owner, with no contract in it |
| `AgentAllowance` | the limiter contract, the ERC-20 allowance and balance it draws on, the clock, and callers of every kind |
| `MC_AgentAllowance` | the instance TLC checks |
| `AgentAllowanceProofs` | theorems about `AgentAllowance` |
| `SolanaBudget` | one Solana account: its ledger and every purchase and question counted in it, through helper, seller and chain |
| `MC_SolanaBudget` | the instance TLC checks |
| `SolanaBudgetProofs` | theorems about `SolanaBudget` |
| `SolanaApprovals` | the same account's wallet approvals, its emergency stop and its gas transfers, through helper and chain |
| `MC_SolanaApprovals` | the instances TLC checks |
| `SolanaApprovalsProofs` | theorems about `SolanaApprovals` |
| `MeteredHold` | what holding a ceiling for a question promises, with no file, helper or chain in it |
| `AskSolana` | one account's questions: the gateway's files, the helper, the merchant's quotes and the chain |
| `MC_AskSolana` | the instance TLC checks |
| `AskSolanaProofs` | theorems about `AskSolana` |
| `BaseApprovals` | grants and revokes of one Base owner: operations table, broker, companion, wallet and chain |
| `MC_BaseApprovals` | the instance TLC checks |
| `BaseApprovalsProofs` | theorems about `BaseApprovals` |
| `BaseSpend` | payments and orders on Base, with the watcher that reads the agent's outflows |
| `MC_BaseSpend` | the instance TLC checks |
| `BaseSpendProofs` | theorems about `BaseSpend` |
| `TrezorPurchase` | purchases paid from a hardware wallet: runners, sidecars, device and network |
| `MC_TrezorPurchase` | the instance TLC checks |
| `TrezorPurchaseProofs` | theorems about `TrezorPurchase` |
| `BankrPurchase` | one buyer's purchases of Bankr credit: requests, sweep and Bankr |
| `MC_BankrPurchase` | the instance TLC checks |
| `BankrPurchaseProofs` | theorems about `BankrPurchase` |

### AgentAllowance

A contract call is one atomic step and a revert is a step that does not happen,
so an action's guard is the contract's list of checks. `Spend` takes any caller,
payee, amount and reference: a stolen agent key is covered. The owner's approvals
(which replace, not add), deposits and withdrawals and the clock are external
actions. `movedOn` and `log` are history: what the chain moved, independent of
the counter the contract keeps, which is what the properties compare it with.
The constructor's address checks hold because the roles are distinct constants.
Overflow is not modelled: the compiler checks it and reverts, and a reverting
call is no step.

### SolanaBudget

`stage[c]` is where a call stands. The correspondence with the code:

| Action | Code |
| --- | --- |
| `Setup`, `Pause`, `Resume` | `setup()`, `pause()`, a grant recorded by `finish_grant()` |
| `Begin`, `Refused` | the spend lock and the checks before the reservation |
| `Reserve` | `reserve_spend()`, `reserve_metered()` with `_check_budget()`, one write transaction |
| `Claim` | the helper's attempt row (`claim`, `claimInvoice`) |
| `Submit` | the payment signed and handed to the seller or the chain |
| `NothingSent`, `Accepted`, `Failed`, `Answered402`, `Unclear` | what `spend()` does with the helper's outcome |
| `AskRefused`, `AskPaid`, `AskUnclear`, `Recover` | the end of a metered question and `_recover()` |
| `Crash` | a process dies with the helper it runs |
| `Land`, `Die`, `NextDay` | the chain and the calendar |

Every point where the code waits (the chain read, the helper run, the answer) is
a boundary between steps, where other calls, the owner, a crash and midnight may
come in. The time a transaction is stamped with is read before the wait for the
database's write lock, so `ClockOf` lets it be yesterday's over a midnight. A
helper runs for at most 240 seconds and a blockhash lives about a minute, so a
call and its transfer see one midnight at most (`NextDay`). Orders may be shared
by calls: that is a retry. `RefusalIsFinal` names an assumption about sellers
that the code makes (see Findings). Which grants lift a stop is the subject of
`SolanaApprovals`: here a stop may be lifted at any time, which allows more than
the code.
A payment into Venice credit also requires that no earlier top-up of the same
payer is unresolved; leaving that refusal out allows more behaviours, and the
refusal keeps the room counted.

### SolanaApprovals

A request is a thread of the gateway or of the web API; `at[p]` is its step. The
`ops` table is a sequence, so an op's place is its rowid.

| Action | Code |
| --- | --- |
| `Fetch`, `Retire`, `Add` | `prepare_wallet()`: the gas check and the helper's transaction, `expire_stale_prepared()` with `supersede_prepared()`, `add_op()` |
| `Submit`, `TooOld`, `Lowered`, `Approve` | `submit_wallet()` up to the helper: the row is read once, and every write after it is a transaction of its own |
| `ClaimGas`, `ClaimRefused`, `Checkpoint`, `NotInspected` | `claim_gas_submission()`, the inspection and `checkpoint_gas()` |
| `Send`, `Refused`, `Lost`, `Answer` | the helper's broadcast and what is written for its outcome (`finish_grant()`, `update_op()`, `finish_pending_op()`) |
| `Poll`, `TimeOut` | `operation()` |
| `NotSeen`, `Aged`, `Reconcile`, `NoOutcome` | the helper's `reconcile()`, a read at a time: the status, the blockhash's validity, the status again |
| `Expire`, `Pause`, `Crash` | `status()`, `pause()`, a restart of the service, which ends its helpers too |
| `Sign`, `Include`, `NextSlot` | the owner's wallet and the chain |

A transaction is its kind, its blockhash and what the wallet added to it. Two
with equal parts are one message with one signature, so replays and twins
prepared in one slot are there. The wallet is taken to keep the blockhash it was
given, as the documentation says of the tested wallets. Amounts are abstracted: a
grant may be found above a lowered limit at any submission (`Lowered`). Ages are
too: whether ninety seconds have passed is open at every check. Rows from before
the checkpoint existed are not modelled: `operation()` leaves them to support.
`prepare_wallet()` polls every unresolved gas transfer before it checks that none
is left; those polls are `Poll` steps.
Between two reads of `reconcile()` slots go by and a transfer may land. A node may miss a
landed transfer at the first read and call an expired blockhash valid. The last read
decides, and is taken to be from a node that is behind by less than a transaction takes
to be finalized: the code does not ask for it, as `reconcileDirect()` does with
`minContextSlot`.

A stop pressed while another is in force records nothing (`pause()` is idempotent,
and a test says so). An approval signed between two presses therefore lifts the
stop. `LiftedBySignedAfter` counts from the press on record.

### AskSolana

The account's file lock lets one request work at a time, so one program counter,
`at`, stands for whoever holds it; `cur` is its request. Everything else is what
survives: `journal` and `checkpoint` are the files, `holds` and `rows` the ledger,
`quote` the merchant's table, `post` each delivery of a payment, `tx` the chain.

| Action | Code |
| --- | --- |
| `Ask`, `Reserve`, `ReserveRefused`, `NotPrepared`, `Free`, `Forget` | `pay()` up to the helper, and its `finally` |
| `Prepare`, `Build`, `Write`, `Submit` | `payDirect()`: the quote, the signed payment, the checkpoint, the payment's request |
| `Refused`, `Confirmed`, `Keep` | what the helper makes of the merchant's answer |
| `Unsubmit`, `Charge`, `DropCheckpoint`, `DropJournal` | `pay()` after the helper, one durable step at a time |
| `Recover`, `ReadHeight`, `List`, `NoProof` | `_recover()` and `reconcileDirect()`, whose two reads are two steps |
| `ChargeFound`, `ChargeRefused`, `Release`, `ArchiveJournal`, `ArchiveCheckpoint` | what `_recover()` does with the outcome, and `_archive()` |
| `Create`, `Ready`, `NotReady` | `/prepare` and the quote's life up to `quoted` |
| `Claim`, `TurnAway`, `VerifyFails`, `AskToSettle`, `Paid`, `Unresolved` | the payment's handler; what it does without waiting is one step |
| `Crash`, `MerchantCrash`, `Age`, `Land`, `Finalize`, `Expire` | restarts, the quotes' five minutes, the chain |

`_recover()` ends with the lock held and `pay()` goes on; here it lets go of the lock,
which allows every order of requests. A checkpoint is `torn` from the moment its file
exists until it is written. A restart of the gateway ends its helper too: its service
manager stops the unit's processes together. The facilitator's receipt is taken at its
word: it names a transaction that has landed; one without a receipt may land as well,
until its blockhash expires. A confirmed block is taken to be finalized in the end.
A repeated `/prepare` of one request writes nothing and is left out. `List` sees every
transfer of the owner's; the code asks for the last thousand, so the model takes an owner
to have fewer since the payment in question.

### BaseApprovals

A row of `ops` is a row of the `operations` table, `jobs[i]` the broker's job for it.

| Action | Code |
| --- | --- |
| `Setup` | `setup()`: a limiter is deployed and recorded, the old one superseded |
| `DeviceOp`, `PrepareWallet` | `_device_op()`, `prepare_wallet()` |
| `SubmitWallet`, `SubmitPermit`, `PermitTooLate` | `submit_wallet()`, `submit_permit()` |
| `Advance`: `PreparedExpires`, `WalletTxSeen`, `WalletTxMissing`, `DeviceGaveUp`, `DeviceSigned`, `OfferAgain`, `ReceiptRefused`, `ReceiptDone`, `ReadFails`, `NotMined` | `_advance_op()`, a branch each |
| `Claim`, `Finish` | the broker's `claim()` and `finish()`; `crashed`, `answered` and `recorded` say which half of a step happened |
| `Sign`, `GiveUp`, `LosePost` | the companion's `run_once()`, and a report that gets lost |
| `WalletSends`, `Mine`, `Revert`, `SubmittedByOther`, `Purchase`, `Tick` | the owner's wallet, the mempool, a stranger who submits a permit, a purchase that draws on the allowance, time |

Every handler calls `advance()` before its own work and outside its critical section, so
`Advance` is an action that may come before any of them. Writes under `_ops_lock` are
one thread's; what a crash separates is a parameter of the step. The limiter and the
permit's nonce are read before the lock is taken, so a request may be for a limiter that
was superseded meanwhile (`Asked`) or carry an older nonce (`PrepareWallet`). A signed
approve that `verify_signed_approve()` refuses ends the request (`DeviceGaveUp`). A companion that dies
with a job looks to the broker like one that never got it. `block` and `before` are
what the check of a named transaction's age can tell: what was mined since the last
tick, and what was mined more than a minute before the request. `inForce` is history:
the allowances of the request's limiter since then. The owner's wallet sends only
approves that some request asked for, edited or not.

### BaseSpend

| Action | Code |
| --- | --- |
| `Ask`, `AnswerLost`, `ShortOfFunds`, `Retry`, `MovedAnyway`, `Answer`, `CountPayment`, `NoSettlement`, `Return` | `pay_x402()` after `_fund()` |
| `ReadHead`, `ReadOn` | `find_settlement()`: the newest block from one node, then the logs up to it from others, `LOG_RANGE` blocks at a time |
| `ClaimOrder`, `SendOrder`, `NoteTx`, `OrderMined`, `CountOrder`, `OrderFails` | `pay_transfer()` |
| `RecordClaimed`, `CountClaimed` | `_record_claimed_transfer()`, a search from the first block on |
| `ReportSpends`, `NoteChunk` | the watcher's `_watch_limiter()` and `_watch_agent()`, chunk by chunk (`_chunks()`), and their cursors |
| `ReadTables`, `NotYet`, `Unexplained`, `Alarm` | the rest of a pass: what is explained, what is too young, what is raised |
| `Crash`, `WatcherCrash`, `Mine`, `Tick` | either process dies, the chain, time |

Each read is answered by a node that may be `Lag` blocks behind. A search keeps the next
block to read (`scan`) and the newest it was told of (`latest`), and reads no block twice:
where the node that answers for a block does not have it yet, the search goes past it, as
the code does (see Findings). It may end at the end of any round, its wait being a matter
of time; a read that fails ends the call, which is `Crash` to everything else. `shown`
is history: whether every node had the transfer when the seller answered. A block holds
one transfer at most. A theft is a transfer of the agent's that nobody bought with, a stray
a spend of the active limiter to somebody else than the agent. Time is
in ticks, and `GraceAssumption` is all that is assumed of it: a call ends 120 + 6 + 120
+ 60 seconds after its payment at the latest, a pass its alarms within 160 seconds of
its reads, together less than the 600 seconds of grace. The 160 seconds are a pause's two waits; a
pass in which several alarms each wait for a pause that fails takes longer, and is outside
the assumption. A payment has to be funded
before any of this; the amounts are `AgentAllowance`'s matter.

### TrezorPurchase

| Action | Code |
| --- | --- |
| `Begin`, `Approve`, `Reserve`, `Prepare`, `Poll`, `Mirror`, `Finalize`, `GiveUp` | `TrezorPocRunner.buy()`, with `reserve_purchase_attempt()`, `bind_purchase_attempt_invoice()`, `_record_payment()` and `finalize_purchase()` |
| `Post`, `Repeat` | `create_and_schedule()`, a request for the first time and again |
| `Busy`, `Skip`, `Orphaned`, `Start` | `run_payment()` at the device's guard |
| `Sign`, `Reject`, `Refuse`, `Recheck`, `Push`, `Broadcast`, `Unclear` | `run_payment()` inside it |
| `Restart` | a sidecar is killed and started again |

`remote` chooses whether runners and sidecars share a state file. Two runners may have
one intent, whose name is a hash of the quote and the second. Checks of amounts, times
and balances are steps that may fail (`Refuse`), writes may fail (`AsFailed` and its
like keep the old state), and the network may have a transaction although it gave no
answer (`Push`). A request reaches its sidecar while the runner waits (`Post`); one that
arrives after the client gave up is not there. The runner keeps its attempt in that case,
so no purchase can begin beside it.

### BankrPurchase

| Action | Code |
| --- | --- |
| `Begin`, `Start`, `AcceptTerms`, `SendOtp` | `start()` with `create_purchase()`, `accept_terms()` |
| `Look`, `Expire` | `get_active_purchase()` and `_expire_purchase()` |
| `VerifyOtp`, `InvalidOtp`, `NoKey`, `SaveKey`, `KeyCreated`, `Commit`, `Approve`, `Disapprove`, `NoWallet`, `Reread` | `verify_otp()` and the handler's approval |
| `Resume`, `Claim`, `CheckFails`, `Transfer`, `Transferred`, `Hold` | `resume()`, `_execute_transfer()` |
| `Reconcile`, `NoBalance`, `Balance`, `TopUp`, `TopUpFails`, `CreditSeen`, `Complete` | `reconcile()`, `_top_up_from_funded_wallet()`, `_complete_purchase()` |
| `AskForKey`, `Deliver` | `credits()` and `_deliver_completed_key()` |
| `SweepLook`, `SweepSettle`, `SweepFails` | `settle_if_credited()` in the background |
| `Die`, `TimeOut`, `Land` | a request dies, the code's time is over, Bankr credits a top-up |

`saw[c]` is the state in which call `c` read its row. Every write is a compare-and-set
on it (`Write`), so a row that moved meanwhile is left alone. A verify call
then returns the row as it finds it (`Verify`, `Answer`), and the handler resumes one that
is approved (`Reread`); any other call ends (`Advance`). `create_purchase()` may return the
row that another call has just made, which is then mailed for (`Start`). `owed` and `credited` tell a top-up Bankr has taken from one that has
landed. The balance of the Bankr account is that of one purchase: other purchases of
the same account, which the code tells apart by a balance read before the top-up, are
left out.

## Runs

| Run | Instance | Result |
| --- | --- | --- |
| `agent_allowance` | one limiter, two amounts for caps, spends up to 3, three days of two ticks, three references | passes, 164,184 states |
| `solana_budget` | two purchases and one question in two processes, two orders, two pairs of limits, two days | passes, about 1.2 million states |
| `solana_refusal` | the same with `RefusalIsFinal = FALSE` | the violation described under Findings |

One limiter is enough because limiters share only the owner's balance, which the
run changes at will. Three days are enough for a counter to be written, skipped
and read again, and two ticks make a window of one day's length straddle a
midnight. Two purchases are enough to fill a day and to collide on an order; the
question adds the hold that crosses midnight. Two days hold the only midnight a
call can see. The limits are chosen so that the tighter pair (1 a day, 1 per
purchase) refuses what the wider pair (2, 2) admits, and the wider pair is the
server's ceiling, so the cap is reached and every extra unit would show.
`CHECK_DEADLOCK FALSE` stands in every other run because calls, days, requests
and restarts are used up. In `agent_allowance` the owner may always move money, so it never stops.

`solana_stop` and `solana_lift` share a second module:

| Run | Instance | Result |
| --- | --- | --- |
| `solana_stop` | two requests at a time, two ops (grants or gas transfers), blockhashes of two slots, the owner's stop | passes, 3.8 million states up to symmetry |
| `solana_lift` | the same with grants only | the violation described under Findings |

Two ops are enough for one before and one after a stop, in one slot or in two,
for two stops, and for two transfers that compete; two requests are enough for
one to write between another's read and its write. A revoke takes a grant's steps and
lifts nothing, so grants stand for both; the theorems are about all three kinds. A
blockhash lives one slot more than its own, so that it can be landed on and can expire.

| Run | Instance | Result |
| --- | --- | --- |
| `ask_solana` | two questions, one delivered twice, under `FairSpec` | passes, 309,594 states |
| `ask_recovery` | the same | the violation described under Findings |

Two questions are enough for one to recover what the other left behind and for a late
`/prepare` or payment of the first to meet the quote of the second; a third would find
the files of one of them. Two deliveries are enough for one to be answered while the
other is settled. The fairness is of the gateway going on (a helper is killed at 240
seconds), of users who ask again (`Recover`), of nodes that answer now and then even if
crashes never end (strong fairness of the recovery's steps), and of the chain's growing
height. The merchant is not assumed to answer at all, nor a payment to land.

| Run | Instance | Result |
| --- | --- | --- |
| `base_approvals` | two requests, two limiters, two signed transactions, one way of approving per owner | passes, 618,513 states |
| `base_spend` | two identical payments, or a payment and a theft, an order and a theft, a theft and a stray; three blocks, nodes one behind, one restart of the watcher | passes, 345,846 states |
| `base_unpaid` | two identical payments, four blocks | the violation described under Findings |
| `trezor_purchase` | three runners, two intents, two sidecars, two restarts | passes, 86,934 states up to symmetry |
| `bankr_purchase` | three requests at a time and the sweep on one purchase, two codes | passes, 515,088 states |

*`base_approvals`.* Two requests are enough for an older transaction to be named by a
newer one and for a job to be left by a crash before another is made; two transactions
for a job signed twice, for an approve that overtakes another and for a permit beside
its copy. An owner keeps to one way of approving (`Habits`), as a page offers what the
wallet supports. Both waits last one tick, and a count of ticks matters up to one more.
The fairness: time passes; the owner's page or chat keeps asking, and each of its
requests starts with `advance()`; the companion keeps polling, and its reports do not
all get lost. Neither the wallet nor the chain is assumed to do anything.

*`base_spend`.* Two payments are all it takes to confuse one's transfer with the
other's, and an order can be tried any number of times. Two of three blocks can hold a
transfer: one for each payment, or one for a purchase and one for the theft beside it;
the last is empty, so that every read gets past the others. An `eth_getLogs` reads one
block, so that a search takes several. `Baskets` keeps what the owner does apart, as it
shares only the watcher, which each basket with a theft keeps as busy. The fairness: blocks
go on, a call reaches its result or a timeout, the watcher passes every half minute
and its nodes are up to date now and then (strong fairness of `CatchUp` and
`CatchUpSpends`).

*`trezor_purchase`.* Three runners are enough for two to overlap while a third's
purchase comes between, and two intents for two of them to share one. Two sidecars and
two restarts let a row be found by a thread that did not write it, twice.

*`bankr_purchase`.* Three requests are the two that compete and the one whose step they
compete over; two codes are a wrong one and a last one. The fairness is the sweep's
alone: it runs on a thread that outlives every error, and Bankr answers it now and
then. It looks at a purchase for a week and at the twenty oldest, so `PaidSettles` is
about a purchase within that week and a gateway with fewer open ones.

## Properties

*Limiter.* `DailyCapHolds` (per UTC day, against what the chain moved),
`QuoteIsExact`, `RefPaysOnce`, `TwoCapsInAnyDayLong` (any window one day long,
the bound the contract's comment accepts), `StopIsFinal`, `ImplementsBudget`.

*Ledger.* `DayWithinCap` (rows stamped on a day and holds open by then stay
within the server's ceiling), `Covered` (money that moved or may move is
counted, for at least what moves), `OrderPaidOnce`, `TwoCapsInAnyDay` (what the
chain moves in one day, late transfers included), `StopHolds` (no reservation
after a stop), `LimitsInForce` (a reservation fits the limits of the moment it
is made).

*Approvals.* `LiftedBySignedAfter` (what lifts a stop was signed after it),
`OneGasTransfer` (no two gas transfers can both still land), `GasRecord` (a row
says what became of its transfer). That a gas transfer without an outcome gets one in the
end is left to the polls and not checked.

*Questions.* `CountedWhileOpen` (the hold or its charge is there as long as the payment
may land or has), `OnePaymentOpen` (no second payment while the first one's fate is
unknown), `SettledOnce` (a quote's settlement is asked for once), `OneLiveQuote`,
`HoldsResolve` (no hold eats the day's room for ever), `ImplementsHold` and, for the
ledger's view of a question, `AsksImplementHold`: both modules implement `MeteredHold`.

*Base approvals.* `OfferedAsRecorded` (the network gets the one signed approve a device
request has on record), `DoneTookEffect` (a request that ends DONE had its amount in
force since it was made), `EveryRequestEnds` (an open request refuses all later ones, so
none stays open).

*Base purchases.* `OrderSentOnce` (however often it is tried), `ShownIsFound` (a transfer
that every node has at the seller's answer is found by the search, whichever nodes it
reads and although an identical purchase's is in its way),
`PaidIsNotAlarmed` (what an ok call was credited with pauses nothing),
`EveryOutflowAnswered` (every outflow is counted or raised in the end, and every spend
past the agent is raised though the watcher dies over it).

*Hardware wallet.* `PurchasesInSequence` (a paid purchase's runner had seen every
earlier one in the log before it asked its user) and `ApprovalSpentOnce` (an approved
intent reaches the network once, and what is recorded as cancelled or failed never).

*Bankr.* `TransferOnce` (the tokens leave once, and never in a purchase said to have
moved none), `KeyGivenOnce` (one answer carries the API key), `PaidSettles` (a credit
that landed completes its purchase although nobody asks).

Refuted, each by a run of its own: `TakenBackNeverMoved`, `LiftedByConfirmed`,
`ChainDecides` and `DeliveredIsPaid` state what the code says of itself (see Findings).

The type invariants of `AgentAllowance`, `TrezorPurchase` and `BankrPurchase` are
theorems and have no run.

## Proofs

`AgentAllowanceProofs` proves type correctness and, from it, `CounterInv`: the
counter is the running total of the day it was last written on, no later day has
moved anything, and every day is within the cap. Without the second part the
lazy reset could hide a day that had already moved money. `DailyCapHolds` and
`QuoteIsExact` follow from it; `RefInv` (every logged reference is used up) gives
`RefPaysOnce`; `StopIsFinal` and the refinement of `SpendBudget` follow step by
step. `TwoCapsInAnyDayLong` needs `LogInv`, that the events of a day add up to no more
than the record of the day; a window one day long meets two days at most (`TwoDays`).
All of it holds for any set of limiters, amounts and days, under `ClockAssumption`
and `AmountAssumption`.

`SolanaBudgetProofs` proves every property `solana_budget` checks, for any sets of
purchases, questions, processes and orders, any amounts and any number of days.
`BookInv` says what each stage of a call implies for its booking and its transfer,
and everything else rests on it. `Covered` is not inductive by itself: that a
transfer's booking is never dropped follows from the stage of the call that drops
it, and that a settlement fits its hold from the hold being as large as the charge.
For `DayWithinCap`, `LedgerStep` splits the steps in two: one books a single call
after checking the room, all others only shrink, re-stamp or drop bookings that
were counted already (a hold counts on every day until it is settled, so turning
it into a row of today adds nothing). `OrderPaidOnce` needs `OrderInv` (an attempt
owns its order's claim), `StopHolds` and `LimitsInForce` follow step by step.
`TwoCapsInAnyDay` combines the three: a call that can still move money was booked
today or yesterday (`TimeInv`), each transfer is counted for at least what it moves
(`Covered`), and each of the two days' counts is within the cap (`DayWithinCap`).
`Covered` and `TwoCapsInAnyDay` assume `RefusalIsFinal`; the others do not. A question's
merchant drops what it refuses, so `AsksImplementHold` needs no such assumption: `AskInv`
ties a question's transfer to its hold or row, and `AskMoves` lists what a step may do
to the two, each a step of `MeteredHold` or none.
The sums of the ledger are cardinalities of sets of units, and the lemmas about
them (one more booking, one less) rest on the library's theorems on finite sets.

`SolanaApprovalsProofs` proves type correctness and `LiftedBySignedAfter` for any
number of requests, ops and slots. The invariant is `StopInv`: every signature is
for the blockhash of some op, of one before the last stop if it was made before
it; a row's bound blockhash is that of the signature on record; and a request
submits a signature of its op's kind. A row that lifts a stop has a blockhash that
no op before the stop has, so its signature was made after. `Grows` (rows are never
deleted and keep kind and blockhash) carries it from step to step.

`OneGasTransfer` and `GasRecord` are proved from `GasInv`. That one gas op at most has no
outcome is what the claim checks, but a transfer that may still land could belong to an op
that is over. `LandInv` says it does not: whatever the chain has is on some op's record,
and while it may land that op waits. To keep this, `ClaimInv` says what a request at the
helper relies on: it alone has claimed its op, its transfer is the one on record, and
before it is sent it is either unsent with its op waiting, or over. So a helper that
refuses leaves nothing behind that could land, a poll's answer is about the transaction on
record, and a request that sends late, after its op has been settled by a poll, sends what
cannot land any more. Twins (two ops with one transaction) are why `GasRecord` has
its second case. The proof first sums the steps up: what any step may do to one request,
one row, one transaction (`StepMoves`), and that one request moves at a time (`OnlyOne`).
The four parts of the invariant are then shown from these moves alone (`TxStep`,
`ClaimStep`, `LandStep`, `RecordStep`).

`AskSolanaProofs` proves every safety property of `ask_solana` and the refinement, for
any number of requests and of deliveries of each. The invariant has three parts. `QuoteInv`
follows a quote's life: a payment that is being verified holds the quote's only claim, a
refused answer means the quote is over, and a transaction the facilitator has is one whose
quote is claimed. `FileInv` ties the files to the ledger: the only open hold is the
journal's, and without a checkpoint its payment was refused or never built (`NeverPaid`).
`StageInv` is what each step of the lock's holder relies on, a crash being always allowed.
`CountedWhileOpen` is not inductive without all three: that recovery may free a hold whose
checkpoint is gone rests on `FileInv`, that a refusal may on `QuoteInv`, and that an
expired payment which is not listed never landed on the order of the two chain reads
(`StageInv` at `listing`). The proof splits the steps in two. Those of the merchant and
the chain (`WorldStep`) leave files and ledger alone and let no payment land that could
not before; those of the account leave the merchant and the chain alone but for three
(`OwnStep`). `HoldsResolve` stays with TLC: it is a liveness property.

`TrezorPurchaseProofs` proves type correctness and both properties for any number of
runners, intents, sidecars and restarts. `RowInv` ties a thread to its row: who holds
the device knows the row's state, and the network has nothing of a row whose transaction
is not stored yet. `IntentInv` says that rows have different intents, `LockInv` that one
runner at most is between its reservation and its end, with the attempt its own and the
log as it saw it at first; a payment outside the log still has the attempt. From these
`SeqInv`, which is `PurchasesInSequence` for rows instead of payments. That the runner's
own rows look settled (`Unresolved`) is not needed: the attempt and the generation
alone keep the sequence. `LastSteps` and `InnerKeeps` sum up how a thread ends and goes
on; `RunKeeps`, `LockKept` and `PostKeeps` are the runner's part.

`BankrPurchaseProofs` proves type correctness, `TransferOnce` and `KeyGivenOnce` for any
number of requests, purchases and codes. `SawInv` says what each step knows of the state
its call read, `MoneyInv` that a call about to transfer is the only one and its row
beyond the states in which nothing has moved, `KeyInv` that a key is out only in a
COMPLETE purchase, which no compare-and-set moves again. Every step of a call does one
of four things: it leaves the row (`QuietSteps`), ends with a write (`FinalSteps`),
goes on after one (`OnwardSteps`) or is a first step (`EarlySteps`).

`BaseApprovalsProofs` proves type correctness, `OfferedAsRecorded` and `DoneTookEffect`,
for any number of requests, limiters, transactions, reports and ticks. `JobInv` says
that every result of a device is its job's, and a job what its row asked for; `SentInv`
that a node has been offered nothing for a device request but the transaction its row
names, and while the row is open that is the job's result, which no later report
changes; `PermitInv` and `WalletInv` tie what a permit or a named approve sets to its
row. `OfferedAsRecorded` is a part of `SentInv`. `DoneTookEffect` needs `ForceInv`: at
most one request is open, and everything mined on its limiter since a minute before it
was made, and what the limiter has now, is in the history `inForce`. A request ends DONE
by a mined transaction: its own (`DoneByReceipt`), which is not older than that minute,
so its amount is in the history (`ReceiptInForce`); the check of a named transaction's
age is what keeps older ones out. As for gas, `StepMoves` sums up what any step does to
one row, one job, one transaction and the reports.

`BaseSpendProofs` proves type correctness, `OrderSentOnce`, `PaidIsNotAlarmed` and
`ShownIsFound`, for any number of payments, orders, thefts, blocks and restarts.
`OrderInv` says that an order has no second transfer and a first one only under its
claim, and none yet while its claim is fresh. `FreshInv` says that of a purchase whose
settlement is still looked for nothing is counted; so a node that shows its transfer
offers one that may be counted. `SearchInv` follows the cursor: a transfer that every
node had when the search began is in a block not read yet and no newer than the newest
block any node tells of, so the search neither passes it over nor ends before it. The two
give `ShownIsFound`; nothing like it holds for a transfer mined later (`DeliveredIsPaid`,
see Findings). `PaidIsNotAlarmed` rests
on time. `AgeInv` says that the watcher's clock for a transfer started once the margin
was past, that one which the call in hand may still count is no older than the call, and
that one counted in time is no older than a call and the pass so far; `RaiseInv` that a
transfer resolved with nothing counted for it is older than anything a call may count
from now on, so that no later settlement takes it. With `GraceAssumption` (a call and a
pass fit in the grace period) nothing is both raised and counted by a call in time.
`MarginAssumption` (a node lags no more than `HEAD_MARGIN_BLOCKS`, as the comment on
that constant says) is what makes a transfer the watcher has seen one that every node
shows. `NamesAssumption` only says that payments, orders, thefts and strays have
different names.

Liveness is out of the prover's reach and stays with TLC: `HoldsResolve`,
`EveryRequestEnds`, `EveryOutflowAnswered` and `PaidSettles`. Every other property of
every passing run is a theorem. `RefusalIsFinal`, which `Covered` and `TwoCapsInAnyDay`
assume, is the one assumption that code outside the repository may break (see Findings).

## Findings

`solana_refusal`: a seller answers 402 to a signed payment; the helper reads the
owner's balance, finds it not lower than before, and `spend()` drops the row. The
signed transfer is valid until its blockhash expires, and a deposit can hide one
that has landed: the room is free again and the money leaves. The docstring of
`spend` promises that the count is taken back "only when the payment surely did
not leave".

`solana_lift`: two requests submit different signatures for one approval, one signed
before the stop and one after. The first is recorded UNCERTAIN and a poll asks the
chain about it; meanwhile the second writes its own signature and blockhash on the
row, also UNCERTAIN; the first is confirmed, and `finish_pending_op()`, which goes by
the op's id and state, marks the row DONE. The stop is lifted by a row whose
signature was never confirmed, where the documentation says only a confirmed one
resumes. `LiftedBySignedAfter` still holds: the owner did sign it after the stop.

`ask_recovery`: the gateway dies after `settle_metered()` and before the checkpoint is
removed. Every later recovery reads "paid" from the chain and asks for the settlement
of a hold that is a row already, which is refused, so the account's questions stay
blocked; so they do after a crash between the two moves of the archive. Nothing is
miscounted (`ImplementsHold`, `HoldsResolve`), but the docstring of `_recover` and the
documentation promise that the next request settles it up.

`base_unpaid`: `find_settlement()` asks one node for the newest block and another for its
logs. The second does not have the block yet and shows nothing, and the cursor moves past
it: each block is read once. The seller has delivered and the transfer is in that block;
later rounds learn of newer blocks, when every node has it, and do not read it again. The
call ends unpaid, where the code says a delivery is looked for "until it shows". Nothing
is lost to the watcher, which raises the transfer and pauses the limiter in the end. The
watcher reads its own logs behind a margin of two blocks because "load-balanced nodes lag
the newest block by one or two"; the search has no margin.

The search in the six seconds before the one retry goes the same way, so the retry may be a
second charge, where the code says "never a second charge".

## Observations

What the models show beside the findings, without a run of its own.

- *Approvals on Base.* `_advance_op` says "A transient failure leaves it where it is",
  which holds for the receipt; a failed read after it ends the request as FAILED
  (`ReadFails`), although the allowance is set. The companion's comment that a job
  "expires on the broker anyway" holds for a queued one: a leased one is handed out
  until it is reported. A permit that was sent and not recorded ends EXPIRED although
  the allowance may be set. In each case the chain is right and the record is behind.
- *Spending on Base.* A client killed at 120 seconds leaves a transfer nobody counts,
  and the watcher then pauses the limiter. The one retry may also be a second charge when
  the first transfer is mined after the six seconds. Neither escapes the watcher
  (`EveryOutflowAnswered`).
- *Watcher.* An outflow is resolved before it is raised, so a crash in between loses its
  alarm (`lost`). A crash before the cursor moves has a chunk seen twice, where
  `_chunks` says "nothing is skipped or seen twice"; for outflows a row that is there
  stays, and a spend past the agent is raised twice rather than not at all. Only active
  limiters are watched: a spend of a superseded one past the agent raises nothing.
- *Hardware wallet.* A runner that gives up keeps the attempt, which keeps every later
  one out until the user resolves it: by design. A repeated request does not reconcile a
  row left at TX_SIGNED, and a thread that finds the device taken leaves its row waiting.
- *Bankr.* A request after the code's time expires the active purchase it finds, in any
  state: one whose tokens are being moved or topped up becomes EXPIRED, and its buyer
  reads that no funds moved. This is why `TransferOnce` leaves EXPIRED out and
  `PaidSettles` allows it. A verify call that saw AWAITING_TRANSFER may hold another
  call's transfer for reconciliation before its hash is there. Two reconciles may each
  top up. The sweep's twenty oldest can keep a newer purchase out until they are a week
  old.

## Plan

1. `AgentAllowance` (done) and 2. `SolanaBudget` (done): the caps on both chains.
3. `SolanaApprovals` (done): what lifts a stop, and gas transfers.
4. `AskSolana` (done): the journal, the checkpoint, the archive and the merchant's
   quotes, with a crash between any two steps.
5. `BaseApprovals` (done): grants and revokes by device, wallet and permit, with the
   broker and the companion.
6. `BaseSpend` (done): the retry, settlements, transfer claims and the watcher's
   outflows. Left: the amounts and gas of `_fund()`, the watcher's count of spends per hour.
7. `TrezorPurchase` (done) and 8. `BankrPurchase` (done), with their theorems.
9. `PaymentAttempts`: the Solana helper's `attempts` and `reconcile`, one unresolved
   attempt per payer.
10. The Bitrefill runner's records, starter credit, metered questions on Base, Ledger
    and message approvals.

Theorems: every safety and action property checked by a passing run has one. New
modules come with theirs by the same pattern (type correctness, an invariant tying steps
to records, one lemma for what every step does to one record).

## Not modelled

Cryptography, signature checks and transaction parsing are taken at their
result: a message the code accepts is one it accepts. HTTP, authentication,
language-model tools, prices, receipts' text and analytics are left out: none of
them changes the state these properties are about. On Base, the return of the
agent's float after a revoke, the limiter's own limits (they are `AgentAllowance`'s),
the enrolment of companions, the pairing of devices and the broker's other jobs are
left out as well. The components left to the
plan or left out for good are in `PROJECT.json` with the reason.

## Checking

    tlc -workers 2 -config MC_AgentAllowance.cfg MC_AgentAllowance
    tlc -workers 2 -config MC_SolanaBudget.cfg MC_SolanaBudget
    tlc -workers 2 -config MC_SolanaRefusal.cfg MC_SolanaBudget
    tlc -workers 2 -config MC_SolanaStop.cfg MC_SolanaApprovals
    tlc -workers 2 -config MC_SolanaLift.cfg MC_SolanaApprovals
    tlc -workers 2 -config MC_AskSolana.cfg MC_AskSolana
    tlc -workers 2 -config MC_AskRecovery.cfg MC_AskSolana
    tlc -workers 2 -config MC_BaseApprovals.cfg MC_BaseApprovals
    tlc -workers 2 -config MC_BaseSpend.cfg MC_BaseSpend
    tlc -workers 2 -config MC_BaseUnpaid.cfg MC_BaseSpend
    tlc -workers 2 -config MC_TrezorPurchase.cfg MC_TrezorPurchase
    tlc -workers 2 -config MC_BankrPurchase.cfg MC_BankrPurchase
    tlapm AgentAllowanceProofs.tla
    tlapm SolanaBudgetProofs.tla
    tlapm SolanaApprovalsProofs.tla
    tlapm AskSolanaProofs.tla
    tlapm BaseApprovalsProofs.tla
    tlapm BaseSpendProofs.tla
    tlapm TrezorPurchaseProofs.tla
    tlapm BankrPurchaseProofs.tla
