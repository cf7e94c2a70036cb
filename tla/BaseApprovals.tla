--------------------------- MODULE BaseApprovals ---------------------------
(***************************************************************************)
(* Grants and revokes of the Base allowance lane, for one owner: the       *)
(* `operations` table of sign402_gateway/agent_allowance.py with every     *)
(* transition of _advance_op, the signing jobs of trezor_sidecar's broker  *)
(* (broker_store.py), the companion on the owner's computer that polls for *)
(* them (companion.py), and the chain: approves and permits that wait in   *)
(* the mempool, land, revert, or are never seen again.                     *)
(*                                                                         *)
(* An owner approves a limiter in one of three ways, the op's `method`:    *)
(* "device" (a job signs on the Trezor and the gateway sends the bytes),   *)
(* "approve" (the wallet sends a transaction and the page names it) and    *)
(* "permit" (the wallet signs typed data and the gateway sends it).        *)
(*                                                                         *)
(* Each handler calls advance() first, outside its own critical section;   *)
(* it is the action Advance, which may come before any of them.  A refusal *)
(* that changes nothing is no action.  Writes under _ops_lock are steps of *)
(* one thread, so a crash is the step that does only the first of two.     *)
(***************************************************************************)
EXTENDS Naturals, FiniteSets

CONSTANTS Limiters,       \* the owner's limiters, deployed or not yet
          FirstLimiter,   \* the one that is active at first
          GrantAmounts,   \* the amounts an owner asks for
          MaxGrant,       \* max_grant
          WalletAmounts,  \* the amounts a wallet may put into an approve
          Habits,         \* BOUND: the sets of methods one owner may use
          MaxOps,         \* BOUND on the rows of the operations table
          MaxTxs,         \* BOUND on the approves and permits ever signed
          MaxPosts,       \* BOUND on the companion's reports on their way
          WalletPrepareTicks,  \* WALLET_PREPARE_SECONDS in clock ticks
          DeviceJobTicks       \* DEVICE_JOB_SECONDS in clock ticks

ASSUME AmountsAssumption == /\ GrantAmounts \subseteq 1..MaxGrant
                            /\ WalletAmounts \subseteq Nat
                            /\ MaxGrant \in Nat
ASSUME LimiterAssumption == FirstLimiter \in Limiters
ASSUME ClockAssumption == /\ WalletPrepareTicks \in Nat \ {0}
                          /\ DeviceJobTicks \in Nat \ {0}
ASSUME HabitsAssumption == Habits \subseteq SUBSET {"device", "approve", "permit"}
ASSUME BoundAssumption == MaxOps \in Nat /\ MaxTxs \in Nat /\ MaxPosts \in Nat

Requests == 1..MaxOps
Txs == 1..MaxTxs
None == 0
Amounts == {0} \cup GrantAmounts \cup WalletAmounts

\* A count of ticks that matters only up to the longest wait.
LongestWait == IF WalletPrepareTicks < DeviceJobTicks
               THEN DeviceJobTicks ELSE WalletPrepareTicks
Ages == 0..LongestWait + 1
Later(age) == IF age > LongestWait THEN age ELSE age + 1

OpenStates == {"PREPARED", "SUBMITTED", "WAITING_DEVICE", "BROADCAST"}
OpStates == OpenStates \cup {"none", "DONE", "FAILED", "EXPIRED"}
JobStates == {"none", "QUEUED", "LEASED", "SUCCEEDED", "FAILED", "EXPIRED"}

VARIABLES methods,      \* the methods this owner uses
          ops,          \* the operations table: a row per request
          active, known, \* the limiters table: the ACTIVE one, all of them
          jobs,         \* the broker's jobs table, by the request of the key
          working,      \* the job the companion has claimed, or None
          posts,        \* the companion's complete and fail calls on their way
          txs,          \* every approve and permit ever signed
          allowance,    \* USDC.allowance(owner, limiter)
          permitNonce,  \* USDC.nonces(owner)
          block,        \* the transactions that took effect since the last tick
          before,       \* mined more than a minute before the open request
          inForce       \* history: what the allowance of the request's limiter
                        \* has been since that minute before it was made

table == <<methods, ops, active, known>>
broker == <<jobs, working, posts>>
chain == <<txs, allowance, permitNonce, block>>
vars == <<table, broker, chain, before, inForce>>

NoOp == [state |-> "none", kind |-> "GRANT", limiter |-> FirstLimiter,
         amount |-> 0, method |-> "device", tx |-> None, nonce |-> 0, since |-> 0]
NoJob == [state |-> "none", limiter |-> FirstLimiter, amount |-> 0,
          tx |-> None, age |-> 0]
NoTx == [status |-> "none", kind |-> "approve", limiter |-> FirstLimiter,
         amount |-> 0, nonce |-> 0, request |-> None]

Op == [state: OpStates, kind: {"GRANT", "REVOKE"}, limiter: Limiters,
       amount: Amounts, method: {"device", "approve", "permit"},
       tx: Txs \cup {None}, nonce: 0..MaxTxs, since: Ages]
Job == [state: JobStates, limiter: Limiters, amount: Amounts,
        tx: Txs \cup {None}, age: Ages]
Tx == [status: {"none", "signed", "pooled", "mined", "reverted"},
       kind: {"device", "approve", "permit"}, limiter: Limiters,
       amount: Amounts, nonce: 0..MaxTxs, request: Requests \cup {None}]
Post == [job: Requests, ok: BOOLEAN, tx: Txs \cup {None}]

\* The type invariant.
TypeOK ==
  /\ methods \in Habits
  /\ ops \in [Requests -> Op]
  /\ \A i \in Requests : ops[i].state \in {"SUBMITTED", "BROADCAST"} => ops[i].tx # None
  /\ active \in Limiters
  /\ known \subseteq Limiters
  /\ jobs \in [Requests -> Job]
  /\ working \in Requests \cup {None}
  /\ posts \subseteq Post
  /\ txs \in [Txs -> Tx]
  /\ allowance \in [Limiters -> Nat]
  /\ permitNonce \in 0..MaxTxs
  /\ block \subseteq Txs
  /\ before \subseteq Txs
  /\ inForce \subseteq Nat

Init ==
  /\ methods \in Habits
  /\ ops = [i \in Requests |-> NoOp]
  /\ active = FirstLimiter
  /\ known = {FirstLimiter}
  /\ jobs = [i \in Requests |-> NoJob]
  /\ working = None
  /\ posts = {}
  /\ txs = [t \in Txs |-> NoTx]
  /\ allowance = [l \in Limiters |-> 0]
  /\ permitNonce = 0
  /\ block = {}
  /\ before = {}
  /\ inForce = {}

-----------------------------------------------------------------------------
(* The operations table                                                    *)

OpenOps == {i \in Requests : ops[i].state \in OpenStates}

NextRequest(i) ==
  LET Used(j) == ops[j].state # "none" \/ jobs[j].state # "none"
  IN  /\ ~Used(i)
      /\ \A j \in 1..(i - 1) : Used(j)

NextTx(t) ==
  /\ txs[t].status = "none"
  /\ \A u \in 1..(t - 1) : txs[u].status # "none"

\* A request is made now: what is in the chain since before the last tick is
\* older than it.
Opened(l) ==
  /\ before' = {t \in Txs : txs[t].status = "mined"} \ block
  /\ inForce' = {allowance[l]} \cup {txs[t].amount : t \in {u \in block : txs[u].limiter = l}}

\* update_op: the new fields, and updated_at.
UpdateOp(i, row) == ops' = [ops EXCEPT ![i] = [row EXCEPT !.since = 0]]

Close(i, state) ==
  /\ UpdateOp(i, [ops[i] EXCEPT !.state = state])
  /\ before' = {} /\ inForce' = {}

\* What the handlers ask for: a revoke is for any limiter of the owner's, a grant for
\* the one that was active when the call read the table, before it has the lock.
Asked(kind, l, a) ==
  /\ l \in known
  /\ \/ kind = "GRANT" /\ a \in GrantAmounts
     \/ kind = "REVOKE" /\ a = 0

\* setup: a new limiter is deployed, verified and recorded; the old one is
\* SUPERSEDED and keeps what the owner granted it.
Setup(l) ==
  /\ l \notin known
  /\ known' = known \cup {l}
  /\ active' = l
  /\ UNCHANGED <<methods, ops, broker, chain, before, inForce>>

\* _device_op: no open request; a job is created, then the row.  A crash
\* between the two leaves a job that no request waits for.
DeviceOp(i, kind, l, a, crashed) ==
  /\ "device" \in methods
  /\ Asked(kind, l, a)
  /\ OpenOps = {}
  /\ NextRequest(i)
  /\ jobs' = [jobs EXCEPT ![i] = [NoJob EXCEPT !.state = "QUEUED", !.limiter = l, !.amount = a]]
  /\ IF crashed
     THEN UNCHANGED <<ops, before, inForce>>
     ELSE /\ ops' = [ops EXCEPT ![i] = [NoOp EXCEPT !.state = "WAITING_DEVICE", !.kind = kind,
                                                   !.limiter = l, !.amount = a]]
          /\ Opened(l)
  /\ UNCHANGED <<methods, active, known, working, posts, chain>>

\* prepare_wallet: a request that waits for its wallet is replaced by a newer
\* one; any other open request refuses it.  The nonce of a permit was read before
\* the lock, too.
PrepareWallet(i, kind, l, a, method) ==
  /\ method \in methods
  /\ Asked(kind, l, a)
  /\ \A j \in OpenOps : ops[j].state = "PREPARED"
  /\ NextRequest(i)
  /\ \E nonce \in IF method = "permit" THEN 0..permitNonce ELSE {0} :
       ops' = [j \in Requests |->
                 CASE j = i -> [NoOp EXCEPT !.state = "PREPARED", !.kind = kind, !.limiter = l,
                                  !.amount = a, !.method = method, !.nonce = nonce]
                   [] j \in OpenOps -> [ops[j] EXCEPT !.state = "EXPIRED", !.since = 0]
                   [] OTHER -> ops[j]]
  /\ Opened(l)
  /\ UNCHANGED <<methods, active, known, broker, chain>>

\* submit_wallet: op_by_tx.
NotCountedElsewhere(t) == \A j \in Requests : ops[j].tx # t

\* submit_wallet: the page names the transaction its wallet sent.
SubmitWallet(i, t) ==
  /\ ops[i].state = "PREPARED"
  /\ ops[i].method = "approve"
  /\ txs[t].status \in {"pooled", "mined", "reverted"}
  /\ NotCountedElsewhere(t)
  /\ UpdateOp(i, [ops[i] EXCEPT !.state = "SUBMITTED", !.tx = t])
  /\ UNCHANGED <<methods, active, known, broker, chain, before, inForce>>

\* submit_permit: past its deadline the request expires; otherwise a permit
\* signed for the nonce on the chain is sent, then recorded.  A crash between
\* the two, or a reply of the node that is lost, leaves the row PREPARED.
PermitTooLate(i) ==
  /\ ops[i].state = "PREPARED"
  /\ ops[i].method = "permit"
  /\ ops[i].since >= WalletPrepareTicks
  /\ Close(i, "EXPIRED")
  /\ UNCHANGED <<methods, active, known, broker, chain>>

SubmitPermit(i, t, recorded) ==
  /\ ops[i].state = "PREPARED"
  /\ ops[i].method = "permit"
  /\ ops[i].since < WalletPrepareTicks
  /\ permitNonce = ops[i].nonce
  /\ NextTx(t)
  /\ txs' = [txs EXCEPT ![t] = [status |-> "pooled", kind |-> "permit", limiter |-> ops[i].limiter,
                                amount |-> ops[i].amount, nonce |-> ops[i].nonce, request |-> i]]
  /\ IF recorded
     THEN UpdateOp(i, [ops[i] EXCEPT !.state = "BROADCAST", !.tx = t])
     ELSE UNCHANGED ops
  /\ UNCHANGED <<methods, active, known, broker, allowance, permitNonce, block, before, inForce>>

-----------------------------------------------------------------------------
(* _advance_op: one step of one open request                               *)

\* PREPARED, and nobody submitted in time.
PreparedExpires(i) ==
  /\ ops[i].state = "PREPARED"
  /\ ops[i].since > WalletPrepareTicks
  /\ Close(i, "EXPIRED")
  /\ UNCHANGED <<methods, active, known, broker, chain>>

\* _wallet_tx_amount: an approve of this limiter, for an amount the kind of
\* request allows.
AsPrepared(i, t) ==
  /\ txs[t].kind = "approve"
  /\ txs[t].limiter = ops[i].limiter
  /\ IF ops[i].kind = "REVOKE" THEN txs[t].amount = 0 ELSE txs[t].amount \in 1..MaxGrant

AmountSigned(i, t) == txs[t].amount

\* SUBMITTED: the node shows the transaction, or it has not for too long.
WalletTxSeen(i) ==
  LET t == ops[i].tx
  IN  /\ ops[i].state = "SUBMITTED"
      /\ IF AsPrepared(i, t)
         THEN /\ UpdateOp(i, [ops[i] EXCEPT !.state = "BROADCAST", !.amount = AmountSigned(i, t)])
              /\ UNCHANGED <<before, inForce>>
         ELSE Close(i, "FAILED")
      /\ UNCHANGED <<methods, active, known, broker, chain>>

WalletTxMissing(i) ==
  /\ ops[i].state = "SUBMITTED"
  /\ txs[ops[i].tx].status = "pooled"      \* and this node has dropped it
  /\ ops[i].since > WalletPrepareTicks
  /\ Close(i, "FAILED")
  /\ UNCHANGED <<methods, active, known, broker, chain>>

\* expires_at <= now, for a job of the gateway.
JobExpired(j) == jobs[j].age >= DeviceJobTicks

\* Mutant: the result is not stored with the state.
EndJobBare(j, state, t) == jobs' = [jobs EXCEPT ![j] = [jobs[j] EXCEPT !.state = state, !.age = 0]]

EndJob(j, state, t) == jobs' = [jobs EXCEPT ![j] = [jobs[j] EXCEPT !.state = state, !.tx = t, !.age = 0]]

\* WAITING_DEVICE, and the job ended without a signature, or with one that
\* verify_signed_approve refuses.  Reading a job expires it if nobody claimed it in time.
DeviceGaveUp(i) ==
  /\ ops[i].state = "WAITING_DEVICE"
  /\ \/ jobs[i].state \in {"EXPIRED", "FAILED", "SUCCEEDED"} /\ UNCHANGED jobs
     \/ jobs[i].state = "QUEUED" /\ JobExpired(i) /\ EndJob(i, "EXPIRED", None)
  /\ Close(i, "FAILED")
  /\ UNCHANGED <<methods, active, known, working, posts, chain>>

\* _broadcast: the node takes the bytes, or the call gets lost, or it refuses.
Offer(t, taken) ==
  IF taken /\ txs[t].status = "signed"
  THEN txs' = [txs EXCEPT ![t].status = "pooled"]
  ELSE UNCHANGED txs

\* WAITING_DEVICE, and the device signed: recorded as BROADCAST, then sent.
\* The second write is there when the node refuses it.
DeviceSigned(i, taken, refused) ==
  LET t == jobs[i].tx
  IN  /\ ops[i].state = "WAITING_DEVICE"
      /\ jobs[i].state = "SUCCEEDED"
      /\ ~(taken /\ refused)
      /\ UpdateOp(i, [ops[i] EXCEPT !.state = IF refused THEN "FAILED" ELSE "BROADCAST", !.tx = t])
      /\ IF refused THEN before' = {} /\ inForce' = {} ELSE UNCHANGED <<before, inForce>>
      /\ Offer(t, taken)
      /\ UNCHANGED <<methods, active, known, broker, allowance, permitNonce, block>>

HasReceipt(i) == ops[i].state = "BROADCAST" /\ txs[ops[i].tx].status \in {"mined", "reverted"}

\* Anyone may submit a signed permit; ours then reverts.
FrontRun(i) == ops[i].method = "permit" /\ allowance[ops[i].limiter] = ops[i].amount

Effective(i) == txs[ops[i].tx].status = "mined" \/ FrontRun(i)

\* Mutant: the age of a named transaction is not looked at.
NeverTooOld(i) == FALSE

\* block.timestamp < created_at - 60, of a transaction the page named.
TooOld(i) == ops[i].method = "approve" /\ ops[i].tx \in before

ReceiptRefused(i) ==
  /\ HasReceipt(i)
  /\ ~Effective(i) \/ TooOld(i)
  /\ Close(i, "FAILED")
  /\ UNCHANGED <<methods, active, known, broker, chain>>

\* After a revoke the gateway also sends the agent's USDC back to the owner,
\* which touches nothing below; a crash in between leaves the row to the next advance.
ReceiptDone(i) ==
  /\ HasReceipt(i)
  /\ Effective(i) /\ ~TooOld(i)
  /\ Close(i, "DONE")
  /\ UNCHANGED <<methods, active, known, broker, chain>>

\* A read after the receipt finds no node that answers: its AllowanceError
\* fails the request like any other.
ReadFails(i) ==
  /\ HasReceipt(i)
  /\ Close(i, "FAILED")
  /\ UNCHANGED <<methods, active, known, broker, chain>>

NotMined(i) ==
  /\ ops[i].state = "BROADCAST"
  /\ ~HasReceipt(i)
  /\ ops[i].since > DeviceJobTicks
  /\ Close(i, "FAILED")
  /\ UNCHANGED <<methods, active, known, broker, chain>>

\* The job's bytes are offered again.
OfferAgain(i, taken, refused) ==
  /\ ops[i].state = "BROADCAST"
  /\ ops[i].method = "device"
  /\ ~HasReceipt(i)
  /\ ops[i].since <= DeviceJobTicks
  /\ ~(taken /\ refused)
  /\ IF refused THEN Close(i, "FAILED") ELSE UNCHANGED <<ops, before, inForce>>
  /\ Offer(jobs[i].tx, taken)
  /\ UNCHANGED <<methods, active, known, broker, allowance, permitNonce, block>>

Advance(i) ==
  \/ PreparedExpires(i)
  \/ WalletTxSeen(i)
  \/ WalletTxMissing(i)
  \/ DeviceGaveUp(i)
  \/ \E taken, refused \in BOOLEAN : DeviceSigned(i, taken, refused) \/ OfferAgain(i, taken, refused)
  \/ ReceiptRefused(i)
  \/ ReceiptDone(i)
  \/ ReadFails(i)
  \/ NotMined(i)

-----------------------------------------------------------------------------
(* The broker and the companion                                            *)

\* Mutant: a job is handed out once.
QueuedOnly == {j \in Requests : jobs[j].state = "QUEUED" /\ ~JobExpired(j)}

\* claim: the job that is already leased, or else one that has not expired.
Claimable ==
  LET leased == {j \in Requests : jobs[j].state = "LEASED"}
  IN  IF leased # {} THEN leased
      ELSE {j \in Requests : jobs[j].state = "QUEUED" /\ ~JobExpired(j)}

\* claim: queued jobs expire, the oldest claimable one is leased.  The
\* companion may never get the answer.
Claim(answered) ==
  LET given == {j \in Claimable : \A k \in Claimable : j <= k}
  IN  /\ working = None
      /\ jobs' = [j \in Requests |->
                    CASE j \in given -> [jobs[j] EXCEPT !.state = "LEASED"]
                      [] jobs[j].state = "QUEUED" /\ JobExpired(j) ->
                           [jobs[j] EXCEPT !.state = "EXPIRED", !.age = 0]
                      [] OTHER -> jobs[j]]
      /\ \/ answered /\ given # {} /\ working' \in given
         \/ (~answered \/ given = {}) /\ UNCHANGED working
      /\ UNCHANGED <<table, posts, chain, before, inForce>>

\* run_once: the device signs and the result is posted.  A companion that dies
\* with a job looks to the broker like one that never got the answer to its
\* claim; one that loses the answer to this post claims the job again, and may
\* then report it as failed.
Sign(t) ==
  /\ working # None
  /\ Cardinality(posts) < MaxPosts
  /\ ~JobExpired(working)
  /\ NextTx(t)
  /\ txs' = [txs EXCEPT ![t] = [status |-> "signed", kind |-> "device", limiter |-> jobs[working].limiter,
                                amount |-> jobs[working].amount, nonce |-> 0, request |-> working]]
  /\ posts' = posts \cup {[job |-> working, ok |-> TRUE, tx |-> t]}
  /\ working' = None
  /\ UNCHANGED <<table, jobs, allowance, permitNonce, block, before, inForce>>

\* run_once: the job has expired, the sidecar refuses it or the owner does.
GiveUp ==
  /\ working # None
  /\ Cardinality(posts) < MaxPosts
  /\ posts' = posts \cup {[job |-> working, ok |-> FALSE, tx |-> None]}
  /\ working' = None
  /\ UNCHANGED <<table, jobs, chain, before, inForce>>

\* Mutant: a job that succeeded takes another result.
TakesAnotherResult(p) == jobs[p.job].state = "LEASED" \/ (p.ok /\ jobs[p.job].state = "SUCCEEDED")

Accepted(p) == jobs[p.job].state = "LEASED"

\* finish: the first of a job's reports counts, every other one is refused.
Finish(p) ==
  /\ p \in posts
  /\ posts' = posts \ {p}
  /\ IF Accepted(p)
     THEN EndJob(p.job, IF p.ok THEN "SUCCEEDED" ELSE "FAILED", p.tx)
     ELSE UNCHANGED jobs
  /\ UNCHANGED <<table, working, chain, before, inForce>>

LosePost(p) ==
  /\ p \in posts
  /\ posts' = posts \ {p}
  /\ UNCHANGED <<table, jobs, working, chain, before, inForce>>

-----------------------------------------------------------------------------
(* The chain, the wallet and the clock                                     *)

Sets(l, a) ==
  /\ allowance' = [allowance EXCEPT ![l] = a]
  /\ inForce' = IF \E i \in OpenOps : ops[i].limiter = l THEN inForce \cup {a} ELSE inForce

\* The owner's wallet sends an approve that some request asked it for, edited
\* or not, while that request is open or later.
WalletSends(t, l, a) ==
  /\ NextTx(t)
  /\ \E i \in Requests : ops[i].state # "none" /\ ops[i].method = "approve" /\ ops[i].limiter = l
  /\ txs' = [txs EXCEPT ![t] = [NoTx EXCEPT !.status = "pooled", !.limiter = l, !.amount = a]]
  /\ UNCHANGED <<table, broker, allowance, permitNonce, block, before, inForce>>

\* A waiting transaction takes effect.
Mine(t) ==
  /\ txs[t].status = "pooled"
  /\ txs[t].kind = "permit" => txs[t].nonce = permitNonce
  /\ txs' = [txs EXCEPT ![t].status = "mined"]
  /\ permitNonce' = IF txs[t].kind = "permit" THEN permitNonce + 1 ELSE permitNonce
  /\ block' = block \cup {t}
  /\ Sets(txs[t].limiter, txs[t].amount)
  /\ UNCHANGED <<table, broker, before>>

Revert(t) ==
  /\ txs[t].status = "pooled"
  /\ txs' = [txs EXCEPT ![t].status = "reverted"]
  /\ UNCHANGED <<table, broker, allowance, permitNonce, block, before, inForce>>

\* Somebody else submits a permit seen in the mempool.
SubmittedByOther(t) ==
  /\ txs[t].status = "pooled"
  /\ txs[t].kind = "permit" /\ txs[t].nonce = permitNonce
  /\ permitNonce' = permitNonce + 1
  /\ block' = block \cup {t}
  /\ Sets(txs[t].limiter, txs[t].amount)
  /\ UNCHANGED <<table, broker, txs, before>>

\* A purchase draws on the active limiter's allowance.
Purchase ==
  /\ allowance[active] > 0
  /\ Sets(active, allowance[active] - 1)
  /\ UNCHANGED <<table, broker, txs, permitNonce, block, before>>

Tick ==
  /\ ops' = [i \in Requests |-> IF ops[i].state \in {"PREPARED", "SUBMITTED", "BROADCAST"}
                                THEN [ops[i] EXCEPT !.since = Later(@)] ELSE ops[i]]
  /\ jobs' = [j \in Requests |-> IF jobs[j].state \in {"QUEUED", "LEASED"}
                                 THEN [jobs[j] EXCEPT !.age = Later(@)] ELSE jobs[j]]
  /\ block' = {}
  /\ UNCHANGED <<methods, active, known, working, posts, txs, allowance, permitNonce, before, inForce>>

-----------------------------------------------------------------------------
Next ==
  \/ \E l \in Limiters : Setup(l)
  \/ Purchase
  \/ \E i \in Requests, kind \in {"GRANT", "REVOKE"}, l \in Limiters, a \in Amounts :
       \/ \E crashed \in BOOLEAN : DeviceOp(i, kind, l, a, crashed)
       \/ \E method \in {"approve", "permit"} : PrepareWallet(i, kind, l, a, method)
  \/ \E i \in Requests, t \in Txs :
       \/ SubmitWallet(i, t)
       \/ \E recorded \in BOOLEAN : SubmitPermit(i, t, recorded)
  \/ \E i \in Requests : PermitTooLate(i) \/ Advance(i)
  \/ \E answered \in BOOLEAN : Claim(answered)
  \/ \E t \in Txs : Sign(t)
  \/ GiveUp
  \/ \E p \in posts : Finish(p) \/ LosePost(p)
  \/ \E t \in Txs, l \in Limiters, a \in WalletAmounts : WalletSends(t, l, a)
  \/ \E t \in Txs : Mine(t) \/ Revert(t) \/ SubmittedByOther(t)
  \/ Tick

\* The clock runs; the owner's page or chat keeps asking, and every request of
\* it starts with advance(); the companion keeps polling, and its reports do
\* not all get lost.
Fairness ==
  /\ WF_vars(Tick)
  /\ WF_vars(\E i \in Requests : Advance(i))
  /\ WF_vars(Claim(TRUE))
  /\ WF_vars(GiveUp \/ \E t \in Txs : Sign(t))
  /\ SF_vars(\E p \in posts : Finish(p))

Spec == Init /\ [][Next]_vars /\ Fairness

-----------------------------------------------------------------------------
(* Properties                                                              *)

\* "DONE once the allowance reads back" (agent_allowance.py:1378): a request
\* ends DONE only if the limiter did have the recorded amount at some time
\* since a minute before the request was made, whichever way it was signed and
\* whatever the wallet, another sender or a purchase did meanwhile.
DoneTookEffect ==
  [][\A i \in Requests : ops[i].state # "DONE" /\ ops'[i].state = "DONE"
        => ops'[i].amount \in inForce]_vars

\* The gateway sends one signed approve per device request, the one it has on
\* record, although the companion may sign a job again after a lost answer or a
\* crash, its reports may overtake each other, and a crash may separate the
\* record from the sending.
OfferedAsRecorded ==
  \A t \in Txs : txs[t].kind = "device" /\ txs[t].status # "signed" /\ txs[t].status # "none"
                   => ops[txs[t].request].tx = t

\* Every request ends, whatever is lost on the way: an open one refuses every
\* later grant and revoke.
EveryRequestEnds ==
  (OpenOps # {}) ~> (OpenOps = {})

-----------------------------------------------------------------------------
(* The inductive invariant behind them                                     *)

\* A device approve that job i led to, and a permit that request i did.
SignedFor(i, t) == t \in Txs /\ txs[t].status # "none" /\ txs[t].kind = "device" /\ txs[t].request = i
PermitOf(i, t) == t \in Txs /\ txs[t].status # "none" /\ txs[t].kind = "permit" /\ txs[t].request = i

\* What an approve or a permit sets is what the row of its request says.
Agrees(i, t) == txs[t].limiter = ops[i].limiter /\ txs[t].amount = ops[i].amount

\* There is a job behind every result of the device, and behind every request to it.
JobInv ==
  /\ \A i \in Requests, t \in Txs : SignedFor(i, t) =>
       jobs[i].state # "none" /\ txs[t].limiter = jobs[i].limiter /\ txs[t].amount = jobs[i].amount
  /\ \A t \in Txs : txs[t].status # "none" /\ txs[t].kind = "device" => txs[t].request \in Requests
  /\ \A i \in Requests : jobs[i].state = "SUCCEEDED" => SignedFor(i, jobs[i].tx)
  /\ \A p \in posts : jobs[p.job].state # "none" /\ (p.ok => SignedFor(p.job, p.tx))
  /\ working # None => jobs[working].state # "none"
  /\ \A i \in Requests : ops[i].state # "none" /\ ops[i].method = "device" =>
       jobs[i].state # "none" /\ jobs[i].limiter = ops[i].limiter /\ jobs[i].amount = ops[i].amount

\* What a node was offered for a device request is what the row names, and the
\* row is past the wait; while it is open it names what the job holds.
SentInv ==
  /\ \A i \in Requests, t \in Txs : SignedFor(i, t) /\ txs[t].status # "signed" =>
       /\ ops[i].tx = t /\ ops[i].method = "device"
       /\ ops[i].state \notin {"none", "PREPARED", "WAITING_DEVICE"}
  /\ \A i \in Requests : ops[i].state = "BROADCAST" /\ ops[i].method = "device" =>
       jobs[i].state = "SUCCEEDED" /\ jobs[i].tx = ops[i].tx
  /\ \A i \in Requests : ops[i].state = "WAITING_DEVICE" => ops[i].method = "device"

\* A permit was made from its row, and each nonce that is used up was some permit's.
PermitInv ==
  /\ \A t \in Txs : txs[t].status # "none" /\ txs[t].kind = "permit" =>
       LET i == txs[t].request
       IN  i \in Requests /\ ops[i].state # "none" /\ ops[i].method = "permit" /\ Agrees(i, t)
  /\ \A i \in Requests : ops[i].state = "BROADCAST" /\ ops[i].method = "permit" => PermitOf(i, ops[i].tx)
  /\ \A n \in 0..permitNonce - 1 :
       \E t \in Txs : txs[t].status # "none" /\ txs[t].kind = "permit" /\ txs[t].nonce = n

\* The page names a transaction there is, and it is recorded as it was signed.
WalletInv ==
  \A i \in Requests :
    /\ ops[i].state = "SUBMITTED" => ops[i].method = "approve" /\ txs[ops[i].tx].status # "none"
    /\ ops[i].state = "BROADCAST" /\ ops[i].method = "approve" =>
         txs[ops[i].tx].status # "none" /\ Agrees(i, ops[i].tx)

\* At most one request is open; what its limiter has, and all that took effect
\* on it, is part of the history, except what is older than the request.
ForceInv ==
  /\ \A i, j \in OpenOps : i = j
  /\ \A t \in before : txs[t].status # "none"
  /\ \A i \in OpenOps :
       /\ allowance[ops[i].limiter] \in inForce
       /\ \A t \in Txs : txs[t].status = "mined" /\ txs[t].limiter = ops[i].limiter /\ t \notin before
                           => txs[t].amount \in inForce
       /\ \A t \in before : ~SignedFor(i, t) /\ ~PermitOf(i, t)

Inv == TypeOK /\ JobInv /\ SentInv /\ PermitInv /\ WalletInv /\ ForceInv
=============================================================================
