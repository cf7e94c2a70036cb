------------------------ MODULE BaseApprovalsProofs ------------------------
(* Theorems about BaseApprovals, for any number of requests, transactions    *)
(* and reports on their way.  A step ends the open request (Closes) or is    *)
(* one of the kinds that OneOf lists.                                        *)
EXTENDS BaseApprovals, TLAPS, FiniteSetTheorems

-----------------------------------------------------------------------------
(* Numbers and names                                                         *)

LEMMA Ranges ==
  /\ Amounts \subseteq Nat /\ GrantAmounts \subseteq Amounts /\ 0 \in Amounts
  /\ WalletAmounts \subseteq Amounts
  /\ 0 \in Ages /\ (\A age \in Ages : Later(age) \in Ages)
  /\ None \notin Requests /\ None \notin Txs
  /\ Requests \subseteq Nat /\ Txs \subseteq Nat /\ MaxTxs \in Nat
  BY AmountsAssumption, ClockAssumption, BoundAssumption
     DEF Amounts, Ages, LongestWait, Later, None, Requests, Txs

\* As many nonces used up as this takes as many transactions.
LEMMA NonceRoom ==
  ASSUME NEW m \in Nat, NEW nonceOf,
         \A n \in 0..m - 1 : \E t \in Txs : nonceOf[t] = n
  PROVE  m <= MaxTxs
  <1> DEFINE f == [n \in 0..m - 1 |-> CHOOSE t \in Txs : nonceOf[t] = n]
  <1>1. \A n \in 0..m - 1 : f[n] \in Txs /\ nonceOf[f[n]] = n
    OBVIOUS
  <1>2. f \in Injection(0..m - 1, Txs)
    BY <1>1 DEF Injection, IsInjective
  <1>3. IsFiniteSet(0..m - 1) /\ Cardinality(0..m - 1) = m
    BY FS_Interval
  <1>4. IsFiniteSet(Txs) /\ Cardinality(Txs) = MaxTxs
    BY FS_Interval, BoundAssumption DEF Txs
  <1>5. Cardinality(0..m - 1) <= Cardinality(Txs)
    BY <1>2, <1>4, FS_Injection
  <1>6. QED
    BY <1>3, <1>4, <1>5

-----------------------------------------------------------------------------
(* The steps                                                                 *)

\* An open request ends, and nothing else happens.
Ends(i, state) ==
  /\ ops[i].state \in {"PREPARED", "SUBMITTED", "BROADCAST"}
  /\ Close(i, state)
  /\ UNCHANGED <<methods, active, known, broker, chain>>

\* A request that named its transaction is recorded as it was signed.
Recognised(i) ==
  /\ ops[i].state = "SUBMITTED" /\ AsPrepared(i, ops[i].tx)
  /\ UpdateOp(i, [ops[i] EXCEPT !.state = "BROADCAST", !.amount = AmountSigned(i, ops[i].tx)])
  /\ UNCHANGED <<methods, active, known, broker, chain, before, inForce>>

\* What a step of _advance_op, or a late permit, comes down to.
LEMMA OneOf ==
  ASSUME NEW i \in Requests, PermitTooLate(i) \/ Advance(i)
  PROVE  \/ \E state \in {"DONE", "FAILED", "EXPIRED"} :
                Ends(i, state) /\ (state = "DONE" => ReceiptDone(i))
         \/ Recognised(i)
         \/ DeviceGaveUp(i)
         \/ \E taken, refused \in BOOLEAN : DeviceSigned(i, taken, refused) \/ OfferAgain(i, taken, refused)
  BY DEF Advance, Ends, Recognised, PermitTooLate, PreparedExpires, WalletTxSeen, WalletTxMissing,
     HasReceipt, ReceiptRefused, ReceiptDone, ReadFails, NotMined

-----------------------------------------------------------------------------
(* The types                                                                 *)

\* A row of each table is edited, or a transaction is made, and the others stay.
Becomes(i, s, x, a) ==
  /\ ops' \in [Requests -> Op]
  /\ \A j \in Requests \ {i} : ops'[j] = ops[j]
  /\ ops'[i].state = s /\ ops'[i].tx = x /\ ops'[i].amount = a
  /\ ops'[i].kind = ops[i].kind /\ ops'[i].limiter = ops[i].limiter
  /\ ops'[i].method = ops[i].method /\ ops'[i].nonce = ops[i].nonce

JobBecomes(i, s, x) ==
  /\ jobs' \in [Requests -> Job]
  /\ \A j \in Requests \ {i} : jobs'[j] = jobs[j]
  /\ jobs'[i].state = s /\ jobs'[i].tx = x
  /\ jobs'[i].limiter = jobs[i].limiter /\ jobs'[i].amount = jobs[i].amount

TxBecomes(t, s) ==
  /\ txs' \in [Txs -> Tx]
  /\ \A u \in Txs \ {t} : txs'[u] = txs[u]
  /\ txs'[t].status = s
  /\ txs'[t].kind = txs[t].kind /\ txs'[t].limiter = txs[t].limiter /\ txs'[t].amount = txs[t].amount
  /\ txs'[t].nonce = txs[t].nonce /\ txs'[t].request = txs[t].request

TxMade(t, s, kind, l, a, n, i) ==
  /\ txs' \in [Txs -> Tx]
  /\ txs[t].status = "none"
  /\ \A u \in Txs \ {t} : txs'[u] = txs[u]
  /\ txs'[t].status = s /\ txs'[t].kind = kind /\ txs'[t].limiter = l /\ txs'[t].amount = a
  /\ txs'[t].nonce = n /\ txs'[t].request = i

\* The three edits of an operation, each of a row that is one.
LEMMA OpRow ==
  ASSUME NEW r \in Op, NEW s \in OpStates, NEW x \in Txs \cup {None}, NEW a \in Amounts
  PROVE  /\ [r EXCEPT !.since = 0] \in Op
         /\ [r EXCEPT !.state = s] \in Op
         /\ [r EXCEPT !.state = s, !.tx = x] \in Op
         /\ [r EXCEPT !.state = s, !.amount = a] \in Op
         /\ [r EXCEPT !.state = s, !.since = 0] \in Op
         /\ [r EXCEPT !.since = Later(@)] \in Op
  BY Ranges DEF Op

LEMMA Edits ==
  ASSUME TypeOK, NEW i \in Requests, NEW row \in Op, UpdateOp(i, row),
         row.kind = ops[i].kind, row.limiter = ops[i].limiter, row.method = ops[i].method,
         row.nonce = ops[i].nonce
  PROVE  Becomes(i, row.state, row.tx, row.amount)
  <1>1. [row EXCEPT !.since = 0] \in Op
    BY OpRow, Ranges DEF Op
  <1>2. ops' = [ops EXCEPT ![i] = [row EXCEPT !.since = 0]] /\ ops \in [Requests -> Op]
    BY DEF UpdateOp, TypeOK
  <1>3. ops' \in [Requests -> Op] /\ ops'[i] = [row EXCEPT !.since = 0]
        /\ \A j \in Requests \ {i} : ops'[j] = ops[j]
    BY <1>1, <1>2
  <1>4. QED
    BY <1>3 DEF Becomes, Op

LEMMA ClosedRow ==
  ASSUME TypeOK, NEW i \in Requests, NEW s \in OpStates, UpdateOp(i, [ops[i] EXCEPT !.state = s])
  PROVE  Becomes(i, s, ops[i].tx, ops[i].amount)
  <1>1. ops[i] \in Op
    BY DEF TypeOK
  <1> DEFINE row == [ops[i] EXCEPT !.state = s]
  <1>2. /\ row \in Op /\ row.state = s /\ row.tx = ops[i].tx /\ row.amount = ops[i].amount
        /\ row.kind = ops[i].kind /\ row.limiter = ops[i].limiter /\ row.method = ops[i].method
        /\ row.nonce = ops[i].nonce
    BY <1>1 DEF Op
  <1>3. UpdateOp(i, row)
    OBVIOUS
  <1> HIDE DEF row
  <1>4. QED
    BY <1>2, <1>3, Edits

LEMMA SentRow ==
  ASSUME TypeOK, NEW i \in Requests, NEW s \in OpStates, NEW x \in Txs \cup {None},
         UpdateOp(i, [ops[i] EXCEPT !.state = s, !.tx = x])
  PROVE  Becomes(i, s, x, ops[i].amount)
  <1>1. ops[i] \in Op
    BY DEF TypeOK
  <1> DEFINE row == [ops[i] EXCEPT !.state = s, !.tx = x]
  <1>2. /\ row \in Op /\ row.state = s /\ row.tx = x /\ row.amount = ops[i].amount
        /\ row.kind = ops[i].kind /\ row.limiter = ops[i].limiter /\ row.method = ops[i].method
        /\ row.nonce = ops[i].nonce
    BY <1>1 DEF Op
  <1>3. UpdateOp(i, row)
    OBVIOUS
  <1> HIDE DEF row
  <1>4. QED
    BY <1>2, <1>3, Edits

LEMMA SeenRow ==
  ASSUME TypeOK, NEW i \in Requests, NEW s \in OpStates, NEW a \in Amounts,
         UpdateOp(i, [ops[i] EXCEPT !.state = s, !.amount = a])
  PROVE  Becomes(i, s, ops[i].tx, a)
  <1>1. ops[i] \in Op
    BY DEF TypeOK
  <1> DEFINE row == [ops[i] EXCEPT !.state = s, !.amount = a]
  <1>2. /\ row \in Op /\ row.state = s /\ row.tx = ops[i].tx /\ row.amount = a
        /\ row.kind = ops[i].kind /\ row.limiter = ops[i].limiter /\ row.method = ops[i].method
        /\ row.nonce = ops[i].nonce
    BY <1>1 DEF Op
  <1>3. UpdateOp(i, row)
    OBVIOUS
  <1> HIDE DEF row
  <1>4. QED
    BY <1>2, <1>3, Edits

\* A job ends, a transaction takes its next status.
LEMMA EndedJob ==
  ASSUME TypeOK, NEW i \in Requests, NEW s \in JobStates, NEW x \in Txs \cup {None}, EndJob(i, s, x)
  PROVE  JobBecomes(i, s, x)
  <1>1. jobs[i] \in Job /\ jobs \in [Requests -> Job]
    BY DEF TypeOK
  <1> DEFINE row == [jobs[i] EXCEPT !.state = s, !.tx = x, !.age = 0]
  <1>2. /\ row \in Job /\ row.state = s /\ row.tx = x
        /\ row.limiter = jobs[i].limiter /\ row.amount = jobs[i].amount
    BY <1>1, Ranges DEF Job
  <1>3. jobs' = [jobs EXCEPT ![i] = row]
    BY DEF EndJob
  <1> HIDE DEF row
  <1>4. QED
    BY <1>1, <1>2, <1>3 DEF JobBecomes

LEMMA MovedTx ==
  ASSUME TypeOK, NEW t \in Txs, NEW s \in {"pooled", "mined", "reverted"},
         txs' = [txs EXCEPT ![t].status = s]
  PROVE  TxBecomes(t, s)
  <1>1. txs[t] \in Tx /\ txs \in [Txs -> Tx]
    BY DEF TypeOK
  <1> DEFINE row == [txs[t] EXCEPT !.status = s]
  <1>2. /\ row \in Tx /\ row.status = s /\ row.kind = txs[t].kind /\ row.limiter = txs[t].limiter
        /\ row.amount = txs[t].amount /\ row.nonce = txs[t].nonce /\ row.request = txs[t].request
    BY <1>1 DEF Tx
  <1>3. txs' = [txs EXCEPT ![t] = row]
    BY <1>1
  <1> HIDE DEF row
  <1>4. QED
    BY <1>1, <1>2, <1>3 DEF TxBecomes

\* The rows that are made, and the tables that are gone through.
LEMMA DeviceOpDoes ==
  ASSUME TypeOK, NEW i \in Requests, NEW kind \in {"GRANT", "REVOKE"}, NEW l \in Limiters,
         NEW a \in Amounts, NEW crashed \in BOOLEAN, DeviceOp(i, kind, l, a, crashed)
  PROVE  /\ OpenOps = {} /\ ops[i].state = "none" /\ jobs[i].state = "none"
         /\ jobs' \in [Requests -> Job] /\ \A j \in Requests \ {i} : jobs'[j] = jobs[j]
         /\ jobs'[i].state = "QUEUED" /\ jobs'[i].limiter = l /\ jobs'[i].amount = a
         /\ \/ UNCHANGED <<ops, before, inForce>>
            \/ /\ ops' \in [Requests -> Op] /\ \A j \in Requests \ {i} : ops'[j] = ops[j]
               /\ ops'[i].state = "WAITING_DEVICE" /\ ops'[i].method = "device"
               /\ ops'[i].limiter = l /\ ops'[i].amount = a
               /\ Opened(l)
         /\ UNCHANGED <<methods, active, known, working, posts, chain>>
  <1> DEFINE job == [NoJob EXCEPT !.state = "QUEUED", !.limiter = l, !.amount = a]
             row == [NoOp EXCEPT !.state = "WAITING_DEVICE", !.kind = kind, !.limiter = l, !.amount = a]
  <1>1. job \in Job /\ job.state = "QUEUED" /\ job.limiter = l /\ job.amount = a
    BY Ranges, LimiterAssumption DEF Job, NoJob, JobStates
  <1>2. row \in Op /\ row.state = "WAITING_DEVICE" /\ row.method = "device" /\ row.limiter = l /\ row.amount = a
    <2>1. 0 \in 0..MaxTxs
      BY Ranges
    <2>2. QED
      BY <2>1, Ranges, LimiterAssumption DEF Op, NoOp, OpStates, OpenStates
  <1>3. jobs' = [jobs EXCEPT ![i] = job] /\ UNCHANGED <<methods, active, known, working, posts, chain>>
        /\ (UNCHANGED <<ops, before, inForce>> \/ (ops' = [ops EXCEPT ![i] = row] /\ Opened(l)))
    BY DEF DeviceOp
  <1>4. OpenOps = {} /\ ops[i].state = "none" /\ jobs[i].state = "none"
    BY DEF DeviceOp, NextRequest
  <1> HIDE DEF job, row
  <1>5. jobs \in [Requests -> Job] /\ ops \in [Requests -> Op]
    BY DEF TypeOK
  <1>6. jobs' \in [Requests -> Job] /\ jobs'[i] = job /\ \A j \in Requests \ {i} : jobs'[j] = jobs[j]
    BY <1>1, <1>3, <1>5
  <1>7. CASE UNCHANGED <<ops, before, inForce>>
    BY <1>1, <1>3, <1>4, <1>6, <1>7
  <1>8. CASE ops' = [ops EXCEPT ![i] = row] /\ Opened(l)
    <2>1. ops' \in [Requests -> Op] /\ ops'[i] = row /\ \A j \in Requests \ {i} : ops'[j] = ops[j]
      BY <1>2, <1>5, <1>8
    <2>2. QED
      BY <1>1, <1>2, <1>3, <1>4, <1>6, <1>8, <2>1
  <1>9. QED
    BY <1>3, <1>7, <1>8

LEMMA PrepareDoes ==
  ASSUME TypeOK, NEW i \in Requests, NEW kind \in {"GRANT", "REVOKE"}, NEW l \in Limiters,
         NEW a \in Amounts, NEW method \in {"approve", "permit"}, PrepareWallet(i, kind, l, a, method)
  PROVE  /\ ops[i].state = "none" /\ jobs[i].state = "none" /\ i \notin OpenOps
         /\ \A j \in OpenOps : ops[j].state = "PREPARED"
         /\ ops' \in [Requests -> Op]
         /\ ops'[i].state = "PREPARED" /\ ops'[i].method = method
         /\ ops'[i].limiter = l /\ ops'[i].amount = a
         /\ \A j \in OpenOps : /\ ops'[j].state = "EXPIRED" /\ ops'[j].tx = ops[j].tx
                               /\ ops'[j].limiter = ops[j].limiter /\ ops'[j].amount = ops[j].amount
                               /\ ops'[j].method = ops[j].method
         /\ \A j \in Requests : j # i /\ j \notin OpenOps => ops'[j] = ops[j]
         /\ Opened(l)
         /\ UNCHANGED <<methods, active, known, broker, chain>>
  <1>9. PICK nonce \in IF method = "permit" THEN 0..permitNonce ELSE {0} :
          ops' = [j \in Requests |->
                    CASE j = i -> [NoOp EXCEPT !.state = "PREPARED", !.kind = kind, !.limiter = l,
                                     !.amount = a, !.method = method, !.nonce = nonce]
                      [] j \in OpenOps -> [ops[j] EXCEPT !.state = "EXPIRED", !.since = 0]
                      [] OTHER -> ops[j]]
    BY DEF PrepareWallet
  <1> DEFINE row == [NoOp EXCEPT !.state = "PREPARED", !.kind = kind, !.limiter = l,
                       !.amount = a, !.method = method, !.nonce = nonce]
             old(j) == [ops[j] EXCEPT !.state = "EXPIRED", !.since = 0]
  <1>0. ops \in [Requests -> Op] /\ permitNonce \in 0..MaxTxs /\ 0 \in 0..MaxTxs /\ OpenOps \subseteq Requests
    BY Ranges DEF TypeOK, OpenOps
  <1>1. row \in Op /\ row.state = "PREPARED" /\ row.method = method /\ row.limiter = l /\ row.amount = a
    <2>1. nonce \in 0..MaxTxs
      <3>1. CASE method = "permit"
        BY <1>0, <3>1, Ranges
      <3>2. CASE method # "permit"
        BY <3>2, Ranges
      <3>3. QED
        BY <3>1, <3>2
    <2>2. QED
      BY <2>1, Ranges, LimiterAssumption DEF Op, NoOp, OpStates, OpenStates
  <1>2. \A j \in Requests : /\ old(j) \in Op /\ old(j).state = "EXPIRED" /\ old(j).tx = ops[j].tx
                            /\ old(j).limiter = ops[j].limiter /\ old(j).amount = ops[j].amount
                            /\ old(j).method = ops[j].method
    BY <1>0, Ranges DEF Op, OpStates
  <1>3. ops' = [j \in Requests |-> CASE j = i -> row [] j \in OpenOps -> old(j) [] OTHER -> ops[j]]
    BY <1>9
  <1>4. ops[i].state = "none" /\ jobs[i].state = "none" /\ (\A j \in OpenOps : ops[j].state = "PREPARED")
        /\ Opened(l) /\ UNCHANGED <<methods, active, known, broker, chain>>
    BY DEF PrepareWallet, NextRequest
  <1>5. i \notin OpenOps
    BY <1>4 DEF OpenOps
  <1> HIDE DEF row, old
  <1>6. ops' \in [Requests -> Op] /\ ops'[i] = row /\ (\A j \in OpenOps : ops'[j] = old(j))
        /\ \A j \in Requests : j # i /\ j \notin OpenOps => ops'[j] = ops[j]
    BY <1>0, <1>1, <1>2, <1>3, <1>5
  <1>7. QED
    BY <1>0, <1>1, <1>2, <1>4, <1>5, <1>6

LEMMA ClaimDoes ==
  ASSUME TypeOK, NEW answered \in BOOLEAN, Claim(answered)
  PROVE  /\ jobs' \in [Requests -> Job]
         /\ \A j \in Requests :
              /\ jobs'[j].limiter = jobs[j].limiter /\ jobs'[j].amount = jobs[j].amount
              /\ jobs'[j].tx = jobs[j].tx
              /\ jobs'[j].state = jobs[j].state \/ (jobs[j].state = "QUEUED" /\ jobs'[j].state \in {"LEASED", "EXPIRED"})
         /\ working' = working \/ (working' \in Requests /\ jobs[working'].state \in {"LEASED", "QUEUED"})
         /\ UNCHANGED <<table, posts, chain, before, inForce>>
  <1> DEFINE given == {j \in Claimable : \A k \in Claimable : j <= k}
             leased(j) == [jobs[j] EXCEPT !.state = "LEASED"]
             expired(j) == [jobs[j] EXCEPT !.state = "EXPIRED", !.age = 0]
  <1>0. jobs \in [Requests -> Job]
    BY DEF TypeOK
  <1>1. \A j \in Requests :
          /\ leased(j) \in Job /\ leased(j).state = "LEASED" /\ leased(j).limiter = jobs[j].limiter
          /\ leased(j).amount = jobs[j].amount /\ leased(j).tx = jobs[j].tx
          /\ expired(j) \in Job /\ expired(j).state = "EXPIRED" /\ expired(j).limiter = jobs[j].limiter
          /\ expired(j).amount = jobs[j].amount /\ expired(j).tx = jobs[j].tx
    BY <1>0, Ranges DEF Job, JobStates
  <1>2. \A j \in given : j \in Requests /\ jobs[j].state \in {"LEASED", "QUEUED"}
    BY DEF Claimable
  <1>3. /\ jobs' = [j \in Requests |-> CASE j \in given -> leased(j)
                                         [] jobs[j].state = "QUEUED" /\ JobExpired(j) -> expired(j)
                                         [] OTHER -> jobs[j]]
        /\ working' = working \/ working' \in given
        /\ UNCHANGED <<table, posts, chain, before, inForce>>
    BY DEF Claim
  <1> HIDE DEF given, leased, expired
  <1>4. \A j \in Requests : \/ j \in given /\ jobs'[j] = leased(j)
                            \/ jobs[j].state = "QUEUED" /\ jobs'[j] = expired(j)
                            \/ jobs'[j] = jobs[j]
    BY <1>3
  <1>5. jobs' \in [Requests -> Job]
    BY <1>0, <1>1, <1>3
  <1>6. \A j \in Requests :
          /\ jobs'[j].limiter = jobs[j].limiter /\ jobs'[j].amount = jobs[j].amount
          /\ jobs'[j].tx = jobs[j].tx
          /\ jobs'[j].state = jobs[j].state \/ (jobs[j].state = "QUEUED" /\ jobs'[j].state \in {"LEASED", "EXPIRED"})
    BY <1>1, <1>2, <1>4
  <1>7. QED
    BY <1>2, <1>3, <1>5, <1>6

LEMMA TickDoes ==
  ASSUME TypeOK, Tick
  PROVE  /\ ops' \in [Requests -> Op] /\ jobs' \in [Requests -> Job]
         /\ \A i \in Requests :
              /\ ops'[i].state = ops[i].state /\ ops'[i].tx = ops[i].tx /\ ops'[i].amount = ops[i].amount
              /\ ops'[i].limiter = ops[i].limiter /\ ops'[i].method = ops[i].method
              /\ jobs'[i].state = jobs[i].state /\ jobs'[i].tx = jobs[i].tx
              /\ jobs'[i].limiter = jobs[i].limiter /\ jobs'[i].amount = jobs[i].amount
         /\ block' = {}
         /\ UNCHANGED <<methods, active, known, working, posts, txs, allowance, permitNonce, before, inForce>>
  <1> DEFINE row(i) == [ops[i] EXCEPT !.since = Later(@)]
             job(i) == [jobs[i] EXCEPT !.age = Later(@)]
  <1>0. ops \in [Requests -> Op] /\ jobs \in [Requests -> Job]
    BY DEF TypeOK
  <1>1. \A i \in Requests : /\ row(i) \in Op /\ row(i).state = ops[i].state /\ row(i).tx = ops[i].tx
                            /\ row(i).amount = ops[i].amount /\ row(i).limiter = ops[i].limiter
                            /\ row(i).method = ops[i].method
    BY <1>0, Ranges DEF Op
  <1>2. \A i \in Requests : /\ job(i) \in Job /\ job(i).state = jobs[i].state /\ job(i).tx = jobs[i].tx
                            /\ job(i).limiter = jobs[i].limiter /\ job(i).amount = jobs[i].amount
    BY <1>0, Ranges DEF Job
  <1>3. /\ ops' = [i \in Requests |-> IF ops[i].state \in {"PREPARED", "SUBMITTED", "BROADCAST"}
                                      THEN row(i) ELSE ops[i]]
        /\ jobs' = [j \in Requests |-> IF jobs[j].state \in {"QUEUED", "LEASED"} THEN job(j) ELSE jobs[j]]
        /\ block' = {}
        /\ UNCHANGED <<methods, active, known, working, posts, txs, allowance, permitNonce, before, inForce>>
    BY DEF Tick
  <1> HIDE DEF row, job
  <1>4. \A i \in Requests : ops'[i] \in {row(i), ops[i]} /\ jobs'[i] \in {job(i), jobs[i]}
    BY <1>3
  <1>5. ops' \in [Requests -> Op] /\ jobs' \in [Requests -> Job]
    BY <1>0, <1>1, <1>2, <1>3
  <1>6. QED
    BY <1>1, <1>2, <1>3, <1>4, <1>5

LEMMA SubmitPermitDoes ==
  ASSUME TypeOK, NEW i \in Requests, NEW t \in Txs, NEW recorded \in BOOLEAN, SubmitPermit(i, t, recorded)
  PROVE  /\ ops[i].state = "PREPARED" /\ ops[i].method = "permit" /\ permitNonce = ops[i].nonce
         /\ TxMade(t, "pooled", "permit", ops[i].limiter, ops[i].amount, ops[i].nonce, i)
         /\ UNCHANGED ops \/ Becomes(i, "BROADCAST", t, ops[i].amount)
         /\ UNCHANGED <<methods, active, known, broker, allowance, permitNonce, block, before, inForce>>
  <1> DEFINE row == [status |-> "pooled", kind |-> "permit", limiter |-> ops[i].limiter,
                     amount |-> ops[i].amount, nonce |-> ops[i].nonce, request |-> i]
  <1>1. ops[i] \in Op /\ txs \in [Txs -> Tx]
    BY DEF TypeOK
  <1>2. row \in Tx
    BY <1>1 DEF Tx, Op
  <1>3. txs' = [txs EXCEPT ![t] = row] /\ txs[t].status = "none"
    BY DEF SubmitPermit, NextTx
  <1>4. TxMade(t, "pooled", "permit", ops[i].limiter, ops[i].amount, ops[i].nonce, i)
    BY <1>1, <1>2, <1>3 DEF TxMade
  <1>5. UNCHANGED ops \/ Becomes(i, "BROADCAST", t, ops[i].amount)
    BY SentRow DEF SubmitPermit, OpStates, OpenStates
  <1>6. QED
    BY <1>4, <1>5 DEF SubmitPermit

LEMMA SignDoes ==
  ASSUME TypeOK, NEW t \in Txs, Sign(t)
  PROVE  /\ working \in Requests
         /\ TxMade(t, "signed", "device", jobs[working].limiter, jobs[working].amount, 0, working)
         /\ posts' = posts \cup {[job |-> working, ok |-> TRUE, tx |-> t]}
         /\ working' = None
         /\ UNCHANGED <<table, jobs, allowance, permitNonce, block, before, inForce>>
  <1> DEFINE row == [status |-> "signed", kind |-> "device", limiter |-> jobs[working].limiter,
                     amount |-> jobs[working].amount, nonce |-> 0, request |-> working]
  <1>1. working \in Requests /\ jobs[working] \in Job /\ txs \in [Txs -> Tx] /\ 0 \in 0..MaxTxs
    BY Ranges DEF TypeOK, Sign
  <1>2. row \in Tx
    BY <1>1 DEF Tx, Job
  <1>3. txs' = [txs EXCEPT ![t] = row] /\ txs[t].status = "none"
    BY DEF Sign, NextTx
  <1>4. QED
    BY <1>1, <1>2, <1>3 DEF TxMade, Sign

LEMMA WalletSendsDoes ==
  ASSUME TypeOK, NEW t \in Txs, NEW l \in Limiters, NEW a \in WalletAmounts, WalletSends(t, l, a)
  PROVE  /\ TxMade(t, "pooled", "approve", l, a, 0, None)
         /\ UNCHANGED <<table, broker, allowance, permitNonce, block, before, inForce>>
  <1> DEFINE row == [NoTx EXCEPT !.status = "pooled", !.limiter = l, !.amount = a]
  <1>1. txs \in [Txs -> Tx] /\ 0 \in 0..MaxTxs
    BY Ranges DEF TypeOK
  <1>2. /\ row \in Tx /\ row.status = "pooled" /\ row.kind = "approve" /\ row.limiter = l
        /\ row.amount = a /\ row.nonce = 0 /\ row.request = None
    BY <1>1, Ranges, LimiterAssumption DEF Tx, NoTx
  <1>3. txs' = [txs EXCEPT ![t] = row] /\ txs[t].status = "none"
    BY DEF WalletSends, NextTx
  <1> HIDE DEF row
  <1>4. QED
    BY <1>1, <1>2, <1>3 DEF TxMade, WalletSends

LEMMA OfferDoes ==
  ASSUME TypeOK, NEW t \in Txs, NEW taken \in BOOLEAN, Offer(t, taken)
  PROVE  UNCHANGED txs \/ (taken /\ txs[t].status = "signed" /\ TxBecomes(t, "pooled"))
  BY MovedTx DEF Offer

\* The bytes of a job that succeeded are a transaction.
LEMMA JobsBytes ==
  ASSUME Inv, NEW i \in Requests, jobs[i].state = "SUCCEEDED"
  PROVE  SignedFor(i, jobs[i].tx) /\ jobs[i].tx \in Txs
  BY DEF Inv, JobInv, SignedFor

LEMMA DeviceSignedDoes ==
  ASSUME Inv, NEW i \in Requests, NEW taken \in BOOLEAN, NEW refused \in BOOLEAN,
         DeviceSigned(i, taken, refused)
  PROVE  LET t == jobs[i].tx
         IN  /\ ops[i].state = "WAITING_DEVICE" /\ jobs[i].state = "SUCCEEDED" /\ SignedFor(i, t)
             /\ \/ /\ Becomes(i, "BROADCAST", t, ops[i].amount) /\ UNCHANGED <<before, inForce>>
                   /\ UNCHANGED txs \/ (txs[t].status = "signed" /\ TxBecomes(t, "pooled"))
                \/ Becomes(i, "FAILED", t, ops[i].amount) /\ UNCHANGED txs /\ before' = {} /\ inForce' = {}
             /\ UNCHANGED <<methods, active, known, broker, allowance, permitNonce, block>>
  <1> DEFINE t == jobs[i].tx
  <1>1. /\ ops[i].state = "WAITING_DEVICE" /\ jobs[i].state = "SUCCEEDED" /\ ~(taken /\ refused)
        /\ UpdateOp(i, [ops[i] EXCEPT !.state = IF refused THEN "FAILED" ELSE "BROADCAST", !.tx = t])
        /\ IF refused THEN before' = {} /\ inForce' = {} ELSE UNCHANGED <<before, inForce>>
        /\ Offer(t, taken)
        /\ UNCHANGED <<methods, active, known, broker, allowance, permitNonce, block>>
    BY DEF DeviceSigned
  <1>2. SignedFor(i, t) /\ t \in Txs /\ TypeOK
    BY <1>1, JobsBytes DEF Inv
  <1>3. UNCHANGED txs \/ (taken /\ txs[t].status = "signed" /\ TxBecomes(t, "pooled"))
    BY <1>1, <1>2, OfferDoes
  <1>4. (IF refused THEN "FAILED" ELSE "BROADCAST") \in OpStates
    BY DEF OpStates, OpenStates
  <1>5. Becomes(i, IF refused THEN "FAILED" ELSE "BROADCAST", t, ops[i].amount)
    BY <1>1, <1>2, <1>4, SentRow
  <1>6. QED
    BY <1>1, <1>2, <1>3, <1>5

LEMMA OfferAgainDoes ==
  ASSUME Inv, NEW i \in Requests, NEW taken \in BOOLEAN, NEW refused \in BOOLEAN,
         OfferAgain(i, taken, refused)
  PROVE  LET t == jobs[i].tx
         IN  /\ ops[i].state = "BROADCAST" /\ ops[i].tx = t /\ SignedFor(i, t)
             /\ \/ /\ UNCHANGED <<ops, before, inForce>>
                   /\ UNCHANGED txs \/ (txs[t].status = "signed" /\ TxBecomes(t, "pooled"))
                \/ /\ Becomes(i, "FAILED", ops[i].tx, ops[i].amount)
                   /\ UNCHANGED txs /\ before' = {} /\ inForce' = {}
             /\ UNCHANGED <<methods, active, known, broker, allowance, permitNonce, block>>
  <1> DEFINE t == jobs[i].tx
  <1>1. /\ ops[i].state = "BROADCAST" /\ ops[i].method = "device" /\ ~(taken /\ refused)
        /\ IF refused THEN Close(i, "FAILED") ELSE UNCHANGED <<ops, before, inForce>>
        /\ Offer(t, taken)
        /\ UNCHANGED <<methods, active, known, broker, allowance, permitNonce, block>>
    BY DEF OfferAgain
  <1>2. jobs[i].state = "SUCCEEDED" /\ ops[i].tx = t
    BY <1>1 DEF Inv, SentInv
  <1>3. SignedFor(i, t) /\ t \in Txs /\ TypeOK
    BY <1>2, JobsBytes DEF Inv
  <1>4. UNCHANGED txs \/ (taken /\ txs[t].status = "signed" /\ TxBecomes(t, "pooled"))
    BY <1>1, <1>3, OfferDoes
  <1>5. refused => Becomes(i, "FAILED", ops[i].tx, ops[i].amount) /\ before' = {} /\ inForce' = {}
    BY <1>1, <1>3, ClosedRow DEF Close, OpStates
  <1>6. QED
    BY <1>1, <1>2, <1>3, <1>4, <1>5

LEMMA DeviceGaveUpDoes ==
  ASSUME TypeOK, NEW i \in Requests, DeviceGaveUp(i)
  PROVE  /\ ops[i].state = "WAITING_DEVICE"
         /\ UNCHANGED jobs \/ (jobs[i].state = "QUEUED" /\ JobBecomes(i, "EXPIRED", None))
         /\ Becomes(i, "FAILED", ops[i].tx, ops[i].amount) /\ before' = {} /\ inForce' = {}
         /\ UNCHANGED <<methods, active, known, working, posts, chain>>
  BY EndedJob, ClosedRow DEF DeviceGaveUp, Close, JobStates, OpStates

LEMMA EndsDoes ==
  ASSUME TypeOK, NEW i \in Requests, NEW state \in {"DONE", "FAILED", "EXPIRED"}, Ends(i, state)
  PROVE  /\ ops[i].state \in {"PREPARED", "SUBMITTED", "BROADCAST"}
         /\ Becomes(i, state, ops[i].tx, ops[i].amount) /\ before' = {} /\ inForce' = {}
         /\ UNCHANGED <<methods, active, known, broker, chain>>
  BY ClosedRow DEF Ends, Close, OpStates

LEMMA RecognisedDoes ==
  ASSUME TypeOK, NEW i \in Requests, Recognised(i)
  PROVE  /\ ops[i].state = "SUBMITTED" /\ ops[i].tx \in Txs /\ txs[ops[i].tx].limiter = ops[i].limiter
         /\ Becomes(i, "BROADCAST", ops[i].tx, txs[ops[i].tx].amount)
         /\ UNCHANGED <<methods, active, known, broker, chain, before, inForce>>
  <1>1. ops[i] \in Op /\ ops[i].tx # None
    BY DEF TypeOK, Recognised
  <1>2. ops[i].tx \in Txs
    BY <1>1 DEF Op
  <1>3. txs[ops[i].tx].amount \in Amounts
    BY <1>2 DEF TypeOK, Tx
  <1>4. QED
    BY <1>2, <1>3, SeenRow DEF Recognised, AsPrepared, AmountSigned, OpStates, OpenStates

LEMMA SubmitWalletDoes ==
  ASSUME TypeOK, NEW i \in Requests, NEW t \in Txs, SubmitWallet(i, t)
  PROVE  /\ ops[i].state = "PREPARED" /\ ops[i].method = "approve" /\ txs[t].status # "none"
         /\ Becomes(i, "SUBMITTED", t, ops[i].amount)
         /\ UNCHANGED <<methods, active, known, broker, chain, before, inForce>>
  BY SentRow DEF SubmitWallet, OpStates, OpenStates

LEMMA FinishDoes ==
  ASSUME TypeOK, NEW p \in posts, Finish(p)
  PROVE  /\ p \in Post /\ posts' = posts \ {p}
         /\ UNCHANGED jobs \/ (jobs[p.job].state = "LEASED"
                               /\ JobBecomes(p.job, IF p.ok THEN "SUCCEEDED" ELSE "FAILED", p.tx))
         /\ UNCHANGED <<table, working, chain, before, inForce>>
  <1>1. p \in Post /\ p.job \in Requests /\ p.tx \in Txs \cup {None}
    BY DEF TypeOK, Post
  <1>2. (IF p.ok THEN "SUCCEEDED" ELSE "FAILED") \in JobStates
    BY DEF JobStates
  <1>3. QED
    BY <1>1, <1>2, EndedJob DEF Finish, Accepted

LEMMA OpenedTypes ==
  ASSUME TypeOK, NEW l \in Limiters, Opened(l)
  PROVE  before' \subseteq Txs /\ inForce' \subseteq Nat
  <1>1. \A t \in Txs : txs[t].amount \in Nat
    BY Ranges DEF TypeOK, Tx
  <1>2. QED
    BY <1>1 DEF TypeOK, Opened

LEMMA SetsTypes ==
  ASSUME TypeOK, NEW l \in Limiters, NEW a \in Nat, Sets(l, a)
  PROVE  allowance' \in [Limiters -> Nat] /\ inForce' \subseteq Nat
  BY DEF TypeOK, Sets

\* A nonce that a permit has leaves room for the next.
LEMMA NextNonce ==
  ASSUME Inv, NEW t \in Txs, txs[t].status # "none", txs[t].kind = "permit", txs[t].nonce = permitNonce
  PROVE  permitNonce + 1 \in 0..MaxTxs
  <1> DEFINE nonceOf == [u \in Txs |-> txs[u].nonce]
  <1>1. permitNonce \in Nat
    BY DEF Inv, TypeOK
  <1>2. \A n \in 0..(permitNonce + 1) - 1 : \E u \in Txs : nonceOf[u] = n
    <2>1. \A n \in 0..permitNonce - 1 : \E u \in Txs : nonceOf[u] = n
      BY DEF Inv, PermitInv
    <2>2. nonceOf[t] = permitNonce
      OBVIOUS
    <2>3. \A n \in 0..(permitNonce + 1) - 1 : n \in 0..permitNonce - 1 \/ n = permitNonce
      BY <1>1
    <2>4. QED
      BY <2>1, <2>2, <2>3
  <1> HIDE DEF nonceOf
  <1>3. permitNonce + 1 <= MaxTxs
    BY <1>1, <1>2, NonceRoom
  <1>4. QED
    BY <1>1, <1>3, Ranges

LEMMA TypeBegins == Init => TypeOK
  <1>1. NoOp \in Op /\ NoOp.state = "none"
    <2>1. 0 \in 0..MaxTxs
      BY Ranges
    <2>2. QED
      BY <2>1, Ranges, LimiterAssumption DEF NoOp, Op, OpStates
  <1>2. NoJob \in Job
    BY Ranges, LimiterAssumption DEF NoJob, Job, JobStates
  <1>3. NoTx \in Tx
    <2>1. 0 \in 0..MaxTxs
      BY Ranges
    <2>2. QED
      BY <2>1, Ranges, LimiterAssumption DEF NoTx, Tx
  <1>4. QED
    BY <1>1, <1>2, <1>3, Ranges, LimiterAssumption DEF Init, TypeOK

\* The types of the operations, each with its transaction where it has to have one.
OpsTyped == /\ ops \in [Requests -> Op]
            /\ \A i \in Requests : ops[i].state \in {"SUBMITTED", "BROADCAST"} => ops[i].tx # None

LEMMA EditTypes ==
  ASSUME TypeOK, NEW i \in Requests, NEW s, NEW x, NEW a, Becomes(i, s, x, a),
         s \in {"SUBMITTED", "BROADCAST"} => x # None
  PROVE  OpsTyped'
  BY DEF TypeOK, OpsTyped, Becomes

LEMMA TypeStep == ASSUME Inv, [Next]_vars PROVE TypeOK'
  <1>0. /\ TypeOK /\ OpsTyped /\ None \notin Txs
        /\ \A t \in Txs : /\ txs[t].limiter \in Limiters /\ txs[t].amount \in Nat
    BY Ranges DEF Inv, TypeOK, OpsTyped, Tx
  <1> USE <1>0 DEF table, broker, chain
  <1> DEFINE Goal ==
               /\ UNCHANGED methods
               /\ UNCHANGED ops \/ OpsTyped'
               /\ active' \in Limiters /\ known' \subseteq Limiters
               /\ jobs' \in [Requests -> Job] /\ working' \in Requests \cup {None} /\ posts' \subseteq Post
               /\ txs' \in [Txs -> Tx]
               /\ UNCHANGED allowance \/ allowance' \in [Limiters -> Nat]
               /\ permitNonce' \in 0..MaxTxs /\ block' \subseteq Txs
               /\ before' \subseteq Txs /\ inForce' \subseteq Nat
  <1>00. /\ active \in Limiters /\ known \subseteq Limiters
         /\ jobs \in [Requests -> Job] /\ working \in Requests \cup {None} /\ posts \subseteq Post
         /\ txs \in [Txs -> Tx] /\ allowance \in [Limiters -> Nat]
         /\ permitNonce \in 0..MaxTxs /\ block \subseteq Txs
         /\ before \subseteq Txs /\ inForce \subseteq Nat
    BY DEF TypeOK
  <1> USE <1>00
  <1>1. ASSUME NEW l \in Limiters, Setup(l) PROVE Goal
    BY <1>1 DEF Setup
  <1>2. ASSUME Purchase PROVE Goal
    <2>1. allowance[active] - 1 \in Nat
      BY <1>2 DEF Purchase
    <2>2. QED
      BY <1>2, <2>1, SetsTypes DEF Purchase
  <1>3. ASSUME NEW i \in Requests, NEW kind \in {"GRANT", "REVOKE"}, NEW l \in Limiters,
              NEW a \in Amounts, NEW crashed \in BOOLEAN, DeviceOp(i, kind, l, a, crashed) PROVE Goal
    <2>1. OpsTyped' \/ UNCHANGED ops
      BY <1>3, DeviceOpDoes DEF OpsTyped
    <2>2. before' \subseteq Txs /\ inForce' \subseteq Nat
      <3>1. UNCHANGED <<before, inForce>> \/ Opened(l)
        BY <1>3, DeviceOpDoes
      <3>2. QED
        BY <3>1, OpenedTypes
    <2>3. QED
      BY <1>3, <2>1, <2>2, DeviceOpDoes
  <1>4. ASSUME NEW i \in Requests, NEW kind \in {"GRANT", "REVOKE"}, NEW l \in Limiters,
              NEW a \in Amounts, NEW method \in {"approve", "permit"},
              PrepareWallet(i, kind, l, a, method) PROVE Goal
    <2>1. OpsTyped'
      <3>1. \A j \in Requests : j = i \/ j \in OpenOps \/ ops'[j] = ops[j]
        BY <1>4, PrepareDoes
      <3>2. \A j \in Requests : ops'[j].state \in {"PREPARED", "EXPIRED"} \/ ops'[j] = ops[j]
        BY <1>4, <3>1, PrepareDoes
      <3>3. QED
        BY <1>4, <3>2, PrepareDoes DEF OpsTyped
    <2>2. before' \subseteq Txs /\ inForce' \subseteq Nat
      BY <1>4, PrepareDoes, OpenedTypes
    <2>3. QED
      BY <1>4, <2>1, <2>2, PrepareDoes
  <1>5. ASSUME NEW i \in Requests, NEW t \in Txs, SubmitWallet(i, t) PROVE Goal
    BY <1>5, SubmitWalletDoes, EditTypes
  <1>6. ASSUME NEW i \in Requests, NEW t \in Txs, NEW recorded \in BOOLEAN,
              SubmitPermit(i, t, recorded) PROVE Goal
    <2>1. UNCHANGED ops \/ Becomes(i, "BROADCAST", t, ops[i].amount)
      BY <1>6, SubmitPermitDoes
    <2>2. UNCHANGED ops \/ OpsTyped'
      BY <2>1, EditTypes
    <2>3. txs' \in [Txs -> Tx] /\ UNCHANGED <<methods, active, known, broker, allowance, permitNonce, block, before, inForce>>
      BY <1>6, SubmitPermitDoes DEF TxMade
    <2>4. QED
      BY <2>2, <2>3
  <1>7. ASSUME NEW i \in Requests, NEW state \in {"DONE", "FAILED", "EXPIRED"}, Ends(i, state) PROVE Goal
    BY <1>7, EndsDoes, EditTypes
  <1>8. ASSUME NEW i \in Requests, Recognised(i) PROVE Goal
    BY <1>8, RecognisedDoes, EditTypes
  <1>9. ASSUME NEW i \in Requests, DeviceGaveUp(i) PROVE Goal
    BY <1>9, DeviceGaveUpDoes, EditTypes DEF JobBecomes
  <1>10. ASSUME NEW i \in Requests, NEW taken \in BOOLEAN, NEW refused \in BOOLEAN,
              DeviceSigned(i, taken, refused) PROVE Goal
    <2> DEFINE t == jobs[i].tx
    <2>1. t \in Txs /\ t # None
      BY <1>10, DeviceSignedDoes DEF SignedFor
    <2>2. \E s \in {"BROADCAST", "FAILED"} : Becomes(i, s, t, ops[i].amount)
      BY <1>10, DeviceSignedDoes
    <2>3. OpsTyped'
      BY <2>1, <2>2, EditTypes
    <2>4. txs' \in [Txs -> Tx]
      BY <1>10, DeviceSignedDoes DEF TxBecomes
    <2>5. before' \subseteq Txs /\ inForce' \subseteq Nat
      BY <1>10, DeviceSignedDoes
    <2>6. UNCHANGED <<methods, active, known, broker, allowance, permitNonce, block>>
      BY <1>10, DeviceSignedDoes
    <2>7. QED
      BY <2>3, <2>4, <2>5, <2>6
  <1>11. ASSUME NEW i \in Requests, NEW taken \in BOOLEAN, NEW refused \in BOOLEAN,
              OfferAgain(i, taken, refused) PROVE Goal
    BY <1>11, OfferAgainDoes, EditTypes DEF TxBecomes
  <1>12. ASSUME NEW answered \in BOOLEAN, Claim(answered) PROVE Goal
    BY <1>12, ClaimDoes
  <1>13. ASSUME NEW t \in Txs, Sign(t) PROVE Goal
    <2>1. working \in Requests /\ t \in Txs \cup {None}
      BY <1>13 DEF Sign
    <2>2. [job |-> working, ok |-> TRUE, tx |-> t] \in Post
      BY <2>1 DEF Post
    <2>3. posts' \subseteq Post /\ working' = None
      BY <1>13, <2>2 DEF Sign
    <2>4. txs' \in [Txs -> Tx]
      BY <1>13, SignDoes DEF TxMade
    <2>5. UNCHANGED <<table, jobs, allowance, permitNonce, block, before, inForce>>
      BY <1>13 DEF Sign
    <2>6. QED
      BY <2>3, <2>4, <2>5
  <1>14. ASSUME GiveUp PROVE Goal
    <2>1. working \in Requests /\ None \in Txs \cup {None}
      BY <1>14 DEF GiveUp
    <2>2. [job |-> working, ok |-> FALSE, tx |-> None] \in Post
      BY <2>1 DEF Post
    <2>3. posts' \subseteq Post /\ working' = None
      BY <1>14, <2>2 DEF GiveUp
    <2>4. UNCHANGED <<table, jobs, chain, before, inForce>>
      BY <1>14 DEF GiveUp
    <2>5. QED
      BY <2>3, <2>4
  <1>15. ASSUME NEW p \in posts, Finish(p) PROVE Goal
    BY <1>15, FinishDoes DEF JobBecomes
  <1>16. ASSUME NEW p \in posts, LosePost(p) PROVE Goal
    BY <1>16 DEF LosePost
  <1>17. ASSUME NEW t \in Txs, NEW l \in Limiters, NEW a \in WalletAmounts, WalletSends(t, l, a) PROVE Goal
    BY <1>17, WalletSendsDoes DEF TxMade
  <1>18. ASSUME NEW t \in Txs, Mine(t) PROVE Goal
    <2>1. txs' \in [Txs -> Tx]
      BY <1>18, MovedTx DEF Mine, TxBecomes
    <2>2. permitNonce' \in 0..MaxTxs
      BY <1>18, NextNonce DEF Mine
    <2>3. allowance' \in [Limiters -> Nat] /\ inForce' \subseteq Nat
      BY <1>18, SetsTypes DEF Mine
    <2>4. QED
      BY <1>18, <2>1, <2>2, <2>3 DEF Mine
  <1>19. ASSUME NEW t \in Txs, Revert(t) PROVE Goal
    <2>1. txs' \in [Txs -> Tx]
      BY <1>19, MovedTx DEF Revert, TxBecomes
    <2>2. QED
      BY <1>19, <2>1 DEF Revert
  <1>20. ASSUME NEW t \in Txs, SubmittedByOther(t) PROVE Goal
    <2>1. permitNonce' \in 0..MaxTxs
      BY <1>20, NextNonce DEF SubmittedByOther
    <2>2. allowance' \in [Limiters -> Nat] /\ inForce' \subseteq Nat
      BY <1>20, SetsTypes DEF SubmittedByOther
    <2>3. QED
      BY <1>20, <2>1, <2>2 DEF SubmittedByOther
  <1>21. ASSUME Tick PROVE Goal
    BY <1>21, TickDoes DEF OpsTyped
  <1>22. ASSUME UNCHANGED vars PROVE Goal
    BY <1>22 DEF vars
  <1> HIDE <1>0, <1>00 DEF Goal, table, broker, chain
  <1>23. Goal
    BY <1>1, <1>2, <1>3, <1>4, <1>5, <1>6, <1>7, <1>8, <1>9, <1>10, <1>11, <1>12, <1>13, <1>14,
       <1>15, <1>16, <1>17, <1>18, <1>19, <1>20, <1>21, <1>22, OneOf
       DEF Next
  <1>24. QED
    <2>1. TypeOK /\ OpsTyped
      BY <1>0
    <2>2. QED
      BY <1>23, <2>1 DEF Goal, TypeOK, OpsTyped

-----------------------------------------------------------------------------
(* What a step does to one row, one job, one transaction                     *)

RowKept(i) == ops'[i].limiter = ops[i].limiter /\ ops'[i].method = ops[i].method
OpSame(i) == /\ ops'[i].state = ops[i].state /\ ops'[i].tx = ops[i].tx /\ ops'[i].amount = ops[i].amount
             /\ RowKept(i)
JobKept(i) == jobs'[i].limiter = jobs[i].limiter /\ jobs'[i].amount = jobs[i].amount
JobSame(i) == jobs'[i].state = jobs[i].state /\ jobs'[i].tx = jobs[i].tx /\ JobKept(i)
TxKept(t) ==
  /\ txs'[t].kind = txs[t].kind /\ txs'[t].limiter = txs[t].limiter /\ txs'[t].amount = txs[t].amount
  /\ txs'[t].nonce = txs[t].nonce /\ txs'[t].request = txs[t].request

\* The transaction of request i that the device signed is on its way or the row says so.
Delivers(i, t) == /\ jobs[i].state = "SUCCEEDED" /\ jobs[i].tx = t /\ SignedFor(i, t)
                  /\ ops'[i].state = "BROADCAST" /\ ops'[i].tx = t /\ ops[i].method = "device"

NewOp(i) ==
  /\ ops[i].state = "none" /\ jobs[i].state = "none"
  /\ \/ /\ ops'[i].state = "WAITING_DEVICE" /\ ops'[i].method = "device"
        /\ jobs'[i].state # "none"
        /\ jobs'[i].limiter = ops'[i].limiter /\ jobs'[i].amount = ops'[i].amount
     \/ ops'[i].state = "PREPARED" /\ ops'[i].method \in {"approve", "permit"}

OpEnds(i) ==
  /\ ops[i].state \in OpenStates /\ ops'[i].state \in {"DONE", "FAILED", "EXPIRED"}
  /\ ops'[i].amount = ops[i].amount /\ RowKept(i)
  /\ ops'[i].tx = ops[i].tx \/ ops[i].state = "WAITING_DEVICE"

OpNamed(i) ==
  /\ ops[i].state = "PREPARED" /\ ops[i].method = "approve" /\ ops'[i].state = "SUBMITTED"
  /\ ops'[i].tx \in Txs /\ txs[ops'[i].tx].status # "none"
  /\ ops'[i].amount = ops[i].amount /\ RowKept(i)

OpPermit(i) ==
  /\ ops[i].state = "PREPARED" /\ ops[i].method = "permit" /\ ops'[i].state = "BROADCAST"
  /\ PermitOf(i, ops[i].tx)'
  /\ ops'[i].amount = ops[i].amount /\ RowKept(i)

OpSeen(i) ==
  /\ ops[i].state = "SUBMITTED" /\ ops'[i].state = "BROADCAST"
  /\ ops[i].tx \in Txs /\ ops'[i].tx = ops[i].tx
  /\ txs[ops[i].tx].limiter = ops[i].limiter
  /\ ops'[i].amount = txs[ops[i].tx].amount /\ RowKept(i)

OpDelivers(i) ==
  /\ ops[i].state = "WAITING_DEVICE" /\ Delivers(i, ops'[i].tx)
  /\ ops'[i].amount = ops[i].amount /\ RowKept(i)

OpMoves(i) ==
  OpSame(i) \/ NewOp(i) \/ OpEnds(i) \/ OpNamed(i) \/ OpPermit(i) \/ OpSeen(i) \/ OpDelivers(i)

JobMoves(i) ==
  \/ JobSame(i)
  \/ jobs[i].state = "none" /\ ops[i].state = "none" /\ jobs'[i].state = "QUEUED"
  \/ jobs[i].state = "QUEUED" /\ jobs'[i].state \in {"LEASED", "EXPIRED"} /\ JobKept(i)
  \/ /\ jobs[i].state = "LEASED" /\ JobKept(i)
     /\ \E p \in posts : p.job = i /\ jobs'[i].tx = p.tx
                         /\ jobs'[i].state = IF p.ok THEN "SUCCEEDED" ELSE "FAILED"

TxMoves(t) ==
  \/ txs'[t] = txs[t]
  \/ txs[t].status = "pooled" /\ txs'[t].status \in {"mined", "reverted"} /\ TxKept(t)
  \/ /\ txs[t].status = "signed" /\ txs'[t].status = "pooled" /\ TxKept(t)
     /\ \E i \in Requests : Delivers(i, t)
  \/ /\ txs[t].status = "none" /\ txs'[t].status = "signed" /\ txs'[t].kind = "device"
     /\ working \in Requests /\ txs'[t].request = working
     /\ txs'[t].limiter = jobs[working].limiter /\ txs'[t].amount = jobs[working].amount
  \/ txs[t].status = "none" /\ txs'[t].status = "pooled" /\ txs'[t].kind = "approve"
  \/ /\ txs[t].status = "none" /\ txs'[t].status = "pooled" /\ txs'[t].kind = "permit"
     /\ \E i \in Requests :
          /\ ops[i].state = "PREPARED" /\ ops[i].method = "permit"
          /\ txs'[t].request = i /\ txs'[t].limiter = ops[i].limiter /\ txs'[t].amount = ops[i].amount

PostMoves ==
  /\ \A p \in posts' :
       \/ p \in posts
       \/ working \in Requests /\ p.job = working /\ (p.ok => SignedFor(p.job, p.tx)')
  /\ working' \in {working, None} \/ (working' \in Requests /\ jobs[working'].state \in {"LEASED", "QUEUED"})

NonceMoves ==
  \/ permitNonce' = permitNonce
  \/ /\ permitNonce' = permitNonce + 1
     /\ \E t \in Txs : txs[t].status # "none" /\ txs[t].kind = "permit" /\ txs[t].nonce = permitNonce

Moves == /\ \A i \in Requests : OpMoves(i)
         /\ \A i \in Requests : JobMoves(i)
         /\ \A t \in Txs : TxMoves(t)
         /\ PostMoves /\ NonceMoves

LEMMA StillOps == UNCHANGED ops => \A i \in Requests : OpMoves(i)
  BY DEF OpMoves, OpSame, RowKept
LEMMA StillJobs == UNCHANGED jobs => \A i \in Requests : JobMoves(i)
  BY DEF JobMoves, JobSame, JobKept
LEMMA StillTxs == UNCHANGED txs => \A t \in Txs : TxMoves(t)
  BY DEF TxMoves
LEMMA StillPosts == UNCHANGED <<posts, working>> => PostMoves
  BY DEF PostMoves
LEMMA StillNonce == UNCHANGED permitNonce => NonceMoves
  BY DEF NonceMoves

\* One row that an edit changes.
LEMMA EditMoves ==
  ASSUME NEW i \in Requests, NEW s, NEW x, NEW a, Becomes(i, s, x, a),
         OpEnds(i) \/ OpNamed(i) \/ OpPermit(i) \/ OpSeen(i) \/ OpDelivers(i)
  PROVE  \A j \in Requests : OpMoves(j)
  <1>1. ASSUME NEW j \in Requests, j # i PROVE OpMoves(j)
    BY <1>1 DEF OpMoves, OpSame, RowKept, Becomes
  <1>2. OpMoves(i)
    BY DEF OpMoves
  <1>3. QED
    BY <1>1, <1>2

\* One transaction that a step moves.
LEMMA TxMovesOf ==
  ASSUME NEW t \in Txs, NEW s, TxBecomes(t, s),
         \/ txs[t].status = "pooled" /\ s \in {"mined", "reverted"}
         \/ txs[t].status = "signed" /\ s = "pooled" /\ \E i \in Requests : Delivers(i, t)
  PROVE  \A u \in Txs : TxMoves(u)
  <1>1. ASSUME NEW u \in Txs, u # t PROVE TxMoves(u)
    BY <1>1 DEF TxMoves, TxBecomes
  <1>2. TxMoves(t)
    BY DEF TxMoves, TxBecomes, TxKept
  <1>3. QED
    BY <1>1, <1>2

LEMMA DeviceOpMoves ==
  ASSUME TypeOK, NEW i \in Requests, NEW kind \in {"GRANT", "REVOKE"}, NEW l \in Limiters,
         NEW a \in Amounts, NEW crashed \in BOOLEAN, DeviceOp(i, kind, l, a, crashed)
  PROVE  Moves
  <1>1. UNCHANGED <<posts, working, txs, permitNonce>>
    BY DeviceOpDoes DEF chain
  <1>2. \A j \in Requests : JobMoves(j)
    <2>1. JobMoves(i)
      BY DeviceOpDoes DEF JobMoves
    <2>2. \A j \in Requests : j # i => jobs'[j] = jobs[j]
      BY DeviceOpDoes
    <2>3. QED
      BY <2>1, <2>2 DEF JobMoves, JobSame, JobKept
  <1>3. \A j \in Requests : OpMoves(j)
    <2>1. CASE UNCHANGED ops
      BY <2>1, StillOps
    <2>2. CASE ops' # ops
      <3>1. NewOp(i)
        BY <2>2, DeviceOpDoes DEF NewOp
      <3>2. \A j \in Requests : j # i => ops'[j] = ops[j]
        BY <2>2, DeviceOpDoes
      <3>3. QED
        BY <3>1, <3>2 DEF OpMoves, OpSame, RowKept
    <2>3. QED
      BY <2>1, <2>2
  <1>4. QED
    BY <1>1, <1>2, <1>3, StillTxs, StillPosts, StillNonce DEF Moves

LEMMA PrepareMoves ==
  ASSUME TypeOK, NEW i \in Requests, NEW kind \in {"GRANT", "REVOKE"}, NEW l \in Limiters,
         NEW a \in Amounts, NEW method \in {"approve", "permit"}, PrepareWallet(i, kind, l, a, method)
  PROVE  Moves
  <1>1. UNCHANGED <<jobs, posts, working, txs, permitNonce>>
    BY PrepareDoes DEF chain, broker
  <1>2. NewOp(i)
    BY PrepareDoes DEF NewOp
  <1>3. ASSUME NEW j \in Requests, j # i PROVE OpMoves(j)
    <2>1. CASE j \in OpenOps
      BY <2>1, PrepareDoes DEF OpMoves, OpEnds, RowKept, OpenStates
    <2>2. CASE j \notin OpenOps
      BY <1>3, <2>2, PrepareDoes DEF OpMoves, OpSame, RowKept
    <2>3. QED
      BY <2>1, <2>2
  <1>4. \A j \in Requests : OpMoves(j)
    BY <1>2, <1>3 DEF OpMoves
  <1>5. QED
    BY <1>1, <1>4, StillJobs, StillTxs, StillPosts, StillNonce DEF Moves

LEMMA PermitMoves ==
  ASSUME TypeOK, NEW i \in Requests, NEW t \in Txs, NEW recorded \in BOOLEAN, SubmitPermit(i, t, recorded)
  PROVE  Moves
  <1>1. UNCHANGED <<jobs, posts, working, permitNonce>>
    BY SubmitPermitDoes DEF broker
  <1>2. ops[i].state = "PREPARED" /\ ops[i].method = "permit" /\ txs' \in [Txs -> Tx]
        /\ TxMade(t, "pooled", "permit", ops[i].limiter, ops[i].amount, ops[i].nonce, i)
        /\ (UNCHANGED ops \/ Becomes(i, "BROADCAST", t, ops[i].amount))
    BY SubmitPermitDoes DEF TxMade
  <1>3. \A u \in Txs : TxMoves(u)
    BY <1>2 DEF TxMoves, TxMade
  <1>4. \A j \in Requests : OpMoves(j)
    <2>1. CASE UNCHANGED ops
      BY <2>1, StillOps
    <2>2. CASE Becomes(i, "BROADCAST", t, ops[i].amount)
      <3>1. PermitOf(i, t)'
        BY <1>2 DEF PermitOf, TxMade
      <3>2. OpPermit(i)
        BY <1>2, <2>2, <3>1 DEF OpPermit, Becomes, RowKept
      <3>3. QED
        BY <2>2, <3>2, EditMoves
    <2>3. QED
      BY <1>2, <2>1, <2>2
  <1>5. QED
    BY <1>1, <1>3, <1>4, StillJobs, StillPosts, StillNonce DEF Moves

LEMMA EndsMoves ==
  ASSUME TypeOK, NEW i \in Requests, NEW state \in {"DONE", "FAILED", "EXPIRED"}, Ends(i, state)
  PROVE  Moves
  <1>1. UNCHANGED <<jobs, posts, working, txs, permitNonce>>
    BY EndsDoes DEF broker, chain
  <1>2. Becomes(i, state, ops[i].tx, ops[i].amount)
    BY EndsDoes
  <1>3. OpEnds(i)
    BY <1>2, EndsDoes DEF OpEnds, Becomes, RowKept, OpenStates
  <1>4. QED
    BY <1>1, <1>2, <1>3, EditMoves, StillJobs, StillTxs, StillPosts, StillNonce DEF Moves

LEMMA SubmitWalletMoves ==
  ASSUME TypeOK, NEW i \in Requests, NEW t \in Txs, SubmitWallet(i, t)
  PROVE  Moves
  <1>1. UNCHANGED <<jobs, posts, working, txs, permitNonce>>
    BY SubmitWalletDoes DEF broker, chain
  <1>2. Becomes(i, "SUBMITTED", t, ops[i].amount)
    BY SubmitWalletDoes
  <1>3. OpNamed(i)
    BY <1>2, SubmitWalletDoes DEF OpNamed, Becomes, RowKept
  <1>4. QED
    BY <1>1, <1>2, <1>3, EditMoves, StillJobs, StillTxs, StillPosts, StillNonce DEF Moves

LEMMA RecognisedMoves ==
  ASSUME TypeOK, NEW i \in Requests, Recognised(i)
  PROVE  Moves
  <1>1. UNCHANGED <<jobs, posts, working, txs, permitNonce>>
    BY RecognisedDoes DEF broker, chain
  <1>2. Becomes(i, "BROADCAST", ops[i].tx, txs[ops[i].tx].amount)
    BY RecognisedDoes
  <1>3. OpSeen(i)
    BY <1>2, RecognisedDoes DEF OpSeen, Becomes, RowKept
  <1>4. QED
    BY <1>1, <1>2, <1>3, EditMoves, StillJobs, StillTxs, StillPosts, StillNonce DEF Moves

LEMMA GaveUpMoves ==
  ASSUME TypeOK, NEW i \in Requests, DeviceGaveUp(i)
  PROVE  Moves
  <1>1. UNCHANGED <<posts, working, txs, permitNonce>>
    BY DeviceGaveUpDoes DEF chain
  <1>2. Becomes(i, "FAILED", ops[i].tx, ops[i].amount)
    BY DeviceGaveUpDoes
  <1>3. OpEnds(i)
    BY <1>2, DeviceGaveUpDoes DEF OpEnds, Becomes, RowKept, OpenStates
  <1>4. \A j \in Requests : JobMoves(j)
    <2>1. CASE UNCHANGED jobs
      BY <2>1, StillJobs
    <2>2. CASE jobs[i].state = "QUEUED" /\ JobBecomes(i, "EXPIRED", None)
      BY <2>2 DEF JobBecomes, JobMoves, JobSame, JobKept
    <2>3. QED
      BY <2>1, <2>2, DeviceGaveUpDoes
  <1>5. QED
    BY <1>1, <1>2, <1>3, <1>4, EditMoves, StillTxs, StillPosts, StillNonce DEF Moves

LEMMA SignedMoves ==
  ASSUME Inv, NEW i \in Requests, NEW taken \in BOOLEAN, NEW refused \in BOOLEAN,
         DeviceSigned(i, taken, refused)
  PROVE  Moves
  <1> DEFINE t == jobs[i].tx
  <1>1. UNCHANGED <<jobs, posts, working, permitNonce>>
    BY DeviceSignedDoes DEF broker
  <1>2. ops[i].state = "WAITING_DEVICE" /\ jobs[i].state = "SUCCEEDED" /\ SignedFor(i, t)
        /\ ops[i].method = "device"
    BY DeviceSignedDoes DEF Inv, SentInv
  <1>3. CASE Becomes(i, "FAILED", t, ops[i].amount) /\ UNCHANGED txs
    <2>1. OpEnds(i)
      BY <1>2, <1>3 DEF OpEnds, Becomes, RowKept, OpenStates
    <2>2. QED
      BY <1>1, <1>3, <2>1, EditMoves, StillJobs, StillTxs, StillPosts, StillNonce DEF Moves
  <1>4. CASE Becomes(i, "BROADCAST", t, ops[i].amount)
             /\ (UNCHANGED txs \/ (txs[t].status = "signed" /\ TxBecomes(t, "pooled")))
    <2>1. Delivers(i, t) /\ t \in Txs
      BY <1>2, <1>4 DEF Delivers, Becomes, SignedFor
    <2>2. OpDelivers(i)
      BY <1>2, <1>4, <2>1 DEF OpDelivers, Becomes, RowKept, Delivers
    <2>3. \A u \in Txs : TxMoves(u)
      BY <1>4, <2>1, StillTxs, TxMovesOf
    <2>4. QED
      BY <1>1, <1>4, <2>2, <2>3, EditMoves, StillJobs, StillPosts, StillNonce DEF Moves
  <1>5. QED
    BY <1>3, <1>4, DeviceSignedDoes

LEMMA AgainMoves ==
  ASSUME Inv, NEW i \in Requests, NEW taken \in BOOLEAN, NEW refused \in BOOLEAN,
         OfferAgain(i, taken, refused)
  PROVE  Moves
  <1> DEFINE t == jobs[i].tx
  <1>1. UNCHANGED <<jobs, posts, working, permitNonce>>
    BY OfferAgainDoes DEF broker
  <1>2. ops[i].state = "BROADCAST" /\ ops[i].tx = t /\ SignedFor(i, t) /\ t \in Txs
        /\ ops[i].method = "device" /\ jobs[i].state = "SUCCEEDED"
    BY OfferAgainDoes DEF OfferAgain, Inv, SentInv, SignedFor
  <1>3. CASE Becomes(i, "FAILED", ops[i].tx, ops[i].amount) /\ UNCHANGED txs
    <2>1. OpEnds(i)
      BY <1>2, <1>3 DEF OpEnds, Becomes, RowKept, OpenStates
    <2>2. QED
      BY <1>1, <1>3, <2>1, EditMoves, StillJobs, StillTxs, StillPosts, StillNonce DEF Moves
  <1>4. CASE UNCHANGED ops /\ (UNCHANGED txs \/ (txs[t].status = "signed" /\ TxBecomes(t, "pooled")))
    <2>1. Delivers(i, t)
      BY <1>2, <1>4 DEF Delivers
    <2>2. \A u \in Txs : TxMoves(u)
      BY <1>2, <1>4, <2>1, StillTxs, TxMovesOf
    <2>3. QED
      BY <1>1, <1>4, <2>2, StillOps, StillJobs, StillPosts, StillNonce DEF Moves
  <1>5. QED
    BY <1>3, <1>4, OfferAgainDoes

LEMMA ClaimMoves == ASSUME TypeOK, NEW answered \in BOOLEAN, Claim(answered) PROVE Moves
  <1>1. UNCHANGED <<ops, posts, txs, permitNonce>>
    BY ClaimDoes DEF table, chain
  <1>2. \A j \in Requests : JobMoves(j)
    BY ClaimDoes DEF JobMoves, JobSame, JobKept
  <1>3. PostMoves
    BY <1>1, ClaimDoes DEF PostMoves
  <1>4. QED
    BY <1>1, <1>2, <1>3, StillOps, StillTxs, StillNonce DEF Moves

LEMMA SignMoves == ASSUME TypeOK, NEW t \in Txs, Sign(t) PROVE Moves
  <1>1. UNCHANGED <<ops, jobs, permitNonce>>
    BY SignDoes DEF table
  <1>2. working \in Requests /\ txs' \in [Txs -> Tx] /\ working' = None
        /\ TxMade(t, "signed", "device", jobs[working].limiter, jobs[working].amount, 0, working)
    BY SignDoes DEF TxMade
  <1>3. \A u \in Txs : TxMoves(u)
    BY <1>2 DEF TxMoves, TxMade
  <1>4. PostMoves
    <2>1. /\ txs'[t].status = "signed" /\ txs'[t].kind = "device" /\ txs'[t].request = working
      BY <1>2 DEF TxMade
    <2>2. ASSUME NEW p \in posts', p \notin posts PROVE p.job = working /\ p.tx = t
      BY <2>2, SignDoes
    <2>3. ASSUME NEW p \in posts', p \notin posts PROVE SignedFor(p.job, p.tx)'
      BY <2>1, <2>2, <2>3 DEF SignedFor
    <2>4. QED
      BY <1>2, <2>2, <2>3 DEF PostMoves
  <1>5. QED
    BY <1>1, <1>3, <1>4, StillOps, StillJobs, StillNonce DEF Moves

LEMMA GiveUpMoves == ASSUME TypeOK, GiveUp PROVE Moves
  <1>1. UNCHANGED <<ops, jobs, txs, permitNonce>>
    BY DEF GiveUp, table, chain
  <1>2. working \in Requests
    BY DEF GiveUp, TypeOK
  <1>3. PostMoves
    <2> DEFINE report == [job |-> working, ok |-> FALSE, tx |-> None]
    <2>1. report.job = working /\ ~report.ok
      OBVIOUS
    <2>2. (\A p \in posts' : p \in posts \/ p = report) /\ working' = None
      BY DEF GiveUp
    <2> HIDE DEF report
    <2>3. QED
      BY <1>2, <2>1, <2>2 DEF PostMoves
  <1>4. QED
    BY <1>1, <1>3, StillOps, StillJobs, StillTxs, StillNonce DEF Moves

LEMMA FinishMoves == ASSUME TypeOK, NEW p \in posts, Finish(p) PROVE Moves
  <1>1. UNCHANGED <<ops, working, txs, permitNonce>> /\ posts' \subseteq posts
    BY FinishDoes DEF table, chain
  <1>2. \A j \in Requests : JobMoves(j)
    <2>1. CASE UNCHANGED jobs
      BY <2>1, StillJobs
    <2>2. CASE jobs[p.job].state = "LEASED"
               /\ JobBecomes(p.job, IF p.ok THEN "SUCCEEDED" ELSE "FAILED", p.tx)
      <3>1. JobMoves(p.job)
        BY <2>2 DEF JobBecomes, JobMoves, JobKept
      <3>2. \A j \in Requests : j # p.job => JobMoves(j)
        BY <2>2 DEF JobBecomes, JobMoves, JobSame, JobKept
      <3>3. QED
        BY <3>1, <3>2
    <2>3. QED
      BY <2>1, <2>2, FinishDoes
  <1>3. PostMoves
    BY <1>1 DEF PostMoves
  <1>4. QED
    BY <1>1, <1>2, <1>3, StillOps, StillTxs, StillNonce DEF Moves

LEMMA LosePostMoves == ASSUME TypeOK, NEW p \in posts, LosePost(p) PROVE Moves
  <1>1. UNCHANGED <<ops, jobs, working, txs, permitNonce>> /\ posts' \subseteq posts
    BY DEF LosePost, table, chain
  <1>2. PostMoves
    BY <1>1 DEF PostMoves
  <1>3. QED
    BY <1>1, <1>2, StillOps, StillJobs, StillTxs, StillNonce DEF Moves

LEMMA WalletSendsMoves ==
  ASSUME TypeOK, NEW t \in Txs, NEW l \in Limiters, NEW a \in WalletAmounts, WalletSends(t, l, a)
  PROVE  Moves
  <1>1. UNCHANGED <<ops, jobs, posts, working, permitNonce>>
    BY WalletSendsDoes DEF table, broker
  <1>2. \A u \in Txs : TxMoves(u)
    BY WalletSendsDoes DEF TxMoves, TxMade
  <1>3. QED
    BY <1>1, <1>2, StillOps, StillJobs, StillPosts, StillNonce DEF Moves

LEMMA MineMoves == ASSUME TypeOK, NEW t \in Txs, Mine(t) PROVE Moves
  <1>1. UNCHANGED <<ops, jobs, posts, working>> /\ txs[t].status = "pooled"
    BY DEF Mine, table, broker
  <1>2. TxBecomes(t, "mined")
    BY MovedTx DEF Mine
  <1>3. \A u \in Txs : TxMoves(u)
    BY <1>1, <1>2, TxMovesOf
  <1>4. NonceMoves
    BY DEF Mine, NonceMoves
  <1>5. QED
    BY <1>1, <1>3, <1>4, StillOps, StillJobs, StillPosts DEF Moves

LEMMA RevertMoves == ASSUME TypeOK, NEW t \in Txs, Revert(t) PROVE Moves
  <1>1. UNCHANGED <<ops, jobs, posts, working, permitNonce>> /\ txs[t].status = "pooled"
    BY DEF Revert, table, broker
  <1>2. TxBecomes(t, "reverted")
    BY MovedTx DEF Revert
  <1>3. \A u \in Txs : TxMoves(u)
    BY <1>1, <1>2, TxMovesOf
  <1>4. QED
    BY <1>1, <1>3, StillOps, StillJobs, StillPosts, StillNonce DEF Moves

LEMMA OtherMoves == ASSUME NEW t \in Txs, SubmittedByOther(t) PROVE Moves
  <1>1. UNCHANGED <<ops, jobs, posts, working, txs>>
    BY DEF SubmittedByOther, table, broker
  <1>2. NonceMoves
    BY DEF SubmittedByOther, NonceMoves
  <1>3. QED
    BY <1>1, <1>2, StillOps, StillJobs, StillPosts, StillTxs DEF Moves

LEMMA TickMoves == ASSUME TypeOK, Tick PROVE Moves
  <1>1. UNCHANGED <<posts, working, txs, permitNonce>>
    BY TickDoes
  <1>2. \A i \in Requests : OpMoves(i) /\ JobMoves(i)
    BY TickDoes DEF OpMoves, OpSame, RowKept, JobMoves, JobSame, JobKept
  <1>3. QED
    BY <1>1, <1>2, StillPosts, StillTxs, StillNonce DEF Moves

LEMMA StillMoves == UNCHANGED <<ops, jobs, posts, working, txs, permitNonce>> => Moves
  BY StillOps, StillJobs, StillPosts, StillTxs, StillNonce DEF Moves

LEMMA StepMoves == ASSUME Inv, [Next]_vars PROVE Moves
  <1>0. TypeOK
    BY DEF Inv
  <1>1. ASSUME NEW l \in Limiters, Setup(l) PROVE Moves
    BY <1>1, StillMoves DEF Setup, broker, chain
  <1>2. ASSUME Purchase PROVE Moves
    BY <1>2, StillMoves DEF Purchase, table, broker
  <1>3. ASSUME UNCHANGED vars PROVE Moves
    BY <1>3, StillMoves DEF vars, table, broker, chain
  <1>4. QED
    BY <1>0, <1>1, <1>2, <1>3, OneOf, DeviceOpMoves, PrepareMoves, PermitMoves, EndsMoves,
       SubmitWalletMoves, RecognisedMoves, GaveUpMoves, SignedMoves, AgainMoves, ClaimMoves,
       SignMoves, GiveUpMoves, FinishMoves, LosePostMoves, WalletSendsMoves, MineMoves,
       RevertMoves, OtherMoves, TickMoves
       DEF Next

-----------------------------------------------------------------------------
(* The invariant, from what moves                                            *)

\* What there is stays what it is.
LEMMA Stays ==
  ASSUME Moves, NEW i \in Requests, NEW t \in Txs
  PROVE  /\ txs[t].status # "none" => txs'[t].status # "none" /\ TxKept(t)
         /\ jobs[i].state # "none" => jobs'[i].state # "none" /\ JobKept(i)
         /\ jobs[i].state = "SUCCEEDED" => JobSame(i)
         /\ ops[i].state # "none" => ops'[i].state # "none" /\ RowKept(i)
         /\ SignedFor(i, t) => SignedFor(i, t)'
         /\ PermitOf(i, t) => PermitOf(i, t)'
  <1>1. txs[t].status # "none" => txs'[t].status # "none" /\ TxKept(t)
    BY DEF Moves, TxMoves, TxKept
  <1>2. (jobs[i].state # "none" => jobs'[i].state # "none" /\ JobKept(i))
        /\ (jobs[i].state = "SUCCEEDED" => JobSame(i))
    BY DEF Moves, JobMoves, JobSame, JobKept
  <1>3. ops[i].state # "none" => ops'[i].state # "none" /\ RowKept(i)
    BY DEF Moves, OpMoves, OpSame, NewOp, OpEnds, OpNamed, OpPermit, OpSeen, OpDelivers, Delivers,
           OpenStates
  <1>4. (SignedFor(i, t) => SignedFor(i, t)') /\ (PermitOf(i, t) => PermitOf(i, t)')
    BY <1>1 DEF SignedFor, PermitOf, TxKept
  <1>5. QED
    BY <1>1, <1>2, <1>3, <1>4

\* A request that has a row for the device or a permit keeps its amount.
LEMMA AmountStays ==
  ASSUME Inv, Moves, NEW i \in Requests, ops[i].state # "none", ops[i].method # "approve"
  PROVE  ops'[i].amount = ops[i].amount
  BY DEF Inv, WalletInv, Moves, OpMoves, OpSame, NewOp, OpEnds, OpNamed, OpPermit, OpSeen,
     OpDelivers

LEMMA JobStep == ASSUME Inv, Moves PROVE JobInv'
  <1>1. ASSUME NEW i \in Requests, NEW t \in Txs, SignedFor(i, t)'
        PROVE  jobs'[i].state # "none" /\ txs'[t].limiter = jobs'[i].limiter
               /\ txs'[t].amount = jobs'[i].amount
    <2>1. CASE SignedFor(i, t)
      <3>1. jobs[i].state # "none" /\ txs[t].limiter = jobs[i].limiter /\ txs[t].amount = jobs[i].amount
        BY <2>1 DEF Inv, JobInv
      <3>2. TxKept(t) /\ jobs'[i].state # "none" /\ JobKept(i)
        BY <2>1, <3>1, Stays DEF SignedFor
      <3>3. QED
        BY <3>1, <3>2 DEF TxKept, JobKept
    <2>2. CASE ~SignedFor(i, t)
      <3>1. /\ working \in Requests /\ txs'[t].request = working
            /\ txs'[t].limiter = jobs[working].limiter /\ txs'[t].amount = jobs[working].amount
        BY <1>1, <2>2 DEF SignedFor, Moves, TxMoves, TxKept
      <3>2. i = working
        BY <1>1, <3>1 DEF SignedFor
      <3>3. working # None
        BY <3>1, Ranges
      <3>4. jobs[i].state # "none"
        BY <3>2, <3>3 DEF Inv, JobInv
      <3>5. jobs'[i].state # "none" /\ JobKept(i)
        BY <3>4, Stays
      <3>6. QED
        BY <3>1, <3>2, <3>5 DEF JobKept
    <2>3. QED
      BY <2>1, <2>2
  <1>2. ASSUME NEW t \in Txs, txs'[t].status # "none", txs'[t].kind = "device"
        PROVE  txs'[t].request \in Requests
    BY <1>2 DEF Inv, JobInv, Moves, TxMoves, TxKept
  <1>3. ASSUME NEW i \in Requests, jobs'[i].state = "SUCCEEDED" PROVE SignedFor(i, jobs[i].tx)'
    <2>1. CASE jobs[i].state = "SUCCEEDED"
      <3>1. SignedFor(i, jobs[i].tx) /\ jobs[i].tx \in Txs
        BY <2>1 DEF Inv, JobInv, SignedFor
      <3>2. jobs'[i].tx = jobs[i].tx
        BY <2>1, <3>1, Stays DEF JobSame
      <3>3. txs[jobs[i].tx].status # "none" /\ TxKept(jobs[i].tx) /\ txs'[jobs[i].tx].status # "none"
        BY <3>1, Stays DEF SignedFor
      <3>4. QED
        BY <3>1, <3>2, <3>3 DEF SignedFor, TxKept
    <2>2. CASE jobs[i].state # "SUCCEEDED"
      <3>1. PICK p \in posts : p.job = i /\ jobs'[i].tx = p.tx /\ p.ok
        BY <1>3, <2>2 DEF Moves, JobMoves, JobSame
      <3>2. SignedFor(i, p.tx) /\ p.tx \in Txs
        BY <3>1 DEF Inv, JobInv, SignedFor
      <3>3. txs[p.tx].status # "none" /\ TxKept(p.tx) /\ txs'[p.tx].status # "none"
        BY <3>2, Stays DEF SignedFor
      <3>4. QED
        BY <3>1, <3>2, <3>3 DEF SignedFor, TxKept
    <2>3. QED
      BY <2>1, <2>2
  <1>4. ASSUME NEW p \in posts' PROVE jobs'[p.job].state # "none" /\ (p.ok => SignedFor(p.job, p.tx)')
    <2>1. CASE p \in posts
      <3>1. p.job \in Requests
        BY <2>1 DEF Inv, TypeOK, Post
      <3>2. jobs[p.job].state # "none" /\ (p.ok => SignedFor(p.job, p.tx))
        BY <2>1 DEF Inv, JobInv
      <3>3. jobs'[p.job].state # "none"
        BY <3>1, <3>2, Stays DEF Moves, JobMoves, JobSame
      <3>4. p.ok => SignedFor(p.job, p.tx)'
        <4>1. SUFFICES ASSUME p.ok PROVE SignedFor(p.job, p.tx)'
          OBVIOUS
        <4>2. SignedFor(p.job, p.tx) /\ p.tx \in Txs
          BY <3>2, <4>1 DEF SignedFor
        <4>3. QED
          BY <3>1, <4>2, Stays
      <3>5. QED
        BY <3>3, <3>4
    <2>2. CASE p \notin posts
      <3>1. working \in Requests /\ p.job = working /\ (p.ok => SignedFor(p.job, p.tx)')
        BY <2>2 DEF Moves, PostMoves
      <3>2. working # None
        BY <3>1, Ranges
      <3>3. jobs[working].state # "none"
        BY <3>2 DEF Inv, JobInv
      <3>4. QED
        BY <3>1, <3>3 DEF Moves, JobMoves, JobSame
    <2>3. QED
      BY <2>1, <2>2
  <1>5. working' # None => jobs'[working'].state # "none"
    <2>1. SUFFICES ASSUME working' # None PROVE jobs'[working'].state # "none"
      OBVIOUS
    <2>2. working' = working \/ (working' \in Requests /\ jobs[working'].state \in {"LEASED", "QUEUED"})
      BY <2>1 DEF Moves, PostMoves
    <2>3. working' \in Requests
      BY <2>1, <2>2 DEF Inv, TypeOK
    <2>4. jobs[working'].state # "none"
      BY <2>1, <2>2 DEF Inv, JobInv
    <2>5. QED
      BY <2>3, <2>4 DEF Moves, JobMoves, JobSame
  <1>6. ASSUME NEW i \in Requests, ops'[i].state # "none", ops'[i].method = "device"
        PROVE  jobs'[i].state # "none" /\ jobs'[i].limiter = ops'[i].limiter
               /\ jobs'[i].amount = ops'[i].amount
    <2>1. CASE ops[i].state # "none"
      <3>1. RowKept(i) /\ ops[i].method = "device"
        BY <1>6, <2>1
           DEF Moves, OpMoves, OpSame, NewOp, OpEnds, OpNamed, OpPermit, OpSeen, OpDelivers,
                          RowKept
      <3>2. ops'[i].amount = ops[i].amount
        BY <2>1, <3>1, AmountStays
      <3>3. jobs[i].state # "none" /\ jobs[i].limiter = ops[i].limiter /\ jobs[i].amount = ops[i].amount
        BY <2>1, <3>1 DEF Inv, JobInv
      <3>4. jobs'[i].state # "none" /\ JobKept(i)
        BY <3>3 DEF Moves, JobMoves, JobSame, JobKept
      <3>5. QED
        BY <3>1, <3>2, <3>3, <3>4 DEF RowKept, JobKept
    <2>2. CASE ops[i].state = "none"
      BY <1>6, <2>2
         DEF Moves, OpMoves, OpSame, NewOp, OpEnds, OpNamed, OpPermit, OpSeen, OpDelivers,
                        OpenStates
    <2>3. QED
      BY <2>1, <2>2
  <1>7. QED
    BY <1>1, <1>2, <1>3, <1>4, <1>5, <1>6 DEF JobInv

LEMMA SentStep == ASSUME Inv, Moves PROVE SentInv'
  <1>1. ASSUME NEW i \in Requests, NEW t \in Txs, SignedFor(i, t)', txs'[t].status # "signed"
        PROVE  /\ ops'[i].tx = t /\ ops'[i].method = "device"
               /\ ops'[i].state \notin {"none", "PREPARED", "WAITING_DEVICE"}
    <2>1. CASE SignedFor(i, t) /\ txs[t].status # "signed"
      <3>1. /\ ops[i].tx = t /\ ops[i].method = "device"
            /\ ops[i].state \notin {"none", "PREPARED", "WAITING_DEVICE"}
        BY <2>1 DEF Inv, SentInv
      <3>2. ops[i].state # "SUBMITTED"
        BY <3>1 DEF Inv, WalletInv
      <3>3. OpSame(i) \/ OpEnds(i)
        BY <3>1, <3>2 DEF Moves, OpMoves, NewOp, OpNamed, OpPermit, OpSeen, OpDelivers
      <3>4. QED
        BY <3>1, <3>3 DEF OpSame, OpEnds, RowKept
    <2>2. CASE SignedFor(i, t) /\ txs[t].status = "signed"
      <3>1. \E j \in Requests : Delivers(j, t)
        BY <1>1, <2>2 DEF Moves, TxMoves, SignedFor
      <3>2. Delivers(i, t)
        BY <2>2, <3>1 DEF Delivers, SignedFor
      <3>3. ops[i].state # "none"
        <4>1. CASE ops[i].state = "none"
          BY <3>2, <4>1
             DEF Moves, OpMoves, OpSame, NewOp, OpEnds, OpNamed, OpPermit, OpSeen, OpDelivers,
                            Delivers, OpenStates
        <4>2. QED
          BY <4>1
      <3>4. ops'[i].method = "device"
        BY <3>2, <3>3, Stays DEF Delivers, RowKept
      <3>5. QED
        BY <3>2, <3>4 DEF Delivers
    <2>3. CASE ~SignedFor(i, t)
      BY <1>1, <2>3 DEF SignedFor, Moves, TxMoves, TxKept
    <2>4. QED
      BY <2>1, <2>2, <2>3
  <1>2. ASSUME NEW i \in Requests, ops'[i].state = "BROADCAST", ops'[i].method = "device"
        PROVE  jobs'[i].state = "SUCCEEDED" /\ jobs'[i].tx = ops'[i].tx
    <2>1. CASE OpSame(i)
      <3>1. jobs[i].state = "SUCCEEDED" /\ jobs[i].tx = ops'[i].tx
        BY <1>2, <2>1 DEF OpSame, RowKept, Inv, SentInv
      <3>2. JobSame(i)
        BY <3>1 DEF Moves, JobMoves
      <3>3. QED
        BY <3>1, <3>2 DEF JobSame
    <2>2. CASE OpDelivers(i)
      <3>1. jobs[i].state = "SUCCEEDED" /\ jobs[i].tx = ops'[i].tx
        BY <2>2 DEF OpDelivers, Delivers
      <3>2. JobSame(i)
        BY <3>1 DEF Moves, JobMoves
      <3>3. QED
        BY <3>1, <3>2 DEF JobSame
    <2>3. CASE OpSeen(i)
      <3>1. ops[i].method = "approve"
        BY <2>3 DEF OpSeen, Inv, WalletInv
      <3>2. QED
        BY <1>2, <2>3, <3>1 DEF OpSeen, RowKept
    <2>4. CASE NewOp(i) \/ OpEnds(i) \/ OpNamed(i) \/ OpPermit(i)
      BY <1>2, <2>4 DEF NewOp, OpEnds, OpNamed, OpPermit, RowKept
    <2>5. QED
      BY <2>1, <2>2, <2>3, <2>4 DEF Moves, OpMoves
  <1>3. ASSUME NEW i \in Requests, ops'[i].state = "WAITING_DEVICE" PROVE ops'[i].method = "device"
    <2>1. OpSame(i) \/ NewOp(i)
      BY <1>3 DEF Moves, OpMoves, OpEnds, OpNamed, OpPermit, OpSeen, OpDelivers, Delivers
    <2>2. QED
      BY <1>3, <2>1 DEF OpSame, NewOp, RowKept, Inv, SentInv
  <1>4. QED
    BY <1>1, <1>2, <1>3 DEF SentInv

LEMMA PermitStep == ASSUME Inv, Moves PROVE PermitInv'
  <1>1. ASSUME NEW t \in Txs, txs'[t].status # "none", txs'[t].kind = "permit"
        PROVE  LET i == txs'[t].request
               IN  /\ i \in Requests /\ ops'[i].state # "none" /\ ops'[i].method = "permit"
                   /\ txs'[t].limiter = ops'[i].limiter /\ txs'[t].amount = ops'[i].amount
    <2> DEFINE i == txs'[t].request
    <2>1. /\ i \in Requests /\ ops[i].state # "none" /\ ops[i].method = "permit"
          /\ txs'[t].limiter = ops[i].limiter /\ txs'[t].amount = ops[i].amount
      <3>1. CASE txs[t].status # "none"
        <4>1. TxKept(t)
          BY <3>1 DEF Moves, TxMoves, TxKept
        <4>2. QED
          BY <1>1, <3>1, <4>1 DEF TxKept, Inv, PermitInv, Agrees
      <3>2. CASE txs[t].status = "none"
        <4>1. PICK j \in Requests :
                /\ ops[j].state = "PREPARED" /\ ops[j].method = "permit"
                /\ txs'[t].request = j /\ txs'[t].limiter = ops[j].limiter /\ txs'[t].amount = ops[j].amount
          BY <1>1, <3>2 DEF Moves, TxMoves
        <4>2. QED
          BY <4>1
      <3>3. QED
        BY <3>1, <3>2
    <2>2. ops'[i].state # "none" /\ RowKept(i)
      BY <1>1, <2>1, Stays
    <2>3. ops'[i].amount = ops[i].amount
      BY <2>1, AmountStays
    <2>4. QED
      BY <2>1, <2>2, <2>3 DEF RowKept
  <1>2. ASSUME NEW i \in Requests, ops'[i].state = "BROADCAST", ops'[i].method = "permit"
        PROVE  PermitOf(i, ops[i].tx)'
    <2>1. CASE OpSame(i)
      <3>1. PermitOf(i, ops[i].tx) /\ ops'[i].tx = ops[i].tx
        BY <1>2, <2>1 DEF OpSame, RowKept, Inv, PermitInv
      <3>2. TxKept(ops[i].tx) /\ txs'[ops[i].tx].status # "none" /\ ops[i].tx \in Txs
        BY <3>1, Stays DEF PermitOf
      <3>3. QED
        BY <3>1, <3>2 DEF PermitOf, TxKept
    <2>2. CASE OpSeen(i)
      <3>1. ops[i].method = "approve"
        BY <2>2 DEF OpSeen, Inv, WalletInv
      <3>2. QED
        BY <1>2, <2>2, <3>1 DEF OpSeen, RowKept
    <2>3. CASE OpDelivers(i)
      BY <1>2, <2>3 DEF OpDelivers, Delivers, RowKept
    <2>4. CASE NewOp(i) \/ OpEnds(i) \/ OpNamed(i)
      BY <1>2, <2>4 DEF NewOp, OpEnds, OpNamed
    <2>5. CASE OpPermit(i)
      BY <2>5 DEF OpPermit
    <2>6. QED
      BY <2>1, <2>2, <2>3, <2>4, <2>5 DEF Moves, OpMoves
  <1>3. \A n \in 0..permitNonce' - 1 :
          \E t \in Txs : txs'[t].status # "none" /\ txs'[t].kind = "permit" /\ txs'[t].nonce = n
    <2>1. ASSUME NEW n \in 0..permitNonce' - 1
          PROVE  \E t \in Txs : txs[t].status # "none" /\ txs[t].kind = "permit" /\ txs[t].nonce = n
      <3>1. permitNonce \in Nat
        BY DEF Inv, TypeOK
      <3>2. CASE n \in 0..permitNonce - 1
        BY <3>2 DEF Inv, PermitInv
      <3>3. CASE n \notin 0..permitNonce - 1
        <4>1. permitNonce' # permitNonce
          BY <2>1, <3>3
        <4>2. permitNonce' = permitNonce + 1
              /\ \E t \in Txs : txs[t].status # "none" /\ txs[t].kind = "permit" /\ txs[t].nonce = permitNonce
          BY <4>1 DEF Moves, NonceMoves
        <4>3. n = permitNonce
          BY <2>1, <3>1, <3>3, <4>2
        <4>4. QED
          BY <4>2, <4>3
      <3>4. QED
        BY <3>2, <3>3
    <2>2. ASSUME NEW n \in 0..permitNonce' - 1
          PROVE  \E t \in Txs : txs'[t].status # "none" /\ txs'[t].kind = "permit" /\ txs'[t].nonce = n
      <3>1. PICK t \in Txs : txs[t].status # "none" /\ txs[t].kind = "permit" /\ txs[t].nonce = n
        BY <2>1
      <3>2. txs'[t].status # "none" /\ TxKept(t)
        BY <3>1 DEF Moves, TxMoves, TxKept
      <3>3. QED
        BY <3>1, <3>2 DEF TxKept
    <2>3. QED
      BY <2>2
  <1>4. QED
    BY <1>1, <1>2, <1>3 DEF PermitInv, Agrees

LEMMA WalletStep == ASSUME Inv, Moves PROVE WalletInv'
  <1>1. ASSUME NEW i \in Requests, ops'[i].state = "SUBMITTED"
        PROVE  ops'[i].method = "approve" /\ txs'[ops'[i].tx].status # "none"
    <2>1. ops'[i].method = "approve" /\ ops'[i].tx \in Txs /\ txs[ops'[i].tx].status # "none"
      <3>1. CASE OpSame(i)
        <4>1. ops[i].tx \in Txs
          BY <1>1, <3>1 DEF OpSame, Inv, TypeOK, Op
        <4>2. QED
          BY <1>1, <3>1, <4>1 DEF OpSame, RowKept, Inv, WalletInv
      <3>2. CASE OpNamed(i)
        BY <3>2 DEF OpNamed, RowKept
      <3>3. QED
        BY <1>1, <3>1, <3>2
           DEF Moves, OpMoves, NewOp, OpEnds, OpPermit, OpSeen, OpDelivers, Delivers
    <2>2. QED
      BY <2>1, Stays
  <1>2. ASSUME NEW i \in Requests, ops'[i].state = "BROADCAST", ops'[i].method = "approve"
        PROVE  /\ txs'[ops'[i].tx].status # "none"
               /\ txs'[ops'[i].tx].limiter = ops'[i].limiter /\ txs'[ops'[i].tx].amount = ops'[i].amount
    <2> DEFINE t == ops'[i].tx
    <2>1. /\ t \in Txs /\ txs[t].status # "none" /\ txs[t].limiter = ops'[i].limiter
          /\ txs[t].amount = ops'[i].amount
      <3>1. CASE OpSame(i)
        <4>1. ops[i].tx \in Txs
          BY <1>2, <3>1 DEF OpSame, Inv, TypeOK, Op
        <4>2. QED
          BY <1>2, <3>1, <4>1 DEF OpSame, RowKept, Inv, WalletInv, Agrees
      <3>2. CASE OpSeen(i)
        BY <3>2 DEF OpSeen, RowKept, Inv, WalletInv
      <3>3. CASE OpPermit(i) \/ OpDelivers(i)
        BY <1>2, <3>3 DEF OpPermit, OpDelivers, Delivers, RowKept
      <3>4. QED
        BY <1>2, <3>1, <3>2, <3>3 DEF Moves, OpMoves, NewOp, OpEnds, OpNamed
    <2>2. txs'[t].status # "none" /\ TxKept(t)
      BY <2>1, Stays
    <2>3. QED
      BY <2>1, <2>2 DEF TxKept
  <1>3. QED
    BY <1>1, <1>2 DEF WalletInv, Agrees

\* A step that takes nothing into force, closes and opens nothing.
LEMMA ForceQuiet ==
  ASSUME Inv, Moves, UNCHANGED <<allowance, inForce, before>>,
         \A t \in Txs : txs'[t].status = "mined" => txs[t].status = "mined",
         \A i \in Requests : ops'[i].state \in OpenStates => ops[i].state \in OpenStates
  PROVE  ForceInv'
  <1>1. \A i \in OpenOps' : i \in OpenOps /\ i \in Requests /\ ops'[i].limiter = ops[i].limiter
    <2>1. ASSUME NEW i \in OpenOps' PROVE i \in OpenOps /\ i \in Requests
      BY <2>1 DEF OpenOps
    <2>2. ASSUME NEW i \in OpenOps' PROVE ops'[i].limiter = ops[i].limiter
      BY <2>1, <2>2 DEF OpenOps, Moves, OpMoves, OpSame, NewOp, OpEnds, OpNamed, OpPermit, OpSeen,
                        OpDelivers, RowKept, OpenStates
    <2>3. QED
      BY <2>1, <2>2
  <1>2. \A t \in before : t \in Txs /\ txs[t].status # "none"
    BY DEF Inv, TypeOK, ForceInv
  <1>3. \A t \in Txs : txs[t].status # "none" => TxKept(t) /\ txs'[t].status # "none"
    BY DEF Moves, TxMoves, TxKept
  <1>4. \A i, j \in OpenOps' : i = j
    BY <1>1 DEF Inv, ForceInv
  <1>5. \A t \in before' : txs'[t].status # "none"
    BY <1>2, <1>3
  <1>6. ASSUME NEW i \in OpenOps' PROVE allowance'[ops'[i].limiter] \in inForce'
    BY <1>1 DEF Inv, ForceInv
  <1>7. ASSUME NEW i \in OpenOps', NEW t \in Txs, txs'[t].status = "mined",
               txs'[t].limiter = ops'[i].limiter, t \notin before'
        PROVE  txs'[t].amount \in inForce'
    <2>1. txs[t].status = "mined" /\ TxKept(t)
      BY <1>3, <1>7
    <2>2. i \in OpenOps /\ txs[t].limiter = ops[i].limiter /\ t \notin before
      BY <1>1, <1>7, <2>1 DEF TxKept
    <2>3. txs[t].amount \in inForce
      BY <2>1, <2>2 DEF Inv, ForceInv
    <2>4. QED
      BY <2>1, <2>3 DEF TxKept
  <1>8. ASSUME NEW i \in OpenOps', NEW t \in before' PROVE ~SignedFor(i, t)' /\ ~PermitOf(i, t)'
    <2>1. i \in OpenOps /\ t \in before /\ TxKept(t) /\ txs[t].status # "none"
      BY <1>1, <1>2, <1>3
    <2>2. ~SignedFor(i, t) /\ ~PermitOf(i, t)
      BY <2>1 DEF Inv, ForceInv
    <2>3. QED
      BY <2>1, <2>2 DEF SignedFor, PermitOf, TxKept
  <1>9. QED
    BY <1>4, <1>5, <1>6, <1>7, <1>8 DEF ForceInv

\* The open request ends.
LEMMA ForceClosed ==
  ASSUME Inv, NEW i \in Requests, ops[i].state \in OpenStates,
         NEW s \in {"DONE", "FAILED", "EXPIRED"}, NEW x, NEW a, Becomes(i, s, x, a), before' = {}
  PROVE  ForceInv'
  <1>1. \A j \in OpenOps : j = i
    BY DEF Inv, ForceInv, OpenOps
  <1>2. OpenOps' = {}
    BY <1>1 DEF Becomes, OpenOps, OpenStates
  <1>3. QED
    BY <1>2 DEF ForceInv

\* A request opens, and every other one is closed.
LEMMA ForceOpened ==
  ASSUME Inv, NEW i \in Requests, ops[i].state = "none", jobs[i].state = "none",
         ops'[i].limiter \in Limiters, Opened(ops'[i].limiter), UNCHANGED <<txs, allowance>>,
         \A j \in OpenOps' : j = i
  PROVE  ForceInv'
  <1> DEFINE l == ops'[i].limiter
  <1>1. /\ before' = {t \in Txs : txs[t].status = "mined"} \ block
        /\ inForce' = {allowance[l]} \cup {txs[t].amount : t \in {u \in block : txs[u].limiter = l}}
    BY DEF Opened
  <1>2. \A t \in before' : txs'[t].status # "none"
    BY <1>1
  <1>3. allowance'[l] \in inForce'
    BY <1>1
  <1>4. ASSUME NEW t \in Txs, txs'[t].status = "mined", txs'[t].limiter = l, t \notin before'
        PROVE  txs'[t].amount \in inForce'
    <2>1. t \in block
      BY <1>1, <1>4
    <2>2. QED
      BY <1>1, <1>4, <2>1
  <1>5. ASSUME NEW t PROVE ~SignedFor(i, t)' /\ ~PermitOf(i, t)'
    <2>1. ~SignedFor(i, t)
      BY DEF Inv, JobInv, SignedFor
    <2>2. ~PermitOf(i, t)
      BY DEF Inv, PermitInv, PermitOf
    <2>3. QED
      BY <2>1, <2>2 DEF SignedFor, PermitOf
  <1>6. QED
    BY <1>2, <1>3, <1>4, <1>5 DEF ForceInv

\* The allowance of a limiter is set.
LEMMA ForceSets ==
  ASSUME Inv, Moves, NEW l \in Limiters, NEW a \in Nat, Sets(l, a), UNCHANGED <<ops, before>>,
         \A t \in Txs : txs'[t].status = "mined" =>
                          txs[t].status = "mined" \/ (txs'[t].limiter = l /\ txs'[t].amount = a)
  PROVE  ForceInv'
  <1>1. OpenOps' = OpenOps
    BY DEF OpenOps
  <1>2. \A t \in before : t \in Txs /\ txs[t].status # "none"
    BY DEF Inv, TypeOK, ForceInv
  <1>3. \A t \in Txs : txs[t].status # "none" => TxKept(t) /\ txs'[t].status # "none"
    BY DEF Moves, TxMoves, TxKept
  <1>4. allowance' = [allowance EXCEPT ![l] = a] /\ allowance \in [Limiters -> Nat]
    BY DEF Sets, Inv, TypeOK
  <1>5. inForce \subseteq inForce' /\ \A i \in OpenOps : ops[i].limiter = l => a \in inForce'
    BY DEF Sets
  <1>6. \A i, j \in OpenOps' : i = j
    BY <1>1 DEF Inv, ForceInv
  <1>7. \A t \in before' : txs'[t].status # "none"
    BY <1>2, <1>3
  <1>8. ASSUME NEW i \in OpenOps' PROVE allowance'[ops'[i].limiter] \in inForce'
    <2>1. i \in OpenOps /\ ops[i].limiter \in Limiters /\ allowance[ops[i].limiter] \in inForce
      BY <1>1 DEF Inv, ForceInv, OpenOps, TypeOK, Op
    <2>2. QED
      BY <1>4, <1>5, <2>1
  <1>9. ASSUME NEW i \in OpenOps', NEW t \in Txs, txs'[t].status = "mined",
               txs'[t].limiter = ops'[i].limiter, t \notin before'
        PROVE  txs'[t].amount \in inForce'
    <2>1. CASE txs[t].status = "mined"
      <3>1. TxKept(t) /\ i \in OpenOps
        BY <1>1, <1>3, <2>1
      <3>2. txs[t].limiter = ops[i].limiter /\ t \notin before
        BY <1>9, <3>1 DEF TxKept
      <3>3. txs[t].amount \in inForce
        BY <2>1, <3>1, <3>2 DEF Inv, ForceInv
      <3>4. QED
        BY <1>5, <3>1, <3>3 DEF TxKept
    <2>2. CASE txs[t].status # "mined"
      BY <1>1, <1>5, <1>9, <2>2
    <2>3. QED
      BY <2>1, <2>2
  <1>10. ASSUME NEW i \in OpenOps', NEW t \in before' PROVE ~SignedFor(i, t)' /\ ~PermitOf(i, t)'
    <2>1. i \in OpenOps /\ t \in before /\ TxKept(t) /\ txs[t].status # "none"
      BY <1>1, <1>2, <1>3
    <2>2. ~SignedFor(i, t) /\ ~PermitOf(i, t)
      BY <2>1 DEF Inv, ForceInv
    <2>3. QED
      BY <2>1, <2>2 DEF SignedFor, PermitOf, TxKept
  <1>11. QED
    BY <1>6, <1>7, <1>8, <1>9, <1>10 DEF ForceInv

LEMMA ForceStep == ASSUME Inv, Moves, [Next]_vars PROVE ForceInv'
  <1>0. TypeOK
    BY DEF Inv
  <1> DEFINE Quiet ==
               /\ UNCHANGED <<allowance, inForce, before>>
               /\ \A t \in Txs : txs'[t].status = "mined" => txs[t].status = "mined"
               /\ \A i \in Requests : ops'[i].state \in OpenStates => ops[i].state \in OpenStates
  <1>1. Quiet => ForceInv'
    BY ForceQuiet
  <1>2. \A s \in {"SUBMITTED", "BROADCAST", "PREPARED", "WAITING_DEVICE"} : s \in OpenStates
    BY DEF OpenStates
  <1>3. ASSUME NEW l \in Limiters, Setup(l) PROVE ForceInv'
    BY <1>1, <1>3 DEF Setup, broker, chain
  <1>4. ASSUME Purchase PROVE ForceInv'
    <2>1. active \in Limiters /\ allowance[active] - 1 \in Nat
      BY <1>4 DEF Purchase, Inv, TypeOK
    <2>2. Sets(active, allowance[active] - 1) /\ UNCHANGED <<ops, before, txs>>
      BY <1>4 DEF Purchase, table
    <2>3. QED
      BY <2>1, <2>2, ForceSets
  <1>5. ASSUME NEW i \in Requests, NEW kind \in {"GRANT", "REVOKE"}, NEW l \in Limiters,
              NEW a \in Amounts, NEW crashed \in BOOLEAN, DeviceOp(i, kind, l, a, crashed)
        PROVE  ForceInv'
    <2>1. UNCHANGED <<txs, allowance>>
      BY <1>0, <1>5, DeviceOpDoes DEF chain
    <2>2. CASE UNCHANGED <<ops, before, inForce>>
      BY <1>1, <2>1, <2>2
    <2>3. CASE ~UNCHANGED <<ops, before, inForce>>
      <3>1. /\ OpenOps = {} /\ ops[i].state = "none" /\ jobs[i].state = "none"
            /\ \A j \in Requests \ {i} : ops'[j] = ops[j]
            /\ ops'[i].limiter = l /\ Opened(l)
        BY <1>0, <1>5, <2>3, DeviceOpDoes
      <3>2. \A j \in OpenOps' : j = i
        BY <3>1 DEF OpenOps
      <3>3. QED
        BY <2>1, <3>1, <3>2, ForceOpened
    <2>4. QED
      BY <2>2, <2>3
  <1>6. ASSUME NEW i \in Requests, NEW kind \in {"GRANT", "REVOKE"}, NEW l \in Limiters,
              NEW a \in Amounts, NEW method \in {"approve", "permit"},
              PrepareWallet(i, kind, l, a, method)
        PROVE  ForceInv'
    <2>1. /\ ops[i].state = "none" /\ jobs[i].state = "none" /\ ops'[i].limiter = l /\ Opened(l)
          /\ UNCHANGED <<txs, allowance>>
      BY <1>0, <1>6, PrepareDoes DEF chain
    <2>2. \A j \in OpenOps : ops'[j].state = "EXPIRED"
      BY <1>0, <1>6, PrepareDoes
    <2>3. \A j \in Requests : j # i /\ j \notin OpenOps => ops'[j] = ops[j]
      BY <1>0, <1>6, PrepareDoes
    <2>4. \A j \in OpenOps' : j = i
      BY <2>2, <2>3 DEF OpenOps, OpenStates
    <2>5. QED
      BY <2>1, <2>4, ForceOpened
  <1>7. ASSUME NEW i \in Requests, NEW t \in Txs, SubmitWallet(i, t) PROVE ForceInv'
    <2>1. UNCHANGED <<allowance, inForce, before, txs>> /\ ops[i].state = "PREPARED"
          /\ Becomes(i, "SUBMITTED", t, ops[i].amount)
      BY <1>0, <1>7, SubmitWalletDoes DEF chain
    <2>2. \A j \in Requests : ops'[j].state \in OpenStates => ops[j].state \in OpenStates
      BY <1>2, <2>1 DEF Becomes
    <2>3. QED
      BY <1>1, <2>1, <2>2
  <1>8. ASSUME NEW i \in Requests, NEW t \in Txs, NEW recorded \in BOOLEAN,
              SubmitPermit(i, t, recorded)
        PROVE  ForceInv'
    <2>1. /\ UNCHANGED <<allowance, inForce, before>> /\ ops[i].state = "PREPARED"
          /\ UNCHANGED ops \/ Becomes(i, "BROADCAST", t, ops[i].amount)
          /\ TxMade(t, "pooled", "permit", ops[i].limiter, ops[i].amount, ops[i].nonce, i)
      BY <1>0, <1>8, SubmitPermitDoes
    <2>2. \A j \in Requests : ops'[j].state \in OpenStates => ops[j].state \in OpenStates
      BY <1>2, <2>1 DEF Becomes
    <2>3. \A u \in Txs : txs'[u].status = "mined" => txs[u].status = "mined"
      BY <2>1 DEF TxMade
    <2>4. QED
      BY <1>1, <2>1, <2>2, <2>3
  <1>9. ASSUME NEW i \in Requests, NEW state \in {"DONE", "FAILED", "EXPIRED"}, Ends(i, state)
        PROVE  ForceInv'
    <2>1. ops[i].state \in OpenStates /\ Becomes(i, state, ops[i].tx, ops[i].amount) /\ before' = {}
      BY <1>0, <1>2, <1>9, EndsDoes
    <2>2. QED
      BY <2>1, ForceClosed
  <1>10. ASSUME NEW i \in Requests, Recognised(i) PROVE ForceInv'
    <2>1. UNCHANGED <<allowance, inForce, before, txs>> /\ ops[i].state = "SUBMITTED"
          /\ Becomes(i, "BROADCAST", ops[i].tx, txs[ops[i].tx].amount)
      BY <1>0, <1>10, RecognisedDoes DEF chain
    <2>2. \A j \in Requests : ops'[j].state \in OpenStates => ops[j].state \in OpenStates
      BY <1>2, <2>1 DEF Becomes
    <2>3. QED
      BY <1>1, <2>1, <2>2
  <1>11. ASSUME NEW i \in Requests, DeviceGaveUp(i) PROVE ForceInv'
    <2>1. ops[i].state \in OpenStates /\ Becomes(i, "FAILED", ops[i].tx, ops[i].amount) /\ before' = {}
      BY <1>0, <1>2, <1>11, DeviceGaveUpDoes
    <2>2. QED
      BY <2>1, ForceClosed
  <1>12. ASSUME NEW i \in Requests, NEW taken \in BOOLEAN, NEW refused \in BOOLEAN,
              DeviceSigned(i, taken, refused)
        PROVE  ForceInv'
    <2> DEFINE t == jobs[i].tx
    <2>1. ops[i].state = "WAITING_DEVICE" /\ ops[i].state \in OpenStates /\ UNCHANGED allowance
      BY <1>2, <1>12, DeviceSignedDoes
    <2>2. CASE Becomes(i, "FAILED", t, ops[i].amount) /\ before' = {}
      BY <2>1, <2>2, ForceClosed
    <2>3. CASE /\ Becomes(i, "BROADCAST", t, ops[i].amount) /\ UNCHANGED <<before, inForce>>
               /\ UNCHANGED txs \/ (txs[t].status = "signed" /\ TxBecomes(t, "pooled"))
      <3>1. \A j \in Requests : ops'[j].state \in OpenStates => ops[j].state \in OpenStates
        BY <2>1, <2>3 DEF Becomes
      <3>2. \A u \in Txs : txs'[u].status = "mined" => txs[u].status = "mined"
        BY <2>3 DEF TxBecomes
      <3>3. QED
        BY <1>1, <2>1, <2>3, <3>1, <3>2
    <2>4. QED
      BY <1>12, <2>2, <2>3, DeviceSignedDoes
  <1>13. ASSUME NEW i \in Requests, NEW taken \in BOOLEAN, NEW refused \in BOOLEAN,
              OfferAgain(i, taken, refused)
        PROVE  ForceInv'
    <2> DEFINE t == jobs[i].tx
    <2>1. ops[i].state = "BROADCAST" /\ ops[i].state \in OpenStates /\ UNCHANGED allowance
      BY <1>2, <1>13, OfferAgainDoes
    <2>2. CASE Becomes(i, "FAILED", ops[i].tx, ops[i].amount) /\ before' = {}
      BY <2>1, <2>2, ForceClosed
    <2>3. CASE /\ UNCHANGED <<ops, before, inForce>>
               /\ UNCHANGED txs \/ (txs[t].status = "signed" /\ TxBecomes(t, "pooled"))
      <3>1. \A u \in Txs : txs'[u].status = "mined" => txs[u].status = "mined"
        BY <2>3 DEF TxBecomes
      <3>2. QED
        BY <1>1, <2>1, <2>3, <3>1
    <2>4. QED
      BY <1>13, <2>2, <2>3, OfferAgainDoes
  <1>14. ASSUME NEW answered \in BOOLEAN, Claim(answered) PROVE ForceInv'
    BY <1>0, <1>1, <1>14, ClaimDoes DEF table, chain
  <1>15. ASSUME NEW t \in Txs, Sign(t) PROVE ForceInv'
    <2>1. \A u \in Txs : txs'[u].status = "mined" => txs[u].status = "mined"
      BY <1>0, <1>15, SignDoes DEF TxMade
    <2>2. UNCHANGED <<ops, allowance, inForce, before>>
      BY <1>0, <1>15, SignDoes DEF table
    <2>3. QED
      BY <1>1, <2>1, <2>2
  <1>16. ASSUME GiveUp PROVE ForceInv'
    BY <1>1, <1>16 DEF GiveUp, table, chain
  <1>17. ASSUME NEW p \in posts, Finish(p) \/ LosePost(p) PROVE ForceInv'
    BY <1>1, <1>17 DEF Finish, LosePost, table, chain
  <1>18. ASSUME NEW t \in Txs, NEW l \in Limiters, NEW a \in WalletAmounts, WalletSends(t, l, a)
        PROVE  ForceInv'
    <2>1. \A u \in Txs : txs'[u].status = "mined" => txs[u].status = "mined"
      BY <1>0, <1>18, WalletSendsDoes DEF TxMade
    <2>2. UNCHANGED <<ops, allowance, inForce, before>>
      BY <1>0, <1>18, WalletSendsDoes DEF table
    <2>3. QED
      BY <1>1, <2>1, <2>2
  <1>19. ASSUME NEW t \in Txs, Mine(t) PROVE ForceInv'
    <2>1. txs[t].limiter \in Limiters /\ txs[t].amount \in Nat
      BY Ranges DEF Inv, TypeOK, Tx
    <2>2. Sets(txs[t].limiter, txs[t].amount) /\ UNCHANGED <<ops, before>> /\ TxBecomes(t, "mined")
      BY <1>0, <1>19, MovedTx DEF Mine, table
    <2>3. \A u \in Txs : txs'[u].status = "mined" =>
            txs[u].status = "mined" \/ (txs'[u].limiter = txs[t].limiter /\ txs'[u].amount = txs[t].amount)
      BY <2>2 DEF TxBecomes
    <2>4. QED
      BY <2>1, <2>2, <2>3, ForceSets
  <1>20. ASSUME NEW t \in Txs, Revert(t) PROVE ForceInv'
    <2>1. UNCHANGED <<ops, allowance, inForce, before>> /\ TxBecomes(t, "reverted")
      BY <1>0, <1>20, MovedTx DEF Revert, table
    <2>2. \A u \in Txs : txs'[u].status = "mined" => txs[u].status = "mined"
      BY <2>1 DEF TxBecomes
    <2>3. QED
      BY <1>1, <2>1, <2>2
  <1>21. ASSUME NEW t \in Txs, SubmittedByOther(t) PROVE ForceInv'
    <2>1. txs[t].limiter \in Limiters /\ txs[t].amount \in Nat
      BY Ranges DEF Inv, TypeOK, Tx
    <2>2. Sets(txs[t].limiter, txs[t].amount) /\ UNCHANGED <<ops, before, txs>>
      BY <1>21 DEF SubmittedByOther, table
    <2>3. QED
      BY <2>1, <2>2, ForceSets
  <1>22. ASSUME Tick PROVE ForceInv'
    BY <1>0, <1>1, <1>22, TickDoes
  <1>23. ASSUME UNCHANGED vars PROVE ForceInv'
    BY <1>1, <1>23 DEF vars, table, broker, chain
  <1> HIDE DEF Quiet
  <1>24. QED
    BY <1>3, <1>4, <1>5, <1>6, <1>7, <1>8, <1>9, <1>10, <1>11, <1>12, <1>13, <1>14, <1>15, <1>16,
       <1>17, <1>18, <1>19, <1>20, <1>21, <1>22, <1>23, OneOf
       DEF Next

LEMMA InvBegins == Init => Inv
  <1> SUFFICES ASSUME Init PROVE Inv
    OBVIOUS
  <1>1. TypeOK
    BY TypeBegins
  <1>2. /\ \A i \in Requests : ops[i].state = "none" /\ jobs[i].state = "none"
        /\ \A t \in Txs : txs[t].status = "none"
        /\ posts = {} /\ working = None /\ before = {} /\ permitNonce = 0
    BY DEF Init, NoOp, NoJob, NoTx
  <1>3. JobInv /\ SentInv /\ WalletInv
    BY <1>2 DEF JobInv, SentInv, WalletInv, SignedFor
  <1>4. PermitInv
    BY <1>2 DEF PermitInv
  <1>5. ForceInv
    BY <1>2 DEF ForceInv, OpenOps, OpenStates
  <1>6. QED
    BY <1>1, <1>3, <1>4, <1>5 DEF Inv

LEMMA InvStep == Inv /\ [Next]_vars => Inv'
  <1> SUFFICES ASSUME Inv, [Next]_vars PROVE Inv'
    OBVIOUS
  <1>1. Moves
    BY StepMoves
  <1>2. QED
    BY <1>1, TypeStep, JobStep, SentStep, PermitStep, WalletStep, ForceStep DEF Inv

-----------------------------------------------------------------------------
(* The theorems                                                              *)

\* The inductive invariant holds for any number of requests and transactions.
THEOREM Invariance == Spec => []Inv
  BY InvBegins, InvStep, PTL DEF Spec

\* Every row, job, report and transaction has its type in every reachable state.
THEOREM Typing == Spec => []TypeOK
  <1>1. Inv => TypeOK
    BY DEF Inv
  <1>2. QED
    BY <1>1, Invariance, PTL

\* One signed approve per device request ever reaches a node, the recorded one,
\* however often the companion signs the job again.
THEOREM Recorded == Spec => []OfferedAsRecorded
  <1>1. Inv => OfferedAsRecorded
    <2>1. ASSUME Inv, NEW t \in Txs, txs[t].kind = "device", txs[t].status # "signed",
                 txs[t].status # "none"
          PROVE  ops[txs[t].request].tx = t
      <3>1. txs[t].request \in Requests
        BY <2>1 DEF Inv, JobInv
      <3>2. SignedFor(txs[t].request, t)
        BY <2>1 DEF SignedFor
      <3>3. QED
        BY <2>1, <3>1, <3>2 DEF Inv, SentInv
    <2>2. QED
      BY <2>1 DEF OfferedAsRecorded
  <1>2. QED
    BY <1>1, Invariance, PTL

\* Only a receipt that counts ends a request as DONE.
LEMMA DoneByReceipt ==
  ASSUME Inv, [Next]_vars, NEW i \in Requests, ops[i].state # "DONE", ops'[i].state = "DONE"
  PROVE  ReceiptDone(i)
  <1>0. TypeOK
    BY DEF Inv
  <1>1. ASSUME UNCHANGED ops PROVE FALSE
    BY <1>1
  <1>2. ASSUME NEW j \in Requests, NEW s, NEW x, NEW a, Becomes(j, s, x, a), s # "DONE" PROVE FALSE
    BY <1>2 DEF Becomes
  <1>3. ASSUME NEW j \in Requests, NEW state \in {"DONE", "FAILED", "EXPIRED"}, Ends(j, state),
               state = "DONE" => ReceiptDone(j)
        PROVE  ReceiptDone(i)
    <2>1. Becomes(j, state, ops[j].tx, ops[j].amount)
      BY <1>0, <1>3, EndsDoes
    <2>2. j = i /\ state = "DONE"
      BY <1>2, <2>1 DEF Becomes
    <2>3. QED
      BY <1>3, <2>2
  <1>4. ASSUME NEW j \in Requests, NEW kind \in {"GRANT", "REVOKE"}, NEW l \in Limiters,
               NEW a \in Amounts, NEW crashed \in BOOLEAN, DeviceOp(j, kind, l, a, crashed)
        PROVE  FALSE
    BY <1>0, <1>1, <1>4, DeviceOpDoes
  <1>5. ASSUME NEW j \in Requests, NEW kind \in {"GRANT", "REVOKE"}, NEW l \in Limiters,
               NEW a \in Amounts, NEW method \in {"approve", "permit"},
               PrepareWallet(j, kind, l, a, method)
        PROVE  FALSE
    <2>1. i = j => ops'[i].state = "PREPARED"
      BY <1>0, <1>5, PrepareDoes
    <2>2. i \in OpenOps => ops'[i].state = "EXPIRED"
      BY <1>0, <1>5, PrepareDoes
    <2>3. i # j /\ i \notin OpenOps => ops'[i] = ops[i]
      BY <1>0, <1>5, PrepareDoes
    <2>4. QED
      BY <2>1, <2>2, <2>3
  <1>6. ASSUME NEW j \in Requests, NEW t \in Txs, SubmitWallet(j, t) PROVE FALSE
    BY <1>0, <1>2, <1>6, SubmitWalletDoes
  <1>7. ASSUME NEW j \in Requests, NEW t \in Txs, NEW recorded \in BOOLEAN, SubmitPermit(j, t, recorded)
        PROVE  FALSE
    BY <1>0, <1>1, <1>2, <1>7, SubmitPermitDoes
  <1>8. ASSUME NEW j \in Requests, Recognised(j) PROVE FALSE
    BY <1>0, <1>2, <1>8, RecognisedDoes
  <1>9. ASSUME NEW j \in Requests, DeviceGaveUp(j) PROVE FALSE
    BY <1>0, <1>2, <1>9, DeviceGaveUpDoes
  <1>10. ASSUME NEW j \in Requests, NEW taken \in BOOLEAN, NEW refused \in BOOLEAN,
               DeviceSigned(j, taken, refused)
         PROVE FALSE
    BY <1>2, <1>10, DeviceSignedDoes
  <1>11. ASSUME NEW j \in Requests, NEW taken \in BOOLEAN, NEW refused \in BOOLEAN,
               OfferAgain(j, taken, refused)
         PROVE FALSE
    BY <1>1, <1>2, <1>11, OfferAgainDoes
  <1>12. ASSUME Tick PROVE FALSE
    BY <1>0, <1>12, TickDoes
  <1>13. ASSUME \/ \E l \in Limiters : Setup(l)
                \/ Purchase
                \/ \E answered \in BOOLEAN : Claim(answered)
                \/ \E t \in Txs : Sign(t)
                \/ GiveUp
                \/ \E p \in posts : Finish(p) \/ LosePost(p)
                \/ \E t \in Txs, l \in Limiters, a \in WalletAmounts : WalletSends(t, l, a)
                \/ \E t \in Txs : Mine(t) \/ Revert(t) \/ SubmittedByOther(t)
                \/ UNCHANGED vars
         PROVE FALSE
    BY <1>1, <1>13 DEF Setup, Purchase, Claim, Sign, GiveUp, Finish, LosePost, WalletSends, Mine,
                       Revert, SubmittedByOther, vars, table
  <1>14. QED
    BY <1>3, <1>4, <1>5, <1>6, <1>7, <1>8, <1>9, <1>10, <1>11, <1>12, <1>13, OneOf DEF Next

\* What a receipt that counts says of the request was in force.
LEMMA ReceiptInForce ==
  ASSUME Inv, NEW i \in Requests, ReceiptDone(i)
  PROVE  ops[i].amount \in inForce /\ ops'[i].amount = ops[i].amount
  <1> DEFINE t == ops[i].tx
  <1>1. /\ ops[i].state = "BROADCAST" /\ Effective(i) /\ ~TooOld(i)
        /\ UpdateOp(i, [ops[i] EXCEPT !.state = "DONE"])
    BY DEF ReceiptDone, HasReceipt, Close
  <1>2. ops'[i].amount = ops[i].amount
    <2>1. "DONE" \in OpStates /\ TypeOK
      BY DEF OpStates, Inv
    <2>2. QED
      BY <1>1, <2>1, ClosedRow DEF Becomes
  <1>3. i \in OpenOps
    BY <1>1 DEF OpenOps, OpenStates
  <1>4. t \in Txs /\ ops[i].method \in {"device", "approve", "permit"}
    BY <1>1 DEF Inv, TypeOK, Op
  <1>5. CASE FrontRun(i)
    BY <1>2, <1>3, <1>5 DEF FrontRun, Inv, ForceInv
  <1>6. CASE txs[t].status = "mined"
    <2>1. /\ txs[t].limiter = ops[i].limiter /\ txs[t].amount = ops[i].amount
          /\ SignedFor(i, t) \/ PermitOf(i, t) \/ t \notin before
      <3>1. CASE ops[i].method = "device"
        <4>1. SignedFor(i, t)
          BY <1>1, <3>1 DEF Inv, SentInv, JobInv
        <4>2. QED
          BY <1>1, <1>4, <3>1, <4>1 DEF Inv, JobInv
      <3>2. CASE ops[i].method = "permit"
        <4>1. PermitOf(i, t)
          BY <1>1, <3>2 DEF Inv, PermitInv
        <4>2. QED
          BY <4>1 DEF Inv, PermitInv, PermitOf, Agrees
      <3>3. CASE ops[i].method = "approve"
        BY <1>1, <3>3 DEF Inv, WalletInv, Agrees, TooOld
      <3>4. QED
        BY <1>4, <3>1, <3>2, <3>3
    <2>2. t \notin before
      BY <1>3, <2>1 DEF Inv, ForceInv
    <2>3. QED
      BY <1>2, <1>3, <1>4, <1>6, <2>1, <2>2 DEF Inv, ForceInv
  <1>7. QED
    BY <1>1, <1>5, <1>6 DEF Effective

\* A request ends DONE only with an amount its limiter had since a minute
\* before it was made.
THEOREM TookEffect == Spec => DoneTookEffect
  <1>1. Inv /\ [Next]_vars =>
          [\A i \in Requests : ops[i].state # "DONE" /\ ops'[i].state = "DONE"
                                 => ops'[i].amount \in inForce]_vars
    BY DoneByReceipt, ReceiptInForce
  <1>2. QED
    BY <1>1, Invariance, PTL DEF Spec, DoneTookEffect
=============================================================================
