-------------------------- MODULE SolanaApprovals ---------------------------
(***************************************************************************)
(* The wallet approvals of one Solana account (sign402_gateway/            *)
(* solana_allowance.py): the ops table, the emergency stop and the only    *)
(* thing that lifts it, a GRANT the owner's wallet signed after it, and    *)
(* the owner's SOL transfers to the agent (FUND_GAS).                      *)
(*                                                                         *)
(* Requests run in Procs, threads of the gateway and of the web API on one *)
(* SQLite file.  A request is a series of write transactions with helper   *)
(* runs (up to 240 s each) between them, so each step here is one          *)
(* transaction or one helper run's effect.  A crash loses a request and    *)
(* nothing else.  Ninety seconds pass or do not pass at any point: an age  *)
(* check may go either way.  An op is known by its rowid, its place in     *)
(* ops: rows are never deleted.                                            *)
(***************************************************************************)
EXTENDS Integers, Sequences, FiniteSets

CONSTANTS Procs,
          Kinds,       \* the kinds of op requested, of GRANT, REVOKE and FUND_GAS
          Edits,       \* what a wallet may add to a message before it signs: fees, guards
          Life,        \* slots after its own in which a blockhash is valid
          MaxHash,     \* BOUND on the slots whose blockhash is given out
          MaxOps,      \* BOUND on the account's ops
          MayStop      \* BOUND: whether the owner uses the emergency stop

Hashes == 1..MaxHash
MaxSlot == MaxHash + Life + 1     \* BOUND on the chain's slots: every blockhash expires
\* A transaction does what its op asks, under the blockhash of some slot; with equal
\* parts it is the same message and, Ed25519 being deterministic, has the same signature.
Txs == [kind: Kinds, hash: Hashes, edit: Edits]
NoTx == [kind |-> "none"]
NoHash == 0
NoStop == -1
Pending == {"VALIDATING", "SUBMITTING", "UNCERTAIN"}
States == Pending \cup {"PREPARED", "DONE", "FAILED", "EXPIRED"}
Op == [kind: Kinds, hash: Hashes, state: States, tx: Txs \cup {NoTx}, bound: {NoHash} \cup Hashes]

ASSUME KindsAssumption == Kinds \subseteq {"GRANT", "REVOKE", "FUND_GAS"}
ASSUME BoundsAssumption == Life \in Nat /\ MaxHash \in Nat /\ MaxOps \in Nat /\ MayStop \in BOOLEAN

VARIABLES slot,             \* the chain's latest slot, whose blockhash prepare() is given
          ops,              \* the ops table; hash is prepared_blockhash, bound signed_blockhash
          stop,             \* ops_watermark of the last row of pauses, NoStop before the first
          at, on, with,     \* of each request: its step, its op and its transaction
          signed,           \* what the wallet has signed
          fresh,            \* history: what it signed since the last stop
          chain             \* each transaction as the chain has it

request == <<at, on, with>>
wallet == <<signed, fresh>>
vars == <<slot, ops, stop, request, wallet, chain>>

Steps == {"idle", "fetched", "retired", "read", "inspecting", "sending", "answering",
          "polling", "unseen", "aged"}

\* The steps of reconcile(), one per read.
Reads == {"polling", "unseen", "aged"}

TypeOK ==
  /\ slot \in 1..MaxSlot
  /\ ops \in Seq(Op)
  /\ stop \in {NoStop} \cup Nat /\ stop <= Len(ops)
  /\ at \in [Procs -> Steps]
  /\ on \in [Procs -> Nat]
  /\ with \in [Procs -> Txs \cup {NoTx}]
  /\ \A p \in Procs : at[p] # "idle" => with[p] \in Txs
  /\ \A p \in Procs : at[p] \notin {"idle", "fetched", "retired"} => on[p] \in 1..Len(ops)
  /\ signed \subseteq Txs /\ fresh \subseteq signed
  /\ chain \in [Txs -> {"unsent", "sent", "landed", "failed"}]

Init ==
  /\ slot = 1
  /\ ops = <<>>
  /\ stop = NoStop
  /\ at = [p \in Procs |-> "idle"]
  /\ on = [p \in Procs |-> 0]
  /\ with = [p \in Procs |-> NoTx]
  /\ signed = {} /\ fresh = {}
  /\ chain = [t \in Txs |-> "unsent"]

Rows == 1..Len(ops)
Valid(h) == slot <= h + Life                \* isBlockhashValid
MayLand(t) == chain[t] = "sent" /\ Valid(t.hash)
PendingGas == \E i \in Rows : ops[i].kind = "FUND_GAS" /\ ops[i].state \in Pending

\* Mutant: the blockhash is not compared with those of earlier ops.
LiftsOnSharedHash(g) ==
  /\ g > stop
  /\ ops[g].kind = "GRANT" /\ ops[g].state = "DONE"
  /\ ops[g].tx # NoTx
  /\ ops[g].bound = ops[g].hash
  /\ \A o \in Rows \ {g} : ops[o].tx # ops[g].tx

\* What lifts the last stop: an approval prepared after it, confirmed under a signature of
\* its own, on the blockhash prepared for it and for nothing before the stop.
Lifts(g) ==
  /\ g > stop
  /\ ops[g].kind = "GRANT" /\ ops[g].state = "DONE"
  /\ ops[g].tx # NoTx
  /\ ops[g].bound = ops[g].hash
  /\ \A e \in Rows : e <= stop => ops[e].hash # ops[g].hash
  /\ \A o \in Rows \ {g} : ops[o].tx # ops[g].tx

Paused == stop # NoStop /\ ~ \E g \in Rows : Lifts(g)

Go(p, step, i, t) ==
  /\ at' = [at EXCEPT ![p] = step]
  /\ on' = [on EXCEPT ![p] = i]
  /\ with' = [with EXCEPT ![p] = t]

End(p) == Go(p, "idle", 0, NoTx)

\* UPDATE ops ... WHERE op_id = ? AND state IN from.
Update(i, from, state) ==
  ops' = [ops EXCEPT ![i].state = IF @ \in from THEN state ELSE @]

-----------------------------------------------------------------------------
(* prepare_wallet()                                                        *)

\* A gas transfer is refused while one has no known outcome; the operation() calls that
\* come first are Poll steps.  The helper builds the transaction on the latest blockhash.
Fetch(p, k) ==
  /\ at[p] = "idle"
  /\ Len(ops) + Cardinality({q \in Procs : at[q] \in {"fetched", "retired"}}) < MaxOps
  /\ slot <= MaxHash
  /\ k = "FUND_GAS" => ~PendingGas
  /\ \E e \in Edits : Go(p, "fetched", 0, [kind |-> k, hash |-> slot, edit |-> e])
  /\ UNCHANGED <<slot, ops, stop, wallet, chain>>

\* PREPARED ops that are too old, the first n, and all of this kind have expired.
Retire(p) ==
  /\ at[p] = "fetched"
  /\ \E n \in 0..Len(ops) :
       ops' = [i \in Rows |->
                 IF ops[i].state = "PREPARED" /\ (i <= n \/ ops[i].kind = with[p].kind)
                 THEN [ops[i] EXCEPT !.state = "EXPIRED"] ELSE ops[i]]
  /\ Go(p, "retired", 0, with[p])
  /\ UNCHANGED <<slot, stop, wallet, chain>>

Add(p) ==
  /\ at[p] = "retired"
  /\ ops' = Append(ops, [kind |-> with[p].kind, hash |-> with[p].hash, state |-> "PREPARED",
                         tx |-> NoTx, bound |-> NoHash])
  /\ End(p)
  /\ UNCHANGED <<slot, stop, wallet, chain>>

-----------------------------------------------------------------------------
(* submit_wallet()                                                         *)

\* Anything the wallet signed for an op of this kind does what this op asks (doesOnly).
Submit(p, i, t) ==
  /\ at[p] = "idle"
  /\ ops[i].state = "PREPARED"
  /\ t \in signed /\ t.kind = ops[i].kind
  /\ Go(p, "read", i, t)
  /\ UNCHANGED <<slot, ops, stop, wallet, chain>>

TooOld(p) ==
  /\ at[p] = "read"
  /\ Update(on[p], {"PREPARED"}, "EXPIRED")
  /\ End(p)
  /\ UNCHANGED <<slot, stop, wallet, chain>>

\* The daily limit is now below the approval: update_op(), whatever the state is by now.
Lowered(p) ==
  /\ at[p] = "read" /\ with[p].kind = "GRANT"
  /\ Update(on[p], States, "FAILED")
  /\ End(p)
  /\ UNCHANGED <<slot, stop, wallet, chain>>

Approve(p) ==
  /\ at[p] = "read" /\ with[p].kind # "FUND_GAS"
  /\ Go(p, "sending", on[p], with[p])
  /\ UNCHANGED <<slot, ops, stop, wallet, chain>>

\* Mutant: only the op's own state is looked at.
ClaimGasAnyway(p) ==
  /\ at[p] = "read" /\ with[p].kind = "FUND_GAS"
  /\ ops[on[p]].state = "PREPARED"
  /\ Update(on[p], {"PREPARED"}, "VALIDATING")
  /\ Go(p, "inspecting", on[p], with[p])
  /\ UNCHANGED <<slot, stop, wallet, chain>>

\* claim_gas_submission(): one gas transfer at a time.
ClaimGas(p) ==
  /\ at[p] = "read" /\ with[p].kind = "FUND_GAS"
  /\ ~PendingGas /\ ops[on[p]].state = "PREPARED"
  /\ Update(on[p], {"PREPARED"}, "VALIDATING")
  /\ Go(p, "inspecting", on[p], with[p])
  /\ UNCHANGED <<slot, stop, wallet, chain>>

ClaimRefused(p) ==
  /\ at[p] = "read" /\ with[p].kind = "FUND_GAS"
  /\ PendingGas \/ ops[on[p]].state # "PREPARED"
  /\ End(p)
  /\ UNCHANGED <<slot, ops, stop, wallet, chain>>

\* checkpoint_gas(): the signature is on record before anything is sent.
Checkpoint(p) ==
  /\ at[p] = "inspecting"
  /\ ops[on[p]].state = "VALIDATING"
  /\ ops' = [ops EXCEPT ![on[p]].state = "SUBMITTING", ![on[p]].tx = with[p]]
  /\ Go(p, "sending", on[p], with[p])
  /\ UNCHANGED <<slot, stop, wallet, chain>>

\* The inspection failed, or took so long that its op is no longer VALIDATING.
NotInspected(p) ==
  /\ at[p] = "inspecting"
  /\ Update(on[p], {"VALIDATING"}, "FAILED")
  /\ End(p)
  /\ UNCHANGED <<slot, stop, wallet, chain>>

\* The helper broadcasts; the chain takes what it has not seen and can still include.
Send(p) ==
  /\ at[p] = "sending"
  /\ LET t == with[p]
     IN chain' = [chain EXCEPT ![t] = IF @ = "unsent" /\ Valid(t.hash) THEN "sent" ELSE @]
  /\ Go(p, "answering", on[p], with[p])
  /\ UNCHANGED <<slot, ops, stop, wallet>>

\* Refused by the helper's own checks: nothing was sent.
Refused(p) ==
  /\ at[p] = "sending"
  /\ IF with[p].kind = "FUND_GAS" THEN Update(on[p], Pending, "FAILED") ELSE UNCHANGED ops
  /\ End(p)
  /\ UNCHANGED <<slot, stop, wallet, chain>>

\* No answer from the helper, before or after it sent.
Lost(p) ==
  /\ at[p] \in {"sending", "answering"}
  /\ IF with[p].kind = "FUND_GAS" THEN Update(on[p], Pending, "UNCERTAIN") ELSE UNCHANGED ops
  /\ End(p)
  /\ UNCHANGED <<slot, stop, wallet, chain>>

\* What a signature's status says: anything may go unseen.
Seen(t, state) ==
  \/ state = "DONE" /\ chain[t] = "landed"
  \/ state = "FAILED" /\ chain[t] = "failed"
  \/ state = "UNCERTAIN"

\* finish_pending_op() for gas; finish_grant() and update_op() write over any state.
Answer(p) ==
  /\ at[p] = "answering"
  /\ \E state \in {"DONE", "FAILED", "UNCERTAIN"} :
       /\ Seen(with[p], state)
       /\ IF with[p].kind = "FUND_GAS" THEN Update(on[p], Pending, state)
          ELSE ops' = [ops EXCEPT ![on[p]].state = state, ![on[p]].tx = with[p],
                         ![on[p]].bound = IF with[p].kind = "GRANT" THEN with[p].hash ELSE @]
  /\ End(p)
  /\ UNCHANGED <<slot, stop, wallet, chain>>

-----------------------------------------------------------------------------
(* operation(), status(), pause() and what happens around them             *)

\* operation(), asked for an op that may have been sent.
Poll(p, i) ==
  /\ at[p] = "idle"
  /\ ops[i].state \in {"SUBMITTING", "UNCERTAIN"} /\ ops[i].tx # NoTx
  /\ Go(p, "polling", i, ops[i].tx)
  /\ UNCHANGED <<slot, ops, stop, wallet, chain>>

\* reconcile(), a read at a time.  The status is not there, or a node does not show it
\* yet, and a gas op has its blockhash on record.
NotSeen(p) ==
  /\ at[p] = "polling" /\ with[p].kind = "FUND_GAS"
  /\ Go(p, "unseen", on[p], with[p])
  /\ UNCHANGED <<slot, ops, stop, wallet, chain>>

\* isBlockhashValid at the finalized commitment: a node may be behind, never ahead.
Aged(p) ==
  /\ at[p] = "unseen"
  /\ ~Valid(with[p].hash)
  /\ Go(p, "aged", on[p], with[p])
  /\ UNCHANGED <<slot, ops, stop, wallet, chain>>

\* Mutant: the history is not read again after the expiry.
OutcomeUnread(p, state) ==
  IF at[p] = "aged" THEN state = "EXPIRED"
  ELSE state \in {"DONE", "FAILED"} /\ Seen(with[p], state)

\* A status read says landed or failed; the second one, after the finalized expiry, may
\* find nothing at all: its node is taken to be behind by less than it takes to finalize.
Outcome(p, state) ==
  \/ state \in {"DONE", "FAILED"} /\ Seen(with[p], state)
  \/ state = "EXPIRED" /\ at[p] = "aged" /\ chain[with[p]] \in {"unsent", "sent"}

Reconcile(p) ==
  /\ at[p] \in {"polling", "aged"}
  /\ \E state \in {"DONE", "FAILED", "EXPIRED"} :
       Outcome(p, state) /\ Update(on[p], Pending, state)
  /\ End(p)
  /\ UNCHANGED <<slot, stop, wallet, chain>>

\* An RPC or helper failure, a blockhash that is still valid, or an uncertain answer
\* releases nothing.
NoOutcome(p) ==
  /\ at[p] \in Reads
  /\ End(p)
  /\ UNCHANGED <<slot, ops, stop, wallet, chain>>

\* operation() on a gas op whose validation is too old.
TimeOut(i) ==
  /\ ops[i].state = "VALIDATING"
  /\ Update(i, {"VALIDATING"}, "FAILED")
  /\ UNCHANGED <<slot, stop, request, wallet, chain>>

\* status() expires the PREPARED ops that are too old, the first n.
Expire(n) ==
  /\ ops' = [i \in Rows |-> IF i <= n /\ ops[i].state = "PREPARED"
                             THEN [ops[i] EXCEPT !.state = "EXPIRED"] ELSE ops[i]]
  /\ UNCHANGED <<slot, stop, request, wallet, chain>>

\* Mutant: the watermark is the rowid the next op will have.
PauseAhead ==
  /\ MayStop /\ ~Paused
  /\ stop' = Len(ops) + 1
  /\ fresh' = {}
  /\ UNCHANGED <<slot, ops, request, signed, chain>>

Pause ==
  /\ MayStop /\ ~Paused
  /\ stop' = Len(ops)
  /\ fresh' = {}
  /\ UNCHANGED <<slot, ops, request, signed, chain>>

\* A restart loses the request; its helper dies with it.
Crash(p) ==
  /\ at[p] # "idle"
  /\ End(p)
  /\ UNCHANGED <<slot, ops, stop, wallet, chain>>

\* The owner signs what prepare() returned, at any time, as often as they like; the wallet
\* keeps its blockhash (allowance-web-v1.md 154-156).
Sign(i, e) ==
  /\ LET t == [kind |-> ops[i].kind, hash |-> ops[i].hash, edit |-> e]
     IN signed' = signed \cup {t} /\ fresh' = fresh \cup {t}
  /\ UNCHANGED <<slot, ops, stop, request, chain>>

\* A transaction lands in a slot after its blockhash's own.
Include(t) ==
  /\ MayLand(t) /\ slot > t.hash
  /\ \E status \in {"landed", "failed"} : chain' = [chain EXCEPT ![t] = status]
  /\ UNCHANGED <<slot, ops, stop, request, wallet>>

NextSlot ==
  /\ slot < MaxSlot
  /\ slot' = slot + 1
  /\ UNCHANGED <<ops, stop, request, wallet, chain>>

\* A request in progress goes on.
Advance(p) ==
  \/ Retire(p) \/ Add(p)
  \/ TooOld(p) \/ Lowered(p) \/ Approve(p) \/ ClaimGas(p) \/ ClaimRefused(p)
  \/ Checkpoint(p) \/ NotInspected(p) \/ Send(p) \/ Refused(p) \/ Lost(p) \/ Answer(p)
  \/ NotSeen(p) \/ Aged(p) \/ Reconcile(p) \/ NoOutcome(p)

Next ==
  \/ \E p \in Procs :
       \/ \E k \in Kinds : Fetch(p, k)
       \/ \E i \in Rows, t \in Txs : Submit(p, i, t)
       \/ \E i \in Rows : Poll(p, i)
       \/ Advance(p)
       \/ Crash(p)
  \/ \E i \in Rows : TimeOut(i)
  \/ \E n \in Rows : Expire(n)
  \/ \E i \in Rows, e \in Edits : Sign(i, e)
  \/ Pause
  \/ \E t \in Txs : Include(t)
  \/ NextSlot

Spec == Init /\ [][Next]_vars

-----------------------------------------------------------------------------
(* Properties                                                              *)

\* A stop is lifted only by an approval that the wallet signed after it (_paused_at,
\* solana_allowance.py 248-277): not by one signed before it and submitted against a newer
\* op, nor by an older request that ends late, nor by a replay.
LiftedBySignedAfter ==
  stop # NoStop /\ ~Paused => \E g \in Rows : Lifts(g) /\ ops[g].tx \in fresh

\* What makes it so: a transaction goes where an op of its kind was read, every signature
\* is for the blockhash of some op, of one before the stop if the wallet made it before,
\* and a row's bound blockhash is that of the signature on record.
InSubmission(p) == at[p] \in {"read", "inspecting", "sending", "answering"}
RequestsInv ==
  \A p \in Procs :
    /\ InSubmission(p) => with[p] \in signed /\ with[p].kind = ops[on[p]].kind
    /\ at[p] = "inspecting" => with[p].kind = "FUND_GAS"
BoundInv ==
  \A i \in Rows : ops[i].bound # NoHash =>
    /\ ops[i].kind = "GRANT"
    /\ ops[i].tx \in signed /\ ops[i].tx.hash = ops[i].bound
SignedInv ==
  \A t \in signed : \E i \in Rows : ops[i].hash = t.hash /\ (t \in fresh \/ i <= stop)
StopInv == RequestsInv /\ BoundInv /\ SignedInv

\* At most one gas transfer can still land, whatever becomes of the requests, the polls
\* and the timeouts (claim_gas_submission, checkpoint_gas, finish_pending_op).
OneGasTransfer ==
  Cardinality({t \in Txs : t.kind = "FUND_GAS" /\ MayLand(t)}) <= 1

\* What the record says of a gas transfer is what became of it: DONE has landed, and one
\* that is over in any other way has not landed and cannot, unless another op carries it.
GasRecord ==
  \A i \in Rows : ops[i].kind = "FUND_GAS" /\ ops[i].tx # NoTx =>
    /\ ops[i].state = "DONE" => chain[ops[i].tx] = "landed"
    /\ ops[i].state \in {"FAILED", "EXPIRED"} =>
         \/ chain[ops[i].tx] # "landed" /\ ~MayLand(ops[i].tx)
         \/ \E j \in Rows \ {i} : ops[j].tx = ops[i].tx

\* What makes both so.  A gas op has its transaction from the checkpoint on and for good,
\* and one at most has no outcome.
Gas(i) == ops[i].kind = "FUND_GAS"
Over(t) == ~Valid(t.hash) \/ chain[t] \in {"landed", "failed"}
TxInv ==
  /\ \A i \in Rows : ops[i].tx # NoTx => ops[i].tx.kind = ops[i].kind
  /\ \A i \in Rows : Gas(i) /\ ops[i].state \in {"PREPARED", "VALIDATING"} => ops[i].tx = NoTx
  /\ \A i, j \in Rows : Gas(i) /\ Gas(j) /\ ops[i].state \in Pending /\ ops[j].state \in Pending
                          => i = j

\* A request that claimed a gas op is the only one to have claimed it; from the checkpoint
\* on, it and the polls work on the transaction on record, which is not sent before it
\* unless another op carries it too.
Claimed(p) == at[p] \in {"inspecting", "sending", "answering"} /\ with[p].kind = "FUND_GAS"
ClaimInv ==
  /\ \A p \in Procs : Claimed(p) => ops[on[p]].state # "PREPARED"
  /\ \A p, q \in Procs : Claimed(p) /\ Claimed(q) /\ on[p] = on[q] => p = q
  /\ \A p \in Procs : at[p] \in {"sending", "answering"} /\ with[p].kind = "FUND_GAS"
                        => ops[on[p]].tx = with[p]
  /\ \A p \in Procs : at[p] \in Reads =>
       /\ with[p].kind = ops[on[p]].kind
       /\ with[p].kind = "FUND_GAS" => ops[on[p]].tx = with[p]
       /\ at[p] = "aged" => with[p].kind = "FUND_GAS" /\ ~Valid(with[p].hash)
       /\ at[p] = "unseen" => with[p].kind = "FUND_GAS"
  /\ \A p \in Procs : at[p] = "sending" /\ with[p].kind = "FUND_GAS" =>
       /\ Over(with[p]) \/ (ops[on[p]].state \in Pending /\ chain[with[p]] = "unsent")
       /\ chain[with[p]] # "unsent" => \E j \in Rows \ {on[p]} : ops[j].tx = with[p]

\* What the chain has of a gas transfer is some op's, and that op waits for its outcome as
\* long as it may land.
LandInv ==
  \A t \in Txs : t.kind = "FUND_GAS" =>
    /\ chain[t] # "unsent" => \E i \in Rows : ops[i].tx = t
    /\ MayLand(t) => \E i \in Rows : ops[i].tx = t /\ ops[i].state \in Pending
GasInv == TxInv /\ ClaimInv /\ LandInv /\ GasRecord

-----------------------------------------------------------------------------
(* What the documentation says of the approval that lifts a stop          *)

\* "Only a new approval signed by the owner's wallet after the pause [...] and confirmed
\* [...] resumes" (docs/allowance-web-v1.md 146-152).
LiftedByConfirmed ==
  stop # NoStop /\ ~Paused =>
    \E t \in fresh : t.kind = "GRANT" /\ chain[t] = "landed"
=============================================================================
