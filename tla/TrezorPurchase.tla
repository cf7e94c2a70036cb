--------------------------- MODULE TrezorPurchase ---------------------------
(***************************************************************************)
(* A purchase paid from a hardware wallet: TrezorPocRunner.buy of          *)
(* trezor_sidecar/poc_runner.py with its client, and the sidecar that      *)
(* holds the device, create_and_schedule of server.py and run_payment of   *)
(* service.py, over the tables of store.py.                                *)
(*                                                                         *)
(* A runner is one call of buy.  Its invoice and its payment carry its     *)
(* name: prepare_purchase asks Bitrefill for a new invoice each time and   *)
(* the payment's idempotency key is the invoice's.  Its intent may be that *)
(* of another runner, since intent_id is a hash of the quote and the       *)
(* second it was built in.                                                 *)
(*                                                                         *)
(* In the local proof runner and sidecar share one state.db; in the remote *)
(* one the runner's own store takes a copy of what the sidecar reports.    *)
(* Several sidecars on the user's machine share the state and the device   *)
(* lock.  Amounts, expiry, the pairing and the settings are left out: each *)
(* check of them is a step that may fail.                                  *)
(***************************************************************************)
EXTENDS Naturals

CONSTANTS Runners,      \* calls of buy, from any process
          Intents,      \* what they may ask the user to approve
          Sidecars,     \* sidecar processes over one state.db
          MaxRestarts   \* BOUND on the sidecars' restarts

ASSUME BoundAssumption == MaxRestarts \in Nat

VARIABLES remote,       \* whether the runners have a store of their own
          approved,     \* the intents in DEVICE_APPROVED
          attempt,      \* the purchase_attempt table, a singleton
          generation,   \* purchase_generation
          payment,      \* the payments table of the sidecar: the state of a row, or none
          mirror,       \* remote: the payments copied into the runners' store
          log,          \* the purchase_log of the runners' store
          pc,           \* where each runner is
          intent,       \* the set with its intent, once it has one
          seen,         \* its expected_generation
          worker,       \* the payment threads of each sidecar, with _worker_launched
          device,       \* who is inside _device_guard
          pushes,       \* how many transactions of a payment the network was handed
          before,       \* history: the log when the runner made its first check
          restarts

runner == <<attempt, generation, mirror, log, pc, intent, seen, before>>
sidecar == <<payment, worker, device, pushes>>
vars == <<remote, approved, runner, sidecar, restarts>>

Free == <<>>
Threads == {"none", "launched", "running", "stored", "pushing", "answered", "unclear", "done"}
States == {"none", "INVOICE_CREATED", "TX_SIGNED", "TX_BROADCAST", "COMPLETE",
           "CANCELLED", "FAILED", "RECONCILIATION_REQUIRED"}

\* The type invariant.
TypeOK ==
  /\ remote \in BOOLEAN
  /\ approved \in SUBSET Intents
  /\ attempt \in SUBSET [intent : SUBSET Intents, invoice : SUBSET Runners]
  /\ generation \in Nat
  /\ payment \in [Runners -> States]
  /\ mirror \in SUBSET Runners /\ log \in SUBSET Runners
  /\ pc \in [Runners -> {"idle", "checked", "approved", "reserved", "prepared",
                         "polling", "paid", "done", "ended"}]
  /\ intent \in [Runners -> SUBSET Intents]
  /\ seen \in [Runners -> Nat]
  /\ worker \in [Sidecars -> [Runners -> Threads]]
  /\ device \in (Sidecars \X Runners) \cup {Free}
  /\ pushes \in [Runners -> Nat]
  /\ before \in [Runners -> SUBSET Runners]
  /\ restarts \in 0..MaxRestarts

Init ==
  /\ remote \in BOOLEAN
  /\ approved = {} /\ attempt = {} /\ generation = 0 /\ mirror = {} /\ log = {}
  /\ payment = [r \in Runners |-> "none"]
  /\ pc = [r \in Runners |-> "idle"]
  /\ intent = [r \in Runners |-> {}]
  /\ seen = [r \in Runners |-> 0]
  /\ worker = [s \in Sidecars |-> [r \in Runners |-> "none"]]
  /\ device = Free
  /\ pushes = [r \in Runners |-> 0]
  /\ before = [r \in Runners |-> {}]
  /\ restarts = 0

-----------------------------------------------------------------------------
(* The runner.                                                             *)

\* A row of the runners' own store that is unsafe to replace (_unresolved_payment_row).
Unresolved(r) ==
  IF remote THEN r \in mirror \ log
            ELSE /\ payment[r] \notin {"none", "CANCELLED", "FAILED"}
                 /\ ~(payment[r] = "COMPLETE" /\ r \in log)
Clear == attempt = {} /\ \A r \in Runners : ~Unresolved(r)

\* buy reads the generation of a clear state and builds its intent.
Begin(r, i) ==
  /\ pc[r] = "idle" /\ Clear
  /\ seen' = [seen EXCEPT ![r] = generation]
  /\ before' = [before EXCEPT ![r] = log]
  /\ intent' = [intent EXCEPT ![r] = {i}]
  /\ pc' = [pc EXCEPT ![r] = "checked"]
  /\ UNCHANGED <<remote, approved, attempt, generation, mirror, log, sidecar, restarts>>

\* The user approves the intent on the device; one approved before is returned without
\* a prompt.  The remote runner's store takes note of it (_record_approval).
Approve(r) ==
  /\ pc[r] = "checked" /\ device = Free
  /\ approved' = approved \cup intent[r]
  /\ pc' = [pc EXCEPT ![r] = "approved"]
  /\ UNCHANGED <<remote, attempt, generation, mirror, log, intent, seen, before, sidecar, restarts>>

\* reserve_purchase_attempt, in one transaction.
AnyGeneration(r) == generation >= seen[r]
CurrentGeneration(r) == generation = seen[r]

Reserve(r) ==
  /\ pc[r] = "approved"
  /\ Clear /\ intent[r] \subseteq approved /\ CurrentGeneration(r)
  /\ attempt' = {[intent |-> intent[r], invoice |-> {}]}
  /\ pc' = [pc EXCEPT ![r] = "reserved"]
  /\ UNCHANGED <<remote, approved, generation, mirror, log, intent, seen, before, sidecar, restarts>>

\* Bitrefill makes the invoice, and bind_purchase_attempt_invoice writes it down.
Prepare(r) ==
  /\ pc[r] = "reserved"
  /\ \E a \in attempt : a.intent = intent[r] /\ a.invoice \in {{}, {r}}
  /\ attempt' = {[intent |-> intent[r], invoice |-> {r}]}
  /\ pc' = [pc EXCEPT ![r] = "prepared"]
  /\ UNCHANGED <<remote, approved, generation, mirror, log, intent, seen, before, sidecar, restarts>>

\* pay_invoice polls until it sees a state it may return.
Poll(r) ==
  /\ pc[r] = "polling" /\ payment[r] \in {"TX_BROADCAST", "COMPLETE"}
  /\ pc' = [pc EXCEPT ![r] = "paid"]
  /\ UNCHANGED <<remote, approved, attempt, generation, mirror, log, intent, seen, before,
                 sidecar, restarts>>

\* _record_payment: a remote runner copies the row, whose intent is UNIQUE there too.
Mirror(r) ==
  /\ pc[r] = "paid" /\ remote /\ r \notin mirror
  /\ \A q \in mirror : intent[q] # intent[r]
  /\ mirror' = mirror \cup {r}
  /\ UNCHANGED <<remote, approved, attempt, generation, log, pc, intent, seen, before, sidecar, restarts>>

\* finalize_purchase: the state, the log, the attempt and the generation together.
Finalize(r) ==
  /\ pc[r] = "paid"
  /\ attempt = {[intent |-> intent[r], invoice |-> {r}]}
  /\ IF remote THEN r \in mirror /\ UNCHANGED payment
               ELSE /\ payment[r] \in {"TX_BROADCAST", "COMPLETE"}
                    /\ payment' = [payment EXCEPT ![r] = "COMPLETE"]
  /\ log' = log \cup {r}
  /\ attempt' = {}
  /\ generation' = generation + 1
  /\ pc' = [pc EXCEPT ![r] = "done"]
  /\ UNCHANGED <<remote, approved, mirror, intent, seen, before, worker, device, pushes, restarts>>

\* Any other end of buy: a refused check, a rejection on the device, an error or silence
\* of Bitrefill or the sidecar, polling that runs out, the process killed.  Nothing is undone.
GiveUp(r) ==
  /\ pc[r] \notin {"idle", "done", "ended"}
  /\ pc' = [pc EXCEPT ![r] = "ended"]
  /\ UNCHANGED <<remote, approved, attempt, generation, mirror, log, intent, seen, before,
                 sidecar, restarts>>

-----------------------------------------------------------------------------
(* The sidecar.                                                            *)

Launch(s, r) == worker' = [worker EXCEPT ![s][r] = "launched"]

\* intent_id is UNIQUE in payments.
IntentUnused(r) == \A q \in Runners : payment[q] # "none" => intent[q] # intent[r]

\* create_and_schedule for a new payment; the answer may be lost.
Post(r, s) ==
  /\ pc[r] = "prepared"
  /\ payment[r] = "none" /\ intent[r] \subseteq approved /\ IntentUnused(r)
  /\ payment' = [payment EXCEPT ![r] = "INVOICE_CREATED"]
  /\ Launch(s, r)
  /\ \E next \in {"polling", "ended"} : pc' = [pc EXCEPT ![r] = next]
  /\ UNCHANGED <<remote, approved, attempt, generation, mirror, log, intent, seen, before,
                 device, pushes, restarts>>

\* The same request again: the row is returned, and a thread started unless this process
\* has started one.
Repeat(r, s) ==
  /\ payment[r] = "INVOICE_CREATED" /\ worker[s][r] = "none"
  /\ Launch(s, r)
  /\ UNCHANGED <<remote, approved, runner, payment, device, pushes, restarts>>

\* A thread of run_payment stops, with the row as given.
EndsWith(s, r, states) ==
  /\ worker' = [worker EXCEPT ![s][r] = "done"]
  /\ device' = IF device = <<s, r>> THEN Free ELSE device
  /\ \E state \in states : payment' = [payment EXCEPT ![r] = state]
  /\ UNCHANGED <<remote, approved, runner, pushes, restarts>>
Moves(s, r, step) ==
  /\ worker' = [worker EXCEPT ![s][r] = step]
  /\ UNCHANGED <<remote, approved, runner, restarts>>

\* What _fail_payment, _raise_cancelled_payment and _reconcile_payment make of a row; the
\* write may fail, and then the row stays.
AsFailed(r) == {payment[r]} \cup
  (IF payment[r] \in {"INVOICE_CREATED", "TX_SIGNED"} THEN {"FAILED"} ELSE {})
AsCancelled(r) == {payment[r]} \cup
  (IF payment[r] = "INVOICE_CREATED" THEN {"CANCELLED"} ELSE {})
AsReconciled(r) == {payment[r]} \cup
  (IF payment[r] = "TX_SIGNED" THEN {"RECONCILIATION_REQUIRED"} ELSE {})

\* The guard of the device, which run_payment does not wait for when another process is
\* inside; threads of its own process it waits for (_device_operation_lock).
HeldBy(s) == device \in {s} \X Runners
ThreadLockOnly(s, r) == ~HeldBy(s)
GuardFree(s, r) == device = Free

Busy(s, r) ==
  /\ worker[s][r] = "launched" /\ device # Free /\ ~HeldBy(s)
  /\ EndsWith(s, r, {payment[r]})

\* What a row found under the guard calls for.
Skip(s, r) ==
  /\ worker[s][r] = "launched" /\ GuardFree(s, r)
  /\ payment[r] \notin {"INVOICE_CREATED", "TX_SIGNED"}
  /\ EndsWith(s, r, {payment[r]})
Orphaned(s, r) ==
  /\ worker[s][r] = "launched" /\ GuardFree(s, r) /\ payment[r] = "TX_SIGNED"
  /\ EndsWith(s, r, AsReconciled(r))
Start(s, r) ==
  /\ worker[s][r] = "launched" /\ GuardFree(s, r) /\ payment[r] = "INVOICE_CREATED"
  /\ device' = <<s, r>>
  /\ Moves(s, r, "running")
  /\ UNCHANGED <<payment, pushes>>

\* The checks, the balances and the signature; the row is moved before anything is sent.
Sign(s, r) ==
  /\ worker[s][r] = "running" /\ payment[r] = "INVOICE_CREATED"
  /\ payment' = [payment EXCEPT ![r] = "TX_SIGNED"]
  /\ Moves(s, r, "stored")
  /\ UNCHANGED <<device, pushes>>
Reject(s, r) == worker[s][r] = "running" /\ EndsWith(s, r, AsCancelled(r))
Refuse(s, r) == worker[s][r] \in {"running", "stored"} /\ EndsWith(s, r, AsFailed(r))

\* The row and the times are looked at once more.
Recheck(s, r) ==
  /\ worker[s][r] = "stored" /\ payment[r] = "TX_SIGNED"
  /\ Moves(s, r, "pushing")
  /\ UNCHANGED <<payment, device, pushes>>

\* push_base_transaction: the network may have it whatever the answer is.
Push(s, r) ==
  /\ worker[s][r] = "pushing"
  /\ \E step \in {"answered", "unclear"}, sent \in {0, 1} :
       /\ step = "answered" => sent = 1
       /\ pushes' = [pushes EXCEPT ![r] = @ + sent]
       /\ Moves(s, r, step)
  /\ UNCHANGED <<payment, device>>

\* A good answer is recorded; without one, or if that write fails, the row is classified.
Broadcast(s, r) ==
  /\ worker[s][r] = "answered" /\ payment[r] = "TX_SIGNED"
  /\ EndsWith(s, r, {"TX_BROADCAST"})
Unclear(s, r) ==
  /\ worker[s][r] \in {"answered", "unclear"}
  /\ EndsWith(s, r, AsReconciled(r))

\* A sidecar is killed and started again: its threads and what it launched are forgotten.
Restart(s) ==
  /\ restarts < MaxRestarts
  /\ restarts' = restarts + 1
  /\ worker' = [worker EXCEPT ![s] = [r \in Runners |-> "none"]]
  /\ device' = IF HeldBy(s) THEN Free ELSE device
  /\ UNCHANGED <<remote, approved, runner, payment, pushes>>

-----------------------------------------------------------------------------
Run(r) ==
  \/ \E i \in Intents : Begin(r, i)
  \/ Approve(r) \/ Reserve(r) \/ Prepare(r) \/ Poll(r) \/ Mirror(r) \/ Finalize(r) \/ GiveUp(r)
Serve(s, r) ==
  \/ Post(r, s) \/ Repeat(r, s)
  \/ Busy(s, r) \/ Skip(s, r) \/ Orphaned(s, r) \/ Start(s, r)
  \/ Sign(s, r) \/ Reject(s, r) \/ Refuse(s, r) \/ Recheck(s, r)
  \/ Push(s, r) \/ Broadcast(s, r) \/ Unclear(s, r)
Next ==
  \/ \E r \in Runners : Run(r)
  \/ \E s \in Sidecars, r \in Runners : Serve(s, r)
  \/ \E s \in Sidecars : Restart(s)
Spec == Init /\ [][Next]_vars

-----------------------------------------------------------------------------
(* Properties.                                                             *)

Paid(r) == pushes[r] > 0

\* Two purchases are paid one after the other: the second one's runner had seen the first
\* in the log before it asked its user anything.  So no purchase is ever paid beside one
\* whose outcome is open, nor by "an older overlapping runner" (README 156-161).
PurchasesInSequence ==
  \A q, r \in Runners : (q # r /\ Paid(q) /\ Paid(r)) => (q \in before[r] \/ r \in before[q])

\* What the user approved once on the device is sent to the network at most once, whatever
\* is repeated, restarted or run beside it, and a payment recorded as CANCELLED or FAILED
\* was never sent (run_payment 1094-1289; "payment was not resubmitted", sidecar_client.py 607).
SentOnce ==
  /\ \A r \in Runners : pushes[r] <= 1
  /\ \A q, r \in Runners : (intent[q] = intent[r] /\ Paid(q) /\ Paid(r)) => q = r
FailedIsUnsent == \A r \in Runners : payment[r] \in {"CANCELLED", "FAILED"} => ~Paid(r)
ApprovalSpentOnce == SentOnce /\ FailedIsUnsent

\* The inductive invariant behind the theorems.  RowInv: whoever has the device is a thread
\* that knows its row, and the network has nothing of a row before its transaction is stored.
\* IntentInv: rows have different intents.  LockInv: at most one runner is between its
\* reservation and its end, the attempt is its own, and the log is what it was at its first
\* check; a payment that is not in the log still has the attempt.
Inside == {"running", "stored", "pushing", "answered", "unclear"}
RowInv ==
  /\ \A s \in Sidecars, r \in Runners :
       /\ worker[s][r] \in Inside <=> device = <<s, r>>
       /\ worker[s][r] = "running" => payment[r] = "INVOICE_CREATED"
       /\ worker[s][r] \in Inside \ {"running"} => payment[r] = "TX_SIGNED"
       /\ worker[s][r] \in {"running", "stored", "pushing"} => pushes[r] = 0
  /\ \A r \in Runners :
       /\ pushes[r] <= 1
       /\ payment[r] \in {"none", "INVOICE_CREATED", "CANCELLED", "FAILED"} => pushes[r] = 0
IntentInv ==
  \A q, r \in Runners : payment[r] # "none" =>
    /\ pc[r] # "idle"
    /\ payment[q] # "none" /\ intent[q] = intent[r] => q = r
Buying(r) == pc[r] \in {"reserved", "prepared", "polling", "paid"}
LockInv ==
  \A r \in Runners :
    /\ Buying(r) =>
         /\ attempt = {[intent |-> intent[r], invoice |-> IF pc[r] = "reserved" THEN {} ELSE {r}]}
         /\ before[r] = log
         /\ \A q \in Runners : Buying(q) => q = r
    /\ payment[r] # "none" /\ r \notin log => attempt = {[intent |-> intent[r], invoice |-> {r}]}
    /\ seen[r] <= generation
    /\ pc[r] \in {"checked", "approved"} /\ seen[r] = generation => before[r] = log
SeqInv ==
  \A q, r \in Runners : (q # r /\ payment[q] # "none" /\ payment[r] # "none") =>
    (q \in before[r] \/ r \in before[q])
=============================================================================
