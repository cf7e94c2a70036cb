------------------------ MODULE TrezorPurchaseProofs ------------------------
(* Theorems about TrezorPurchase, for any runners, intents, sidecars and    *)
(* number of restarts.                                                      *)
EXTENDS TrezorPurchase, TLAPS

\* A free device is in nobody's hands.
LEMMA FreeIsNobody ==
  ASSUME NEW s \in Sidecars, NEW r \in Runners
  PROVE  Free # <<s, r>>
  BY DEF Free

\* A step of one thread leaves the other threads where they are.
OtherThreads(s, r) ==
  \A t \in Sidecars, q \in Runners : (t # s \/ q # r) => worker'[t][q] = worker[t][q]

LEMMA Threading ==
  ASSUME TypeOK, NEW s \in Sidecars, NEW r \in Runners, NEW step \in Threads,
         worker' = [worker EXCEPT ![s][r] = step]
  PROVE  /\ worker' \in [Sidecars -> [Runners -> Threads]]
         /\ worker'[s][r] = step /\ OtherThreads(s, r)
  BY DEF TypeOK, OtherThreads

\* What is left when a thread ends.
LEMMA Ending ==
  ASSUME TypeOK, NEW s \in Sidecars, NEW r \in Runners, NEW states \in SUBSET States,
         EndsWith(s, r, states)
  PROVE  /\ worker' \in [Sidecars -> [Runners -> Threads]]
         /\ worker'[s][r] = "done" /\ OtherThreads(s, r)
         /\ payment' \in [Runners -> States] /\ payment'[r] \in states
         /\ \A q \in Runners \ {r} : payment'[q] = payment[q]
         /\ device' = (IF device = <<s, r>> THEN Free ELSE device)
         /\ device' \in (Sidecars \X Runners) \cup {Free}
         /\ UNCHANGED <<remote, approved, runner, pushes, restarts>>
  <1>1. "done" \in Threads
    BY DEF Threads
  <1>2. worker' = [worker EXCEPT ![s][r] = "done"]
    BY DEF EndsWith
  <1>3. /\ worker' \in [Sidecars -> [Runners -> Threads]]
        /\ worker'[s][r] = "done" /\ OtherThreads(s, r)
    BY <1>1, <1>2, Threading
  <1>4. PICK state \in states : payment' = [payment EXCEPT ![r] = state]
    BY DEF EndsWith
  <1>5. /\ payment' \in [Runners -> States] /\ payment'[r] \in states
        /\ \A q \in Runners \ {r} : payment'[q] = payment[q]
    BY <1>4 DEF TypeOK
  <1>6. /\ device' = (IF device = <<s, r>> THEN Free ELSE device)
        /\ UNCHANGED <<remote, approved, runner, pushes, restarts>>
    BY DEF EndsWith
  <1>7. device' \in (Sidecars \X Runners) \cup {Free}
    BY <1>6 DEF TypeOK
  <1>8. QED
    BY <1>3, <1>5, <1>6, <1>7

-----------------------------------------------------------------------------
(* The sidecar.                                                            *)

\* The steps of a thread, by whether they end it.
LastStep(s, r) ==
  \/ Busy(s, r) \/ Skip(s, r) \/ Orphaned(s, r) \/ Reject(s, r) \/ Refuse(s, r)
  \/ Broadcast(s, r) \/ Unclear(s, r)
InnerStep(s, r) == Start(s, r) \/ Sign(s, r) \/ Recheck(s, r) \/ Push(s, r)

\* A thread that ends gives its device back, and leaves its row a state in which it is true
\* that it was sent, or was not.
LEMMA LastSteps ==
  ASSUME TypeOK, RowInv, NEW s \in Sidecars, NEW r \in Runners, LastStep(s, r)
  PROVE  /\ \E states \in SUBSET States : EndsWith(s, r, states)
         /\ payment'[r] # payment[r] =>
              /\ payment'[r] \notin {"none", "INVOICE_CREATED"} /\ payment[r] # "none"
              /\ payment'[r] \in {"CANCELLED", "FAILED"} => pushes[r] = 0
              /\ \A t \in Sidecars : worker[t][r] \in Inside => t = s
  <1>1. payment[r] \in States
    BY DEF TypeOK
  <1>2. \A t \in Sidecars : worker[t][r] \in Inside => device = <<t, r>>
    BY DEF RowInv
  <1>3. CASE Busy(s, r) \/ Skip(s, r)
    <2>1. EndsWith(s, r, {payment[r]})
      BY <1>3 DEF Busy, Skip
    <2>2. payment'[r] = payment[r]
      BY <1>1, <2>1, Ending
    <2>3. QED
      BY <1>1, <2>1, <2>2
  <1>4. CASE Orphaned(s, r)
    <2>1. /\ EndsWith(s, r, AsReconciled(r)) /\ payment[r] = "TX_SIGNED"
          /\ AsReconciled(r) = {"TX_SIGNED", "RECONCILIATION_REQUIRED"}
      BY <1>4 DEF Orphaned, AsReconciled
    <2>2. AsReconciled(r) \in SUBSET States
      BY <2>1 DEF States
    <2>3. payment'[r] \in {"TX_SIGNED", "RECONCILIATION_REQUIRED"}
      BY <2>1, <2>2, Ending
    <2>4. \A t \in Sidecars : worker[t][r] \notin Inside
      BY <1>2, <1>4, FreeIsNobody DEF Orphaned, GuardFree
    <2>5. QED
      BY <2>1, <2>2, <2>3, <2>4
  <1>5. CASE Reject(s, r) \/ Refuse(s, r) \/ Broadcast(s, r) \/ Unclear(s, r)
    <2>1. worker[s][r] \in Inside
      BY <1>5 DEF Reject, Refuse, Broadcast, Unclear, Inside
    <2>2. \A t \in Sidecars : worker[t][r] \in Inside => t = s
      BY <1>2, <2>1
    <2>3. CASE Reject(s, r) \/ Refuse(s, r)
      <3>1. PICK states \in {AsCancelled(r), AsFailed(r)} :
              EndsWith(s, r, states) /\ worker[s][r] \in {"running", "stored"}
        BY <2>3 DEF Reject, Refuse
      <3>2. pushes[r] = 0 /\ payment[r] \in {"INVOICE_CREATED", "TX_SIGNED"}
        BY <3>1 DEF RowInv, Inside
      <3>3. states \subseteq {payment[r], "CANCELLED", "FAILED"} /\ states \in SUBSET States
        BY <1>1, <3>1 DEF AsCancelled, AsFailed, States
      <3>4. payment'[r] \in {payment[r], "CANCELLED", "FAILED"}
        BY <3>1, <3>3, Ending
      <3>5. QED
        BY <2>2, <3>1, <3>2, <3>3, <3>4
    <2>4. CASE Broadcast(s, r) \/ Unclear(s, r)
      <3>1. PICK states \in {AsReconciled(r), {"TX_BROADCAST"}} : EndsWith(s, r, states)
        BY <2>4 DEF Broadcast, Unclear
      <3>2. payment[r] = "TX_SIGNED"
        BY <2>4 DEF Broadcast, Unclear, RowInv, Inside
      <3>3. states \subseteq {payment[r], "RECONCILIATION_REQUIRED", "TX_BROADCAST"}
            /\ states \in SUBSET States
        BY <1>1, <3>1 DEF AsReconciled, States
      <3>4. payment'[r] \in {payment[r], "RECONCILIATION_REQUIRED", "TX_BROADCAST"}
        BY <3>1, <3>3, Ending
      <3>5. QED
        BY <2>2, <3>1, <3>2, <3>3, <3>4
    <2>5. QED
      BY <1>5, <2>3, <2>4
  <1>6. QED
    BY <1>3, <1>4, <1>5 DEF LastStep

LEMMA LastKeeps ==
  ASSUME TypeOK, RowInv, NEW s \in Sidecars, NEW r \in Runners, LastStep(s, r)
  PROVE  TypeOK' /\ RowInv'
  <1>1. PICK states \in SUBSET States : EndsWith(s, r, states)
    BY LastSteps
  <1>2. /\ worker' \in [Sidecars -> [Runners -> Threads]]
        /\ worker'[s][r] = "done" /\ OtherThreads(s, r)
        /\ payment' \in [Runners -> States]
        /\ \A q \in Runners \ {r} : payment'[q] = payment[q]
        /\ device' = (IF device = <<s, r>> THEN Free ELSE device)
        /\ device' \in (Sidecars \X Runners) \cup {Free}
        /\ UNCHANGED <<remote, approved, runner, pushes, restarts>>
    BY <1>1, Ending
  <1>3. TypeOK'
    BY <1>2 DEF TypeOK, runner
  <1>4. ASSUME NEW t \in Sidecars, NEW q \in Runners
        PROVE  /\ worker'[t][q] \in Inside <=> device' = <<t, q>>
               /\ worker'[t][q] = "running" => payment'[q] = "INVOICE_CREATED"
               /\ worker'[t][q] \in Inside \ {"running"} => payment'[q] = "TX_SIGNED"
               /\ worker'[t][q] \in {"running", "stored", "pushing"} => pushes'[q] = 0
    <2>1. CASE t = s /\ q = r
      BY <1>2, <2>1, FreeIsNobody DEF Inside
    <2>2. CASE t # s \/ q # r
      <3>1. worker'[t][q] = worker[t][q]
        BY <1>2, <2>2 DEF OtherThreads
      <3>2. device' = <<t, q>> <=> device = <<t, q>>
        <4>1. <<s, r>> # <<t, q>>
          BY <2>2
        <4>2. QED
          BY <1>2, <4>1, FreeIsNobody
      <3>3. worker[t][q] \in Inside => payment'[q] = payment[q]
        BY <1>2, <2>2, LastSteps
      <3>4. QED
        BY <1>2, <3>1, <3>2, <3>3 DEF RowInv, Inside
    <2>3. QED
      BY <2>1, <2>2
  <1>5. ASSUME NEW q \in Runners
        PROVE  /\ pushes'[q] <= 1
               /\ payment'[q] \in {"none", "INVOICE_CREATED", "CANCELLED", "FAILED"} => pushes'[q] = 0
    BY <1>2, LastSteps DEF RowInv
  <1>6. QED
    BY <1>3, <1>4, <1>5 DEF RowInv

\* The steps with the device in hand go one after the other, and the row is stored as signed
\* before the network is handed anything.
LEMMA InnerKeeps ==
  ASSUME TypeOK, RowInv, NEW s \in Sidecars, NEW r \in Runners, InnerStep(s, r)
  PROVE  /\ TypeOK' /\ RowInv' /\ UNCHANGED runner
         /\ \A q \in Runners : payment'[q] # "none" <=> payment[q] # "none"
  <1>1. PICK step \in Threads : Moves(s, r, step) /\ step \in Inside
    BY DEF InnerStep, Start, Sign, Recheck, Push, Threads, Inside
  <1>2. /\ worker' \in [Sidecars -> [Runners -> Threads]]
        /\ worker'[s][r] = step /\ OtherThreads(s, r)
        /\ UNCHANGED <<remote, approved, runner, restarts>>
    BY <1>1, Threading DEF Moves
  <1>3. /\ payment' \in [Runners -> States] /\ pushes' \in [Runners -> Nat]
        /\ device' = <<s, r>>
        /\ \A t \in Sidecars, q \in Runners :
             (t # s \/ q # r) /\ device = <<t, q>> => device' = device
        /\ \A q \in Runners \ {r} : payment'[q] = payment[q] /\ pushes'[q] = pushes[q]
        /\ payment'[r] # "none" <=> payment[r] # "none"
        /\ pushes'[r] <= 1 /\ payment'[r] \in {"INVOICE_CREATED", "TX_SIGNED"}
        /\ payment'[r] = "INVOICE_CREATED" => pushes'[r] = 0
        /\ step = "running" => payment'[r] = "INVOICE_CREATED"
        /\ step \in Inside \ {"running"} => payment'[r] = "TX_SIGNED"
        /\ step \in {"running", "stored", "pushing"} => pushes'[r] = 0
    <2>1. worker'[s][r] = step /\ pushes[r] \in Nat
      BY <1>2 DEF TypeOK
    <2>2. CASE Start(s, r)
      <3>1. step = "running"
        BY <1>1, <2>1, <2>2 DEF Start, Moves, TypeOK, Threads
      <3>2. device = Free /\ device' = <<s, r>> /\ payment[r] = "INVOICE_CREATED"
            /\ payment' = payment /\ pushes' = pushes
        BY <2>2 DEF Start, GuardFree
      <3>3. \A t \in Sidecars, q \in Runners : device # <<t, q>>
        BY <3>2, FreeIsNobody
      <3>4. QED
        BY <3>1, <3>2, <3>3 DEF TypeOK, RowInv
    <2>3. CASE Sign(s, r)
      <3>1. step = "stored"
        BY <1>1, <2>1, <2>3 DEF Sign, Moves, TypeOK, Threads
      <3>2. worker[s][r] = "running" /\ device' = device /\ pushes' = pushes
            /\ payment' = [payment EXCEPT ![r] = "TX_SIGNED"] /\ payment[r] = "INVOICE_CREATED"
        BY <2>3 DEF Sign
      <3>3. device = <<s, r>> /\ pushes[r] = 0
        BY <3>2 DEF RowInv, Inside
      <3>4. payment' \in [Runners -> States] /\ payment'[r] = "TX_SIGNED"
            /\ \A q \in Runners \ {r} : payment'[q] = payment[q]
        BY <3>2 DEF TypeOK, States
      <3>5. QED
        BY <3>1, <3>2, <3>3, <3>4 DEF TypeOK
    <2>4. CASE Recheck(s, r)
      <3>1. step = "pushing"
        BY <1>1, <2>1, <2>4 DEF Recheck, Moves, TypeOK, Threads
      <3>2. worker[s][r] = "stored" /\ payment[r] = "TX_SIGNED"
            /\ device' = device /\ payment' = payment /\ pushes' = pushes
        BY <2>4 DEF Recheck
      <3>3. device = <<s, r>> /\ pushes[r] = 0
        BY <3>2 DEF RowInv, Inside
      <3>4. QED
        BY <3>1, <3>2, <3>3 DEF TypeOK
    <2>5. CASE Push(s, r)
      <3>1. PICK to \in {"answered", "unclear"}, sent \in {0, 1} :
              /\ pushes' = [pushes EXCEPT ![r] = @ + sent] /\ Moves(s, r, to)
        BY <2>5 DEF Push
      <3>2. step \in {"answered", "unclear"}
        BY <1>1, <2>1, <3>1 DEF Moves, TypeOK, Threads
      <3>3. worker[s][r] = "pushing" /\ device' = device /\ payment' = payment
        BY <2>5 DEF Push
      <3>4. device = <<s, r>> /\ payment[r] = "TX_SIGNED" /\ pushes[r] = 0
        BY <3>3 DEF RowInv, Inside
      <3>5. pushes' \in [Runners -> Nat] /\ pushes'[r] \in {0, 1}
            /\ \A q \in Runners \ {r} : pushes'[q] = pushes[q]
        BY <3>1, <3>4 DEF TypeOK
      <3>6. QED
        BY <3>2, <3>3, <3>4, <3>5 DEF TypeOK
    <2>6. QED
      BY <2>2, <2>3, <2>4, <2>5 DEF InnerStep
  <1>4. TypeOK'
    BY <1>2, <1>3 DEF TypeOK, runner
  <1>5. ASSUME NEW t \in Sidecars, NEW q \in Runners
        PROVE  /\ worker'[t][q] \in Inside <=> device' = <<t, q>>
               /\ worker'[t][q] = "running" => payment'[q] = "INVOICE_CREATED"
               /\ worker'[t][q] \in Inside \ {"running"} => payment'[q] = "TX_SIGNED"
               /\ worker'[t][q] \in {"running", "stored", "pushing"} => pushes'[q] = 0
    <2>1. CASE t = s /\ q = r
      BY <1>1, <1>2, <1>3, <2>1
    <2>2. CASE t # s \/ q # r
      <3>1. <<s, r>> # <<t, q>>
        BY <2>2
      <3>2. worker'[t][q] \notin Inside
        BY <1>2, <1>3, <2>2, <3>1 DEF OtherThreads, RowInv
      <3>3. QED
        BY <1>3, <3>1, <3>2 DEF Inside
    <2>3. QED
      BY <2>1, <2>2
  <1>6. RowInv'
    BY <1>3, <1>5 DEF RowInv
  <1>7. QED
    BY <1>2, <1>3, <1>4, <1>6

\* A request that starts a thread, for a new row or for one whose thread is gone.
LEMMA RequestKeeps ==
  ASSUME TypeOK, RowInv, NEW s \in Sidecars, NEW r \in Runners, Post(r, s) \/ Repeat(r, s)
  PROVE  TypeOK' /\ RowInv'
  <1>1. "launched" \in Threads /\ "launched" \notin Inside
    BY DEF Threads, Inside
  <1>2. worker' = [worker EXCEPT ![s][r] = "launched"]
    BY DEF Post, Repeat, Launch
  <1>3. /\ worker' \in [Sidecars -> [Runners -> Threads]]
        /\ worker'[s][r] = "launched" /\ OtherThreads(s, r)
    BY <1>1, <1>2, Threading
  <1>4. payment[r] \in {"none", "INVOICE_CREATED"} /\ worker[s][r] \notin Inside
    BY DEF Post, Repeat, RowInv, Inside
  <1>5. /\ payment' \in [Runners -> States]
        /\ \A q \in Runners \ {r} : payment'[q] = payment[q]
        /\ payment'[r] = "INVOICE_CREATED"
        /\ UNCHANGED <<remote, approved, attempt, generation, mirror, log, intent, seen, before,
                       device, pushes, restarts>>
        /\ pc' \in [Runners -> {"idle", "checked", "approved", "reserved", "prepared",
                                "polling", "paid", "done", "ended"}]
    BY DEF Post, Repeat, TypeOK, States, runner
  <1>6. TypeOK'
    BY <1>3, <1>5 DEF TypeOK
  <1>7. \A t \in Sidecars, q \in Runners : worker'[t][q] \in Inside <=> worker[t][q] \in Inside
    BY <1>1, <1>3, <1>4 DEF OtherThreads
  <1>8. \A t \in Sidecars : worker[t][r] \in Inside => payment[r] = "INVOICE_CREATED"
    BY <1>4 DEF RowInv, Inside
  <1>9. \A t \in Sidecars, q \in Runners : worker'[t][q] \in Inside =>
          worker'[t][q] = worker[t][q] /\ payment'[q] = payment[q] /\ pushes'[q] = pushes[q]
    BY <1>1, <1>3, <1>4, <1>5, <1>8 DEF OtherThreads
  <1>10. RowInv'
    <2>1. \A t \in Sidecars, q \in Runners :
            /\ worker'[t][q] \in Inside <=> device' = <<t, q>>
            /\ worker'[t][q] = "running" => payment'[q] = "INVOICE_CREATED"
            /\ worker'[t][q] \in Inside \ {"running"} => payment'[q] = "TX_SIGNED"
            /\ worker'[t][q] \in {"running", "stored", "pushing"} => pushes'[q] = 0
      BY <1>5, <1>7, <1>9 DEF RowInv, Inside
    <2>2. \A q \in Runners :
            /\ pushes'[q] <= 1
            /\ payment'[q] \in {"none", "INVOICE_CREATED", "CANCELLED", "FAILED"} => pushes'[q] = 0
      BY <1>4, <1>5 DEF RowInv
    <2>3. QED
      BY <2>1, <2>2 DEF RowInv
  <1>11. QED
    BY <1>6, <1>10

\* A restart frees the device its threads held and no other.
LEMMA RestartKeeps ==
  ASSUME TypeOK, RowInv, NEW s \in Sidecars, Restart(s)
  PROVE  TypeOK' /\ RowInv'
  <1>1. /\ \A r \in Runners : worker'[s][r] = "none"
        /\ \A t \in Sidecars \ {s} : worker'[t] = worker[t]
        /\ worker' \in [Sidecars -> [Runners -> Threads]]
    BY DEF Restart, TypeOK, Threads
  <1>2. /\ device' \in (Sidecars \X Runners) \cup {Free}
        /\ \A t \in Sidecars, q \in Runners :
             device' = <<t, q>> <=> device = <<t, q>> /\ t # s
    <2>1. CASE HeldBy(s)
      <3>1. device' = Free /\ \A t \in Sidecars, q \in Runners : device = <<t, q>> => t = s
        BY <2>1 DEF Restart, HeldBy
      <3>2. QED
        BY <3>1, FreeIsNobody
    <2>2. CASE ~HeldBy(s)
      <3>1. device' = device /\ \A q \in Runners : device # <<s, q>>
        BY <2>2 DEF Restart, HeldBy
      <3>2. QED
        BY <3>1 DEF TypeOK
    <2>3. QED
      BY <2>1, <2>2
  <1>3. /\ restarts' \in 0..MaxRestarts
        /\ UNCHANGED <<remote, approved, runner, payment, pushes>>
    BY BoundAssumption DEF Restart, TypeOK
  <1>4. TypeOK'
    BY <1>1, <1>2, <1>3 DEF TypeOK, runner
  <1>5. "none" \notin Inside /\ "none" \notin {"running", "stored", "pushing"}
    BY DEF Inside
  <1>6. RowInv'
    BY <1>1, <1>2, <1>3, <1>5 DEF RowInv, Inside
  <1>7. QED
    BY <1>4, <1>6

-----------------------------------------------------------------------------
(* The runners.                                                            *)

\* What a runner does leaves the sidecar alone, but for the row it finalizes, which is sent.
LEMMA RunKeeps ==
  ASSUME TypeOK, RowInv, NEW r \in Runners, Run(r)
  PROVE  /\ TypeOK' /\ RowInv'
         /\ \A q \in Runners : payment'[q] # "none" <=> payment[q] # "none"
  <1>1. CASE \E i \in Intents : Begin(r, i)
    BY <1>1 DEF Begin, TypeOK, RowInv, sidecar
  <1>2. CASE Approve(r)
    BY <1>2 DEF Approve, TypeOK, RowInv, sidecar
  <1>3. CASE Reserve(r)
    <2>1. attempt' \in SUBSET [intent : SUBSET Intents, invoice : SUBSET Runners]
      BY <1>3 DEF Reserve, TypeOK
    <2>2. QED
      BY <1>3, <2>1 DEF Reserve, TypeOK, RowInv, sidecar
  <1>4. CASE Prepare(r)
    <2>1. attempt' \in SUBSET [intent : SUBSET Intents, invoice : SUBSET Runners]
      BY <1>4 DEF Prepare, TypeOK
    <2>2. QED
      BY <1>4, <2>1 DEF Prepare, TypeOK, RowInv, sidecar
  <1>5. CASE Poll(r) \/ GiveUp(r)
    BY <1>5 DEF Poll, GiveUp, TypeOK, RowInv, sidecar
  <1>6. CASE Mirror(r)
    BY <1>6 DEF Mirror, TypeOK, RowInv, sidecar
  <1>7. CASE Finalize(r)
    <2>1. /\ payment' \in [Runners -> States]
          /\ payment' = payment \/ /\ payment[r] \in {"TX_BROADCAST", "COMPLETE"}
                                   /\ payment'[r] = "COMPLETE"
                                   /\ \A q \in Runners \ {r} : payment'[q] = payment[q]
      BY <1>7 DEF Finalize, TypeOK, States
    <2>2. TypeOK'
      <3>1. attempt' = {} /\ generation' \in Nat /\ log' \in SUBSET Runners
        BY <1>7 DEF Finalize, TypeOK
      <3>2. pc' \in [Runners -> {"idle", "checked", "approved", "reserved", "prepared",
                                 "polling", "paid", "done", "ended"}]
        BY <1>7 DEF Finalize, TypeOK
      <3>3. UNCHANGED <<remote, approved, mirror, intent, seen, before, worker, device, pushes, restarts>>
        BY <1>7 DEF Finalize
      <3>4. attempt' \in SUBSET [intent : SUBSET Intents, invoice : SUBSET Runners]
        BY <3>1
      <3>5. QED
        BY <2>1, <3>1, <3>2, <3>3, <3>4 DEF TypeOK
    <2>3. UNCHANGED <<worker, device, pushes>>
      BY <1>7 DEF Finalize
    <2>4. QED
      BY <2>1, <2>2, <2>3 DEF RowInv
  <1>8. QED
    BY <1>1, <1>2, <1>3, <1>4, <1>5, <1>6, <1>7 DEF Run

\* The intent, the first check and the place of the other runners stay as they are.
LEMMA RunLeaves ==
  ASSUME TypeOK, NEW r \in Runners, Run(r)
  PROVE  /\ \A q \in Runners \ {r} : /\ pc'[q] = pc[q] /\ intent'[q] = intent[q]
                                     /\ before'[q] = before[q] /\ seen'[q] = seen[q]
         /\ pc[r] # "idle" => intent'[r] = intent[r] /\ before'[r] = before[r] /\ seen'[r] = seen[r]
         /\ pc'[r] # "idle"
  BY DEF Run, Begin, Approve, Reserve, Prepare, Poll, Mirror, Finalize, GiveUp, TypeOK

LEMMA IntentKept ==
  ASSUME TypeOK, IntentInv, NEW r \in Runners, Run(r),
         \A q \in Runners : payment'[q] # "none" <=> payment[q] # "none"
  PROVE  IntentInv'
  BY RunLeaves DEF IntentInv

LEMMA SeqKept ==
  ASSUME TypeOK, IntentInv, SeqInv, NEW r \in Runners, Run(r),
         \A q \in Runners : payment'[q] # "none" <=> payment[q] # "none"
  PROVE  SeqInv'
  BY RunLeaves DEF IntentInv, SeqInv

\* The attempts of two invoices are different.
LEMMA SameAttempt ==
  ASSUME NEW q, NEW r, NEW i, NEW j,
         {[intent |-> i, invoice |-> {q}]} = {[intent |-> j, invoice |-> {r}]}
  PROVE  q = r
  <1>1. [intent |-> i, invoice |-> {q}] = [intent |-> j, invoice |-> {r}]
    OBVIOUS
  <1>2. [intent |-> i, invoice |-> {q}].invoice = [intent |-> j, invoice |-> {r}].invoice
    BY <1>1
  <1>3. {q} = {r}
    BY <1>2
  <1>4. QED
    BY <1>3

\* The attempt, the generation and the log under the steps of one runner.
LEMMA LockKept ==
  ASSUME TypeOK, IntentInv, LockInv, NEW r \in Runners, Run(r),
         \A q \in Runners : payment'[q] # "none" <=> payment[q] # "none"
  PROVE  LockInv'
  <1> DEFINE Reserved(q) == {[intent |-> intent[q], invoice |-> {}]}
             Bound(q) == {[intent |-> intent[q], invoice |-> {q}]}
             Lock(q) == IF pc[q] = "reserved" THEN Reserved(q) ELSE Bound(q)
  <1>1. ASSUME NEW q \in Runners
        PROVE  /\ Buying(q) => attempt = Lock(q) /\ attempt # {} /\ before[q] = log
               /\ \A t \in Runners : Buying(q) /\ Buying(t) => t = q
               /\ payment[q] # "none" /\ q \notin log => attempt = Bound(q) /\ attempt # {}
               /\ seen[q] \in Nat /\ generation \in Nat /\ seen[q] <= generation
               /\ pc[q] \in {"checked", "approved"} /\ seen[q] = generation => before[q] = log
    BY DEF LockInv, TypeOK
  <1>2. /\ \A q \in Runners \ {r} : /\ pc'[q] = pc[q] /\ intent'[q] = intent[q]
                                    /\ before'[q] = before[q] /\ seen'[q] = seen[q]
        /\ pc[r] # "idle" => intent'[r] = intent[r] /\ before'[r] = before[r] /\ seen'[r] = seen[r]
    BY RunLeaves
  <1>3. \A q \in Runners : payment[q] # "none" => pc[q] # "idle"
    BY DEF IntentInv
  <1>4. \A q \in Runners : payment[q] # "none" => Bound(q)' = Bound(q)
    BY <1>2, <1>3
  <1>5. \A q \in Runners : Buying(q) => Reserved(q)' = Reserved(q) /\ Bound(q)' = Bound(q)
    BY <1>2 DEF Buying
  <1> SUFFICES ASSUME NEW q \in Runners
               PROVE  /\ Buying(q)' =>
                           /\ attempt' = Lock(q)' /\ before'[q] = log'
                           /\ \A t \in Runners : Buying(t)' => t = q
                      /\ payment'[q] # "none" /\ q \notin log' => attempt' = Bound(q)'
                      /\ seen'[q] <= generation'
                      /\ pc'[q] \in {"checked", "approved"} /\ seen'[q] = generation' => before'[q] = log'
    BY DEF LockInv
  <1>6. CASE \E i \in Intents : Begin(r, i)
    <2>1. /\ UNCHANGED <<attempt, generation, log>>
          /\ seen'[r] = generation /\ before'[r] = log /\ pc'[r] = "checked" /\ pc[r] = "idle"
      BY <1>6 DEF Begin, TypeOK
    <2>2. \A t \in Runners : Buying(t)' <=> Buying(t)
      BY <1>2, <2>1 DEF Buying
    <2>3. Buying(q) => Lock(q)' = Lock(q) /\ before'[q] = before[q]
      BY <1>2, <1>5, <2>1 DEF Buying
    <2>4. QED
      BY <1>1, <1>2, <1>4, <2>1, <2>2, <2>3
  <1>7. CASE Approve(r)
    <2>1. /\ UNCHANGED <<attempt, generation, log>>
          /\ pc'[r] = "approved" /\ pc[r] = "checked"
      BY <1>7 DEF Approve, TypeOK
    <2>2. \A t \in Runners : Buying(t)' <=> Buying(t)
      BY <1>2, <2>1 DEF Buying
    <2>3. Buying(q) => Lock(q)' = Lock(q) /\ before'[q] = before[q]
      BY <1>2, <1>5, <2>1 DEF Buying
    <2>4. QED
      BY <1>1, <1>2, <1>4, <2>1, <2>2, <2>3
  <1>8. CASE Reserve(r)
    <2>1. /\ attempt = {} /\ attempt' = Reserved(r) /\ UNCHANGED <<generation, log>>
          /\ seen[r] = generation /\ pc'[r] = "reserved" /\ pc[r] = "approved"
      BY <1>8 DEF Reserve, Clear, CurrentGeneration, TypeOK
    <2>2. \A t \in Runners : ~Buying(t)
      BY <1>1, <2>1
    <2>3. \A t \in Runners : Buying(t)' <=> t = r
      BY <1>2, <2>1, <2>2 DEF Buying
    <2>4. payment'[q] # "none" => q \in log'
      BY <1>1, <2>1
    <2>5. Lock(r)' = Reserved(r) /\ before'[r] = log
      BY <1>1, <1>2, <2>1
    <2>6. QED
      BY <1>1, <1>2, <2>1, <2>3, <2>4, <2>5
  <1>9. CASE Prepare(r)
    <2>1. /\ attempt' = Bound(r) /\ UNCHANGED <<generation, log>>
          /\ pc'[r] = "prepared" /\ pc[r] = "reserved"
          /\ \E a \in attempt : a.invoice \in {{}, {r}}
      BY <1>9 DEF Prepare, TypeOK
    <2>2. Buying(r)
      BY <2>1 DEF Buying
    <2>3. \A t \in Runners : Buying(t)' <=> Buying(t)
      BY <1>2, <2>1 DEF Buying
    <2>4. payment[q] # "none" /\ q \notin log => q = r
      BY <1>1, <2>1
    <2>5. Lock(r)' = Bound(r) /\ Bound(r)' = Bound(r) /\ before'[r] = before[r]
      BY <1>2, <1>5, <2>1, <2>2
    <2>6. QED
      BY <1>1, <1>2, <2>1, <2>2, <2>3, <2>4, <2>5
  <1>10. CASE Poll(r)
    <2>1. /\ UNCHANGED <<attempt, generation, log>>
          /\ pc'[r] = "paid" /\ pc[r] = "polling"
      BY <1>10 DEF Poll, TypeOK
    <2>2. \A t \in Runners : Buying(t)' <=> Buying(t)
      BY <1>2, <2>1 DEF Buying
    <2>3. Buying(q) => Lock(q)' = Lock(q) /\ before'[q] = before[q]
      BY <1>2, <1>5, <2>1 DEF Buying
    <2>4. QED
      BY <1>1, <1>2, <1>4, <2>1, <2>2, <2>3
  <1>11. CASE Mirror(r)
    <2>1. UNCHANGED <<attempt, generation, log, pc, intent, before, seen>>
      BY <1>11 DEF Mirror
    <2>2. \A t \in Runners : Buying(t)' <=> Buying(t)
      BY <2>1 DEF Buying
    <2>3. QED
      BY <1>1, <2>1, <2>2
  <1>12. CASE Finalize(r)
    <2>1. /\ attempt = Bound(r) /\ attempt' = {} /\ generation' = generation + 1
          /\ log' = log \cup {r} /\ pc'[r] = "done" /\ pc[r] = "paid"
      BY <1>12 DEF Finalize, TypeOK
    <2>2. Buying(r)
      BY <2>1 DEF Buying
    <2>3. \A t \in Runners : ~Buying(t)'
      BY <1>1, <1>2, <2>1, <2>2 DEF Buying
    <2>4. payment[q] # "none" /\ q \notin log => q = r
      <3>1. payment[q] # "none" /\ q \notin log => Bound(q) = Bound(r)
        BY <1>1, <2>1
      <3>2. Bound(q) = Bound(r) => q = r
        BY SameAttempt
      <3>3. QED
        BY <3>1, <3>2
    <2>5. seen'[q] = seen[q]
      BY <1>2, <2>1
    <2>6. QED
      BY <1>1, <2>1, <2>3, <2>4, <2>5
  <1>13. CASE GiveUp(r)
    <2>1. /\ UNCHANGED <<attempt, generation, log, intent, before, seen>> /\ pc'[r] = "ended"
      BY <1>13 DEF GiveUp, TypeOK
    <2>2. \A t \in Runners : Buying(t)' => Buying(t) /\ t # r
      BY <1>2, <2>1 DEF Buying
    <2>3. Buying(q)' => Lock(q)' = Lock(q)
      BY <1>2, <2>1, <2>2
    <2>4. QED
      BY <1>1, <1>2, <2>1, <2>2, <2>3
  <1>14. QED
    BY <1>6, <1>7, <1>8, <1>9, <1>10, <1>11, <1>12, <1>13 DEF Run

-----------------------------------------------------------------------------
(* The invariant.                                                          *)

Inv == TypeOK /\ RowInv /\ IntentInv /\ LockInv /\ SeqInv

LEMMA Begins ==
  ASSUME Init
  PROVE  Inv
  <1>1. TypeOK
    BY BoundAssumption DEF Init, TypeOK, States, Threads
  <1>2. RowInv
    BY FreeIsNobody DEF Init, RowInv, Inside
  <1>3. IntentInv /\ LockInv /\ SeqInv
    BY DEF Init, IntentInv, LockInv, SeqInv, Buying
  <1>4. QED
    BY <1>1, <1>2, <1>3 DEF Inv

\* A step that leaves the runners and makes no row keeps what is said of them.
LEMMA RunnersApart ==
  ASSUME IntentInv, LockInv, SeqInv, UNCHANGED runner,
         \A q \in Runners : payment'[q] # "none" <=> payment[q] # "none"
  PROVE  IntentInv' /\ LockInv' /\ SeqInv'
  <1>1. IntentInv'
    BY DEF IntentInv, runner
  <1>2. LockInv'
    <2>1. \A q \in Runners : Buying(q)' <=> Buying(q)
      BY DEF Buying, runner
    <2>2. QED
      BY <2>1 DEF LockInv, runner
  <1>3. SeqInv'
    BY DEF SeqInv, runner
  <1>4. QED
    BY <1>1, <1>2, <1>3

\* A new row is that of the runner with the attempt: every other one is in the log, as it
\* was when that runner began.
LEMMA PostKeeps ==
  ASSUME TypeOK, IntentInv, LockInv, SeqInv, NEW s \in Sidecars, NEW r \in Runners, Post(r, s)
  PROVE  IntentInv' /\ LockInv' /\ SeqInv'
  <1>1. /\ pc[r] = "prepared" /\ pc'[r] \in {"polling", "ended"}
        /\ payment[r] = "none" /\ payment'[r] # "none"
        /\ \A q \in Runners \ {r} : pc'[q] = pc[q] /\ payment'[q] = payment[q]
        /\ UNCHANGED <<attempt, generation, log, intent, seen, before>>
        /\ IntentUnused(r)
    BY DEF Post, TypeOK
  <1>2. Buying(r) /\ attempt = {[intent |-> intent[r], invoice |-> {r}]} /\ before[r] = log
    BY <1>1 DEF LockInv, Buying
  <1>3. \A q \in Runners : Buying(q)' => Buying(q)
    BY <1>1, <1>2 DEF Buying
  <1>4. IntentInv'
    BY <1>1 DEF IntentInv, IntentUnused
  <1>5. LockInv'
    <2>1. \A q \in Runners : Buying(q)' => (pc'[q] = "reserved" <=> pc[q] = "reserved")
      BY <1>1
    <2>2. QED
      BY <1>1, <1>2, <1>3, <2>1 DEF LockInv
  <1>6. \A q \in Runners : q # r /\ payment[q] # "none" => q \in log
    <2>1. ASSUME NEW q \in Runners, q # r, payment[q] # "none", q \notin log
          PROVE  FALSE
      <3>1. attempt = {[intent |-> intent[q], invoice |-> {q}]}
        BY <2>1 DEF LockInv
      <3>2. QED
        BY <1>2, <2>1, <3>1, SameAttempt
    <2>2. QED
      BY <2>1
  <1>7. SeqInv'
    BY <1>1, <1>2, <1>6 DEF SeqInv
  <1>8. QED
    BY <1>4, <1>5, <1>7

LEMMA Keeps ==
  ASSUME Inv, [Next]_vars
  PROVE  Inv'
  <1>1. TypeOK /\ RowInv /\ IntentInv /\ LockInv /\ SeqInv
    BY DEF Inv
  <1>2. CASE UNCHANGED vars
    BY <1>1, <1>2 DEF vars, runner, sidecar, Inv, TypeOK, RowInv, IntentInv, LockInv, SeqInv, Buying
  <1>3. ASSUME NEW r \in Runners, Run(r)
        PROVE  Inv'
    BY <1>1, <1>3, RunKeeps, IntentKept, LockKept, SeqKept DEF Inv
  <1>4. ASSUME NEW s \in Sidecars, NEW r \in Runners, Serve(s, r)
        PROVE  Inv'
    <2>1. CASE Post(r, s)
      BY <1>1, <2>1, RequestKeeps, PostKeeps DEF Inv
    <2>2. CASE Repeat(r, s)
      <3>1. TypeOK' /\ RowInv' /\ UNCHANGED runner /\ payment' = payment
        BY <1>1, <2>2, RequestKeeps DEF Repeat
      <3>2. QED
        BY <1>1, <3>1, RunnersApart DEF Inv
    <2>3. CASE LastStep(s, r)
      <3>1. TypeOK' /\ RowInv'
        BY <1>1, <2>3, LastKeeps
      <3>2. PICK states \in SUBSET States : EndsWith(s, r, states)
        BY <1>1, <2>3, LastSteps
      <3>3. UNCHANGED runner /\ \A q \in Runners \ {r} : payment'[q] = payment[q]
        BY <1>1, <3>2, Ending
      <3>4. payment'[r] # "none" <=> payment[r] # "none"
        BY <1>1, <2>3, LastSteps
      <3>5. QED
        BY <1>1, <3>1, <3>3, <3>4, RunnersApart DEF Inv
    <2>4. CASE InnerStep(s, r)
      BY <1>1, <2>4, InnerKeeps, RunnersApart DEF Inv
    <2>5. QED
      BY <1>4, <2>1, <2>2, <2>3, <2>4 DEF Serve, LastStep, InnerStep
  <1>5. ASSUME NEW s \in Sidecars, Restart(s)
        PROVE  Inv'
    <2>1. TypeOK' /\ RowInv' /\ UNCHANGED runner /\ payment' = payment
      BY <1>1, <1>5, RestartKeeps DEF Restart
    <2>2. QED
      BY <1>1, <2>1, RunnersApart DEF Inv
  <1>6. QED
    BY <1>2, <1>3, <1>4, <1>5 DEF Next

THEOREM Invariance == Spec => []Inv
  BY Begins, Keeps, PTL DEF Spec

-----------------------------------------------------------------------------
\* Every variable keeps its type.
THEOREM Typing == Spec => []TypeOK
  <1>1. Inv => TypeOK
    BY DEF Inv
  <1>2. QED
    BY <1>1, Invariance, PTL

\* A purchase is paid only after the runner has seen every other paid one in the log, or
\* the other's runner has seen it: the attempt is taken under the generation of the first
\* check, one runner holds it at a time, and it is given back only with the log written.
THEOREM PaidInSequence == Spec => []PurchasesInSequence
  <1>1. Inv => PurchasesInSequence
    <2>1. ASSUME Inv, NEW r \in Runners, Paid(r)
          PROVE  payment[r] # "none"
      BY <2>1 DEF Inv, RowInv, Paid
    <2>2. QED
      BY <2>1 DEF Inv, SeqInv, PurchasesInSequence
  <1>2. QED
    BY <1>1, Invariance, PTL

\* The network is handed the transaction of an approved intent at most once, and that of a
\* payment recorded as CANCELLED or FAILED never: only the thread with the device sends, it
\* has stored the row as signed, and no thread sends what it finds signed.
THEOREM SentAtMostOnce == Spec => []ApprovalSpentOnce
  <1>1. Inv => ApprovalSpentOnce
    <2>1. ASSUME Inv, NEW r \in Runners, Paid(r)
          PROVE  payment[r] \notin {"none", "CANCELLED", "FAILED"}
      BY <2>1 DEF Inv, RowInv, Paid
    <2>2. Inv => FailedIsUnsent
      BY <2>1 DEF FailedIsUnsent
    <2>3. Inv => \A r \in Runners : pushes[r] <= 1
      BY DEF Inv, RowInv
    <2>4. Inv => \A q, r \in Runners : intent[q] = intent[r] /\ Paid(q) /\ Paid(r) => q = r
      BY <2>1 DEF Inv, IntentInv
    <2>5. QED
      BY <2>2, <2>3, <2>4 DEF ApprovalSpentOnce, SentOnce
  <1>2. QED
    BY <1>1, Invariance, PTL
=============================================================================
