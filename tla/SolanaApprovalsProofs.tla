----------------------- MODULE SolanaApprovalsProofs ------------------------
(* Theorems about SolanaApprovals, for any requests, kinds, edits, slots and *)
(* number of ops.                                                            *)
EXTENDS SolanaApprovals, SequenceTheorems, FiniteSetTheorems, TLAPS

\* A table with the same rowids and rows of the right shape is an ops table as long.
LEMMA SameRows ==
  ASSUME ops \in Seq(Op), NEW new \in [Rows -> Op]
  PROVE  new \in Seq(Op) /\ Len(new) = Len(ops)
  <1>1. Len(ops) \in Nat
    BY LenProperties
  <1>2. new \in Seq(Op)
    BY <1>1, SeqDef DEF Rows
  <1>3. QED
    BY <1>1, <1>2, LenProperties DEF Rows

\* A change of state leaves everything else on the table as it is.
LEMMA StateOnly ==
  ASSUME ops \in Seq(Op), NEW i \in Rows, NEW from, NEW state \in States,
         Update(i, from, state)
  PROVE  /\ ops' \in [Rows -> Op]
         /\ \A j \in Rows : /\ ops'[j].kind = ops[j].kind /\ ops'[j].hash = ops[j].hash
                            /\ ops'[j].tx = ops[j].tx /\ ops'[j].bound = ops[j].bound
  <1>1. ops \in [Rows -> Op]
    BY LenProperties DEF Rows
  <1>2. QED
    BY <1>1 DEF Update, Op

\* A step ends a request, starts one or moves it on to its next step.
LEMMA GoTypes ==
  ASSUME at \in [Procs -> Steps], on \in [Procs -> Nat], with \in [Procs -> Txs \cup {NoTx}],
         NEW p \in Procs, NEW step \in Steps, NEW i \in Nat, NEW t \in Txs \cup {NoTx},
         Go(p, step, i, t)
  PROVE  /\ at' \in [Procs -> Steps] /\ on' \in [Procs -> Nat]
         /\ with' \in [Procs -> Txs \cup {NoTx}]
         /\ at'[p] = step /\ on'[p] = i /\ with'[p] = t
         /\ \A q \in Procs \ {p} : at'[q] = at[q] /\ on'[q] = on[q] /\ with'[q] = with[q]
  BY DEF Go

-----------------------------------------------------------------------------
(* What a step does to the table                                           *)

\* Rows are never deleted, and each keeps its kind and its blockhash.
Kept ==
  /\ ops' \in Seq(Op) /\ Len(ops) \in Nat /\ Len(ops') \in Nat /\ Len(ops) <= Len(ops')
  /\ \A j \in Rows : ops'[j].kind = ops[j].kind /\ ops'[j].hash = ops[j].hash

\* The steps that only change states.
StateStep(p) ==
  \/ Retire(p) \/ TooOld(p) \/ Lowered(p) \/ ClaimGas(p) \/ NotInspected(p)
  \/ Refused(p) \/ Lost(p) \/ Reconcile(p)

\* Their effect on the table: signatures and blockhashes stay.
LEMMA StateSteps ==
  ASSUME TypeOK, NEW p \in Procs, StateStep(p)
  PROVE  /\ ops' \in [Rows -> Op]
         /\ \A j \in Rows : /\ ops'[j].kind = ops[j].kind /\ ops'[j].hash = ops[j].hash
                            /\ ops'[j].tx = ops[j].tx /\ ops'[j].bound = ops[j].bound
  <1>1. ops \in [Rows -> Op] /\ ops \in Seq(Op)
    BY LenProperties DEF Rows, TypeOK
  <1>2. at[p] \notin {"idle", "fetched", "retired"} => on[p] \in Rows
    BY DEF TypeOK, Rows
  <1>3. CASE Retire(p)
    <2>1. PICK n \in 0..Len(ops) :
            ops' = [i \in Rows |->
                      IF ops[i].state = "PREPARED" /\ (i <= n \/ ops[i].kind = with[p].kind)
                      THEN [ops[i] EXCEPT !.state = "EXPIRED"] ELSE ops[i]]
      BY <1>3 DEF Retire
    <2>2. \A i \in Rows : ops[i] \in Op /\ [ops[i] EXCEPT !.state = "EXPIRED"] \in Op
      BY <1>1 DEF Op, States
    <2>3. \A i \in Rows : LET r == [ops[i] EXCEPT !.state = "EXPIRED"]
                          IN r.kind = ops[i].kind /\ r.hash = ops[i].hash
                             /\ r.tx = ops[i].tx /\ r.bound = ops[i].bound
      BY <1>1 DEF Op
    <2>4. QED
      BY <2>1, <2>2, <2>3
  <1>4. CASE UNCHANGED ops
    BY <1>1, <1>4
  <1>5. CASE TooOld(p) \/ Lowered(p) \/ ClaimGas(p) \/ NotInspected(p)
    <2>1. \E from \in SUBSET States, state \in States : Update(on[p], from, state)
      BY <1>5 DEF TooOld, Lowered, ClaimGas, NotInspected, States, Pending
    <2>2. on[p] \in Rows
      BY <1>2, <1>5 DEF TooOld, Lowered, ClaimGas, NotInspected
    <2>3. QED
      BY <1>1, <2>1, <2>2, StateOnly
  <1>6. CASE Refused(p) \/ Lost(p) \/ Reconcile(p)
    <2>1. UNCHANGED ops \/ \E from \in SUBSET States, state \in States : Update(on[p], from, state)
      BY <1>6 DEF Refused, Lost, Reconcile, States, Pending
    <2>2. on[p] \in Rows
      BY <1>2, <1>6 DEF Refused, Lost, Reconcile
    <2>3. QED
      BY <1>1, <1>4, <2>1, <2>2, StateOnly
  <1>7. QED
    BY <1>3, <1>5, <1>6 DEF StateStep

\* A new row comes last.
LEMMA AddRow ==
  ASSUME TypeOK, NEW p \in Procs, Add(p)
  PROVE  /\ ops' \in Seq(Op) /\ Len(ops) \in Nat /\ Len(ops') = Len(ops) + 1
         /\ \A j \in Rows : ops'[j] = ops[j]
         /\ ops'[Len(ops) + 1].bound = NoHash
  <1> DEFINE row == [kind |-> with[p].kind, hash |-> with[p].hash, state |-> "PREPARED",
                     tx |-> NoTx, bound |-> NoHash]
  <1>1. row \in Op
    BY DEF TypeOK, Add, Txs, Op, States
  <1>2. ops \in Seq(Op) /\ ops' = Append(ops, row)
    BY DEF TypeOK, Add
  <1>3. row.bound = NoHash
    OBVIOUS
  <1> HIDE DEF row
  <1>4. QED
    BY <1>1, <1>2, <1>3, LenProperties DEF Rows

\* The bridge's answer and the checkpoint write a row's signature.
LEMMA WriteRow ==
  ASSUME TypeOK, NEW p \in Procs, Checkpoint(p) \/ Answer(p)
  PROVE  /\ ops' \in [Rows -> Op] /\ on[p] \in Rows
         /\ \A j \in Rows : ops'[j].kind = ops[j].kind /\ ops'[j].hash = ops[j].hash
         /\ \A j \in Rows \ {on[p]} : ops'[j].tx = ops[j].tx /\ ops'[j].bound = ops[j].bound
         /\ Checkpoint(p) => ops'[on[p]].tx = with[p] /\ ops'[on[p]].bound = ops[on[p]].bound
         /\ Answer(p) => \/ /\ ops'[on[p]].tx = ops[on[p]].tx
                             /\ ops'[on[p]].bound = ops[on[p]].bound
                          \/ /\ ops'[on[p]].tx = with[p]
                             /\ ops'[on[p]].bound = IF with[p].kind = "GRANT" THEN with[p].hash
                                                     ELSE ops[on[p]].bound
  <1>1. ops \in [Rows -> Op] /\ ops \in Seq(Op)
    BY LenProperties DEF Rows, TypeOK
  <1>2. on[p] \in Rows /\ with[p] \in Txs /\ with[p].hash \in Hashes
    BY DEF TypeOK, Rows, Checkpoint, Answer, Txs
  <1>3. CASE Checkpoint(p)
    <2>1. at[p] # "answering"
      BY <1>3 DEF Checkpoint
    <2>2. QED
      BY <1>1, <1>2, <1>3, <2>1 DEF Checkpoint, Answer, Op, States, Pending
  <1>4. CASE Answer(p)
    <2>1. ~Checkpoint(p)
      BY <1>4 DEF Checkpoint, Answer
    <2>2. PICK state \in {"DONE", "FAILED", "UNCERTAIN"} :
            \/ Update(on[p], Pending, state)
            \/ ops' = [ops EXCEPT ![on[p]].state = state, ![on[p]].tx = with[p],
                         ![on[p]].bound = IF with[p].kind = "GRANT" THEN with[p].hash ELSE @]
      BY <1>4 DEF Answer
    <2>3. state \in States
      BY DEF States, Pending
    <2>4. CASE Update(on[p], Pending, state)
      BY <1>1, <1>2, <2>1, <2>3, <2>4, StateOnly
    <2>5. CASE ops' = [ops EXCEPT ![on[p]].state = state, ![on[p]].tx = with[p],
                         ![on[p]].bound = IF with[p].kind = "GRANT" THEN with[p].hash ELSE @]
      BY <1>1, <1>2, <2>1, <2>3, <2>5 DEF Op
    <2>6. QED
      BY <2>2, <2>4, <2>5
  <1>5. QED
    BY <1>3, <1>4

-----------------------------------------------------------------------------
(* Types                                                                   *)

\* Expire and TimeOut change states too.
LEMMA OtherStates ==
  ASSUME TypeOK, (\E i \in Rows : TimeOut(i)) \/ (\E n \in Rows : Expire(n))
  PROVE  /\ ops' \in [Rows -> Op]
         /\ \A j \in Rows : /\ ops'[j].kind = ops[j].kind /\ ops'[j].hash = ops[j].hash
                            /\ ops'[j].tx = ops[j].tx /\ ops'[j].bound = ops[j].bound
  <1>1. ops \in [Rows -> Op] /\ ops \in Seq(Op)
    BY LenProperties DEF Rows, TypeOK
  <1>2. ASSUME NEW i \in Rows, TimeOut(i)
        PROVE  \E from \in SUBSET States, state \in States : Update(i, from, state)
    BY <1>2 DEF TimeOut, States, Pending
  <1>3. CASE \E n \in Rows : Expire(n)
    <2>1. PICK n \in Rows :
            ops' = [i \in Rows |-> IF i <= n /\ ops[i].state = "PREPARED"
                                  THEN [ops[i] EXCEPT !.state = "EXPIRED"] ELSE ops[i]]
      BY <1>3 DEF Expire
    <2>2. \A i \in Rows : ops[i] \in Op /\ [ops[i] EXCEPT !.state = "EXPIRED"] \in Op
      BY <1>1 DEF Op, States
    <2>3. \A i \in Rows : LET r == [ops[i] EXCEPT !.state = "EXPIRED"]
                          IN r.kind = ops[i].kind /\ r.hash = ops[i].hash
                             /\ r.tx = ops[i].tx /\ r.bound = ops[i].bound
      BY <1>1 DEF Op
    <2>4. QED
      BY <2>1, <2>2, <2>3
  <1>4. QED
    BY <1>1, <1>2, <1>3, StateOnly

\* In every step the table only grows.
LEMMA Grows == ASSUME TypeOK, [Next]_vars PROVE Kept
  <1>1. ops \in Seq(Op) /\ Len(ops) \in Nat
    BY LenProperties DEF TypeOK
  <1>2. ASSUME ops' \in [Rows -> Op],
               \A j \in Rows : ops'[j].kind = ops[j].kind /\ ops'[j].hash = ops[j].hash
        PROVE  Kept
    BY <1>1, <1>2, SameRows DEF Kept
  <1>3. CASE UNCHANGED ops
    BY <1>1, <1>3 DEF Kept, Rows
  <1>4. ASSUME NEW p \in Procs, Advance(p) PROVE Kept
    <2>1. CASE StateStep(p)
      BY <1>2, <2>1, StateSteps
    <2>2. CASE Add(p)
      BY <1>1, <2>2, AddRow DEF Kept
    <2>3. CASE Checkpoint(p) \/ Answer(p)
      BY <1>2, <2>3, WriteRow
    <2>4. CASE Approve(p) \/ ClaimRefused(p) \/ Send(p) \/ NotSeen(p) \/ Aged(p) \/ NoOutcome(p)
      BY <1>3, <2>4 DEF Approve, ClaimRefused, Send, NotSeen, Aged, NoOutcome
    <2>5. QED
      BY <1>4, <2>1, <2>2, <2>3, <2>4 DEF Advance, StateStep
  <1>5. ASSUME NEW p \in Procs,
               \/ \E k \in Kinds : Fetch(p, k)
               \/ \E i \in Rows, t \in Txs : Submit(p, i, t)
               \/ \E i \in Rows : Poll(p, i)
               \/ Crash(p)
        PROVE  UNCHANGED ops
    BY <1>5 DEF Fetch, Submit, Poll, Crash
  <1>6. CASE (\E i \in Rows : TimeOut(i)) \/ (\E n \in Rows : Expire(n))
    BY <1>2, <1>6, OtherStates
  <1>7. CASE \/ \E i \in Rows, e \in Edits : Sign(i, e)
             \/ Pause \/ NextSlot \/ UNCHANGED vars
             \/ \E t \in Txs : Include(t)
    BY <1>3, <1>7 DEF Sign, Pause, NextSlot, Include, vars
  <1>8. QED
    BY <1>3, <1>4, <1>5, <1>6, <1>7 DEF Next

\* The step, the op and the transaction of each request are of their types.
RequestOK ==
  /\ at \in [Procs -> Steps] /\ on \in [Procs -> Nat] /\ with \in [Procs -> Txs \cup {NoTx}]
  /\ \A p \in Procs : at[p] # "idle" => with[p] \in Txs
  /\ \A p \in Procs : at[p] \notin {"idle", "fetched", "retired"} => on[p] \in 1..Len(ops)

\* A step moves one request to a step with an op and a transaction that it needs.
LEMMA GoOn ==
  ASSUME TypeOK, Kept, NEW p \in Procs, NEW step \in Steps, NEW i \in Nat,
         NEW t \in Txs \cup {NoTx}, Go(p, step, i, t),
         step # "idle" => t \in Txs,
         step \notin {"idle", "fetched", "retired"} => i \in Rows
  PROVE  RequestOK'
  <1>1. at \in [Procs -> Steps] /\ on \in [Procs -> Nat] /\ with \in [Procs -> Txs \cup {NoTx}]
    BY DEF TypeOK
  <1>2. \A j \in 1..Len(ops) : j \in 1..Len(ops')
    BY DEF Kept
  <1>3. /\ at' \in [Procs -> Steps] /\ on' \in [Procs -> Nat]
        /\ with' \in [Procs -> Txs \cup {NoTx}]
        /\ at'[p] = step /\ on'[p] = i /\ with'[p] = t
        /\ \A q \in Procs \ {p} : at'[q] = at[q] /\ on'[q] = on[q] /\ with'[q] = with[q]
    BY <1>1, GoTypes
  <1>4. ASSUME NEW q \in Procs
        PROVE  /\ at'[q] # "idle" => with'[q] \in Txs
               /\ at'[q] \notin {"idle", "fetched", "retired"} => on'[q] \in 1..Len(ops')
    <2>1. CASE q = p
      BY <1>2, <1>3, <2>1 DEF Rows
    <2>2. CASE q # p
      BY <1>2, <1>3, <2>2 DEF TypeOK
    <2>3. QED
      BY <2>1, <2>2
  <1>5. QED
    BY <1>3, <1>4 DEF RequestOK

\* Every variable keeps its type, and a request in progress has its transaction and,
\* from submission on, an op that exists (the ops and pauses tables, prepare_wallet,
\* submit_wallet, operation).
THEOREM Typing == Spec => []TypeOK
  <1>1. Init => TypeOK
    <2> SUFFICES ASSUME Init PROVE TypeOK
      OBVIOUS
    <2>1. ops \in Seq(Op) /\ Len(ops) = 0
      BY EmptySeq DEF Init
    <2>2. slot \in 1..MaxSlot /\ stop \in {NoStop} \cup Nat /\ stop <= Len(ops)
      BY <2>1, BoundsAssumption DEF Init, MaxSlot, NoStop
    <2>3. /\ at \in [Procs -> Steps] /\ on \in [Procs -> Nat] /\ with \in [Procs -> Txs \cup {NoTx}]
          /\ \A p \in Procs : at[p] = "idle"
          /\ chain \in [Txs -> {"unsent", "sent", "landed", "failed"}]
      BY DEF Init, Steps
    <2>4. QED
      BY <2>1, <2>2, <2>3 DEF Init, TypeOK
  <1>2. TypeOK /\ [Next]_vars => TypeOK'
    <2> SUFFICES ASSUME TypeOK, [Next]_vars PROVE TypeOK'
      OBVIOUS
    <2>1. Kept
      BY Grows
    <2>2. ops \in Seq(Op) /\ Len(ops) \in Nat
      BY <2>1 DEF TypeOK, Kept
    <2>3. ASSUME RequestOK', UNCHANGED <<slot, stop, wallet>>,
                 chain' \in [Txs -> {"unsent", "sent", "landed", "failed"}]
          PROVE  TypeOK'
      <3>1. stop' \in {NoStop} \cup Nat /\ stop' <= Len(ops')
        BY <2>1, <2>2, <2>3 DEF TypeOK, Kept, NoStop
      <3>2. slot' \in 1..MaxSlot /\ signed' \subseteq Txs /\ fresh' \subseteq signed'
        BY <2>3 DEF TypeOK, wallet, MaxSlot
      <3>3. QED
        BY <2>1, <2>3, <3>1, <3>2 DEF TypeOK, RequestOK, Kept
    <2>4. ASSUME UNCHANGED request PROVE RequestOK'
      <3>1. \A j \in 1..Len(ops) : j \in 1..Len(ops')
        BY <2>1 DEF Kept
      <3>2. QED
        BY <2>4, <3>1 DEF TypeOK, RequestOK, request
    <2>5. chain \in [Txs -> {"unsent", "sent", "landed", "failed"}]
      BY DEF TypeOK
    <2>6. ASSUME NEW p \in Procs, End(p) PROVE RequestOK'
      BY <2>1, <2>6, GoOn DEF End, Steps
    <2>7. ASSUME NEW p \in Procs, NEW k \in Kinds, Fetch(p, k) PROVE TypeOK'
      <3>1. slot \in Hashes
        BY <2>7 DEF Fetch, TypeOK, Hashes
      <3>2. PICK e \in Edits : Go(p, "fetched", 0, [kind |-> k, hash |-> slot, edit |-> e])
        BY <2>7 DEF Fetch
      <3>3. [kind |-> k, hash |-> slot, edit |-> e] \in Txs
        BY <3>1 DEF Txs
      <3>4. RequestOK'
        BY <2>1, <3>2, <3>3, GoOn DEF Steps
      <3>5. QED
        BY <2>3, <2>5, <2>7, <3>4 DEF Fetch
    <2>8. ASSUME NEW p \in Procs, NEW i \in Rows, NEW t \in Txs, Submit(p, i, t) PROVE TypeOK'
      <3>1. RequestOK'
        BY <2>1, <2>2, <2>8, GoOn DEF Submit, Steps, Rows
      <3>2. QED
        BY <2>3, <2>5, <2>8, <3>1 DEF Submit
    <2>9. ASSUME NEW p \in Procs, NEW i \in Rows, Poll(p, i) PROVE TypeOK'
      <3>1. ops[i].tx \in Txs /\ i \in Nat
        <4>1. ops[i] \in Op /\ i \in Nat
          BY <2>2, ElementOfSeq DEF Rows
        <4>2. ops[i].tx \in Txs \cup {NoTx}
          BY <4>1 DEF Op
        <4>3. QED
          BY <2>9, <4>1, <4>2 DEF Poll
      <3>2. RequestOK'
        BY <2>1, <2>9, <3>1, GoOn DEF Poll, Steps
      <3>3. QED
        BY <2>3, <2>5, <2>9, <3>2 DEF Poll
    <2>10. ASSUME NEW p \in Procs, Advance(p) PROVE TypeOK'
      <3>1. with[p] \in Txs /\ (at[p] \notin {"idle", "fetched", "retired"} => on[p] \in Rows)
            /\ on[p] \in Nat
        BY <2>10 DEF Reads, TypeOK, Rows, Advance, Retire, Add, TooOld, Lowered, Approve, ClaimGas,
                    ClaimRefused, Checkpoint, NotInspected, Send, Refused, Lost, Answer,
                    NotSeen, Aged, Reconcile, NoOutcome
      <3>2. CASE Retire(p)
        BY <2>1, <2>3, <2>5, <3>1, <3>2, GoOn DEF Retire, Steps
      <3>3. CASE Approve(p) \/ ClaimGas(p) \/ Checkpoint(p)
        <4>1. \E step \in {"sending", "inspecting"} : Go(p, step, on[p], with[p])
          BY <3>3 DEF Approve, ClaimGas, Checkpoint
        <4>2. on[p] \in Rows
          BY <3>1, <3>3 DEF Approve, ClaimGas, Checkpoint
        <4>3. RequestOK'
          BY <2>1, <3>1, <4>1, <4>2, GoOn DEF Steps
        <4>4. QED
          BY <2>3, <2>5, <3>3, <4>3 DEF Approve, ClaimGas, Checkpoint
      <3>4. CASE Send(p)
        <4>1. RequestOK'
          BY <2>1, <3>1, <3>4, GoOn DEF Send, Steps
        <4>2. chain' \in [Txs -> {"unsent", "sent", "landed", "failed"}]
          BY <2>5, <3>4 DEF Send
        <4>3. QED
          BY <2>3, <3>4, <4>1, <4>2 DEF Send
      <3>5. CASE \/ Add(p) \/ TooOld(p) \/ Lowered(p) \/ ClaimRefused(p) \/ NotInspected(p)
                 \/ Refused(p) \/ Lost(p)
        BY <2>3, <2>5, <2>6, <3>5 DEF Add, TooOld, Lowered, ClaimRefused, NotInspected,
                                    Refused, Lost
      <3>8. CASE NotSeen(p) \/ Aged(p)
        <4>1. \E step \in {"unseen", "aged"} : Go(p, step, on[p], with[p])
          BY <3>8 DEF NotSeen, Aged
        <4>2. on[p] \in Rows
          BY <3>1, <3>8 DEF NotSeen, Aged
        <4>3. RequestOK'
          BY <2>1, <3>1, <4>1, <4>2, GoOn DEF Steps
        <4>4. QED
          BY <2>3, <2>5, <3>8, <4>3 DEF NotSeen, Aged
      <3>6. CASE Answer(p) \/ Reconcile(p) \/ NoOutcome(p)
        BY <2>3, <2>5, <2>6, <3>6 DEF Answer, NotSeen, Aged, Reconcile, NoOutcome
      <3>7. QED
        BY <2>10, <3>2, <3>3, <3>4, <3>5, <3>6, <3>8 DEF Advance
    <2>11. ASSUME NEW p \in Procs, Crash(p) PROVE TypeOK'
      BY <2>3, <2>5, <2>6, <2>11 DEF Crash
    <2>12. CASE (\E i \in Rows : TimeOut(i)) \/ (\E n \in Rows : Expire(n)) \/ UNCHANGED vars
      BY <2>3, <2>4, <2>5, <2>12 DEF TimeOut, Expire, vars
    <2>13. ASSUME NEW i \in Rows, NEW e \in Edits, Sign(i, e) PROVE TypeOK'
      <3>1. ops[i] \in Op
        BY <2>2, LenProperties DEF Rows
      <3>2. [kind |-> ops[i].kind, hash |-> ops[i].hash, edit |-> e] \in Txs
        BY <3>1 DEF Op, Txs
      <3>3. signed' \subseteq Txs /\ fresh' \subseteq signed'
        BY <2>13, <3>2 DEF Sign, TypeOK
      <3>4. RequestOK'
        BY <2>4, <2>13 DEF Sign
      <3>5. QED
        BY <2>13, <3>3, <3>4 DEF Sign, TypeOK, RequestOK
    <2>14. CASE Pause
      BY <2>2, <2>4, <2>14 DEF Pause, TypeOK, RequestOK, NoStop
    <2>15. ASSUME NEW t \in Txs, Include(t) PROVE TypeOK'
      <3>1. chain' \in [Txs -> {"unsent", "sent", "landed", "failed"}]
        BY <2>5, <2>15 DEF Include
      <3>2. QED
        BY <2>3, <2>4, <2>15, <3>1 DEF Include
    <2>16. CASE NextSlot
      <3>1. slot' \in 1..MaxSlot
        BY <2>16, BoundsAssumption DEF NextSlot, TypeOK, MaxSlot
      <3>2. QED
        BY <2>4, <2>16, <3>1 DEF NextSlot, TypeOK, RequestOK, wallet
    <2>17. QED
      BY <2>7, <2>8, <2>9, <2>10, <2>11, <2>12, <2>13, <2>14, <2>15, <2>16 DEF Next
  <1>3. QED
    BY <1>1, <1>2, PTL DEF Spec

-----------------------------------------------------------------------------
(* What lifts a stop                                                       *)

\* A step that moves a request to a transaction of its op's kind that the wallet signed.
LEMMA RequestsStep ==
  ASSUME TypeOK, RequestsInv, Kept, signed \subseteq signed',
         NEW p \in Procs, NEW step \in Steps, NEW i \in Nat, NEW t \in Txs \cup {NoTx},
         Go(p, step, i, t),
         step \in {"read", "inspecting", "sending", "answering"} =>
           i \in Rows /\ t \in signed /\ t.kind = ops[i].kind,
         step = "inspecting" => t.kind = "FUND_GAS"
  PROVE  RequestsInv'
  <1>1. /\ at'[p] = step /\ on'[p] = i /\ with'[p] = t
        /\ \A q \in Procs \ {p} : at'[q] = at[q] /\ on'[q] = on[q] /\ with'[q] = with[q]
    <2>1. at \in [Procs -> Steps] /\ on \in [Procs -> Nat] /\ with \in [Procs -> Txs \cup {NoTx}]
      BY DEF TypeOK
    <2>2. QED
      BY <2>1, GoTypes
  <1>2. ASSUME NEW q \in Procs
        PROVE  /\ InSubmission(q)' => with'[q] \in signed' /\ with'[q].kind = ops'[on'[q]].kind
               /\ at'[q] = "inspecting" => with'[q].kind = "FUND_GAS"
    <2>1. CASE q = p
      BY <1>1, <2>1 DEF InSubmission, Kept
    <2>2. CASE q # p
      <3>1. InSubmission(q) => on[q] \in Rows
        BY DEF InSubmission, TypeOK, Rows
      <3>2. QED
        BY <1>1, <2>2, <3>1 DEF InSubmission, RequestsInv, Kept
    <2>3. QED
      BY <2>1, <2>2
  <1>3. QED
    BY <1>2 DEF RequestsInv

\* A step that moves no request.
LEMMA RequestsStay ==
  ASSUME TypeOK, RequestsInv, Kept, signed \subseteq signed', UNCHANGED request
  PROVE  RequestsInv'
  <1>1. \A q \in Procs : InSubmission(q) => on[q] \in Rows
    BY DEF InSubmission, TypeOK, Rows
  <1>2. QED
    BY <1>1 DEF InSubmission, RequestsInv, Kept, request

\* The requests after each step.
LEMMA Requests ==
  ASSUME TypeOK, RequestsInv, [Next]_vars
  PROVE  RequestsInv'
  <1>1. Kept
    BY Grows
  <1>2. ASSUME NEW p \in Procs, End(p), signed' = signed PROVE RequestsInv'
    BY <1>1, <1>2, RequestsStep DEF End, Steps
  <1>3. ASSUME NEW p \in Procs, NEW k \in Kinds, Fetch(p, k) PROVE RequestsInv'
    <2>1. slot \in Hashes
      BY <1>3 DEF Fetch, TypeOK, Hashes
    <2>2. PICK e \in Edits : Go(p, "fetched", 0, [kind |-> k, hash |-> slot, edit |-> e])
      BY <1>3 DEF Fetch
    <2>3. [kind |-> k, hash |-> slot, edit |-> e] \in Txs
      BY <2>1 DEF Txs
    <2>4. signed' = signed
      BY <1>3 DEF Fetch, wallet
    <2>5. QED
      BY <1>1, <2>2, <2>3, <2>4, RequestsStep DEF Steps
  <1>4. ASSUME NEW p \in Procs, NEW i \in Rows, NEW t \in Txs, Submit(p, i, t) PROVE RequestsInv'
    <2>1. i \in Nat /\ signed' = signed
      BY <1>1, <1>4 DEF Rows, Kept, Submit, wallet
    <2>2. QED
      BY <1>1, <1>4, <2>1, RequestsStep DEF Submit, Steps
  <1>5. ASSUME NEW p \in Procs, NEW i \in Rows, Poll(p, i) PROVE RequestsInv'
    <2>1. i \in Nat /\ signed' = signed
      BY <1>1, <1>5 DEF Rows, Kept, Poll, wallet
    <2>2. ops[i] \in Op
      BY <1>1, ElementOfSeq DEF Rows, TypeOK
    <2>3. ops[i].tx \in Txs \cup {NoTx}
      BY <2>2 DEF Op
    <2>4. QED
      BY <1>1, <1>5, <2>1, <2>3, RequestsStep DEF Poll, Steps
  <1>6. ASSUME NEW p \in Procs, Advance(p) PROVE RequestsInv'
    <2>1. with[p] \in Txs /\ (at[p] \notin {"idle", "fetched", "retired"} => on[p] \in Rows)
          /\ on[p] \in Nat
      BY <1>6 DEF Reads, TypeOK, Rows, Advance, Retire, Add, TooOld, Lowered, Approve, ClaimGas,
                  ClaimRefused, Checkpoint, NotInspected, Send, Refused, Lost, Answer,
                  NotSeen, Aged, Reconcile, NoOutcome
    <2>2. CASE Retire(p)
      <3>1. signed' = signed
        BY <2>2 DEF Retire, wallet
      <3>2. QED
        BY <1>1, <2>1, <2>2, <3>1, RequestsStep DEF Retire, Steps
    <2>3. CASE Approve(p) \/ ClaimGas(p) \/ Checkpoint(p) \/ Send(p)
      <3>1. /\ signed' = signed /\ InSubmission(p) /\ on[p] \in Rows
            /\ \E step \in {"sending", "inspecting", "answering"} :
                 /\ Go(p, step, on[p], with[p])
                 /\ step = "inspecting" => with[p].kind = "FUND_GAS"
        BY <2>1, <2>3 DEF Approve, ClaimGas, Checkpoint, Send, wallet, InSubmission
      <3>2. with[p] \in signed /\ with[p].kind = ops[on[p]].kind
        BY <3>1 DEF RequestsInv
      <3>3. QED
        BY <1>1, <2>1, <3>1, <3>2, RequestsStep DEF Steps
    <2>4. CASE \/ Add(p) \/ TooOld(p) \/ Lowered(p) \/ ClaimRefused(p) \/ NotInspected(p)
               \/ Refused(p) \/ Lost(p)
      BY <1>2, <2>4 DEF Add, TooOld, Lowered, ClaimRefused, NotInspected, Refused, Lost, wallet
    <2>7. CASE NotSeen(p) \/ Aged(p)
      <3>1. /\ signed' = signed /\ on[p] \in Rows
            /\ \E step \in {"unseen", "aged"} : Go(p, step, on[p], with[p])
        BY <2>1, <2>7 DEF NotSeen, Aged, wallet
      <3>2. QED
        BY <1>1, <2>1, <3>1, RequestsStep DEF Steps
    <2>5. CASE Answer(p) \/ Reconcile(p) \/ NoOutcome(p)
      BY <1>2, <2>5 DEF Answer, NotSeen, Aged, Reconcile, NoOutcome, wallet
    <2>6. QED
      BY <1>6, <2>2, <2>3, <2>4, <2>5, <2>7 DEF Advance
  <1>7. ASSUME NEW p \in Procs, Crash(p) PROVE RequestsInv'
    BY <1>2, <1>7 DEF Crash, wallet
  <1>8. CASE \/ \E i \in Rows : TimeOut(i)
             \/ \E n \in Rows : Expire(n)
             \/ \E i \in Rows, e \in Edits : Sign(i, e)
             \/ \E t \in Txs : Include(t)
             \/ Pause \/ NextSlot \/ UNCHANGED vars
    <2>1. UNCHANGED request /\ signed \subseteq signed'
      BY <1>8 DEF TimeOut, Expire, Sign, Include, Pause, NextSlot, vars, wallet
    <2>2. QED
      BY <1>1, <2>1, RequestsStay
  <1>9. QED
    BY <1>3, <1>4, <1>5, <1>6, <1>7, <1>8 DEF Next

\* Rows that keep their kind, signature and bound blockhash keep them in agreement.
LEMMA BoundKept ==
  ASSUME TypeOK, BoundInv, signed \subseteq signed', ops' \in [Rows -> Op],
         \A j \in Rows : /\ ops'[j].kind = ops[j].kind
                        /\ ops'[j].tx = ops[j].tx /\ ops'[j].bound = ops[j].bound
  PROVE  BoundInv'
  <1>1. Rows' = Rows
    BY SameRows DEF TypeOK, Rows
  <1>2. QED
    BY <1>1 DEF BoundInv

\* The bound blockhash of each row after each step.
LEMMA Bounds ==
  ASSUME TypeOK, RequestsInv, BoundInv, [Next]_vars
  PROVE  BoundInv'
  <1>1. Kept
    BY Grows
  <1>2. ASSUME UNCHANGED ops, signed \subseteq signed' PROVE BoundInv'
    BY <1>2 DEF BoundInv, Rows
  <1>3. ASSUME NEW p \in Procs, Advance(p) PROVE BoundInv'
    <2>1. signed' = signed
      BY <1>3 DEF Advance, Retire, Add, TooOld, Lowered, Approve, ClaimGas, ClaimRefused,
                  Checkpoint, NotInspected, Send, Refused, Lost, Answer, NotSeen, Aged, Reconcile,
                  NoOutcome, wallet
    <2>2. CASE StateStep(p)
      BY <2>1, <2>2, StateSteps, BoundKept
    <2>3. CASE Add(p)
      <3>1. \A j \in Rows' : j \in Rows \/ j = Len(ops) + 1
        BY <2>3, AddRow DEF Rows
      <3>2. QED
        BY <2>1, <2>3, <3>1, AddRow DEF BoundInv
    <2>4. CASE Checkpoint(p) \/ Answer(p)
      <3>1. Rows' = Rows
        BY <2>4, WriteRow, SameRows DEF TypeOK, Rows
      <3>2. /\ on[p] \in Rows
            /\ with[p] \in signed /\ with[p].kind = ops[on[p]].kind
            /\ Checkpoint(p) => with[p].kind = "FUND_GAS"
        BY <2>4, WriteRow DEF Checkpoint, Answer, InSubmission, RequestsInv
      <3>3. ASSUME NEW j \in Rows, ops'[j].bound # NoHash
            PROVE  /\ ops'[j].kind = "GRANT"
                   /\ ops'[j].tx \in signed' /\ ops'[j].tx.hash = ops'[j].bound
        <4>1. CASE j # on[p]
          BY <2>1, <2>4, <3>3, <4>1, WriteRow DEF BoundInv
        <4>2. CASE j = on[p] /\ Checkpoint(p)
          BY <2>1, <3>2, <3>3, <4>2, WriteRow DEF BoundInv
        <4>3. CASE j = on[p] /\ Answer(p)
          BY <2>1, <3>2, <3>3, <4>3, WriteRow DEF BoundInv
        <4>4. QED
          BY <2>4, <4>1, <4>2, <4>3
      <3>4. QED
        BY <3>1, <3>3 DEF BoundInv
    <2>5. CASE Approve(p) \/ ClaimRefused(p) \/ Send(p) \/ NotSeen(p) \/ Aged(p) \/ NoOutcome(p)
      BY <1>2, <2>1, <2>5 DEF Approve, ClaimRefused, Send, NotSeen, Aged, NoOutcome
    <2>6. QED
      BY <1>3, <2>2, <2>3, <2>4, <2>5 DEF Advance, StateStep
  <1>4. CASE (\E i \in Rows : TimeOut(i)) \/ (\E n \in Rows : Expire(n))
    <2>1. signed' = signed
      BY <1>4 DEF TimeOut, Expire, wallet
    <2>2. QED
      BY <1>4, <2>1, OtherStates, BoundKept
  <1>5. ASSUME NEW p \in Procs,
               \/ \E k \in Kinds : Fetch(p, k)
               \/ \E i \in Rows, t \in Txs : Submit(p, i, t)
               \/ \E i \in Rows : Poll(p, i)
               \/ Crash(p)
        PROVE  UNCHANGED ops /\ signed' = signed
    BY <1>5 DEF Fetch, Submit, Poll, Crash, wallet
  <1>6. CASE \/ \E i \in Rows, e \in Edits : Sign(i, e)
             \/ Pause \/ NextSlot \/ UNCHANGED vars
             \/ \E t \in Txs : Include(t)
    <2>1. UNCHANGED ops /\ signed \subseteq signed'
      BY <1>6 DEF Sign, Pause, NextSlot, Include, vars, wallet
    <2>2. QED
      BY <1>2, <2>1
  <1>7. QED
    BY <1>2, <1>3, <1>4, <1>5, <1>6 DEF Next

\* What the wallet signed after each step, and the op it was prepared for.
LEMMA Signatures ==
  ASSUME TypeOK, SignedInv, [Next]_vars
  PROVE  SignedInv'
  <1>1. Kept
    BY Grows
  <1>2. \A i \in Rows : i \in Rows' /\ i <= Len(ops) /\ ops'[i].hash = ops[i].hash
    BY <1>1 DEF Kept, Rows
  <1>3. CASE UNCHANGED <<stop, wallet>>
    BY <1>2, <1>3 DEF SignedInv, wallet
  <1>4. ASSUME NEW i \in Rows, NEW e \in Edits, Sign(i, e) PROVE SignedInv'
    <2>1. PICK t : t.hash = ops[i].hash /\ signed' = signed \cup {t} /\ fresh' = fresh \cup {t}
      BY <1>4 DEF Sign
    <2>2. stop' = stop
      BY <1>4 DEF Sign
    <2>3. QED
      BY <1>2, <2>1, <2>2 DEF SignedInv
  <1>5. CASE Pause
    BY <1>2, <1>5 DEF Pause, SignedInv
  <1>6. ASSUME NEW p \in Procs,
               \/ \E k \in Kinds : Fetch(p, k)
               \/ \E i \in Rows, t \in Txs : Submit(p, i, t)
               \/ \E i \in Rows : Poll(p, i)
               \/ Advance(p)
               \/ Crash(p)
        PROVE  UNCHANGED <<stop, wallet>>
    BY <1>6 DEF Fetch, Submit, Poll, Crash, Advance, Retire, Add, TooOld, Lowered, Approve,
                ClaimGas, ClaimRefused, Checkpoint, NotInspected, Send, Refused, Lost,
                Answer, NotSeen, Aged, Reconcile, NoOutcome
  <1>7. CASE \/ \E i \in Rows : TimeOut(i)
             \/ \E n \in Rows : Expire(n)
             \/ \E t \in Txs : Include(t)
             \/ NextSlot \/ UNCHANGED vars
    BY <1>3, <1>7 DEF TimeOut, Expire, Include, NextSlot, vars
  <1>8. QED
    BY <1>3, <1>4, <1>5, <1>6, <1>7 DEF Next

\* In every reachable state each signature is for an op's blockhash, of an op before the
\* last stop if it was made before it, and each bound blockhash is that of the signature
\* on record.
THEOREM Bound == Spec => []StopInv
  <1>1. Init => StopInv
    <2> SUFFICES ASSUME Init PROVE StopInv
      OBVIOUS
    <2>1. Rows = {}
      BY EmptySeq DEF Init, Rows
    <2>2. QED
      BY <2>1 DEF Init, StopInv, RequestsInv, BoundInv, SignedInv, InSubmission
  <1>2. TypeOK /\ StopInv /\ [Next]_vars => StopInv'
    BY Requests, Bounds, Signatures DEF StopInv
  <1>3. QED
    BY <1>1, <1>2, Typing, PTL DEF Spec

\* A stop is lifted only by an approval the wallet signed after it: the row that lifts it
\* has the blockhash of no op before the stop, and what was signed before has one of
\* those (_paused_at, solana_allowance.py 248-277).
THEOREM Lifted == Spec => []LiftedBySignedAfter
  <1>1. TypeOK /\ StopInv => LiftedBySignedAfter
    <2> SUFFICES ASSUME TypeOK, StopInv, NEW g \in Rows, Lifts(g) PROVE ops[g].tx \in fresh
      BY DEF LiftedBySignedAfter, Paused
    <2>1. ops[g] \in Op
      BY ElementOfSeq DEF Rows, TypeOK
    <2>2. ops[g].hash \in 1..MaxHash
      BY <2>1 DEF Op, Hashes
    <2>3. ops[g].bound # NoHash
      BY <2>2, BoundsAssumption DEF Lifts, NoHash
    <2>4. ops[g].tx \in signed /\ ops[g].tx.hash = ops[g].hash
      BY <2>3 DEF StopInv, BoundInv, Lifts
    <2>5. PICK i \in Rows : ops[i].hash = ops[g].hash /\ (ops[g].tx \in fresh \/ i <= stop)
      BY <2>4 DEF StopInv, SignedInv
    <2>6. QED
      BY <2>5 DEF Lifts
  <1>2. QED
    BY <1>1, Typing, Bound, PTL

-----------------------------------------------------------------------------
(* Gas transfers: what a step does to one request, row or transaction      *)

\* The request keeps its op and its transaction.
Goes(p) == on'[p] = on[p] /\ with'[p] = with[p]

\* How a request moves: on to its next step, or to an end or a beginning, which only need
\* to be told apart where a gas op or a poll is concerned.
ReqMove(p) ==
  \/ at'[p] = at[p] /\ Goes(p)
  \/ at'[p] \in {"idle", "fetched", "retired", "read"}
  \/ /\ at[p] = "read" /\ at'[p] = "inspecting" /\ Goes(p) /\ on[p] \in Rows
     /\ ops[on[p]].state = "PREPARED" /\ ops'[on[p]].state = "VALIDATING"
  \/ /\ at[p] = "inspecting" /\ at'[p] = "sending" /\ Goes(p) /\ on[p] \in Rows
     /\ ops[on[p]].state = "VALIDATING" /\ ops'[on[p]].state = "SUBMITTING"
     /\ ops'[on[p]].tx = with[p]
     /\ UNCHANGED <<chain, slot>>
  \/ at[p] = "read" /\ at'[p] = "sending" /\ Goes(p) /\ with[p].kind # "FUND_GAS"
  \/ at[p] = "sending" /\ at'[p] = "answering" /\ Goes(p)
  \/ at[p] = "polling" /\ at'[p] = "unseen" /\ Goes(p) /\ with[p].kind = "FUND_GAS"
  \/ at[p] = "unseen" /\ at'[p] = "aged" /\ Goes(p) /\ ~Valid(with[p].hash) /\ UNCHANGED slot
  \/ /\ at'[p] = "polling" /\ on'[p] \in Rows /\ with'[p] = ops[on'[p]].tx /\ with'[p] # NoTx
     /\ UNCHANGED ops

TxSame(i) == ops'[i].tx = ops[i].tx

\* How a gas op changes; the chain does not change with it.
GasMove(i) ==
  \/ ops[i].state = "PREPARED" /\ ops'[i].state = "EXPIRED" /\ TxSame(i)
  \/ /\ ops[i].state = "PREPARED" /\ ops'[i].state = "VALIDATING" /\ TxSame(i)
     /\ ~PendingGas /\ \A j \in Rows \ {i} : ops'[j].state = ops[j].state
  \/ ops[i].state = "VALIDATING" /\ ops'[i].state = "FAILED" /\ TxSame(i)
  \/ /\ ops[i].state = "VALIDATING" /\ ops'[i].state = "SUBMITTING"
     /\ \E p \in Procs : at[p] = "inspecting" /\ on[p] = i /\ ops'[i].tx = with[p]
                         /\ with[p] \in Txs /\ with[p].kind = "FUND_GAS"
  \/ /\ ops[i].state \in Pending /\ ops'[i].state = "UNCERTAIN" /\ TxSame(i)
     /\ \E p \in Procs : /\ at[p] \in {"sending", "answering"} /\ on[p] = i
                         /\ with[p].kind = "FUND_GAS" /\ at'[p] = "idle"
  \/ /\ ops[i].state \in Pending /\ TxSame(i)
     /\ \E p \in Procs :
          /\ at[p] \in {"answering"} \cup Reads /\ on[p] = i /\ with[p].kind = "FUND_GAS"
          /\ at'[p] = "idle"
          /\ \/ ops'[i].state = "DONE" /\ chain[with[p]] = "landed"
             \/ ops'[i].state = "FAILED" /\ chain[with[p]] = "failed"
             \/ /\ ops'[i].state = "EXPIRED" /\ ~Valid(with[p].hash)
                /\ chain[with[p]] \in {"unsent", "sent"}
  \/ /\ ops[i].state \in Pending /\ ops'[i].state = "FAILED" /\ TxSame(i)
     /\ \E p \in Procs : at[p] = "sending" /\ on[p] = i /\ with[p].kind = "FUND_GAS"
                         /\ at'[p] = "idle"

\* How any row changes: one of another kind may take a transaction of its kind at any time.
RowMove(i) ==
  \/ ops'[i].state = ops[i].state /\ TxSame(i)
  \/ ~Gas(i) /\ (TxSame(i) \/ ops'[i].tx.kind = ops[i].kind)
  \/ Gas(i) /\ GasMove(i) /\ UNCHANGED <<chain, slot>>

\* How the chain changes: a request sends, or what was sent is included.
ChainMove(t) ==
  \/ chain'[t] = chain[t]
  \/ /\ chain[t] = "unsent" /\ chain'[t] = "sent" /\ Valid(t.hash) /\ UNCHANGED <<ops, slot>>
     /\ \E q \in Procs : at[q] = "sending" /\ with[q] = t /\ at'[q] = "answering"
  \/ MayLand(t) /\ chain'[t] \in {"landed", "failed"} /\ UNCHANGED <<ops, slot>>

\* What every step does (StepMoves, below).
Moves ==
  /\ \A p \in Procs : ReqMove(p)
  /\ \A i \in Rows : RowMove(i)
  /\ \A i \in Rows' \ Rows : ops'[i].state = "PREPARED" /\ ops'[i].tx = NoTx
  /\ \A t \in Txs : ChainMove(t)
  /\ slot' \in {slot, slot + 1}

\* Three parts of Moves that hold of a step that leaves their variables alone.
LEMMA StillRows == UNCHANGED ops => /\ \A i \in Rows : RowMove(i)
                                    /\ Rows' = Rows
  BY DEF RowMove, TxSame, Rows

LEMMA StillRequests == UNCHANGED request => \A p \in Procs : ReqMove(p)
  BY DEF ReqMove, Goes, request

LEMMA StillChain == UNCHANGED <<chain, slot>> => /\ \A t \in Txs : ChainMove(t)
                                                 /\ slot' \in {slot, slot + 1}
  BY DEF ChainMove

\* One request goes on; the others stay where they are.
LEMMA OneGoes ==
  ASSUME TypeOK, NEW p \in Procs, NEW step \in Steps, NEW i \in Nat, NEW t \in Txs \cup {NoTx},
         Go(p, step, i, t)
  PROVE  /\ at'[p] = step /\ on'[p] = i /\ with'[p] = t
         /\ \A q \in Procs \ {p} : ReqMove(q)
  <1>1. /\ at'[p] = step /\ on'[p] = i /\ with'[p] = t
        /\ \A q \in Procs \ {p} : at'[q] = at[q] /\ on'[q] = on[q] /\ with'[q] = with[q]
    BY GoTypes DEF TypeOK
  <1>2. QED
    BY <1>1 DEF ReqMove, Goes

\* Every action that ends a request is such a move.
LEMMA Ended == ASSUME TypeOK, NEW p \in Procs, End(p)
               PROVE  (\A q \in Procs : ReqMove(q)) /\ at'[p] = "idle"
  <1>1. "idle" \in Steps /\ 0 \in Nat /\ NoTx \in Txs \cup {NoTx} /\ Go(p, "idle", 0, NoTx)
    BY DEF End, Steps
  <1>2. at'[p] = "idle" /\ \A q \in Procs \ {p} : ReqMove(q)
    BY <1>1, OneGoes
  <1>3. QED
    BY <1>2 DEF ReqMove

\* The row that an update changes.
LEMMA Updated ==
  ASSUME TypeOK, NEW i \in Rows, NEW from, NEW state \in States, Update(i, from, state)
  PROVE  /\ Rows' = Rows
         /\ \A j \in Rows : TxSame(j)
         /\ \A j \in Rows \ {i} : ops'[j].state = ops[j].state
         /\ ops'[i].state = IF ops[i].state \in from THEN state ELSE ops[i].state
  <1>1. ops \in [Rows -> Op] /\ ops \in Seq(Op)
    BY LenProperties DEF Rows, TypeOK
  <1>2. ops' \in [Rows -> Op] /\ \A j \in Rows : TxSame(j)
    BY <1>1, StateOnly DEF TxSame
  <1>3. Rows' = Rows
    BY <1>1, <1>2, SameRows DEF Rows
  <1>4. ops[i] \in Op
    BY <1>1
  <1>5. (\A j \in Rows \ {i} : ops'[j].state = ops[j].state)
        /\ ops'[i].state = IF ops[i].state \in from THEN state ELSE ops[i].state
    BY <1>1, <1>4 DEF Update, Op
  <1>6. QED
    BY <1>2, <1>3, <1>5

\* An update is a move of its row when it is one of a gas op.
LEMMA UpdateMoves ==
  ASSUME TypeOK, NEW i \in Rows, NEW from, NEW state \in States, Update(i, from, state),
         UNCHANGED <<chain, slot>>,
         Gas(i) /\ ops[i].state \in from /\ ops'[i].state = state => GasMove(i)
  PROVE  /\ \A j \in Rows : RowMove(j)
         /\ Rows' = Rows
  <1>1. /\ Rows' = Rows /\ \A j \in Rows : TxSame(j)
        /\ \A j \in Rows \ {i} : ops'[j].state = ops[j].state
        /\ ops'[i].state = IF ops[i].state \in from THEN state ELSE ops[i].state
    BY Updated
  <1>2. RowMove(i)
    BY <1>1 DEF RowMove
  <1>3. \A j \in Rows \ {i} : RowMove(j)
    BY <1>1 DEF RowMove
  <1>4. QED
    BY <1>1, <1>2, <1>3

\* A request's step that is past its submission has an op and a transaction.
LEMMA Holds ==
  ASSUME TypeOK, NEW p \in Procs, at[p] # "idle"
  PROVE  /\ with[p] \in Txs /\ on[p] \in Nat
         /\ at[p] \notin {"fetched", "retired"} => on[p] \in Rows
  BY DEF TypeOK, Rows

\* Each action, one by one: the prepared rows that expire,
LEMMA RetireMoves == ASSUME TypeOK, NEW p \in Procs, Retire(p) PROVE Moves
  <1>1. at[p] # "idle" /\ UNCHANGED <<chain, slot>> /\ Go(p, "retired", 0, with[p])
    BY DEF Retire
  <1>2. \A q \in Procs : ReqMove(q)
    <2>1. with[p] \in Txs \cup {NoTx}
      BY <1>1, Holds
    <2>2. at'[p] = "retired" /\ \A q \in Procs \ {p} : ReqMove(q)
      BY <1>1, <2>1, OneGoes DEF Steps
    <2>3. QED
      BY <2>2 DEF ReqMove
  <1>3. ops \in [Rows -> Op] /\ ops \in Seq(Op)
    BY LenProperties DEF Rows, TypeOK
  <1>4. PICK n \in 0..Len(ops) :
          ops' = [i \in Rows |->
                    IF ops[i].state = "PREPARED" /\ (i <= n \/ ops[i].kind = with[p].kind)
                    THEN [ops[i] EXCEPT !.state = "EXPIRED"] ELSE ops[i]]
    BY DEF Retire
  <1>5. \A i \in Rows : LET r == [ops[i] EXCEPT !.state = "EXPIRED"]
                        IN r \in Op /\ r.state = "EXPIRED" /\ r.tx = ops[i].tx
    BY <1>3 DEF Op, States
  <1>6. \A i \in Rows : \/ ops'[i] = ops[i]
                        \/ ops[i].state = "PREPARED" /\ ops'[i].state = "EXPIRED" /\ TxSame(i)
    BY <1>4, <1>5 DEF TxSame
  <1>7. Rows' = Rows
    <2>1. ops' \in [Rows -> Op]
      BY <1>3, <1>4, <1>5
    <2>2. QED
      BY <1>3, <2>1, SameRows DEF Rows
  <1>8. \A i \in Rows : RowMove(i)
    BY <1>1, <1>6 DEF RowMove, GasMove, TxSame
  <1>9. QED
    BY <1>1, <1>2, <1>7, <1>8, StillChain DEF Moves

LEMMA ExpireMoves == ASSUME TypeOK, NEW n \in Rows, Expire(n) PROVE Moves
  <1>1. UNCHANGED request /\ UNCHANGED <<chain, slot>>
    BY DEF Expire
  <1>3. ops \in [Rows -> Op] /\ ops \in Seq(Op)
    BY LenProperties DEF Rows, TypeOK
  <1>4. ops' = [i \in Rows |-> IF i <= n /\ ops[i].state = "PREPARED"
                               THEN [ops[i] EXCEPT !.state = "EXPIRED"] ELSE ops[i]]
    BY DEF Expire
  <1>5. \A i \in Rows : LET r == [ops[i] EXCEPT !.state = "EXPIRED"]
                        IN r \in Op /\ r.state = "EXPIRED" /\ r.tx = ops[i].tx
    BY <1>3 DEF Op, States
  <1>6. \A i \in Rows : \/ ops'[i] = ops[i]
                        \/ ops[i].state = "PREPARED" /\ ops'[i].state = "EXPIRED" /\ TxSame(i)
    BY <1>4, <1>5 DEF TxSame
  <1>7. Rows' = Rows
    <2>1. ops' \in [Rows -> Op]
      BY <1>3, <1>4, <1>5
    <2>2. QED
      BY <1>3, <2>1, SameRows DEF Rows
  <1>8. \A i \in Rows : RowMove(i)
    BY <1>1, <1>6 DEF RowMove, GasMove, TxSame
  <1>9. QED
    BY <1>1, <1>7, <1>8, StillChain, StillRequests DEF Moves

\* a new row,
LEMMA AddMoves == ASSUME TypeOK, NEW p \in Procs, Add(p) PROVE Moves
  <1>1. End(p) /\ UNCHANGED <<chain, slot>>
    BY DEF Add
  <1> DEFINE row == [kind |-> with[p].kind, hash |-> with[p].hash, state |-> "PREPARED",
                     tx |-> NoTx, bound |-> NoHash]
  <1>2. ops \in Seq(Op) /\ ops' = Append(ops, row) /\ Len(ops) \in Nat
    BY LenProperties DEF TypeOK, Add
  <1>3. row.state = "PREPARED" /\ row.tx = NoTx /\ row \in Op
    BY DEF TypeOK, Add, Txs, Op, States
  <1> HIDE DEF row
  <1>4. Len(ops') = Len(ops) + 1 /\ ops'[Len(ops) + 1] = row /\ \A j \in Rows : ops'[j] = ops[j]
    BY <1>2, <1>3 DEF Rows
  <1>5. \A j \in Rows' \ Rows : j = Len(ops) + 1
    BY <1>2, <1>4 DEF Rows
  <1>6. \A j \in Rows : RowMove(j)
    BY <1>4 DEF RowMove, TxSame
  <1>7. QED
    BY <1>1, <1>3, <1>4, <1>5, <1>6, Ended, StillChain DEF Moves

\* the ends of a submission before anything is sent,
LEMMA OldMoves ==
  ASSUME TypeOK, RequestsInv, NEW p \in Procs, TooOld(p) \/ Lowered(p) \/ NotInspected(p)
  PROVE  Moves
  <1>1. End(p) /\ UNCHANGED <<chain, slot>> /\ on[p] \in Rows
    BY Holds DEF TooOld, Lowered, NotInspected
  <1>2. (\A j \in Rows : RowMove(j)) /\ Rows' = Rows
    <2>1. CASE TooOld(p)
      <3>1. Update(on[p], {"PREPARED"}, "EXPIRED") /\ "EXPIRED" \in States
        BY <2>1 DEF TooOld, States
      <3>2. \A j \in Rows : TxSame(j)
        BY <1>1, <3>1, Updated
      <3>3. QED
        BY <1>1, <3>1, <3>2, UpdateMoves DEF GasMove
    <2>2. CASE NotInspected(p)
      <3>1. Update(on[p], {"VALIDATING"}, "FAILED") /\ "FAILED" \in States
        BY <2>2 DEF NotInspected, States
      <3>2. \A j \in Rows : TxSame(j)
        BY <1>1, <3>1, Updated
      <3>3. QED
        BY <1>1, <3>1, <3>2, UpdateMoves DEF GasMove
    <2>3. CASE Lowered(p)
      <3>1. Update(on[p], States, "FAILED") /\ "FAILED" \in States
        BY <2>3 DEF Lowered, States
      <3>2. ~Gas(on[p])
        BY <2>3 DEF Lowered, RequestsInv, InSubmission, Gas
      <3>3. QED
        BY <1>1, <3>1, <3>2, UpdateMoves
    <2>4. QED
      BY <2>1, <2>2, <2>3
  <1>3. QED
    BY <1>1, <1>2, Ended, StillChain DEF Moves

LEMMA TimeOutMoves == ASSUME TypeOK, NEW i \in Rows, TimeOut(i) PROVE Moves
  <1>1. UNCHANGED request /\ UNCHANGED <<chain, slot>>
        /\ Update(i, {"VALIDATING"}, "FAILED") /\ "FAILED" \in States
    BY DEF TimeOut, States
  <1>2. \A j \in Rows : TxSame(j)
    BY <1>1, Updated
  <1>3. (\A j \in Rows : RowMove(j)) /\ Rows' = Rows
    BY <1>1, <1>2, UpdateMoves DEF GasMove
  <1>4. QED
    BY <1>1, <1>3, StillRequests, StillChain DEF Moves

\* the claim and the checkpoint of a gas op,
LEMMA ClaimGasMoves == ASSUME TypeOK, NEW p \in Procs, ClaimGas(p) PROVE Moves
  <1>1. /\ at[p] = "read" /\ ops[on[p]].state = "PREPARED" /\ ~PendingGas
        /\ Update(on[p], {"PREPARED"}, "VALIDATING") /\ "VALIDATING" \in States
        /\ Go(p, "inspecting", on[p], with[p]) /\ UNCHANGED <<chain, slot>>
    BY DEF ClaimGas, States, Pending
  <1>2. on[p] \in Rows /\ on[p] \in Nat /\ with[p] \in Txs
    BY <1>1, Holds
  <1>3. /\ Rows' = Rows /\ \A j \in Rows : TxSame(j)
        /\ \A j \in Rows \ {on[p]} : ops'[j].state = ops[j].state
        /\ ops'[on[p]].state = "VALIDATING"
    BY <1>1, <1>2, Updated
  <1>4. GasMove(on[p])
    BY <1>1, <1>2, <1>3 DEF GasMove
  <1>5. \A j \in Rows : RowMove(j)
    BY <1>1, <1>2, <1>4, UpdateMoves
  <1>6. at'[p] = "inspecting" /\ Goes(p) /\ \A q \in Procs \ {p} : ReqMove(q)
    BY <1>1, <1>2, OneGoes DEF Steps, Goes
  <1>7. ReqMove(p)
    BY <1>1, <1>2, <1>3, <1>6 DEF ReqMove
  <1>8. QED
    BY <1>1, <1>3, <1>5, <1>6, <1>7, StillChain DEF Moves

LEMMA CheckpointMoves == ASSUME TypeOK, RequestsInv, NEW p \in Procs, Checkpoint(p) PROVE Moves
  <1>1. /\ at[p] = "inspecting" /\ ops[on[p]].state = "VALIDATING"
        /\ ops' = [ops EXCEPT ![on[p]].state = "SUBMITTING", ![on[p]].tx = with[p]]
        /\ Go(p, "sending", on[p], with[p]) /\ UNCHANGED <<chain, slot>>
    BY DEF Checkpoint
  <1>2. on[p] \in Rows /\ on[p] \in Nat /\ with[p] \in Txs /\ with[p].kind = "FUND_GAS"
    BY <1>1, Holds DEF RequestsInv
  <1>3. ops \in [Rows -> Op] /\ ops \in Seq(Op)
    BY LenProperties DEF Rows, TypeOK
  <1>4. /\ ops'[on[p]].state = "SUBMITTING" /\ ops'[on[p]].tx = with[p]
        /\ \A j \in Rows \ {on[p]} : ops'[j] = ops[j]
    BY <1>1, <1>2, <1>3 DEF Op
  <1>5. Rows' = Rows
    <2>1. ops' \in [Rows -> Op]
      BY WriteRow
    <2>2. QED
      BY <1>3, <2>1, SameRows DEF Rows
  <1>6. RowMove(on[p])
    <2>1. GasMove(on[p])
      BY <1>1, <1>2, <1>4 DEF GasMove
    <2>2. Gas(on[p])
      BY <1>1, <1>2 DEF RequestsInv, InSubmission, Gas
    <2>3. QED
      BY <1>1, <2>1, <2>2 DEF RowMove
  <1>7. \A j \in Rows : RowMove(j)
    BY <1>4, <1>6 DEF RowMove, TxSame
  <1>8. at'[p] = "sending" /\ Goes(p) /\ \A q \in Procs \ {p} : ReqMove(q)
    BY <1>1, <1>2, OneGoes DEF Steps, Goes
  <1>9. ReqMove(p)
    BY <1>1, <1>2, <1>4, <1>8 DEF ReqMove
  <1>10. QED
    BY <1>1, <1>5, <1>7, <1>8, <1>9, StillChain DEF Moves

\* A step of a request alone.
LEMMA AloneMoves ==
  ASSUME UNCHANGED <<ops, chain, slot>>, \A p \in Procs : ReqMove(p)
  PROVE  Moves
  BY StillRows, StillChain DEF Moves

\* The steps that start a request or only move it on.
LEMMA StartMoves ==
  ASSUME TypeOK, NEW p \in Procs,
         \/ \E k \in Kinds : Fetch(p, k)
         \/ \E i \in Rows, t \in Txs : Submit(p, i, t)
         \/ \E i \in Rows : Poll(p, i)
         \/ Approve(p)
  PROVE  Moves
  <1> SUFFICES \A q \in Procs : ReqMove(q)
    BY AloneMoves DEF Fetch, Submit, Poll, Approve
  <1>1. Rows \subseteq Nat /\ \A i \in Rows : ops[i] \in Op /\ ops[i].tx \in Txs \cup {NoTx}
    <2>1. \A i \in Rows : ops[i] \in Op
      BY ElementOfSeq DEF Rows, TypeOK
    <2>2. QED
      BY <2>1 DEF Op, Rows
  <1>2. ASSUME NEW k \in Kinds, Fetch(p, k) PROVE \A q \in Procs : ReqMove(q)
    <2>1. PICK e \in Edits : Go(p, "fetched", 0, [kind |-> k, hash |-> slot, edit |-> e])
      BY <1>2 DEF Fetch
    <2> DEFINE t == [kind |-> k, hash |-> slot, edit |-> e]
    <2>2. slot \in Hashes
      BY <1>2, BoundsAssumption DEF Fetch, TypeOK, Hashes, MaxSlot
    <2>3. t \in Txs \cup {NoTx}
      BY <2>2 DEF Txs
    <2> HIDE DEF t
    <2>4. Go(p, "fetched", 0, t) /\ "fetched" \in Steps /\ 0 \in Nat
      BY <2>1 DEF t, Steps
    <2>5. at'[p] = "fetched" /\ \A q \in Procs \ {p} : ReqMove(q)
      BY <2>3, <2>4, OneGoes
    <2>6. QED
      BY <2>5 DEF ReqMove
  <1>3. ASSUME NEW i \in Rows, NEW t \in Txs, Submit(p, i, t) PROVE \A q \in Procs : ReqMove(q)
    <2>1. Go(p, "read", i, t) /\ "read" \in Steps /\ i \in Nat
      BY <1>1, <1>3 DEF Submit, Steps
    <2>2. at'[p] = "read" /\ \A q \in Procs \ {p} : ReqMove(q)
      BY <2>1, OneGoes
    <2>3. QED
      BY <2>2 DEF ReqMove
  <1>4. ASSUME NEW i \in Rows, Poll(p, i) PROVE \A q \in Procs : ReqMove(q)
    <2>1. /\ Go(p, "polling", i, ops[i].tx) /\ "polling" \in Steps /\ i \in Nat
          /\ ops[i].tx \in Txs \cup {NoTx} /\ ops[i].tx # NoTx /\ UNCHANGED ops
      BY <1>1, <1>4 DEF Poll, Steps
    <2>2. at'[p] = "polling" /\ on'[p] = i /\ with'[p] = ops[i].tx
          /\ \A q \in Procs \ {p} : ReqMove(q)
      BY <2>1, OneGoes
    <2>3. QED
      BY <2>1, <2>2 DEF ReqMove
  <1>5. CASE Approve(p)
    <2>1. /\ at[p] = "read" /\ with[p].kind # "FUND_GAS"
          /\ Go(p, "sending", on[p], with[p]) /\ "sending" \in Steps
      BY <1>5 DEF Approve, Steps
    <2>2. on[p] \in Nat /\ with[p] \in Txs
      BY <2>1, Holds
    <2>3. at'[p] = "sending" /\ Goes(p) /\ \A q \in Procs \ {p} : ReqMove(q)
      BY <2>1, <2>2, OneGoes DEF Goes
    <2>4. QED
      BY <2>1, <2>3 DEF ReqMove
  <1>6. QED
    BY <1>2, <1>3, <1>4, <1>5

\* those of a poll that go on to its next read,
LEMMA ReadMoves == ASSUME TypeOK, ClaimInv, NEW p \in Procs, NotSeen(p) \/ Aged(p) PROVE Moves
  <1> SUFFICES \A q \in Procs : ReqMove(q)
    BY AloneMoves DEF NotSeen, Aged
  <1>1. on[p] \in Nat /\ with[p] \in Txs
    BY Holds DEF NotSeen, Aged
  <1>2. CASE NotSeen(p)
    <2>1. /\ at[p] = "polling" /\ with[p].kind = "FUND_GAS"
          /\ Go(p, "unseen", on[p], with[p]) /\ "unseen" \in Steps
      BY <1>2 DEF NotSeen, Steps
    <2>2. at'[p] = "unseen" /\ Goes(p) /\ \A q \in Procs \ {p} : ReqMove(q)
      BY <1>1, <2>1, OneGoes DEF Goes
    <2>3. QED
      BY <2>1, <2>2 DEF ReqMove
  <1>3. CASE Aged(p)
    <2>1. /\ at[p] = "unseen" /\ ~Valid(with[p].hash) /\ UNCHANGED slot
          /\ Go(p, "aged", on[p], with[p]) /\ "aged" \in Steps
      BY <1>3 DEF Aged, Steps
    <2>2. at'[p] = "aged" /\ Goes(p) /\ \A q \in Procs \ {p} : ReqMove(q)
      BY <1>1, <2>1, OneGoes DEF Goes
    <2>3. QED
      BY <2>1, <2>2 DEF ReqMove
  <1>4. QED
    BY <1>2, <1>3

\* The steps that only end one.
LEMMA EndMoves ==
  ASSUME TypeOK, NEW p \in Procs, ClaimRefused(p) \/ NoOutcome(p) \/ Crash(p)
  PROVE  Moves
  BY Ended, AloneMoves DEF ClaimRefused, NoOutcome, Crash

\* the broadcast and its ends,
LEMMA SendMoves == ASSUME TypeOK, NEW p \in Procs, Send(p) PROVE Moves
  <1>1. /\ at[p] = "sending" /\ UNCHANGED <<ops, slot>>
        /\ Go(p, "answering", on[p], with[p]) /\ "answering" \in Steps
        /\ chain' = [chain EXCEPT ![with[p]] = IF chain[with[p]] = "unsent" /\ Valid(with[p].hash)
                                               THEN "sent" ELSE chain[with[p]]]
    BY DEF Send, Steps
  <1>2. on[p] \in Nat /\ with[p] \in Txs
    BY <1>1, Holds
  <1>3. at'[p] = "answering" /\ Goes(p) /\ \A q \in Procs \ {p} : ReqMove(q)
    BY <1>1, <1>2, OneGoes DEF Goes
  <1>4. ReqMove(p)
    BY <1>1, <1>3 DEF ReqMove
  <1>5. chain \in [Txs -> {"unsent", "sent", "landed", "failed"}]
    BY DEF TypeOK
  <1>6. ChainMove(with[p])
    BY <1>1, <1>2, <1>3, <1>5 DEF ChainMove
  <1>7. \A t \in Txs \ {with[p]} : ChainMove(t)
    BY <1>1, <1>2, <1>5 DEF ChainMove
  <1>8. QED
    BY <1>1, <1>3, <1>4, <1>6, <1>7, StillRows DEF Moves

LEMMA LostMoves == ASSUME TypeOK, NEW p \in Procs, Refused(p) \/ Lost(p) PROVE Moves
  <1>1. /\ End(p) /\ UNCHANGED <<chain, slot>> /\ on[p] \in Rows
        /\ "FAILED" \in States /\ "UNCERTAIN" \in States
    BY Holds DEF Refused, Lost, States, Pending
  <1>2. at'[p] = "idle" /\ \A q \in Procs : ReqMove(q)
    BY <1>1, Ended
  <1>3. (\A j \in Rows : RowMove(j)) /\ Rows' = Rows
    <2>1. CASE with[p].kind # "FUND_GAS"
      BY <2>1, StillRows DEF Refused, Lost
    <2>2. CASE with[p].kind = "FUND_GAS" /\ Refused(p)
      <3>1. at[p] = "sending" /\ Update(on[p], Pending, "FAILED")
        BY <2>2 DEF Refused
      <3>2. \A j \in Rows : TxSame(j)
        BY <1>1, <3>1, Updated
      <3>3. QED
        BY <1>1, <1>2, <2>2, <3>1, <3>2, UpdateMoves DEF GasMove
    <2>3. CASE with[p].kind = "FUND_GAS" /\ Lost(p)
      <3>1. at[p] \in {"sending", "answering"} /\ Update(on[p], Pending, "UNCERTAIN")
        BY <2>3 DEF Lost
      <3>2. \A j \in Rows : TxSame(j)
        BY <1>1, <3>1, Updated
      <3>3. QED
        BY <1>1, <1>2, <2>3, <3>1, <3>2, UpdateMoves DEF GasMove
    <2>4. QED
      BY <2>1, <2>2, <2>3
  <1>4. QED
    BY <1>1, <1>2, <1>3, StillChain DEF Moves

LEMMA AnswerMoves == ASSUME TypeOK, RequestsInv, NEW p \in Procs, Answer(p) PROVE Moves
  <1>1. /\ at[p] = "answering" /\ End(p) /\ UNCHANGED <<chain, slot>> /\ on[p] \in Rows
        /\ with[p] \in Txs /\ with[p].kind = ops[on[p]].kind
    BY Holds DEF Answer, RequestsInv, InSubmission
  <1>2. at'[p] = "idle" /\ \A q \in Procs : ReqMove(q)
    BY <1>1, Ended
  <1>3. (\A j \in Rows : RowMove(j)) /\ Rows' = Rows
    <2>1. CASE with[p].kind = "FUND_GAS"
      <3>1. PICK state \in {"DONE", "FAILED", "UNCERTAIN"} :
              Seen(with[p], state) /\ Update(on[p], Pending, state)
        BY <2>1 DEF Answer
      <3>2. state \in States
        BY DEF States, Pending
      <3>3. \A j \in Rows : TxSame(j)
        BY <1>1, <3>1, <3>2, Updated
      <3>4. ASSUME ops[on[p]].state \in Pending, ops'[on[p]].state = state PROVE GasMove(on[p])
        BY <1>1, <1>2, <2>1, <3>1, <3>3, <3>4 DEF GasMove, Seen
      <3>5. QED
        BY <1>1, <3>1, <3>2, <3>4, UpdateMoves
    <2>2. CASE with[p].kind # "FUND_GAS"
      <3>1. PICK state \in {"DONE", "FAILED", "UNCERTAIN"} :
              ops' = [ops EXCEPT ![on[p]].state = state, ![on[p]].tx = with[p],
                        ![on[p]].bound = IF with[p].kind = "GRANT" THEN with[p].hash ELSE @]
        BY <2>2 DEF Answer
      <3>2. ops \in [Rows -> Op] /\ ops \in Seq(Op)
        BY LenProperties DEF Rows, TypeOK
      <3>3. ops'[on[p]].tx = with[p] /\ \A j \in Rows \ {on[p]} : ops'[j] = ops[j]
        BY <1>1, <3>1, <3>2 DEF Op
      <3>4. Rows' = Rows
        <4>1. ops' \in [Rows -> Op]
          BY WriteRow
        <4>2. QED
          BY <3>2, <4>1, SameRows DEF Rows
      <3>5. RowMove(on[p])
        BY <1>1, <2>2, <3>3 DEF RowMove, Gas
      <3>6. \A j \in Rows \ {on[p]} : RowMove(j)
        BY <3>3 DEF RowMove, TxSame
      <3>7. QED
        BY <3>4, <3>5, <3>6
    <2>3. QED
      BY <2>1, <2>2
  <1>4. QED
    BY <1>1, <1>2, <1>3, StillChain DEF Moves

\* a poll's outcome, for the record that the poll read,
LEMMA ReconcileMoves ==
  ASSUME TypeOK, ClaimInv, NEW p \in Procs, Reconcile(p)
  PROVE  Moves
  <1>1. /\ at[p] \in Reads /\ End(p) /\ UNCHANGED <<chain, slot>> /\ on[p] \in Rows
        /\ with[p] \in Txs /\ with[p].kind = ops[on[p]].kind
        /\ at[p] = "aged" => ~Valid(with[p].hash)
    BY Holds DEF Reconcile, ClaimInv, Reads
  <1>2. at'[p] = "idle" /\ \A q \in Procs : ReqMove(q)
    BY <1>1, Ended
  <1>3. PICK state \in {"DONE", "FAILED", "EXPIRED"} :
          Outcome(p, state) /\ Update(on[p], Pending, state)
    BY DEF Reconcile
  <1>4. state \in States
    BY DEF States, Pending
  <1>5. \A j \in Rows : TxSame(j)
    BY <1>1, <1>3, <1>4, Updated
  <1>6. ASSUME Gas(on[p]), ops[on[p]].state \in Pending, ops'[on[p]].state = state
        PROVE  GasMove(on[p])
    BY <1>1, <1>2, <1>3, <1>5, <1>6 DEF GasMove, Gas, Outcome, Seen
  <1>7. (\A j \in Rows : RowMove(j)) /\ Rows' = Rows
    BY <1>1, <1>3, <1>4, <1>6, UpdateMoves
  <1>8. QED
    BY <1>1, <1>2, <1>7, StillChain DEF Moves

\* and the chain.
LEMMA IncludeMoves == ASSUME TypeOK, NEW t \in Txs, Include(t) PROVE Moves
  <1>1. UNCHANGED <<ops, slot, request>> /\ MayLand(t)
        /\ \E status \in {"landed", "failed"} : chain' = [chain EXCEPT ![t] = status]
    BY DEF Include
  <1>2. \A u \in Txs : ChainMove(u)
    BY <1>1 DEF ChainMove, TypeOK
  <1>3. QED
    BY <1>1, <1>2, StillRows, StillRequests DEF Moves

\* In every step.
LEMMA StepMoves == ASSUME TypeOK, RequestsInv, ClaimInv, [Next]_vars PROVE Moves
  <1>1. ASSUME NEW p \in Procs, Advance(p) PROVE Moves
    BY <1>1, RetireMoves, AddMoves, OldMoves, StartMoves, ClaimGasMoves, EndMoves,
       CheckpointMoves, SendMoves, LostMoves, AnswerMoves, ReadMoves, ReconcileMoves DEF Advance
  <1>2. ASSUME NEW p \in Procs,
               \/ \E k \in Kinds : Fetch(p, k)
               \/ \E i \in Rows, t \in Txs : Submit(p, i, t)
               \/ \E i \in Rows : Poll(p, i)
               \/ Crash(p)
        PROVE  Moves
    BY <1>2, StartMoves, EndMoves
  <1>3. CASE \/ \E i \in Rows, e \in Edits : Sign(i, e)
             \/ Pause \/ UNCHANGED vars
    <2>1. UNCHANGED <<ops, chain, slot, request>>
      BY <1>3 DEF Sign, Pause, vars
    <2>2. QED
      BY <2>1, AloneMoves, StillRequests
  <1>4. CASE NextSlot
    <2>1. UNCHANGED <<ops, chain, request>> /\ slot' = slot + 1
      BY <1>4 DEF NextSlot
    <2>2. \A t \in Txs : ChainMove(t)
      BY <2>1 DEF ChainMove
    <2>3. QED
      BY <2>1, <2>2, StillRows, StillRequests DEF Moves
  <1>5. QED
    BY <1>1, <1>2, <1>3, <1>4, TimeOutMoves, ExpireMoves, IncludeMoves DEF Next

\* And only one request moves: two do not claim at once.
OneMover ==
  \A p, q \in Procs : at'[p] # at[p] /\ at'[q] # at[q] => p = q

LEMMA OnlyOne == ASSUME TypeOK, [Next]_vars PROVE OneMover
  <1>1. ASSUME UNCHANGED at PROVE OneMover
    BY <1>1 DEF OneMover
  <1>2. ASSUME NEW p \in Procs, NEW step, NEW i, NEW t, Go(p, step, i, t) PROVE OneMover
    BY <1>2 DEF OneMover, Go, TypeOK
  <1>3. ASSUME NEW p \in Procs, End(p) PROVE OneMover
    BY <1>2, <1>3 DEF End
  <1>4. ASSUME NEW p \in Procs, Advance(p) PROVE OneMover
    <2>1. CASE \/ Add(p) \/ TooOld(p) \/ Lowered(p) \/ ClaimRefused(p) \/ NotInspected(p)
               \/ Refused(p) \/ Lost(p) \/ Answer(p) \/ Reconcile(p) \/ NoOutcome(p)
      BY <1>3, <2>1 DEF Add, TooOld, Lowered, ClaimRefused, NotInspected, Refused, Lost, Answer,
           NotSeen, Aged, Reconcile, NoOutcome
    <2>2. CASE \/ Retire(p) \/ Approve(p) \/ ClaimGas(p) \/ Checkpoint(p) \/ Send(p)
               \/ NotSeen(p) \/ Aged(p)
      BY <1>2, <2>2 DEF NotSeen, Aged, Retire, Approve, ClaimGas, Checkpoint, Send
    <2>3. QED
      BY <1>4, <2>1, <2>2 DEF Advance
  <1>5. ASSUME NEW p \in Procs,
               \/ \E k \in Kinds : Fetch(p, k)
               \/ \E i \in Rows, t \in Txs : Submit(p, i, t)
               \/ \E i \in Rows : Poll(p, i)
               \/ Crash(p)
        PROVE  OneMover
    <2>1. CASE Crash(p)
      BY <1>3, <2>1 DEF Crash
    <2>2. CASE \E k \in Kinds : Fetch(p, k)
      BY <1>2, <2>2 DEF Fetch
    <2>3. CASE \E i \in Rows, t \in Txs : Submit(p, i, t)
      BY <1>2, <2>3 DEF Submit
    <2>4. CASE \E i \in Rows : Poll(p, i)
      BY <1>2, <2>4 DEF Poll
    <2>5. QED
      BY <1>5, <2>1, <2>2, <2>3, <2>4
  <1>6. CASE \/ \E i \in Rows : TimeOut(i)
             \/ \E n \in Rows : Expire(n)
             \/ \E i \in Rows, e \in Edits : Sign(i, e)
             \/ Pause \/ NextSlot \/ UNCHANGED vars
             \/ \E t \in Txs : Include(t)
    BY <1>1, <1>6 DEF TimeOut, Expire, Sign, Pause, NextSlot, Include, vars, request
  <1>7. QED
    BY <1>4, <1>5, <1>6 DEF Next

-----------------------------------------------------------------------------
(* One gas transfer at a time, and the record of each                      *)

\* A step from a state of the invariant.
GasStep ==
  /\ TypeOK /\ TypeOK' /\ RequestsInv /\ RequestsInv' /\ GasInv
  /\ Moves /\ Kept /\ OneMover

\* NoTx is no transaction: its kind is none of the kinds.
LEMMA NoTxIsNone == NoTx \notin Txs /\ \A t \in Txs : t # NoTx
  <1>1. \A t \in Txs : t.kind # "none"
    BY KindsAssumption DEF Txs
  <1>2. NoTx.kind = "none"
    BY DEF NoTx
  <1>3. QED
    BY <1>1, <1>2

\* A row that carries a gas transfer is a gas op, past its checkpoint, and goes on carrying it.
LEMMA Carries ==
  ASSUME GasStep, NEW t \in Txs, t.kind = "FUND_GAS", NEW i \in Rows, ops[i].tx = t
  PROVE  /\ i \in Rows' /\ Gas(i) /\ ops[i].state \notin {"PREPARED", "VALIDATING"}
         /\ ops'[i].tx = t /\ TxSame(i)
  <1>1. t # NoTx
    BY NoTxIsNone
  <1>2. i \in Rows'
    BY DEF GasStep, Kept, Rows
  <1>3. Gas(i) /\ ops[i].state \notin {"PREPARED", "VALIDATING"}
    BY <1>1 DEF GasStep, GasInv, TxInv, Gas
  <1>4. RowMove(i)
    BY DEF GasStep, Moves
  <1>5. TxSame(i)
    BY <1>3, <1>4 DEF RowMove, GasMove
  <1>6. QED
    BY <1>2, <1>3, <1>5 DEF TxSame

\* What can no longer land never will.
LEMMA OverStays ==
  ASSUME GasStep, NEW t \in Txs, Over(t)
  PROVE  Over(t)'
  <1>1. slot \in Nat /\ slot' \in {slot, slot + 1} /\ t.hash \in Nat
    BY BoundsAssumption DEF GasStep, Moves, TypeOK, Txs, Hashes, MaxSlot
  <1>2. ~Valid(t.hash) => ~Valid(t.hash)'
    BY <1>1, BoundsAssumption DEF Valid
  <1>3. chain[t] \in {"landed", "failed"} => chain'[t] \in {"landed", "failed"}
    BY DEF GasStep, Moves, ChainMove, MayLand
  <1>4. QED
    BY <1>2, <1>3 DEF Over

\* A request that has claimed a gas op works on it.
LEMMA Claims ==
  ASSUME TypeOK, RequestsInv, NEW p \in Procs, Claimed(p)
  PROVE  on[p] \in Rows /\ with[p] \in Txs /\ Gas(on[p])
  <1>1. on[p] \in Rows /\ with[p] \in Txs
    BY Holds DEF Claimed
  <1>2. QED
    BY <1>1 DEF Claimed, RequestsInv, InSubmission, Gas

\* How a transfer is sent: by the request of the one op that waits for it.
LEMMA SentBy ==
  ASSUME GasStep, NEW t \in Txs, t.kind = "FUND_GAS", chain[t] = "unsent", chain'[t] # "unsent"
  PROVE  /\ chain'[t] = "sent" /\ UNCHANGED <<ops, slot>>
         /\ \E q \in Procs : /\ at[q] = "sending" /\ with[q] = t /\ at'[q] = "answering"
                             /\ on[q] \in Rows /\ Gas(on[q])
                             /\ ops[on[q]].tx = t /\ ops[on[q]].state \in Pending
  <1>1. ChainMove(t)
    BY DEF GasStep, Moves
  <1>2. /\ chain'[t] = "sent" /\ UNCHANGED <<ops, slot>> /\ Valid(t.hash)
        /\ \E q \in Procs : at[q] = "sending" /\ with[q] = t /\ at'[q] = "answering"
    BY <1>1 DEF ChainMove, MayLand
  <1>3. PICK q \in Procs : at[q] = "sending" /\ with[q] = t /\ at'[q] = "answering"
    BY <1>2
  <1>4. Claimed(q)
    BY <1>3 DEF Claimed
  <1>5. on[q] \in Rows /\ Gas(on[q])
    BY <1>4, Claims DEF GasStep
  <1>6. ~Over(t)
    BY <1>2 DEF Over
  <1>7. ops[on[q]].tx = t /\ ops[on[q]].state \in Pending
    BY <1>3, <1>6 DEF GasStep, GasInv, ClaimInv
  <1>8. QED
    BY <1>2, <1>3, <1>5, <1>7

\* How an op that waits for its transfer stops waiting.
LEMMA Settles ==
  ASSUME GasStep, NEW t \in Txs, t.kind = "FUND_GAS", NEW i \in Rows, ops[i].tx = t,
         ops'[i].state # ops[i].state, ops'[i].state \notin {"SUBMITTING", "UNCERTAIN"}
  PROVE  /\ UNCHANGED <<chain, slot>>
         /\ \/ ops'[i].state = "DONE" /\ chain[t] = "landed"
            \/ ops'[i].state = "FAILED" /\ chain[t] = "failed"
            \/ ops'[i].state = "EXPIRED" /\ ~Valid(t.hash) /\ chain[t] \in {"unsent", "sent"}
            \/ /\ ops'[i].state = "FAILED"
               /\ \E p \in Procs : at[p] = "sending" /\ on[p] = i /\ with[p] = t /\ at'[p] = "idle"
  <1>1. Gas(i) /\ ops[i].state \notin {"PREPARED", "VALIDATING"}
    BY Carries
  <1>2. RowMove(i)
    BY DEF GasStep, Moves
  <1>3. GasMove(i) /\ UNCHANGED <<chain, slot>>
    BY <1>1, <1>2 DEF RowMove
  <1>4. \A p \in Procs : at[p] \in {"sending", "answering"} \cup Reads /\ on[p] = i
                         /\ with[p].kind = "FUND_GAS" => with[p] = t
    BY DEF GasStep, GasInv, ClaimInv
  <1>5. CASE \E p \in Procs :
          /\ at[p] \in {"answering"} \cup Reads /\ on[p] = i /\ with[p].kind = "FUND_GAS"
          /\ \/ ops'[i].state = "DONE" /\ chain[with[p]] = "landed"
             \/ ops'[i].state = "FAILED" /\ chain[with[p]] = "failed"
             \/ /\ ops'[i].state = "EXPIRED" /\ ~Valid(with[p].hash)
                /\ chain[with[p]] \in {"unsent", "sent"}
    BY <1>3, <1>4, <1>5
  <1>6. CASE /\ ops'[i].state = "FAILED"
             /\ \E p \in Procs : at[p] = "sending" /\ on[p] = i /\ with[p].kind = "FUND_GAS"
                                 /\ at'[p] = "idle"
    BY <1>3, <1>4, <1>6
  <1>7. QED
    BY <1>1, <1>3, <1>5, <1>6 DEF GasMove

\* A gas op without an outcome becomes so by its claim, while there is no other.
LEMMA OneStaysPending ==
  ASSUME GasStep, NEW i \in Rows', NEW j \in Rows', Gas(i)', Gas(j)',
         ops'[i].state \in Pending, ops'[j].state \in Pending
  PROVE  i = j
  <1>1. i \in Rows /\ j \in Rows
    BY DEF GasStep, Moves, Pending
  <1>2. Gas(i) /\ Gas(j)
    BY <1>1 DEF GasStep, Kept, Gas
  <1>3. \A k \in Rows : Gas(k) /\ ops'[k].state \in Pending /\ ops[k].state \notin Pending
          => ~PendingGas /\ \A l \in Rows \ {k} : ops'[l].state = ops[l].state
    BY DEF GasStep, Moves, RowMove, GasMove, Pending
  <1>4. ~PendingGas => ops[i].state \notin Pending /\ ops[j].state \notin Pending
    BY <1>1, <1>2 DEF PendingGas, Gas
  <1>5. CASE ops[i].state \in Pending /\ ops[j].state \in Pending
    BY <1>1, <1>2, <1>5 DEF GasStep, GasInv, TxInv
  <1>6. CASE ops[i].state \notin Pending
    BY <1>1, <1>2, <1>3, <1>4, <1>6
  <1>7. CASE ops[j].state \notin Pending
    BY <1>1, <1>2, <1>3, <1>4, <1>7
  <1>8. QED
    BY <1>5, <1>6, <1>7

\* TxInv is kept.
LEMMA TxStep == GasStep => TxInv'
  <1> SUFFICES ASSUME GasStep PROVE TxInv'
    OBVIOUS
  <1>1. ASSUME NEW i \in Rows', ops'[i].tx # NoTx PROVE ops'[i].tx.kind = ops'[i].kind
    <2>1. i \in Rows
      BY <1>1 DEF GasStep, Moves
    <2>2. ops'[i].kind = ops[i].kind /\ RowMove(i)
      BY <2>1 DEF GasStep, Kept, Moves
    <2>3. TxSame(i) => ops'[i].tx.kind = ops[i].kind
      BY <1>1, <2>1 DEF GasStep, GasInv, TxInv, TxSame
    <2>4. QED
      BY <2>2, <2>3 DEF RowMove, GasMove, Gas
  <1>2. ASSUME NEW i \in Rows', Gas(i)', ops'[i].state \in {"PREPARED", "VALIDATING"}
        PROVE  ops'[i].tx = NoTx
    <2>1. CASE i \in Rows
      <3>1. Gas(i) /\ RowMove(i)
        BY <1>2, <2>1 DEF GasStep, Kept, Moves, Gas
      <3>2. TxSame(i) /\ ops[i].state \in {"PREPARED", "VALIDATING"}
        BY <1>2, <3>1 DEF RowMove, GasMove
      <3>3. QED
        BY <2>1, <3>1, <3>2 DEF GasStep, GasInv, TxInv, TxSame
    <2>2. CASE i \notin Rows
      BY <1>2, <2>2 DEF GasStep, Moves
    <2>3. QED
      BY <2>1, <2>2
  <1>3. \A i, j \in Rows' : Gas(i)' /\ Gas(j)' /\ ops'[i].state \in Pending
                            /\ ops'[j].state \in Pending => i = j
    BY OneStaysPending
  <1>4. QED
    BY <1>1, <1>2, <1>3 DEF TxInv

\* How a request comes to have claimed a gas op: it has just done so, or it had.
LEMMA ClaimsBefore ==
  ASSUME GasStep, NEW p \in Procs, Claimed(p)'
  PROVE  /\ Goes(p) /\ on[p] \in Rows /\ with[p] \in Txs /\ with[p].kind = "FUND_GAS" /\ Gas(on[p])
         /\ \/ Claimed(p)
            \/ /\ at[p] = "read" /\ at'[p] = "inspecting"
               /\ ops[on[p]].state = "PREPARED" /\ ops'[on[p]].state = "VALIDATING"
  <1>1. ReqMove(p) /\ at'[p] \in {"inspecting", "sending", "answering"}
        /\ with'[p].kind = "FUND_GAS"
    BY DEF GasStep, Moves, Claimed
  <1>2. Goes(p) /\ at[p] \in {"read", "inspecting", "sending", "answering"}
    BY <1>1 DEF ReqMove
  <1>3. with[p].kind = "FUND_GAS"
    BY <1>1, <1>2 DEF Goes
  <1>4. on[p] \in Rows /\ with[p] \in Txs
    BY <1>2, Holds DEF GasStep
  <1>5. Gas(on[p])
    BY <1>2, <1>3 DEF GasStep, RequestsInv, InSubmission, Gas
  <1>6. Claimed(p) \/ (/\ at[p] = "read" /\ at'[p] = "inspecting"
                       /\ ops[on[p]].state = "PREPARED" /\ ops'[on[p]].state = "VALIDATING")
    BY <1>1, <1>2, <1>3 DEF ReqMove, Claimed
  <1>7. QED
    BY <1>2, <1>3, <1>4, <1>5, <1>6

\* A claimed op is not PREPARED any more, so it is claimed once.
LEMMA ClaimedOnce == GasStep =>
  /\ \A p \in Procs : Claimed(p)' => ops'[on'[p]].state # "PREPARED"
  /\ \A p, q \in Procs : Claimed(p)' /\ Claimed(q)' /\ on'[p] = on'[q] => p = q
  <1> SUFFICES ASSUME GasStep
               PROVE  /\ \A p \in Procs : Claimed(p)' => ops'[on'[p]].state # "PREPARED"
                      /\ \A p, q \in Procs : Claimed(p)' /\ Claimed(q)' /\ on'[p] = on'[q] => p = q
    OBVIOUS
  <1>1. ASSUME NEW p \in Procs, Claimed(p)' PROVE ops'[on'[p]].state # "PREPARED"
    <2>1. Goes(p) /\ on[p] \in Rows /\ Gas(on[p])
      BY <1>1, ClaimsBefore
    <2>2. RowMove(on[p])
      BY <2>1 DEF GasStep, Moves
    <2>3. Claimed(p) => ops[on[p]].state # "PREPARED"
      BY DEF GasStep, GasInv, ClaimInv
    <2>4. ops'[on[p]].state # "PREPARED"
      BY <1>1, <2>1, <2>2, <2>3, ClaimsBefore DEF RowMove, GasMove
    <2>5. QED
      BY <2>1, <2>4 DEF Goes
  <1>2. ASSUME NEW p \in Procs, NEW q \in Procs, Claimed(p)', Claimed(q)', on'[p] = on'[q]
        PROVE  p = q
    <2>1. on[p] = on[q]
      BY <1>2, ClaimsBefore DEF Goes
    <2>2. CASE Claimed(p) /\ Claimed(q)
      BY <2>1, <2>2 DEF GasStep, GasInv, ClaimInv
    <2>3. CASE ~Claimed(p) /\ Claimed(q)
      <3>1. ops[on[p]].state = "PREPARED"
        BY <1>2, <2>3, ClaimsBefore
      <3>2. QED
        BY <2>1, <2>3, <3>1 DEF GasStep, GasInv, ClaimInv
    <2>4. CASE Claimed(p) /\ ~Claimed(q)
      <3>1. ops[on[q]].state = "PREPARED"
        BY <1>2, <2>4, ClaimsBefore
      <3>2. QED
        BY <2>1, <2>4, <3>1 DEF GasStep, GasInv, ClaimInv
    <2>5. CASE ~Claimed(p) /\ ~Claimed(q)
      <3>1. at'[p] # at[p] /\ at'[q] # at[q]
        BY <1>2, <2>5, ClaimsBefore
      <3>2. QED
        BY <3>1 DEF GasStep, OneMover
    <2>6. QED
      BY <2>2, <2>3, <2>4, <2>5
  <1>3. QED
    BY <1>1, <1>2

\* From the checkpoint on, the record has the transaction that a request sends or waits for.
LEMMA OnRecord ==
  ASSUME GasStep, NEW p \in Procs, at'[p] \in {"sending", "answering"},
         with'[p].kind = "FUND_GAS"
  PROVE  ops'[on'[p]].tx = with'[p]
  <1>1. Claimed(p)'
    BY DEF Claimed
  <1>2. Goes(p) /\ on[p] \in Rows /\ with[p] \in Txs /\ with[p].kind = "FUND_GAS"
    BY <1>1, ClaimsBefore
  <1>3. CASE at[p] \in {"sending", "answering"}
    <2>1. ops[on[p]].tx = with[p]
      BY <1>2, <1>3 DEF GasStep, GasInv, ClaimInv
    <2>2. ops'[on[p]].tx = with[p]
      BY <1>2, <2>1, Carries
    <2>3. QED
      BY <1>2, <2>2 DEF Goes
  <1>4. CASE at[p] \notin {"sending", "answering"}
    <2>1. ReqMove(p)
      BY DEF GasStep, Moves
    <2>2. ops'[on[p]].tx = with[p]
      BY <1>2, <1>4, <2>1 DEF ReqMove
    <2>3. QED
      BY <1>2, <2>2 DEF Goes
  <1>5. QED
    BY <1>3, <1>4

\* And a poll asks after the transaction on record, to its last read, which comes after its
\* blockhash has expired.
LEMMA PollsRecord ==
  ASSUME GasStep, NEW p \in Procs, at'[p] \in Reads
  PROVE  /\ with'[p].kind = ops'[on'[p]].kind
         /\ with'[p].kind = "FUND_GAS" => ops'[on'[p]].tx = with'[p]
         /\ at'[p] = "aged" => with'[p].kind = "FUND_GAS" /\ ~Valid(with[p].hash)'
         /\ at'[p] = "unseen" => with'[p].kind = "FUND_GAS"
  <1>1. ReqMove(p)
    BY DEF GasStep, Moves
  <1>2. CASE at[p] \in Reads /\ Goes(p)
    <2>1. /\ with[p].kind = ops[on[p]].kind
          /\ with[p].kind = "FUND_GAS" => ops[on[p]].tx = with[p]
          /\ at[p] = "aged" => with[p].kind = "FUND_GAS" /\ ~Valid(with[p].hash)
          /\ at[p] = "unseen" => with[p].kind = "FUND_GAS"
      BY <1>2 DEF GasStep, GasInv, ClaimInv
    <2>2. on[p] \in Rows /\ with[p] \in Txs
      BY <1>2, Holds DEF GasStep, Reads
    <2>3. ops'[on[p]].kind = ops[on[p]].kind
      BY <2>2 DEF GasStep, Kept
    <2>4. with[p].kind = "FUND_GAS" => ops'[on[p]].tx = with[p]
      BY <2>1, <2>2, Carries
    <2>5. at'[p] = "aged" => with[p].kind = "FUND_GAS" /\ ~Valid(with[p].hash)
      BY <1>1, <1>2, <2>1 DEF ReqMove, Reads
    <2>6. ~Valid(with[p].hash) => slot' > with[p].hash + Life
      <3>1. slot \in Nat /\ slot' \in {slot, slot + 1} /\ with[p].hash \in Nat /\ Life \in Nat
        BY <2>2, BoundsAssumption DEF GasStep, Moves, TypeOK, Txs, Hashes, MaxSlot
      <3>2. QED
        BY <3>1 DEF Valid
    <2>7. at'[p] = "unseen" => with[p].kind = "FUND_GAS"
      BY <1>1, <1>2, <2>1 DEF ReqMove, Reads
    <2>8. slot' > with[p].hash + Life => ~Valid(with[p].hash)'
      <3>1. slot' \in Nat /\ with[p].hash \in Nat /\ Life \in Nat /\ with'[p] = with[p]
        BY <1>2, <2>2, BoundsAssumption DEF GasStep, Moves, TypeOK, Txs, Hashes, MaxSlot, Goes
      <3>2. QED
        BY <3>1 DEF Valid
    <2>9. QED
      BY <1>2, <2>1, <2>3, <2>4, <2>5, <2>6, <2>7, <2>8 DEF Goes
  <1>3. CASE at'[p] = "polling" /\ on'[p] \in Rows /\ with'[p] = ops[on'[p]].tx /\ with'[p] # NoTx /\ UNCHANGED ops
    BY <1>3 DEF GasStep, GasInv, TxInv
  <1>4. QED
    BY <1>1, <1>2, <1>3 DEF ReqMove, Reads

\* A transfer at its checkpoint is new to the chain, or another op has sent it and it is over.
LEMMA Checkpointed ==
  ASSUME GasStep, NEW p \in Procs, at[p] = "inspecting", at'[p] = "sending"
  PROVE  /\ with[p] \in Txs /\ with[p].kind = "FUND_GAS" /\ on[p] \in Rows
         /\ ops'[on[p]].state = "SUBMITTING" /\ UNCHANGED <<chain, slot>>
         /\ chain[with[p]] # "unsent" =>
              /\ Over(with[p])
              /\ \E j \in Rows \ {on[p]} : ops[j].tx = with[p]
  <1>1. /\ on[p] \in Rows /\ ops[on[p]].state = "VALIDATING"
        /\ ops'[on[p]].state = "SUBMITTING" /\ UNCHANGED <<chain, slot>>
    BY DEF GasStep, Moves, ReqMove
  <1>2. with[p] \in Txs /\ with[p].kind = "FUND_GAS" /\ Gas(on[p])
    BY Holds DEF GasStep, RequestsInv, InSubmission, Gas
  <1>3. ops[on[p]].tx = NoTx /\ with[p] # NoTx
    BY <1>1, <1>2, NoTxIsNone DEF GasStep, GasInv, TxInv
  <1>4. chain[with[p]] # "unsent" => \E j \in Rows \ {on[p]} : ops[j].tx = with[p]
    BY <1>2, <1>3 DEF GasStep, GasInv, LandInv
  <1>5. ~MayLand(with[p])
    <2> SUFFICES ASSUME MayLand(with[p]) PROVE FALSE
      OBVIOUS
    <2>1. PICK i \in Rows : ops[i].tx = with[p] /\ ops[i].state \in Pending
      BY <1>2 DEF GasStep, GasInv, LandInv
    <2>2. Gas(i)
      BY <1>2, <2>1, Carries
    <2>3. i = on[p]
      BY <1>1, <1>2, <2>1, <2>2 DEF GasStep, GasInv, TxInv, Pending
    <2>4. QED
      BY <1>3, <2>1, <2>3
  <1>6. chain[with[p]] \in {"unsent", "sent", "landed", "failed"}
    BY <1>2 DEF GasStep, TypeOK
  <1>7. QED
    BY <1>1, <1>2, <1>4, <1>5, <1>6 DEF Over, MayLand

\* What another op carries, it goes on carrying.
LEMMA TwinStays ==
  ASSUME GasStep, NEW t \in Txs, t.kind = "FUND_GAS", NEW i,
         \E j \in Rows \ {i} : ops[j].tx = t
  PROVE  \E j \in Rows' \ {i} : ops'[j].tx = t
  <1>1. PICK j \in Rows \ {i} : ops[j].tx = t
    OBVIOUS
  <1>2. j \in Rows' /\ ops'[j].tx = t
    BY <1>1, Carries
  <1>3. QED
    BY <1>1, <1>2

\* A transfer still to be sent is unsent, its op waiting, or it is over.
LEMMA NotSentBefore ==
  ASSUME GasStep, NEW p \in Procs, at'[p] = "sending", with'[p].kind = "FUND_GAS"
  PROVE  /\ Over(with[p])' \/ (ops'[on'[p]].state \in Pending /\ chain'[with'[p]] = "unsent")
         /\ chain'[with'[p]] # "unsent" => \E j \in Rows' \ {on'[p]} : ops'[j].tx = with'[p]
  <1>1. Claimed(p)'
    BY DEF Claimed
  <1>2. Goes(p) /\ on[p] \in Rows /\ with[p] \in Txs /\ with[p].kind = "FUND_GAS" /\ Gas(on[p])
    BY <1>1, ClaimsBefore
  <1>3. PICK t \in Txs, i \in Rows : /\ t = with[p] /\ i = on[p]
                                    /\ t.kind = "FUND_GAS" /\ Gas(i)
                                    /\ with'[p] = t /\ on'[p] = i
    BY <1>2 DEF Goes
  <1>4. CASE at[p] = "inspecting"
    <2>1. /\ ops'[i].state = "SUBMITTING" /\ UNCHANGED <<chain, slot>>
          /\ chain[t] # "unsent" => Over(t) /\ \E j \in Rows \ {i} : ops[j].tx = t
      BY <1>3, <1>4, Checkpointed
    <2>2. Over(t) => Over(t)'
      BY <1>3, OverStays
    <2>3. chain[t] # "unsent" => \E j \in Rows' \ {i} : ops'[j].tx = t
      BY <1>3, <2>1, TwinStays
    <2>4. QED
      BY <1>3, <2>1, <2>2, <2>3 DEF Pending
  <1>5. CASE at[p] = "sending"
    <2>1. /\ ops[i].tx = t
          /\ Over(t) \/ (ops[i].state \in Pending /\ chain[t] = "unsent")
          /\ chain[t] # "unsent" => \E j \in Rows \ {i} : ops[j].tx = t
      BY <1>3, <1>5 DEF GasStep, GasInv, ClaimInv
    <2>2. Over(t) => Over(t)'
      BY <1>3, OverStays
    <2>3. ASSUME chain[t] = "unsent", chain'[t] # "unsent"
          PROVE  /\ UNCHANGED <<ops, slot>>
                 /\ \E k \in Rows \ {i} : ops[k].tx = t /\ Gas(k) /\ ops[k].state \in Pending
      <3>1. PICK q \in Procs : /\ at[q] = "sending" /\ with[q] = t /\ at'[q] = "answering"
                               /\ on[q] \in Rows /\ Gas(on[q])
                               /\ ops[on[q]].tx = t /\ ops[on[q]].state \in Pending
        BY <1>3, <2>3, SentBy
      <3>2. q # p
        BY <3>1
      <3>3. Claimed(p) /\ Claimed(q)
        BY <1>3, <1>5, <3>1 DEF Claimed
      <3>4. on[q] # i
        BY <1>3, <3>2, <3>3 DEF GasStep, GasInv, ClaimInv
      <3>5. QED
        BY <1>3, <2>3, <3>1, <3>4, SentBy
    <2>4. chain'[t] # "unsent" => \E j \in Rows' \ {i} : ops'[j].tx = t
      BY <1>3, <2>1, <2>3, TwinStays
    <2>5. ASSUME ~Over(t) PROVE Over(t)' \/ (ops'[i].state \in Pending /\ chain'[t] = "unsent")
      <3>1. ops[i].state \in Pending /\ chain[t] = "unsent"
        BY <2>1, <2>5
      <3>2. chain'[t] = "unsent"
        BY <1>3, <2>3, <3>1 DEF GasStep, GasInv, TxInv
      <3>3. \A r \in Procs : at[r] = "sending" /\ on[r] = i /\ with[r] = t => at'[r] # "idle"
        <4>1. \A r \in Procs : at[r] = "sending" /\ on[r] = i /\ with[r] = t => r = p
          BY <1>3, <1>5 DEF GasStep, GasInv, ClaimInv, Claimed
        <4>2. QED
          BY <4>1
      <3>4. CASE ops'[i].state \in Pending
        BY <3>2, <3>4
      <3>5. CASE ops'[i].state \notin Pending
        <4>1. ops'[i].state # ops[i].state /\ ops'[i].state \notin {"SUBMITTING", "UNCERTAIN"}
          BY <3>1, <3>5 DEF Pending
        <4>2. ops'[i].state = "EXPIRED" /\ ~Valid(t.hash)
          BY <1>3, <2>1, <3>1, <3>3, <4>1, Settles
        <4>3. QED
          BY <2>5, <4>2 DEF Over
      <3>6. QED
        BY <3>4, <3>5
    <2>6. QED
      BY <1>3, <2>2, <2>4, <2>5
  <1>6. at[p] \in {"inspecting", "sending"}
    <2>1. ReqMove(p)
      BY DEF GasStep, Moves
    <2>2. QED
      BY <1>2, <2>1 DEF ReqMove
  <1>7. QED
    BY <1>4, <1>5, <1>6

\* ClaimInv is kept.
LEMMA ClaimStep == GasStep => ClaimInv'
  <1> SUFFICES ASSUME GasStep PROVE ClaimInv'
    OBVIOUS
  <1>1. /\ \A p \in Procs : Claimed(p)' => ops'[on'[p]].state # "PREPARED"
        /\ \A p, q \in Procs : Claimed(p)' /\ Claimed(q)' /\ on'[p] = on'[q] => p = q
    BY ClaimedOnce
  <1>2. \A p \in Procs : at'[p] \in {"sending", "answering"} /\ with'[p].kind = "FUND_GAS"
                           => ops'[on'[p]].tx = with'[p]
    BY OnRecord
  <1>3. \A p \in Procs : at'[p] \in Reads =>
          /\ with'[p].kind = ops'[on'[p]].kind
          /\ with'[p].kind = "FUND_GAS" => ops'[on'[p]].tx = with'[p]
          /\ at'[p] = "aged" => with'[p].kind = "FUND_GAS" /\ ~Valid(with[p].hash)'
          /\ at'[p] = "unseen" => with'[p].kind = "FUND_GAS"
    BY PollsRecord
  <1>4. \A p \in Procs : at'[p] = "sending" /\ with'[p].kind = "FUND_GAS" =>
          /\ Over(with[p])' \/ (ops'[on'[p]].state \in Pending /\ chain'[with'[p]] = "unsent")
          /\ chain'[with'[p]] # "unsent" => \E j \in Rows' \ {on'[p]} : ops'[j].tx = with'[p]
    BY NotSentBefore
  <1>5. QED
    BY <1>1, <1>2, <1>3, <1>4 DEF ClaimInv

\* Refused by the helper's own checks, a transfer is over or was never sent.
LEMMA RefusedUnsent ==
  ASSUME GasStep, NEW p \in Procs, NEW t \in Txs, t.kind = "FUND_GAS",
         at[p] = "sending", with[p] = t
  PROVE  /\ ~MayLand(t)
         /\ chain[t] # "unsent" => \E j \in Rows \ {on[p]} : ops[j].tx = t
  BY DEF GasStep, GasInv, ClaimInv, Over, MayLand

\* LandInv is kept: what is sent is of an op that waits, and while it may land nothing
\* ends that wait.
LEMMA LandStep == GasStep => LandInv'
  <1> SUFFICES ASSUME GasStep, NEW t \in Txs, t.kind = "FUND_GAS"
               PROVE  /\ chain'[t] # "unsent" => \E i \in Rows' : ops'[i].tx = t
                      /\ MayLand(t)' => \E i \in Rows' : ops'[i].tx = t /\ ops'[i].state \in Pending
    BY DEF LandInv
  <1>1. CASE chain[t] = "unsent" /\ chain'[t] # "unsent"
    <2>1. PICK i \in Rows : ops[i].tx = t /\ ops[i].state \in Pending
      BY <1>1, SentBy
    <2>2. UNCHANGED ops
      BY <1>1, SentBy
    <2>3. QED
      BY <2>1, <2>2 DEF Rows
  <1>2. CASE chain[t] # "unsent"
    <2>1. \E i \in Rows' : ops'[i].tx = t
      BY <1>2, Carries DEF GasStep, GasInv, LandInv
    <2>2. ASSUME MayLand(t)' PROVE \E i \in Rows' : ops'[i].tx = t /\ ops'[i].state \in Pending
      <3>1. ~Over(t)
        <4>1. ~Over(t)'
          BY <2>2 DEF MayLand, Over
        <4>2. QED
          BY <4>1, OverStays
      <3>2. MayLand(t)
        BY <1>2, <3>1 DEF Over, MayLand, GasStep, TypeOK
      <3>3. PICK i \in Rows : ops[i].tx = t /\ ops[i].state \in Pending
        BY <3>2 DEF GasStep, GasInv, LandInv
      <3>4. i \in Rows' /\ ops'[i].tx = t
        BY <3>3, Carries
      <3>5. ops'[i].state \in Pending
        <4> SUFFICES ASSUME ops'[i].state \notin Pending PROVE FALSE
          OBVIOUS
        <4>1. ops'[i].state # ops[i].state /\ ops'[i].state \notin {"SUBMITTING", "UNCERTAIN"}
          BY <3>3 DEF Pending
        <4>2. \E p \in Procs : at[p] = "sending" /\ on[p] = i /\ with[p] = t
          BY <3>1, <3>3, <4>1, Settles DEF Over
        <4>3. QED
          BY <3>2, <4>2, RefusedUnsent
      <3>6. QED
        BY <3>4, <3>5
    <2>3. QED
      BY <2>1, <2>2
  <1>3. CASE chain'[t] = "unsent"
    BY <1>3 DEF MayLand
  <1>4. QED
    BY <1>1, <1>2, <1>3

\* GasRecord is kept: an outcome is what the chain says, a refused transfer was not sent
\* by this op, and what is sent later is another op's.
LEMMA RecordStep == GasStep => GasRecord'
  <1> SUFFICES ASSUME GasStep, NEW i \in Rows', Gas(i)', ops'[i].tx # NoTx
               PROVE  /\ ops'[i].state = "DONE" => chain'[ops'[i].tx] = "landed"
                      /\ ops'[i].state \in {"FAILED", "EXPIRED"} =>
                           \/ chain'[ops'[i].tx] # "landed" /\ ~MayLand(ops[i].tx)'
                           \/ \E j \in Rows' \ {i} : ops'[j].tx = ops'[i].tx
    BY DEF GasRecord, Gas
  <1>1. i \in Rows /\ Gas(i)
    BY DEF GasStep, Moves, Kept, Gas
  <1>2. PICK t \in Txs : t = ops'[i].tx
    <2>1. ops'[i] \in Op
      BY ElementOfSeq DEF GasStep, TypeOK, Rows
    <2>2. QED
      BY <2>1 DEF Op
  <1>3. t.kind = "FUND_GAS"
    BY <1>2, TxStep DEF TxInv, Gas
  <1>4. RowMove(i)
    BY <1>1 DEF GasStep, Moves
  <1>5. CASE ops[i].tx # t
    BY <1>1, <1>2, <1>4, <1>5 DEF RowMove, GasMove, TxSame
  <1>6. CASE ops[i].tx = t /\ ops'[i].state # ops[i].state
                           /\ ops'[i].state \notin {"SUBMITTING", "UNCERTAIN"}
    <2>1. UNCHANGED <<chain, slot>>
      BY <1>1, <1>3, <1>6, Settles
    <2>2. CASE \/ ops'[i].state = "DONE" /\ chain[t] = "landed"
               \/ ops'[i].state = "FAILED" /\ chain[t] = "failed"
               \/ ops'[i].state = "EXPIRED" /\ ~Valid(t.hash) /\ chain[t] \in {"unsent", "sent"}
      BY <1>2, <2>1, <2>2 DEF MayLand, Valid
    <2>3. CASE /\ ops'[i].state = "FAILED"
               /\ \E p \in Procs : at[p] = "sending" /\ on[p] = i /\ with[p] = t
      <3>1. ~MayLand(t) /\ (chain[t] # "unsent" => \E j \in Rows \ {i} : ops[j].tx = t)
        BY <1>3, <2>3, RefusedUnsent
      <3>2. chain[t] # "unsent" => \E j \in Rows' \ {i} : ops'[j].tx = t
        BY <1>3, <3>1, TwinStays
      <3>3. QED
        BY <1>2, <2>1, <2>3, <3>1, <3>2 DEF MayLand, Valid
    <2>4. QED
      BY <1>1, <1>3, <1>6, <2>2, <2>3, Settles
  <1>7. CASE ops[i].tx = t /\ ops'[i].state = ops[i].state
    <2>1. t # NoTx
      BY NoTxIsNone
    <2>2. /\ ops[i].state = "DONE" => chain[t] = "landed"
          /\ ops[i].state \in {"FAILED", "EXPIRED"} =>
               \/ chain[t] # "landed" /\ ~MayLand(t)
               \/ \E j \in Rows \ {i} : ops[j].tx = t
      BY <1>1, <1>7, <2>1 DEF GasStep, GasInv, GasRecord, Gas
    <2>3. ASSUME ops[i].state = "DONE" PROVE chain'[t] = "landed"
      BY <2>2, <2>3 DEF GasStep, Moves, ChainMove, MayLand
    <2>4. ASSUME ops[i].state \in {"FAILED", "EXPIRED"}
          PROVE  \/ chain'[t] # "landed" /\ ~MayLand(t)'
                 \/ \E j \in Rows' \ {i} : ops'[j].tx = t
      <3>1. CASE \E j \in Rows \ {i} : ops[j].tx = t
        BY <1>3, <3>1, TwinStays
      <3>2. CASE chain[t] = "unsent" /\ chain'[t] # "unsent"
        <4>1. \E j \in Rows : ops[j].tx = t /\ ops[j].state \in Pending
          BY <1>3, <3>2, SentBy
        <4>2. \E j \in Rows \ {i} : ops[j].tx = t
          BY <2>4, <4>1 DEF Pending
        <4>3. QED
          BY <1>3, <4>2, TwinStays
      <3>3. CASE chain[t] = "unsent" /\ chain'[t] = "unsent"
        BY <3>3 DEF MayLand
      <3>4. CASE chain[t] # "unsent" /\ chain[t] # "landed" /\ ~MayLand(t)
        <4>1. chain'[t] = chain[t]
          BY <3>4 DEF GasStep, Moves, ChainMove
        <4>2. Over(t)
          BY <3>4 DEF Over, MayLand, GasStep, TypeOK
        <4>3. Over(t)'
          BY <4>2, OverStays
        <4>4. QED
          BY <3>4, <4>1, <4>3 DEF Over, MayLand
      <3>5. QED
        BY <2>2, <2>4, <3>1, <3>2, <3>3, <3>4
    <2>5. QED
      BY <1>2, <1>7, <2>3, <2>4 DEF MayLand, Valid
  <1>8. CASE ops'[i].state \in {"SUBMITTING", "UNCERTAIN"}
    BY <1>8
  <1>9. QED
    BY <1>5, <1>6, <1>7, <1>8

\* The invariant of the gas ops holds in every state: no two ops wait for a transfer, what a
\* request or a poll works on is the transaction on record, and what the chain has of a
\* transfer is an op's that waits for it as long as it may land (claim_gas_submission,
\* checkpoint_gas, finish_pending_op, reconcile).
THEOREM GasKept == Spec => []GasInv
  <1>1. Init => GasInv
    <2> SUFFICES ASSUME Init PROVE GasInv
      OBVIOUS
    <2>1. Rows = {}
      BY DEF Init, Rows
    <2>2. TxInv /\ GasRecord
      BY <2>1 DEF TxInv, GasRecord
    <2>3. ClaimInv
      BY DEF Init, ClaimInv, Claimed, Reads
    <2>4. LandInv
      BY DEF Init, LandInv, MayLand
    <2>5. QED
      BY <2>2, <2>3, <2>4 DEF GasInv
  <1>2. TypeOK /\ TypeOK' /\ StopInv /\ StopInv' /\ GasInv /\ [Next]_vars => GasInv'
    <2> SUFFICES ASSUME TypeOK, TypeOK', StopInv, StopInv', GasInv, [Next]_vars PROVE GasInv'
      OBVIOUS
    <2>1. RequestsInv /\ RequestsInv' /\ ClaimInv
      BY DEF StopInv, GasInv
    <2>2. GasStep
      BY <2>1, StepMoves, Grows, OnlyOne DEF GasStep
    <2>3. QED
      BY <2>2, TxStep, ClaimStep, LandStep, RecordStep DEF GasInv
  <1>3. QED
    BY <1>1, <1>2, Typing, Bound, PTL DEF Spec

\* At most one gas transfer can still land (claim_gas_submission, checkpoint_gas): each that
\* may is on the record of the one op without an outcome.
THEOREM OneTransfer == Spec => []OneGasTransfer
  <1>1. GasInv => OneGasTransfer
    <2> SUFFICES ASSUME GasInv PROVE OneGasTransfer
      OBVIOUS
    <2> DEFINE open == {t \in Txs : t.kind = "FUND_GAS" /\ MayLand(t)}
    <2>1. \A t, u \in open : t = u
      <3> SUFFICES ASSUME NEW t \in open, NEW u \in open PROVE t = u
        OBVIOUS
      <3>1. PICK i \in Rows : ops[i].tx = t /\ ops[i].state \in Pending
        BY DEF GasInv, LandInv
      <3>2. PICK j \in Rows : ops[j].tx = u /\ ops[j].state \in Pending
        BY DEF GasInv, LandInv
      <3>3. t # NoTx /\ u # NoTx /\ t.kind = "FUND_GAS" /\ u.kind = "FUND_GAS"
        BY NoTxIsNone
      <3>4. Gas(i) /\ Gas(j)
        BY <3>1, <3>2, <3>3 DEF GasInv, TxInv, Gas
      <3>5. i = j
        BY <3>1, <3>2, <3>4 DEF GasInv, TxInv
      <3>6. QED
        BY <3>1, <3>2, <3>5
    <2>2. CASE open = {}
      BY <2>2, FS_EmptySet DEF OneGasTransfer
    <2>3. CASE open # {}
      <3>1. PICK t \in open : TRUE
        BY <2>3
      <3>2. open = {t}
        BY <2>1, <3>1
      <3>3. Cardinality(open) = 1
        BY <3>2, FS_Singleton
      <3>4. QED
        BY <3>3 DEF OneGasTransfer
    <2>4. QED
      BY <2>2, <2>3
  <1>2. QED
    BY <1>1, GasKept, PTL

\* What the record says of a gas transfer is what became of it: DONE has landed, and FAILED
\* or EXPIRED has not and cannot, unless another op carries the same transfer
\* (finish_pending_op, reconcile, update_op).
THEOREM Recorded == Spec => []GasRecord
  BY GasKept, PTL DEF GasInv
=============================================================================
