------------------------ MODULE BankrPurchaseProofs -------------------------
(* Theorems about BankrPurchase, for any requests, purchases and tries. *)
EXTENDS BankrPurchase, TLAPS

\* A call that moves on or ends leaves the other calls where they are.
LEMMA Going ==
  ASSUME TypeOK, NEW c \in Calls, NEW step \in Steps, NEW p \in Purchases, NEW s \in States,
         Goes(c, step, p, s)
  PROVE  /\ at' \in [Calls -> Steps] /\ on' \in [Calls -> Purchases] /\ saw' \in [Calls -> States]
         /\ at'[c] = step /\ on'[c] = p /\ saw'[c] = s
         /\ \A d \in Calls \ {c} : at'[d] = at[d] /\ on'[d] = on[d] /\ saw'[d] = saw[d]
  BY DEF TypeOK, Goes

LEMMA Ending ==
  ASSUME TypeOK, NEW c \in Calls, Ends(c)
  PROVE  /\ at' \in [Calls -> Steps] /\ on' \in [Calls -> Purchases] /\ saw' \in [Calls -> States]
         /\ at'[c] = "idle"
         /\ \A d \in Calls \ {c} : at'[d] = at[d] /\ on'[d] = on[d] /\ saw'[d] = saw[d]
  <1>1. 1 \in Purchases /\ "idle" \in Steps /\ "none" \in States
    BY BoundAssumption DEF Purchases, Steps, States
  <1>2. QED
    BY <1>1, Going DEF Ends

\* A call that is to look at its row again is still at it.
LEMMA Rereading ==
  ASSUME TypeOK, NEW c \in Calls, Rereads(c)
  PROVE  /\ at' \in [Calls -> Steps] /\ on' \in [Calls -> Purchases] /\ saw' \in [Calls -> States]
         /\ at'[c] = "reread"
         /\ \A d \in Calls \ {c} : at'[d] = at[d] /\ on'[d] = on[d] /\ saw'[d] = saw[d]
  <1>1. on[c] \in Purchases /\ "reread" \in Steps /\ "none" \in States
    BY DEF TypeOK, Steps, States
  <1>2. QED
    BY <1>1, Going DEF Rereads

\* A compare-and-set moves the call's own purchase or none.
LEMMA Writing ==
  ASSUME TypeOK, NEW c \in Calls, NEW s \in States, Write(c, s)
  PROVE  /\ state' \in [Purchases -> States]
         /\ \/ state' = state
            \/ /\ state[on[c]] = saw[c] /\ state'[on[c]] = s
               /\ \A p \in Purchases \ {on[c]} : state'[p] = state[p]
  BY DEF TypeOK, Write, Unmoved

\* A transition moves the row and the call, or the call is over but for its answer.
LEMMA Advancing ==
  ASSUME TypeOK, NEW c \in Calls, NEW s \in States, NEW step \in Steps,
         Advance(c, s, step) \/ Verify(c, s, step)
  PROVE  /\ at' \in [Calls -> Steps] /\ on' \in [Calls -> Purchases] /\ saw' \in [Calls -> States]
         /\ \A d \in Calls \ {c} : at'[d] = at[d] /\ on'[d] = on[d] /\ saw'[d] = saw[d]
         /\ \/ at'[c] \in {"idle", "reread"}
            \/ /\ at'[c] = step /\ on'[c] = on[c] /\ saw'[c] = s
               /\ state[on[c]] = saw[c] /\ state'[on[c]] = s
  <1>1. on[c] \in Purchases
    BY DEF TypeOK
  <1>2. CASE Unmoved(c)
    <2>1. Goes(c, step, on[c], s) /\ state' = [state EXCEPT ![on[c]] = s]
      BY <1>2 DEF Advance, Verify, Write
    <2>2. state[on[c]] = saw[c] /\ state'[on[c]] = s
      BY <1>1, <1>2, <2>1 DEF Unmoved, TypeOK
    <2>3. QED
      BY <1>1, <2>1, <2>2, Going
  <1>3. CASE ~Unmoved(c)
    BY <1>3, Ending, Rereading DEF Advance, Verify
  <1>4. QED
    BY <1>2, <1>3

-----------------------------------------------------------------------------
(* The steps by what they do to the row and the call.                      *)

\* Those that leave every row as it is.
Quiet(c) ==
  \/ Begin(c) \/ Look(c) \/ SaveKey(c) \/ Reread(c) \/ Resume(c) \/ Transfer(c) \/ Reconcile(c) \/ Balance(c)
  \/ TopUp(c) \/ CreditSeen(c) \/ AskForKey(c) \/ Deliver(c) \/ Die(c)

\* Those that write and end the call, but for its answer.
Final(c) ==
  \/ Expire(c) \/ NoWallet(c) \/ InvalidOtp(c) \/ NoKey(c) \/ Approve(c) \/ Disapprove(c)
  \/ CheckFails(c) \/ Hold(c) \/ NoBalance(c) \/ TopUpFails(c) \/ Complete(c)

\* Those that write and go on.
Onward(c) == KeyCreated(c) \/ Commit(c) \/ Claim(c) \/ Transferred(c)

\* What a step of one call does to the calls: the others stay, it knows its row, and it is
\* only by a claim of an approved purchase that it is about to transfer.
CallStep(c) ==
  /\ at' \in [Calls -> Steps] /\ on' \in [Calls -> Purchases] /\ saw' \in [Calls -> States]
  /\ \A d \in Calls \ {c} : at'[d] = at[d] /\ on'[d] = on[d] /\ saw'[d] = saw[d]
  /\ Knows(at'[c], saw'[c])
  /\ at'[c] = "transferring" =>
       /\ on'[c] = on[c] /\ state[on[c]] = "AWAITING_TRANSFER"
       /\ state'[on[c]] = "TRANSFERRING_SINGIT"

\* And to the rows: a purchase the call read to be under way or owing is moved, never out
\* of COMPLETE, and back to an unpaid state only from one or by the call about to pay it.
RowStep(c) ==
  /\ state' \in [Purchases -> States]
  /\ \A p \in Purchases : state'[p] = state[p] \/
       /\ state[p] # "COMPLETE"
       /\ state'[p] \in Unpaid => \/ state[p] \in Unpaid
                                  \/ /\ p = on[c] /\ at[c] = "transferring"
                                     /\ at'[c] # "transferring"

\* The calls, after a step that leaves the rows.
LEMMA QuietSteps ==
  ASSUME TypeOK, SawInv, NEW c \in Calls, Quiet(c)
  PROVE  CallStep(c) /\ RowStep(c)
  <1>1. state' = state
    BY DEF Quiet, Begin, Look, SaveKey, Reread, Resume, Transfer, Reconcile, Balance, TopUp, CreditSeen,
           AskForKey, Deliver, Die, rest, money
  <1>2. RowStep(c)
    BY <1>1 DEF RowStep, TypeOK
  <1> SUFFICES CallStep(c)
    BY <1>2
  <1>3. /\ on[c] \in Purchases /\ saw[c] \in States
        /\ \A p \in Purchases : state[p] \in States
    BY DEF TypeOK
  <1>4. CASE Deliver(c) \/ Die(c)
    BY <1>4, Ending DEF Deliver, Die, CallStep, Knows
  <1>10. CASE Begin(c)
    <2>1. 1 \in Purchases /\ "starting" \in Steps /\ "none" \in States
      BY BoundAssumption DEF Purchases, Steps, States
    <2>2. QED
      BY <1>10, <2>1, Going DEF Begin, CallStep, Knows
  <1>11. CASE Reread(c)
    <2>1. CASE Ends(c)
      BY <2>1, Ending DEF CallStep, Knows
    <2>2. CASE ~Ends(c)
      <3>1. "resuming" \in Steps /\ "AWAITING_TRANSFER" \in States
        BY DEF Steps, States
      <3>2. QED
        BY <1>3, <1>11, <2>2, <3>1, Going DEF Reread, CallStep, Knows
    <2>3. QED
      BY <2>1, <2>2
  <1>5. CASE Look(c)
    <2>1. PICK p \in Purchases : Active(p) /\ Goes(c, "looked", p, state[p])
      BY <1>5 DEF Look
    <2>2. "looked" \in Steps
      BY DEF Steps
    <2>3. QED
      BY <1>3, <2>1, <2>2, Going DEF CallStep, Knows, Active
  <1>6. CASE Reconcile(c) \/ AskForKey(c)
    <2>1. PICK p \in Purchases, step \in {"reconciling", "delivering"}, s \in States :
            Goes(c, step, p, s) /\ (step = "reconciling" => s \in Owing)
      BY <1>3, <1>6 DEF Reconcile, AskForKey, Owing, States, TERMINAL_STATES, TypeOK
    <2>2. step \in Steps
      BY DEF Steps
    <2>3. QED
      BY <2>1, <2>2, Going DEF CallStep, Knows
  <1>7. CASE Resume(c)
    <2>1. CASE Ends(c)
      BY <2>1, Ending DEF CallStep, Knows
    <2>2. CASE ~Ends(c)
      <3>1. \E step \in Steps : Goes(c, step, on[c], state[on[c]])
                                /\ step \in {"claiming", "unclear", "topping"}
                                /\ Knows(step, state[on[c]])
        BY <1>7, <2>2 DEF Resume, Knows, Steps, Owing
      <3>2. QED
        BY <1>3, <3>1, Going DEF CallStep
    <2>3. QED
      BY <2>1, <2>2
  <1>8. CASE SaveKey(c) \/ Transfer(c) \/ Balance(c) \/ TopUp(c) \/ CreditSeen(c)
    <2>1. \E step \in Steps : /\ Goes(c, step, on[c], saw[c]) /\ step # "transferring"
                              /\ Knows(step, saw[c])
      BY <1>8 DEF SaveKey, Transfer, Balance, TopUp, CreditSeen, SawInv, Knows, Steps
    <2>2. QED
      BY <1>3, <2>1, Going DEF CallStep
  <1>9. QED
    BY <1>4, <1>5, <1>6, <1>7, <1>8, <1>10, <1>11 DEF Quiet

\* The calls and rows, after a step that ends its call with a write.
LEMMA FinalSteps ==
  ASSUME TypeOK, SawInv, NEW c \in Calls, Final(c)
  PROVE  CallStep(c) /\ RowStep(c)
  <1>1. Ends(c) \/ Rereads(c)
    BY DEF Final, Expire, NoWallet, InvalidOtp, NoKey, Approve, Disapprove, CheckFails, Hold,
           NoBalance, TopUpFails, Complete, Finish, Answer
  <1>2. CallStep(c) /\ at'[c] \in {"idle", "reread"}
    BY <1>1, Ending, Rereading DEF CallStep, Knows
  <1>3. PICK s \in States : /\ Write(c, s) /\ saw[c] # "COMPLETE"
                            /\ s \in Unpaid => saw[c] \in Unpaid \/ at[c] = "transferring"
    <2>1. CASE Expire(c) \/ Hold(c) \/ NoBalance(c) \/ TopUpFails(c) \/ Complete(c)
      <3>1. \E s \in {"EXPIRED", "RECONCILIATION_REQUIRED", "COMPLETE"} : Write(c, s)
        BY <2>1 DEF Expire, Hold, NoBalance, TopUpFails, Complete, Finish, Answer
      <3>2. saw[c] # "COMPLETE"
        BY <2>1 DEF Expire, Hold, NoBalance, TopUpFails, Complete, SawInv, Knows, Owing, TERMINAL_STATES
      <3>3. QED
        BY <3>1, <3>2 DEF Unpaid, States, TERMINAL_STATES
    <2>2. CASE \/ NoWallet(c) \/ InvalidOtp(c) \/ NoKey(c) \/ Approve(c) \/ Disapprove(c)
               \/ CheckFails(c)
      <3>1. \E s \in States : Write(c, s)
        BY <2>2 DEF NoWallet, InvalidOtp, NoKey, Approve, Disapprove, CheckFails, Finish, Answer,
                    States, TERMINAL_STATES
      <3>2. saw[c] # "COMPLETE" /\ (saw[c] \in Unpaid \/ at[c] = "transferring")
        BY <2>2 DEF NoWallet, Looked, InvalidOtp, NoKey, Approve, Disapprove, CheckFails, SawInv,
                    Knows, Unpaid
      <3>3. QED
        BY <3>1, <3>2
    <2>3. QED
      BY <2>1, <2>2 DEF Final
  <1>4. QED
    BY <1>2, <1>3, Writing DEF RowStep

\* The same after a step that writes and goes on.
LEMMA OnwardSteps ==
  ASSUME TypeOK, SawInv, NEW c \in Calls, Onward(c)
  PROVE  CallStep(c) /\ RowStep(c)
  <1>1. PICK s \in States, step \in Steps :
          /\ Advance(c, s, step) \/ Verify(c, s, step)
          /\ Knows(step, s) /\ saw[c] # "COMPLETE"
          /\ s \in Unpaid => saw[c] \in Unpaid
          /\ step = "transferring" => s = "TRANSFERRING_SINGIT" /\ saw[c] = "AWAITING_TRANSFER"
    BY DEF Onward, KeyCreated, Commit, Claim, Transferred, SawInv, Knows, Steps, States,
           Unpaid, Owing
  <1>2. Write(c, s)
    BY <1>1 DEF Advance, Verify
  <1>3. CallStep(c)
    BY <1>1, Advancing DEF CallStep, Knows
  <1>4. RowStep(c)
    BY <1>1, <1>2, Writing DEF RowStep
  <1>5. QED
    BY <1>3, <1>4

\* And after the first steps of a purchase, which do one or the other.
LEMMA EarlySteps ==
  ASSUME TypeOK, SawInv, NEW c \in Calls,
         Start(c) \/ AcceptTerms(c) \/ SendOtp(c) \/ VerifyOtp(c)
  PROVE  CallStep(c) /\ RowStep(c)
  <1>1. /\ on[c] \in Purchases /\ saw[c] \in States
        /\ "AWAITING_OTP" \in States /\ "AWAITING_TERMS" \in States
        /\ "FAILED_BEFORE_TRANSFER" \in States /\ "mailing" \in Steps
    BY DEF TypeOK, States, Steps, TERMINAL_STATES
  <1>2. CASE Start(c)
    <2>1. PICK p \in Purchases, s \in {"AWAITING_TERMS", "AWAITING_OTP"} :
            /\ (state[p] = "none" /\ state' = [state EXCEPT ![p] = s]) \/ state' = state
            /\ Goes(c, "mailing", p, "AWAITING_OTP") \/ Ends(c)
      <3>1. PICK p \in Purchases, s \in {"AWAITING_TERMS", "AWAITING_OTP"} :
              /\ \/ /\ \A q \in Purchases : ~Active(q) /\ (q < p <=> state[q] # "none")
                    /\ state' = [state EXCEPT ![p] = s]
                 \/ Active(p) /\ UNCHANGED state
              /\ IF s = "AWAITING_OTP" THEN Goes(c, "mailing", p, s) ELSE Ends(c)
        BY <1>2 DEF Start
      <3>2. ~(p < p)
        BY DEF Purchases
      <3>3. QED
        BY <3>1, <3>2
    <2>2. RowStep(c)
      BY <1>1, <2>1 DEF RowStep, TypeOK, Unpaid
    <2>3. CASE Ends(c)
      BY <2>2, <2>3, Ending DEF CallStep, Knows
    <2>4. CASE Goes(c, "mailing", p, "AWAITING_OTP")
      BY <1>1, <2>2, <2>4, Going DEF CallStep, Knows
    <2>5. QED
      BY <2>1, <2>3, <2>4
  <1>3. CASE \E s \in States, step \in Steps :
               /\ Advance(c, s, step) \/ Verify(c, s, step)
               /\ Knows(step, s) /\ saw[c] \in Unpaid
               /\ step # "transferring"
    <2>1. PICK s \in States, step \in Steps :
            /\ Advance(c, s, step) \/ Verify(c, s, step)
            /\ Knows(step, s) /\ saw[c] \in Unpaid
            /\ step # "transferring"
      BY <1>3
    <2>2. Write(c, s)
      BY <2>1 DEF Advance, Verify
    <2>3. CallStep(c)
      BY <2>1, Advancing DEF CallStep, Knows
    <2>4. saw[c] # "COMPLETE"
      BY <2>1 DEF Unpaid
    <2>5. QED
      BY <2>1, <2>2, <2>3, <2>4, Writing DEF RowStep
  <1>4. CASE /\ state' = state
             /\ \/ Ends(c)
                \/ \E step \in Steps \ {"transferring"} : /\ Goes(c, step, on[c], saw[c])
                                                          /\ Knows(step, saw[c])
    <2>1. RowStep(c)
      BY <1>4 DEF RowStep, TypeOK
    <2>2. CallStep(c)
      BY <1>1, <1>4, Going, Ending DEF CallStep, Knows
    <2>3. QED
      BY <2>1, <2>2
  <1>5. CASE AcceptTerms(c)
    <2>1. CASE Looked(c, "AWAITING_OTP") /\ Goes(c, "mailing", on[c], "AWAITING_OTP") /\ UNCHANGED state
      BY <1>1, <1>4, <2>1 DEF Looked, Knows
    <2>2. CASE Looked(c, "AWAITING_TERMS") /\ Advance(c, "AWAITING_OTP", "mailing")
      BY <1>1, <1>3, <2>2 DEF Looked, Knows, Unpaid
    <2>3. QED
      BY <1>5, <2>1, <2>2 DEF AcceptTerms
  <1>6. CASE SendOtp(c)
    <2>1. CASE Ends(c) /\ UNCHANGED state
      BY <1>4, <2>1
    <2>2. CASE Finish(c, "FAILED_BEFORE_TRANSFER")
      <3>1. saw[c] = "AWAITING_OTP"
        BY <1>6 DEF SendOtp, SawInv, Knows
      <3>2. CallStep(c)
        BY <2>2, Ending DEF Finish, CallStep, Knows
      <3>3. RowStep(c)
        BY <1>1, <2>2, <3>1, Writing DEF Finish, RowStep, Unpaid
      <3>4. QED
        BY <3>2, <3>3
    <2>3. QED
      BY <1>6, <2>1, <2>2 DEF SendOtp
  <1>7. CASE VerifyOtp(c)
    <2>1. CASE Looked(c, "AWAITING_OTP")
      <3>1. saw[c] = "AWAITING_OTP" /\ \E s \in {"BANKR_KEY_CREATED", "CREATING_BANKR_KEY"},
               step \in {"keyed", "creating"} : Verify(c, s, step) /\ Knows(step, s)
        BY <1>7, <2>1 DEF VerifyOtp, Looked, Knows
      <3>2. QED
        BY <1>3, <3>1 DEF Unpaid, States, Steps
    <2>2. CASE ~Looked(c, "AWAITING_OTP")
      <3>1. state' = state /\ \E step \in {"keyed", "resuming"} : /\ Goes(c, step, on[c], saw[c])
                                                                  /\ Knows(step, saw[c])
        BY <1>7, <2>2 DEF VerifyOtp, Looked, Knows
      <3>2. QED
        BY <1>4, <3>1 DEF Steps
    <2>3. QED
      BY <2>1, <2>2
  <1>8. QED
    BY <1>2, <1>5, <1>6, <1>7

LEMMA HandleSteps ==
  ASSUME TypeOK, SawInv, NEW c \in Calls, Handle(c)
  PROVE  CallStep(c) /\ RowStep(c)
  BY QuietSteps, FinalSteps, OnwardSteps, EarlySteps DEF Handle, Quiet, Final, Onward

-----------------------------------------------------------------------------
(* What the other variables become.                                        *)

\* Every other variable a request writes keeps its type, and only the sweep writes swept.
LEMMA RestTypes ==
  ASSUME TypeOK, NEW c \in Calls, Handle(c)
  PROVE  /\ hash' \in SUBSET Purchases /\ key' \in SUBSET Purchases
         /\ tries' \in [Purchases -> 0..MaxOtp]
         /\ late' = late /\ delivered' \in SUBSET Purchases /\ swept' = swept
         /\ transfers' \in [Purchases -> Nat] /\ given' \in [Purchases -> Nat]
         /\ owed' \in SUBSET Purchases /\ credited' = credited
  <1>1. on[c] \in Purchases
    BY DEF TypeOK
  <1>2. CASE InvalidOtp(c)
    <2>1. tries' \in [Purchases -> 0..MaxOtp]
      BY <1>1, <1>2, BoundAssumption DEF InvalidOtp, TypeOK
    <2>2. QED
      BY <1>2, <2>1 DEF InvalidOtp, TypeOK, money, bankr
  <1>3. CASE SaveKey(c)
    BY <1>1, <1>3 DEF SaveKey, TypeOK, money, bankr
  <1>4. CASE Transfer(c)
    <2>1. transfers' \in [Purchases -> Nat]
      BY <1>1, <1>4 DEF Transfer, TypeOK
    <2>2. QED
      BY <1>4, <2>1 DEF Transfer, TypeOK, bankr
  <1>5. CASE Transferred(c)
    BY <1>1, <1>5 DEF Transferred, TypeOK, bankr
  <1>6. CASE TopUp(c)
    <2>1. owed' \in SUBSET Purchases
      BY <1>1, <1>6 DEF TopUp, TypeOK
    <2>2. QED
      BY <1>6, <2>1 DEF TopUp, TypeOK
  <1>7. CASE Complete(c) \/ Deliver(c)
    <2>1. delivered' \in SUBSET Purchases /\ given' \in [Purchases -> Nat]
      BY <1>1, <1>7 DEF Complete, Deliver, Gives, TypeOK
    <2>2. QED
      BY <1>7, <2>1 DEF Complete, Deliver, TypeOK, bankr
  <1>8. CASE UNCHANGED rest
    BY <1>8 DEF rest, money, bankr, TypeOK
  <1>9. UNCHANGED rest \/ InvalidOtp(c) \/ SaveKey(c) \/ Transfer(c) \/ Transferred(c)
        \/ TopUp(c) \/ Complete(c) \/ Deliver(c)
    BY DEF Handle, Begin, Start, Look, Expire, AcceptTerms, SendOtp, NoWallet, VerifyOtp, NoKey,
           KeyCreated, Commit, Approve, Disapprove, Reread, Resume, Claim, CheckFails, Hold, Reconcile,
           NoBalance, Balance, TopUpFails, CreditSeen, AskForKey, Die
  <1>10. QED
    BY <1>2, <1>3, <1>4, <1>5, <1>6, <1>7, <1>8, <1>9

\* Tokens are moved by a call about to transfer, once, and which is then no longer so.
LEMMA TransferSteps ==
  ASSUME TypeOK, NEW c \in Calls, Handle(c)
  PROVE  \/ transfers' = transfers
         \/ /\ at[c] = "transferring" /\ at'[c] # "transferring" /\ state' = state
            /\ transfers'[on[c]] \in {transfers[on[c]], transfers[on[c]] + 1}
            /\ \A p \in Purchases \ {on[c]} : transfers'[p] = transfers[p]
  <1>1. on[c] \in Purchases
    BY DEF TypeOK
  <1>2. CASE Transfer(c)
    <2>1. PICK step \in {"moved", "unclear"}, sent \in {0, 1} :
            /\ transfers' = [transfers EXCEPT ![on[c]] = @ + sent]
            /\ Goes(c, step, on[c], saw[c])
      BY <1>2 DEF Transfer
    <2>2. at'[c] = step
      BY <2>1 DEF Goes, TypeOK
    <2>3. transfers'[on[c]] \in {transfers[on[c]], transfers[on[c]] + 1}
          /\ \A p \in Purchases \ {on[c]} : transfers'[p] = transfers[p]
      BY <1>1, <2>1 DEF TypeOK
    <2>4. QED
      BY <1>2, <2>1, <2>2, <2>3 DEF Transfer
  <1>3. CASE InvalidOtp(c) \/ SaveKey(c) \/ Transferred(c) \/ TopUp(c) \/ Complete(c) \/ Deliver(c)
    BY <1>3 DEF InvalidOtp, SaveKey, Transferred, TopUp, Complete, Deliver, money
  <1>4. CASE UNCHANGED rest
    BY <1>4 DEF rest, money
  <1>5. UNCHANGED rest \/ InvalidOtp(c) \/ SaveKey(c) \/ Transfer(c) \/ Transferred(c)
        \/ TopUp(c) \/ Complete(c) \/ Deliver(c)
    BY DEF Handle, Begin, Start, Look, Expire, AcceptTerms, SendOtp, NoWallet, VerifyOtp, NoKey,
           KeyCreated, Commit, Approve, Disapprove, Reread, Resume, Claim, CheckFails, Hold, Reconcile,
           NoBalance, Balance, TopUpFails, CreditSeen, AskForKey, Die
  <1>6. QED
    BY <1>2, <1>3, <1>4, <1>5

\* The key is given with the mark that it was, of a purchase that is then COMPLETE.
LEMMA GivingSteps ==
  ASSUME TypeOK, SawInv, KeyInv, NEW c \in Calls, Handle(c)
  PROVE  \/ delivered' = delivered /\ given' = given
         \/ /\ delivered' = delivered \cup {on[c]} /\ on[c] \notin delivered
            /\ state'[on[c]] = "COMPLETE"
            /\ given'[on[c]] = given[on[c]] + 1
            /\ \A p \in Purchases \ {on[c]} : given'[p] = given[p]
  <1>1. on[c] \in Purchases
    BY DEF TypeOK
  <1>2. CASE Complete(c) /\ Unmoved(c)
    <2>1. state[on[c]] # "COMPLETE" /\ state'[on[c]] = "COMPLETE"
      BY <1>1, <1>2 DEF Complete, Unmoved, Finish, Write, SawInv, Knows, Owing, TypeOK
    <2>2. on[c] \notin delivered
      BY <1>1, <2>1 DEF KeyInv
    <2>3. Gives(on[c])
      BY <1>2 DEF Complete
    <2>4. QED
      BY <1>1, <2>1, <2>2, <2>3 DEF Gives, TypeOK
  <1>3. CASE Deliver(c) /\ MarksDelivered(on[c])
    <2>1. Gives(on[c]) /\ state' = state
      BY <1>3 DEF Deliver
    <2>2. QED
      BY <1>1, <1>3, <2>1 DEF Gives, MarksDelivered, TypeOK
  <1>4. CASE (Complete(c) /\ ~Unmoved(c)) \/ (Deliver(c) /\ ~MarksDelivered(on[c]))
    BY <1>4 DEF Complete, Deliver
  <1>5. CASE InvalidOtp(c) \/ SaveKey(c) \/ Transfer(c) \/ Transferred(c) \/ TopUp(c)
    BY <1>5 DEF InvalidOtp, SaveKey, Transfer, Transferred, TopUp, money
  <1>6. CASE UNCHANGED rest
    BY <1>6 DEF rest, money
  <1>7. UNCHANGED rest \/ InvalidOtp(c) \/ SaveKey(c) \/ Transfer(c) \/ Transferred(c)
        \/ TopUp(c) \/ Complete(c) \/ Deliver(c)
    BY DEF Handle, Begin, Start, Look, Expire, AcceptTerms, SendOtp, NoWallet, VerifyOtp, NoKey,
           KeyCreated, Commit, Approve, Disapprove, Reread, Resume, Claim, CheckFails, Hold, Reconcile,
           NoBalance, Balance, TopUpFails, CreditSeen, AskForKey, Die
  <1>8. QED
    BY <1>2, <1>3, <1>4, <1>5, <1>6, <1>7

\* What the sweep, the clock and Bankr write.
LEMMA SweepSteps ==
  ASSUME TypeOK, NEW q \in Purchases, Sweep(q) \/ TimeOut(q) \/ Land(q)
  PROVE  /\ UNCHANGED <<at, on, saw, transfers, given, delivered, hash, key, tries, owed>>
         /\ late' \in SUBSET Purchases /\ credited' \in SUBSET Purchases
         /\ swept' \in [Purchases -> States]
         /\ \A p \in Purchases : swept'[p] \in {swept[p], "none"} \/ (Due(p) /\ swept'[p] = state[p])
         /\ state' \in [Purchases -> States]
         /\ \A p \in Purchases :
              state'[p] = state[p] \/ (state[p] = swept[p] /\ swept[p] # "none" /\ state'[p] = "COMPLETE")
  <1>1. "none" \in States /\ "COMPLETE" \in States
    BY DEF States, TERMINAL_STATES
  <1>2. CASE SweepLook(q)
    BY <1>2 DEF SweepLook, TypeOK, money, bankr, call
  <1>3. CASE SweepSettle(q)
    BY <1>1, <1>3 DEF SweepSettle, TypeOK, money, bankr, call
  <1>4. CASE SweepFails(q)
    BY <1>1, <1>4 DEF SweepFails, TypeOK, money, bankr, call
  <1>5. CASE TimeOut(q)
    BY <1>5 DEF TimeOut, TypeOK, money, bankr, call
  <1>6. CASE Land(q)
    BY <1>6 DEF Land, TypeOK, bankr, call
  <1>7. QED
    BY <1>2, <1>3, <1>4, <1>5, <1>6 DEF Sweep

-----------------------------------------------------------------------------
(* The invariant.                                                          *)

Inv == TypeOK /\ SawInv /\ MoneyInv /\ KeyInv

LEMMA Start0 ==
  ASSUME Init
  PROVE  Inv
  <1>1. 1 \in Purchases /\ 0 \in 0..MaxOtp
    BY BoundAssumption DEF Purchases
  <1>2. TypeOK
    BY <1>1 DEF Init, TypeOK, States, Steps
  <1>3. SawInv /\ MoneyInv /\ KeyInv
    BY DEF Init, SawInv, Knows, MoneyInv, KeyInv
  <1>4. QED
    BY <1>2, <1>3 DEF Inv

LEMMA HandleKeeps ==
  ASSUME Inv, NEW c \in Calls, Handle(c)
  PROVE  Inv'
  <1>1. TypeOK /\ SawInv /\ MoneyInv /\ KeyInv
    BY DEF Inv
  <1>2. CallStep(c) /\ RowStep(c)
    BY <1>1, HandleSteps
  <1>3. TypeOK'
    BY <1>1, <1>2, RestTypes DEF TypeOK, CallStep, RowStep
  <1>4. SawInv'
    <2>1. \A d \in Calls : Knows(at'[d], saw'[d])
      BY <1>1, <1>2 DEF CallStep, SawInv, Knows
    <2>2. QED
      BY <2>1 DEF SawInv, Knows
  <1>5. MoneyInv'
    <2>1. /\ on[c] \in Purchases
          /\ \A p \in Purchases : transfers[p] \in Nat
          /\ \A d \in Calls : on[d] \in Purchases
      BY <1>1 DEF TypeOK
    <2>2. /\ \A p \in Purchases : transfers[p] <= 1 /\ (state[p] \in Unpaid => transfers[p] = 0)
          /\ \A d \in Calls : at[d] = "transferring" =>
               /\ state[on[d]] \notin Unpaid /\ transfers[on[d]] = 0
               /\ \A e \in Calls : at[e] = "transferring" /\ on[e] = on[d] => d = e
      BY <1>1 DEF MoneyInv
    <2>3. "AWAITING_TRANSFER" \in Unpaid /\ "TRANSFERRING_SINGIT" \notin Unpaid
      BY DEF Unpaid
    <2>4. ASSUME NEW d \in Calls, at'[d] = "transferring"
          PROVE  \/ /\ at[d] = "transferring" /\ on'[d] = on[d] /\ (d # c)
                 \/ /\ d = c /\ on'[c] = on[c] /\ state[on[c]] \in Unpaid
                    /\ state'[on[c]] \notin Unpaid
      BY <1>2, <2>3, <2>4 DEF CallStep
    <2>5. CASE transfers' = transfers
      <3>1. ASSUME NEW p \in Purchases
            PROVE  transfers'[p] <= 1 /\ (state'[p] \in Unpaid => transfers'[p] = 0)
        BY <1>2, <2>1, <2>2, <2>5 DEF RowStep
      <3>2. ASSUME NEW d \in Calls, at'[d] = "transferring"
            PROVE  /\ state'[on'[d]] \notin Unpaid /\ transfers'[on'[d]] = 0
                   /\ \A e \in Calls : at'[e] = "transferring" /\ on'[e] = on'[d] => d = e
        <4>1. CASE d = c
          BY <2>1, <2>2, <2>4, <2>5, <3>2, <4>1
        <4>2. CASE d # c
          <5>1. at[d] = "transferring" /\ on'[d] = on[d] /\ state[on[d]] \notin Unpaid
            BY <2>2, <2>4, <3>2, <4>2
          <5>2. state'[on[d]] \notin Unpaid
            BY <1>2, <2>1, <2>2, <4>2, <5>1 DEF RowStep
          <5>3. QED
            BY <2>1, <2>2, <2>4, <2>5, <5>1, <5>2
        <4>3. QED
          BY <4>1, <4>2
      <3>3. QED
        BY <3>1, <3>2 DEF MoneyInv
    <2>6. CASE transfers' # transfers
      <3>1. /\ at[c] = "transferring" /\ at'[c] # "transferring" /\ state' = state
            /\ transfers'[on[c]] \in {transfers[on[c]], transfers[on[c]] + 1}
            /\ \A p \in Purchases \ {on[c]} : transfers'[p] = transfers[p]
        BY <1>1, <2>6, TransferSteps
      <3>2. \A p \in Purchases : transfers'[p] <= 1 /\ (state'[p] \in Unpaid => transfers'[p] = 0)
        BY <2>1, <2>2, <3>1
      <3>3. ASSUME NEW d \in Calls, at'[d] = "transferring"
            PROVE  /\ state'[on'[d]] \notin Unpaid /\ transfers'[on'[d]] = 0
                   /\ \A e \in Calls : at'[e] = "transferring" /\ on'[e] = on'[d] => d = e
        BY <2>1, <2>2, <2>4, <3>1, <3>3
      <3>4. QED
        BY <3>2, <3>3 DEF MoneyInv
    <2>7. QED
      BY <2>5, <2>6
  <1>6. KeyInv'
    <2>1. swept' = swept
      BY <1>1, RestTypes
    <2>2. /\ \A p \in Purchases : given[p] \in Nat /\ given[p] <= 1
          /\ \A p \in Purchases : p \notin delivered => given[p] = 0
          /\ \A p \in Purchases : p \in delivered => state[p] = "COMPLETE"
          /\ \A p \in Purchases : swept[p] \in {"none", "RECONCILIATION_REQUIRED", "TOPPING_UP_BANKR"}
      BY <1>1 DEF TypeOK, KeyInv
    <2>3. \A p \in Purchases : state[p] = "COMPLETE" => state'[p] = "COMPLETE"
      BY <1>2 DEF RowStep
    <2>4. on[c] \in Purchases
      BY <1>1 DEF TypeOK
    <2>5. CASE delivered' = delivered /\ given' = given
      BY <2>1, <2>2, <2>3, <2>5 DEF KeyInv
    <2>6. CASE ~(delivered' = delivered /\ given' = given)
      <3>1. /\ delivered' = delivered \cup {on[c]} /\ on[c] \notin delivered
            /\ state'[on[c]] = "COMPLETE"
            /\ given'[on[c]] = given[on[c]] + 1
            /\ \A p \in Purchases \ {on[c]} : given'[p] = given[p]
        BY <1>1, <2>6, GivingSteps
      <3>2. QED
        BY <2>1, <2>2, <2>3, <2>4, <3>1 DEF KeyInv
    <2>7. QED
      BY <2>5, <2>6
  <1>7. QED
    BY <1>3, <1>4, <1>5, <1>6 DEF Inv

LEMMA SweepKeeps ==
  ASSUME Inv, NEW q \in Purchases, Sweep(q) \/ TimeOut(q) \/ Land(q)
  PROVE  Inv'
  <1>1. TypeOK /\ SawInv /\ MoneyInv /\ KeyInv
    BY DEF Inv
  <1>2. /\ UNCHANGED <<at, on, saw, transfers, given, delivered, hash, key, tries, owed>>
        /\ late' \in SUBSET Purchases /\ credited' \in SUBSET Purchases
        /\ swept' \in [Purchases -> States]
        /\ \A p \in Purchases : swept'[p] \in {swept[p], "none"} \/ (Due(p) /\ swept'[p] = state[p])
        /\ state' \in [Purchases -> States]
        /\ \A p \in Purchases :
             state'[p] = state[p] \/ (state[p] = swept[p] /\ swept[p] # "none" /\ state'[p] = "COMPLETE")
    BY <1>1, SweepSteps
  <1>3. TypeOK'
    BY <1>1, <1>2 DEF TypeOK
  <1>4. SawInv'
    BY <1>1, <1>2 DEF SawInv, Knows
  <1>5. \A p \in Purchases : /\ state'[p] \in Unpaid => state[p] \in Unpaid
                             /\ state[p] = "COMPLETE" => state'[p] = "COMPLETE"
    BY <1>2 DEF Unpaid
  <1>6. MoneyInv'
    <2>1. \A c \in Calls : on[c] \in Purchases
      BY <1>1 DEF TypeOK
    <2>2. QED
      BY <1>1, <1>2, <1>5, <2>1 DEF MoneyInv
  <1>7. KeyInv'
    BY <1>1, <1>2, <1>5 DEF KeyInv, Due
  <1>8. QED
    BY <1>3, <1>4, <1>6, <1>7 DEF Inv

LEMMA Keeps ==
  ASSUME Inv, [Next]_vars
  PROVE  Inv'
  <1>1. CASE UNCHANGED vars
    BY <1>1 DEF vars, call, bankr, Inv, TypeOK, SawInv, Knows, MoneyInv, KeyInv
  <1>2. CASE Next
    BY <1>2, HandleKeeps, SweepKeeps DEF Next
  <1>3. QED
    BY <1>1, <1>2

THEOREM Invariance == Spec => []Inv
  BY Start0, Keeps, PTL DEF Spec

-----------------------------------------------------------------------------
\* Every variable keeps its type.
THEOREM Typing == Spec => []TypeOK
  <1>1. Inv => TypeOK
    BY DEF Inv
  <1>2. QED
    BY <1>1, Invariance, PTL

\* The tokens of a purchase leave the wallet at most once, and a purchase that is REJECTED or
\* FAILED_BEFORE_TRANSFER has moved none: whichever call writes those states had read the row
\* before it was claimed, or had claimed it and not transferred.
THEOREM TokensMoveOnce == Spec => []TransferOnce
  <1>1. Inv => TransferOnce
    BY DEF Inv, MoneyInv, TransferOnce, Unpaid
  <1>2. QED
    BY <1>1, Invariance, PTL

\* However many calls complete a purchase or ask for its key, one answer carries it.
THEOREM KeyLeavesOnce == Spec => []KeyGivenOnce
  <1>1. Inv => KeyGivenOnce
    BY DEF Inv, KeyInv, KeyGivenOnce
  <1>2. QED
    BY <1>1, Invariance, PTL
=============================================================================
