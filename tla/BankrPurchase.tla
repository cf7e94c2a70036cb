--------------------------- MODULE BankrPurchase ----------------------------
(***************************************************************************)
(* Buying Bankr LLM credit with tokens of the managed wallet, for one      *)
(* buyer: BankrLlmPurchaseService and BankrLlmStore of                     *)
(* sign402_gateway/bankr_llm_purchase.py, the HTTP handlers of server.py   *)
(* that call them, each on a thread of its own, and the sweep that settles *)
(* paid purchases in the background.                                       *)
(*                                                                         *)
(* A call reads the purchase, does something slow with it and then writes  *)
(* with transition(), a compare-and-set on the state it read: each of the  *)
(* three is a step.  Prices, amounts and the spending limits are left out, *)
(* a check of them being a step that may fail, and so is what other        *)
(* purchases do to the balance of the Bankr account.                       *)
(***************************************************************************)
EXTENDS Naturals, FiniteSets

CONSTANTS Calls,          \* BOUND: requests under way at a time
          NumPurchases,   \* BOUND: purchases the buyer makes, one after the other
          MaxOtp          \* max_otp_attempts

ASSUME BoundAssumption == NumPurchases \in Nat \ {0} /\ MaxOtp \in Nat \ {0}

Purchases == 1..NumPurchases

VARIABLES state,        \* of each purchase
          hash,         \* the purchases with a transferHash
          key,          \* those with a saved identity
          tries,        \* otpAttempts
          late,         \* those past their expiresAt
          delivered,    \* those with an apiKeyDeliveredAt
          at, on, saw,  \* of each call: its step, its purchase and the state it read
          swept,        \* the sweep: the state it read of a purchase, or none
          transfers,    \* history: token transfers handed to the network
          given,        \* history: answers that carried the API key
          owed,         \* purchases Bankr has taken a top-up for
          credited      \* and those whose credit has landed

call == <<at, on, saw>>
bankr == <<owed, credited>>
vars == <<state, hash, key, tries, late, delivered, call, swept, transfers, given, bankr>>

TERMINAL_STATES == {"COMPLETE", "REJECTED", "EXPIRED", "FAILED_BEFORE_TRANSFER",
                    "RECONCILIATION_REQUIRED"}
States == TERMINAL_STATES \cup
  {"none", "AWAITING_TERMS", "AWAITING_OTP", "CREATING_BANKR_KEY", "BANKR_KEY_CREATION_UNCERTAIN",
   "BANKR_KEY_CREATED", "AWAITING_IMESSAGE_APPROVAL", "AWAITING_TRANSFER",
   "TRANSFERRING_SINGIT", "TOPPING_UP_BANKR"}
Steps == {"idle", "starting", "looked", "reread", "mailing", "creating", "saved", "keyed", "approving", "resuming",
          "claiming", "transferring", "moved", "unclear", "reconciling", "topping",
          "awaiting", "completing", "delivering"}

\* The type invariant.
TypeOK ==
  /\ state \in [Purchases -> States]
  /\ hash \in SUBSET Purchases /\ key \in SUBSET Purchases
  /\ tries \in [Purchases -> 0..MaxOtp]
  /\ late \in SUBSET Purchases /\ delivered \in SUBSET Purchases
  /\ at \in [Calls -> Steps]
  /\ on \in [Calls -> Purchases]
  /\ saw \in [Calls -> States]
  /\ swept \in [Purchases -> States]
  /\ transfers \in [Purchases -> Nat] /\ given \in [Purchases -> Nat]
  /\ owed \in SUBSET Purchases /\ credited \in SUBSET Purchases

Init ==
  /\ state = [p \in Purchases |-> "none"]
  /\ hash = {} /\ key = {} /\ late = {} /\ delivered = {}
  /\ tries = [p \in Purchases |-> 0]
  /\ at = [c \in Calls |-> "idle"]
  /\ on = [c \in Calls |-> 1]
  /\ saw = [c \in Calls |-> "none"]
  /\ swept = [p \in Purchases |-> "none"]
  /\ transfers = [p \in Purchases |-> 0] /\ given = [p \in Purchases |-> 0]
  /\ owed = {} /\ credited = {}

-----------------------------------------------------------------------------
(* Steps of a call.                                                        *)

Active(p) == state[p] \notin TERMINAL_STATES \cup {"none"}

\* The call goes on with purchase p, which it now believes to be in state s.
Goes(c, step, p, s) ==
  /\ at' = [at EXCEPT ![c] = step]
  /\ on' = [on EXCEPT ![c] = p]
  /\ saw' = [saw EXCEPT ![c] = s]
Ends(c) == Goes(c, "idle", 1, "none")

\* UPDATE ... WHERE purchase_id = ? AND state = ?
NotOver(c) == Active(on[c])
Unmoved(c) == state[on[c]] = saw[c]

Write(c, s) == state' = IF Unmoved(c) THEN [state EXCEPT ![on[c]] = s] ELSE state

\* transition() to s; the call goes on only if the row was still as it read it.
Advance(c, s, step) ==
  /\ Write(c, s)
  /\ IF Unmoved(c) THEN Goes(c, step, on[c], s) ELSE Ends(c)
Finish(c, s) == Write(c, s) /\ Ends(c)

\* In verify_otp a call that lost returns the row as it is by then, and so does one
\* that is done with it; the handler looks at that row.
Rereads(c) == Goes(c, "reread", on[c], "none")
Verify(c, s, step) ==
  /\ Write(c, s)
  /\ IF Unmoved(c) THEN Goes(c, step, on[c], s) ELSE Rereads(c)
Answer(c, s) == Write(c, s) /\ Rereads(c)

money == <<hash, delivered, transfers, given, bankr>>
rest == <<key, tries, late, swept, money>>

-----------------------------------------------------------------------------
(* start, accept_terms, verify_otp.                                        *)

\* start, of a buyer with no purchase under way.
Begin(c) ==
  /\ at[c] = "idle" /\ \A q \in Purchases : ~Active(q)
  /\ \E q \in Purchases : state[q] = "none"
  /\ Goes(c, "starting", 1, "none")
  /\ UNCHANGED <<state, rest>>

\* create_purchase: a new row, or the one that another call has made meanwhile; then the
\* mail with the code, for either, if the terms are accepted.
Start(c) ==
  /\ at[c] = "starting"
  /\ \E p \in Purchases, s \in {"AWAITING_TERMS", "AWAITING_OTP"} :
       /\ \/ /\ \A q \in Purchases : ~Active(q) /\ (q < p <=> state[q] # "none")
             /\ state' = [state EXCEPT ![p] = s]
          \/ Active(p) /\ UNCHANGED state
       /\ IF s = "AWAITING_OTP" THEN Goes(c, "mailing", p, s) ELSE Ends(c)
  /\ UNCHANGED rest

\* get_active_purchase, with which all three begin.
Look(c) ==
  /\ at[c] = "idle"
  /\ \E p \in Purchases : Active(p) /\ Goes(c, "looked", p, state[p])
  /\ UNCHANGED <<state, rest>>

\* _expire_purchase: whatever the state is, if it is none of the terminal ones.
Expire(c) ==
  /\ at[c] = "looked" /\ on[c] \in late
  /\ Answer(c, "EXPIRED")
  /\ UNCHANGED rest
Looked(c, s) == at[c] = "looked" /\ on[c] \notin late /\ saw[c] = s

AcceptTerms(c) ==
  /\ \/ Looked(c, "AWAITING_TERMS") /\ Advance(c, "AWAITING_OTP", "mailing")
     \/ /\ Looked(c, "AWAITING_OTP")
        /\ Goes(c, "mailing", on[c], "AWAITING_OTP") /\ UNCHANGED state
  /\ UNCHANGED rest
SendOtp(c) ==
  /\ at[c] = "mailing"
  /\ \/ Ends(c) /\ UNCHANGED state
     \/ Finish(c, "FAILED_BEFORE_TRANSFER")
  /\ UNCHANGED rest

NoWallet(c) == Looked(c, "AWAITING_OTP") /\ Answer(c, "FAILED_BEFORE_TRANSFER") /\ UNCHANGED rest

\* verify_otp takes the code to Bankr, or goes on with the key an earlier one made.
VerifyOtp(c) ==
  /\ \/ /\ Looked(c, "AWAITING_OTP")
        /\ IF on[c] \in key THEN Verify(c, "BANKR_KEY_CREATED", "keyed")
                            ELSE Verify(c, "CREATING_BANKR_KEY", "creating")
     \/ /\ Looked(c, "BANKR_KEY_CREATED") /\ on[c] \in key
        /\ Goes(c, "keyed", on[c], saw[c]) /\ UNCHANGED state
     \/ /\ Looked(c, "AWAITING_TRANSFER")     \* returned as it is: the handler resumes
        /\ Goes(c, "resuming", on[c], saw[c]) /\ UNCHANGED state
  /\ UNCHANGED rest

\* verify_and_create_key: a wrong code, a refusal, an answer nobody can read, or a key,
\* which is saved before the state moves on.
InvalidOtp(c) ==
  /\ at[c] = "creating"
  /\ LET n == tries[on[c]] + 1 IN
       /\ n <= MaxOtp
       /\ tries' = IF Unmoved(c) THEN [tries EXCEPT ![on[c]] = n] ELSE tries
       /\ Answer(c, IF n >= MaxOtp THEN "EXPIRED" ELSE "AWAITING_OTP")
  /\ UNCHANGED <<key, late, swept, money>>
NoKey(c) ==
  /\ at[c] = "creating"
  /\ \E s \in {"FAILED_BEFORE_TRANSFER", "BANKR_KEY_CREATION_UNCERTAIN"} : Answer(c, s)
  /\ UNCHANGED rest
SaveKey(c) ==
  /\ at[c] = "creating"
  /\ key' = key \cup {on[c]}
  /\ Goes(c, "saved", on[c], saw[c])
  /\ UNCHANGED <<state, tries, late, swept, money>>
KeyCreated(c) ==
  /\ at[c] = "saved"
  /\ Verify(c, "BANKR_KEY_CREATED", "keyed")
  /\ UNCHANGED rest

\* The commitment the buyer approves over iMessage, and the answer.
Commit(c) ==
  /\ at[c] = "keyed"
  /\ Verify(c, "AWAITING_IMESSAGE_APPROVAL", "approving")
  /\ UNCHANGED rest
Approve(c) == at[c] = "approving" /\ Answer(c, "AWAITING_TRANSFER") /\ UNCHANGED rest
Disapprove(c) ==
  /\ at[c] = "approving"
  /\ \E s \in {"EXPIRED", "REJECTED"} : Answer(c, s)
  /\ UNCHANGED rest

\* The handler resumes a row that is returned as approved.
Reread(c) ==
  /\ at[c] = "reread"
  /\ IF state[on[c]] = "AWAITING_TRANSFER" THEN Goes(c, "resuming", on[c], "AWAITING_TRANSFER")
                                           ELSE Ends(c)
  /\ UNCHANGED <<state, rest>>

-----------------------------------------------------------------------------
(* resume and _execute_transfer.                                           *)

\* resume reads the row again; a transfer without a hash it finds is not its own.
Resume(c) ==
  /\ at[c] = "resuming"
  /\ LET s == state[on[c]] IN
       CASE s = "AWAITING_TRANSFER" -> Goes(c, "claiming", on[c], s)
         [] s = "TRANSFERRING_SINGIT" -> Goes(c, "unclear", on[c], s)
         [] s = "TOPPING_UP_BANKR" -> Goes(c, "topping", on[c], s)
         [] OTHER -> Ends(c)
  /\ UNCHANGED <<state, rest>>
Claim(c) ==
  /\ at[c] = "claiming"
  /\ Advance(c, "TRANSFERRING_SINGIT", "transferring")
  /\ UNCHANGED rest

\* Price, wallet, limits and balance are looked at before the key is used.
CheckFails(c) ==
  /\ at[c] = "transferring"
  /\ Finish(c, "FAILED_BEFORE_TRANSFER")
  /\ UNCHANGED rest

\* The transfer; without an answer it may have been made or not.
Transfer(c) ==
  /\ at[c] = "transferring"
  /\ \E step \in {"moved", "unclear"}, sent \in {0, 1} :
       /\ step = "moved" => sent = 1
       /\ transfers' = [transfers EXCEPT ![on[c]] = @ + sent]
       /\ Goes(c, step, on[c], saw[c])
  /\ UNCHANGED <<state, hash, key, tries, late, swept, delivered, given, bankr>>
Transferred(c) ==
  /\ at[c] = "moved"
  /\ hash' = IF Unmoved(c) THEN hash \cup {on[c]} ELSE hash
  /\ Advance(c, "TOPPING_UP_BANKR", "topping")
  /\ UNCHANGED <<key, tries, late, swept, delivered, transfers, given, bankr>>

\* _hold_for_transfer_reconciliation.
Hold(c) == at[c] = "unclear" /\ Finish(c, "RECONCILIATION_REQUIRED") /\ UNCHANGED rest

-----------------------------------------------------------------------------
(* reconcile, _top_up_from_funded_wallet and _complete_purchase.           *)

\* reconcile of any purchase of the buyer's.
Reconcile(c) ==
  /\ at[c] = "idle"
  /\ \E p \in hash :
       /\ state[p] \in {"RECONCILIATION_REQUIRED", "TOPPING_UP_BANKR", "TRANSFERRING_SINGIT"}
       /\ Goes(c, "reconciling", p, state[p])
  /\ UNCHANGED <<state, rest>>

\* The credit balance: unknown, enough, or not yet enough.
NoBalance(c) ==
  /\ at[c] = "reconciling"
  /\ Finish(c, "RECONCILIATION_REQUIRED")
  /\ UNCHANGED rest
Balance(c) ==
  /\ at[c] = "reconciling"
  /\ Goes(c, IF on[c] \in credited THEN "completing" ELSE "topping", on[c], saw[c])
  /\ UNCHANGED <<state, rest>>

\* top_up, with its retries after a plain refusal: taken or not, and known or not.
TopUp(c) ==
  /\ at[c] = "topping"
  /\ \E step \in {"completing", "awaiting"}, taken \in SUBSET {on[c]} :
       /\ step = "completing" => taken = {on[c]}
       /\ owed' = owed \cup taken
       /\ Goes(c, step, on[c], saw[c])
  /\ UNCHANGED <<state, hash, key, tries, late, swept, delivered, transfers, given, credited>>
TopUpFails(c) ==
  /\ at[c] \in {"topping", "awaiting"}     \* refused, or polled for long enough
  /\ Finish(c, "RECONCILIATION_REQUIRED")
  /\ UNCHANGED rest
CreditSeen(c) ==
  /\ at[c] = "awaiting" /\ on[c] \in credited
  /\ Goes(c, "completing", on[c], saw[c])
  /\ UNCHANGED <<state, rest>>

Gives(p) ==
  /\ delivered' = delivered \cup {p}
  /\ given' = [given EXCEPT ![p] = @ + 1]

\* The purchase is complete; the answer carries the key if this call made it so.
Complete(c) ==
  /\ at[c] = "completing"
  /\ IF Unmoved(c) THEN Gives(on[c]) ELSE UNCHANGED <<delivered, given>>
  /\ Finish(c, "COMPLETE")
  /\ UNCHANGED <<hash, key, tries, late, swept, transfers, bankr>>

\* _deliver_completed_key, for reconcile and credits: mark_api_key_delivered decides who.
AskForKey(c) ==
  /\ at[c] = "idle"
  /\ \E p \in Purchases : state[p] = "COMPLETE" /\ p \notin delivered
                          /\ Goes(c, "delivering", p, "COMPLETE")
  /\ UNCHANGED <<state, rest>>
MarksComplete(p) == state[p] = "COMPLETE"
MarksDelivered(p) == state[p] = "COMPLETE" /\ p \notin delivered

Deliver(c) ==
  /\ at[c] = "delivering"
  /\ IF MarksDelivered(on[c]) THEN Gives(on[c]) ELSE UNCHANGED <<delivered, given>>
  /\ Ends(c)
  /\ UNCHANGED <<state, hash, key, tries, late, swept, transfers, bankr>>

\* A call dies: an exception nobody catches, as when SQLite stays locked, or a restart.
Die(c) == at[c] # "idle" /\ Ends(c) /\ UNCHANGED <<state, rest>>

-----------------------------------------------------------------------------
(* The sweep, the clock and Bankr.                                         *)

\* purchases_awaiting_settlement.
DueWhileActive(p) == state[p] = "TOPPING_UP_BANKR" /\ p \in hash /\ p \notin delivered
Due(p) ==
  /\ state[p] \in {"RECONCILIATION_REQUIRED", "TOPPING_UP_BANKR"}
  /\ p \in hash /\ p \notin delivered

\* settle_if_credited reads the row, then the balance, and completes without the key.
SweepLook(p) ==
  /\ swept[p] = "none" /\ Due(p)
  /\ swept' = [swept EXCEPT ![p] = state[p]]
  /\ UNCHANGED <<state, key, tries, late, call, money>>
SweepSettle(p) ==
  /\ swept[p] # "none"
  /\ state' = IF p \in credited /\ state[p] = swept[p]
                THEN [state EXCEPT ![p] = "COMPLETE"] ELSE state
  /\ swept' = [swept EXCEPT ![p] = "none"]
  /\ UNCHANGED <<key, tries, late, call, money>>
\* Bankr does not answer, or the gateway is restarted.
SweepFails(p) ==
  /\ swept[p] # "none"
  /\ swept' = [swept EXCEPT ![p] = "none"]
  /\ UNCHANGED <<state, key, tries, late, call, money>>

\* otp_ttl_seconds have passed since start.
TimeOut(p) ==
  /\ state[p] # "none" /\ p \notin late
  /\ late' = late \cup {p}
  /\ UNCHANGED <<state, key, tries, call, swept, money>>

\* The credit of a top-up lands.
Land(p) ==
  /\ p \in owed \ credited
  /\ credited' = credited \cup {p}
  /\ UNCHANGED <<state, hash, key, tries, late, delivered, call, swept, transfers, given, owed>>

-----------------------------------------------------------------------------
Handle(c) ==
  \/ Begin(c) \/ Start(c) \/ Look(c) \/ Expire(c) \/ AcceptTerms(c) \/ SendOtp(c) \/ NoWallet(c)
  \/ VerifyOtp(c) \/ InvalidOtp(c) \/ NoKey(c) \/ SaveKey(c) \/ KeyCreated(c)
  \/ Commit(c) \/ Approve(c) \/ Disapprove(c) \/ Reread(c)
  \/ Resume(c) \/ Claim(c) \/ CheckFails(c) \/ Transfer(c) \/ Transferred(c) \/ Hold(c)
  \/ Reconcile(c) \/ NoBalance(c) \/ Balance(c) \/ TopUp(c) \/ TopUpFails(c) \/ CreditSeen(c)
  \/ Complete(c) \/ AskForKey(c) \/ Deliver(c) \/ Die(c)
Sweep(p) == SweepLook(p) \/ SweepSettle(p) \/ SweepFails(p)
Next ==
  \/ \E c \in Calls : Handle(c)
  \/ \E p \in Purchases : Sweep(p) \/ TimeOut(p) \/ Land(p)
Spec == Init /\ [][Next]_vars

\* The sweep runs every interval, on a thread that outlives every error of it, and Bankr
\* answers it now and then, within the week for which a purchase is looked at and while
\* fewer than the sweep's twenty are open.  Nothing is asked of the buyer or of any call.
Fairness == \A p \in Purchases : WF_vars(SweepLook(p)) /\ SF_vars(SweepSettle(p))
FairSpec == Spec /\ Fairness

-----------------------------------------------------------------------------
(* Properties.                                                             *)

\* The tokens of a purchase leave the wallet once, however many verify calls see it
\* approved, and never in one that says "No funds moved" after a refusal or a failed
\* check (_telegram_text 2221-2226; EXPIRED is the exception, see the README).
TransferOnce ==
  /\ \A p \in Purchases : transfers[p] <= 1
  /\ \A p \in Purchases :
       state[p] \in {"REJECTED", "FAILED_BEFORE_TRANSFER"} => transfers[p] = 0

\* "two concurrent reconcile calls must not both hand out the key"
\* (mark_api_key_delivered 385-389), nor one of them and the call that completed it.
KeyGivenOnce == \A p \in Purchases : given[p] <= 1

\* The inductive invariant behind the theorems.  SawInv: at each step a call knows in which
\* state it read the row.  MoneyInv: a call about to transfer is the only one, and the row
\* can no longer be in a state that says nothing moved.  KeyInv: a key that is out belongs
\* to a COMPLETE purchase, which no compare-and-set moves again.
Unpaid == {"none", "AWAITING_TERMS", "AWAITING_OTP", "CREATING_BANKR_KEY",
           "BANKR_KEY_CREATION_UNCERTAIN", "BANKR_KEY_CREATED", "AWAITING_IMESSAGE_APPROVAL",
           "AWAITING_TRANSFER", "REJECTED", "FAILED_BEFORE_TRANSFER"}
Owing == {"RECONCILIATION_REQUIRED", "TOPPING_UP_BANKR", "TRANSFERRING_SINGIT"}
Knows(step, s) ==
  /\ step = "looked" => s \notin TERMINAL_STATES \cup {"none"}
  /\ step = "mailing" => s = "AWAITING_OTP"
  /\ step \in {"creating", "saved"} => s = "CREATING_BANKR_KEY"
  /\ step = "keyed" => s = "BANKR_KEY_CREATED"
  /\ step = "approving" => s = "AWAITING_IMESSAGE_APPROVAL"
  /\ step \in {"resuming", "claiming"} => s = "AWAITING_TRANSFER"
  /\ step \in {"transferring", "moved", "unclear"} => s = "TRANSFERRING_SINGIT"
  /\ step \in {"reconciling", "topping", "awaiting", "completing"} => s \in Owing
SawInv == \A c \in Calls : Knows(at[c], saw[c])
MoneyInv ==
  /\ \A p \in Purchases : transfers[p] <= 1 /\ (state[p] \in Unpaid => transfers[p] = 0)
  /\ \A c \in Calls : at[c] = "transferring" =>
       /\ state[on[c]] \notin Unpaid /\ transfers[on[c]] = 0
       /\ \A d \in Calls : at[d] = "transferring" /\ on[d] = on[c] => c = d
KeyInv ==
  \A p \in Purchases :
    /\ given[p] <= 1 /\ (p \notin delivered => given[p] = 0)
    /\ p \in delivered => state[p] = "COMPLETE"
    /\ swept[p] \in {"none", "RECONCILIATION_REQUIRED", "TOPPING_UP_BANKR"}

\* A paid purchase whose credit has landed completes though its buyer never asks again
\* (settle_if_credited: "finishes those purchases on its own"), unless a call that still
\* saw it active has expired it.
PaidSettles ==
  \A p \in Purchases :
    /\ (state[p] = "RECONCILIATION_REQUIRED" /\ p \in hash /\ p \in credited)
         ~> state[p] = "COMPLETE"
    /\ (state[p] = "TOPPING_UP_BANKR" /\ p \in credited)
         ~> state[p] \in {"COMPLETE", "EXPIRED"}
=============================================================================
