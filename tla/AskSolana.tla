----------------------------- MODULE AskSolana ------------------------------
(***************************************************************************)
(* One Solana account's questions to SingIt Ask, from the gateway's journal*)
(* to the chain.  The gateway (sign402_gateway/ask_solana.py) holds a      *)
(* ceiling, runs a Node helper (singit-ask/src/solana-direct-buyer.mjs)    *)
(* and turns the hold into the actual charge; the merchant (singit-ask/src *)
(* /solana-quoted.mjs) prepares the answer, quotes it and settles the      *)
(* payment once; the chain decides what became of it.                      *)
(*                                                                         *)
(* The account's file lock lets one request work at a time: `at` is the    *)
(* step of the one that has it.  What outlives a crash is two files (the   *)
(* journal and the checkpoint the helper writes before it hands the        *)
(* payment over), the holds and rows of the ledger, the merchant's quotes  *)
(* and the chain.  A payment's HTTP request may reach the merchant late,   *)
(* twice, or not at all, and so may the answer.                            *)
(***************************************************************************)
EXTENDS Naturals, FiniteSets

CONSTANTS Requests,         \* the account's questions, each with its own request id
          Deliveries        \* <<request, n>>: BOUND on how often its payment arrives

None == "none"
ASSUME RequestsAssumption == /\ None \notin Requests
                             /\ Deliveries \subseteq Requests \X Nat

VARIABLES at, cur,          \* what the lock's holder does next, and for which request
          expired,          \* recovery: the blockhash was past its last height when read
          asked,            \* requests a pay() was started for
          journal,          \* the request whose journal file exists, or None
          checkpoint, torn, \* the same for the checkpoint; it is not (fully) written
          holds, rows,      \* metered_holds; the number of spends rows of a request
          quote, old,       \* a quote's status; its `expires` is in the past
          offered,          \* quotes whose offer was stored, and answered to the helper
          working,          \* requests whose /prepare handler is running
          prepares,         \* /prepare requests on their way to the merchant
          post,             \* each delivery of a payment, at the merchant and back
          settled,          \* history: deliveries that asked the facilitator to settle
          tx, dead          \* the payment on the chain; past its last valid height

gateway == <<at, cur, expired, asked>>
files == <<journal, checkpoint, torn>>
ledger == <<holds, rows>>
merchant == <<quote, old, offered, working, settled>>
wire == <<prepares, post>>
chain == <<tx, dead>>
vars == <<gateway, files, ledger, merchant, wire, chain>>

Steps == {"idle", "saved", "held", "preparing", "writing", "written", "waiting",
          "refused", "failed", "freed", "confirmed", "complete", "tidy",
          "height", "listing", "charge", "release", "archive", "archiving"}

TypeOK ==
  /\ at \in Steps /\ cur \in Requests \cup {None}
  /\ expired \in BOOLEAN /\ asked \subseteq Requests
  /\ journal \in Requests \cup {None}
  /\ checkpoint \in Requests \cup {None} /\ torn \in BOOLEAN
  /\ holds \subseteq Requests /\ rows \in [Requests -> 0..1]
  /\ quote \in [Requests -> {None, "preparing", "quoted", "settling", "paid", "failed",
                             "expired", "unresolved"}]
  /\ old \in [Requests -> BOOLEAN] /\ offered \subseteq Requests
  /\ working \subseteq Requests /\ prepares \subseteq Requests
  /\ post \in [Deliveries -> {"unsent", "sent", "verifying", "settling",
                                      "refused", "answered", "unclear"}]
  /\ settled \subseteq Deliveries
  /\ tx \in [Requests -> {None, "signed", "open", "landed", "final"}]
  /\ dead \in [Requests -> BOOLEAN]

Init ==
  /\ at = "idle" /\ cur = None /\ expired = FALSE /\ asked = {}
  /\ journal = None /\ checkpoint = None /\ torn = FALSE
  /\ holds = {} /\ rows = [r \in Requests |-> 0]
  /\ quote = [r \in Requests |-> None] /\ old = [r \in Requests |-> FALSE]
  /\ offered = {} /\ working = {} /\ settled = {} /\ prepares = {}
  /\ post = [d \in Deliveries |-> "unsent"]
  /\ tx = [r \in Requests |-> None] /\ dead = [r \in Requests |-> FALSE]

GoTo(step) == at' = step /\ UNCHANGED <<cur, expired, asked>>

-----------------------------------------------------------------------------
(* pay(), up to the helper                                                 *)

\* Neither file is there, the limits allow it: the journal is written first.
Ask(r) ==
  /\ at = "idle" /\ journal = None /\ checkpoint = None
  /\ r \notin asked
  /\ asked' = asked \cup {r} /\ cur' = r
  /\ journal' = r
  /\ at' = "saved"
  /\ UNCHANGED <<expired, checkpoint, torn, ledger, merchant, wire, chain>>

\* reserve_metered().
Reserve ==
  /\ at = "saved"
  /\ holds' = holds \cup {cur}
  /\ GoTo("held")
  /\ UNCHANGED <<files, rows, merchant, wire, chain>>

\* The ledger refuses the hold: `finally` removes the journal.
ReserveRefused ==
  /\ at = "saved"
  /\ journal' = None
  /\ GoTo("idle")
  /\ UNCHANGED <<checkpoint, torn, ledger, merchant, wire, chain>>

\* The grant is revoked, the merchant or the helper fails, the helper is killed at its
\* 240 s: no checkpoint.
NotPrepared ==
  /\ at \in {"held", "preparing"}
  /\ GoTo("failed")
  /\ UNCHANGED <<files, ledger, merchant, wire, chain>>

\* `finally` without a checkpoint: release_metered(), then the journal.
Free ==
  /\ at = "failed"
  /\ holds' = holds \ {cur}
  /\ GoTo("freed")
  /\ UNCHANGED <<files, rows, merchant, wire, chain>>

Forget ==
  /\ at = "freed"
  /\ journal' = None
  /\ GoTo("idle")
  /\ UNCHANGED <<checkpoint, torn, ledger, merchant, wire, chain>>

-----------------------------------------------------------------------------
(* The helper: payDirect()                                                 *)

\* The chain's reads pass; the helper sends the question to the merchant's /prepare.
Prepare ==
  /\ at = "held"
  /\ prepares' = prepares \cup {cur}
  /\ GoTo("preparing")
  /\ UNCHANGED <<files, ledger, merchant, post, chain>>

\* The quote is checked, the payment built and signed, the checkpoint's file opened.
Build ==
  /\ at = "preparing"
  /\ cur \in offered
  /\ tx' = [tx EXCEPT ![cur] = "signed"]
  /\ checkpoint' = cur /\ torn' = TRUE
  /\ GoTo("writing")
  /\ UNCHANGED <<journal, ledger, merchant, wire, dead>>

\* beforeSubmit(): the checkpoint is on disk before the payment leaves.
Write ==
  /\ at = "writing"
  /\ torn' = FALSE
  /\ GoTo("written")
  /\ UNCHANGED <<journal, checkpoint, ledger, merchant, wire, chain>>

Submit ==
  /\ at = "written"
  /\ post' = [d \in Deliveries |-> IF d[1] = cur THEN "sent" ELSE post[d]]
  /\ GoTo("waiting")
  /\ UNCHANGED <<files, ledger, merchant, prepares, chain>>

Answers == {post[d] : d \in {e \in Deliveries : e[1] = cur}}

\* Mutant: any answer but a paid one counts as a refusal.
AnyErrorRefuses ==
  /\ at = "waiting" /\ \E a \in Answers : a \in {"refused", "unclear"}
  /\ GoTo("refused")
  /\ UNCHANGED <<files, ledger, merchant, wire, chain>>

\* One of the REFUSED answers: the merchant ended the request before settlement.
Refused ==
  /\ at = "waiting" /\ "refused" \in Answers
  /\ GoTo("refused")
  /\ UNCHANGED <<files, ledger, merchant, wire, chain>>

\* The answer came, and helper and gateway found its transfer on the chain.
Confirmed ==
  /\ at = "waiting" /\ "answered" \in Answers /\ tx[cur] \in {"landed", "final"}
  /\ GoTo("confirmed")
  /\ UNCHANGED <<files, ledger, merchant, wire, chain>>

\* Any other end once the checkpoint's file exists: a write that failed, an answer that
\* is lost, late or wrong, a node that lags, a ledger that is busy.  All stays as it is.
Keep ==
  /\ at \in {"writing", "written", "waiting", "confirmed"}
  /\ GoTo("idle")
  /\ UNCHANGED <<files, ledger, merchant, wire, chain>>

-----------------------------------------------------------------------------
(* pay(), after the helper                                                 *)

\* Mutant: both files go before the hold is freed.
UnsubmitAll ==
  /\ at = "refused"
  /\ checkpoint' = None /\ journal' = None
  /\ GoTo("failed")
  /\ UNCHANGED <<torn, ledger, merchant, wire, chain>>

\* The refused payment's checkpoint goes first; `finally` then frees the hold.
Unsubmit ==
  /\ at = "refused"
  /\ checkpoint' = None
  /\ GoTo("failed")
  /\ UNCHANGED <<journal, torn, ledger, merchant, wire, chain>>

\* Mutant: a settlement needs no hold.
SettleAgain(next) ==
  /\ holds' = holds \ {cur}
  /\ rows' = [rows EXCEPT ![cur] = @ + 1]
  /\ GoTo(next)

\* settle_metered(): the hold becomes a row, or there is none and nothing changes.
Settle(next) ==
  /\ cur \in holds
  /\ holds' = holds \ {cur}
  /\ rows' = [rows EXCEPT ![cur] = @ + 1]
  /\ GoTo(next)

Charge ==
  /\ at = "confirmed"
  /\ Settle("complete")
  /\ UNCHANGED <<files, merchant, wire, chain>>

\* `finally` of a complete request: the checkpoint, then the journal.
DropCheckpoint ==
  /\ at = "complete"
  /\ checkpoint' = None
  /\ GoTo("tidy")
  /\ UNCHANGED <<journal, torn, ledger, merchant, wire, chain>>

DropJournal ==
  /\ at = "tidy"
  /\ journal' = None
  /\ GoTo("idle")
  /\ UNCHANGED <<checkpoint, torn, ledger, merchant, wire, chain>>

-----------------------------------------------------------------------------
(* _recover(), at the account's next request                               *)

\* No checkpoint: the payment was never handed over.  With one that can be read, the
\* chain is asked; one that cannot be read proves nothing, and the block stays.
Recover ==
  /\ at = "idle"
  /\ \/ journal # None /\ checkpoint = None /\ at' = "release" /\ cur' = journal
     \/ checkpoint # None /\ ~torn /\ at' = "height" /\ cur' = checkpoint
  /\ UNCHANGED <<expired, asked, files, ledger, merchant, wire, chain>>

\* reconcileDirect(): the finalized height first, ...
ReadHeight ==
  /\ at = "height"
  /\ expired' = dead[cur]
  /\ at' = "listing"
  /\ UNCHANGED <<cur, asked, files, ledger, merchant, wire, chain>>

\* Mutant: what is not found now was never paid.
ListUnproven ==
  /\ at = "listing"
  /\ \/ tx[cur] = "final" /\ GoTo(IF journal = cur THEN "charge" ELSE "idle")
     \/ tx[cur] # "final" /\ GoTo("release")
  /\ UNCHANGED <<files, ledger, merchant, wire, chain>>

\* ... then the listing, answered at that height or later.  Paid needs the journal's hold
\* and request id; without them the payment is left for review.
List ==
  /\ at = "listing"
  /\ \/ tx[cur] = "final" /\ GoTo(IF journal = cur THEN "charge" ELSE "idle")
     \/ tx[cur] # "final" /\ GoTo(IF expired THEN "release" ELSE "idle")
  /\ UNCHANGED <<files, ledger, merchant, wire, chain>>

\* A node that fails, a helper that is killed: asked again with the next request.
NoProof ==
  /\ at \in {"height", "listing"}
  /\ GoTo("idle")
  /\ UNCHANGED <<files, ledger, merchant, wire, chain>>

ChargeFound ==
  /\ at = "charge"
  /\ Settle("archive")
  /\ UNCHANGED <<files, merchant, wire, chain>>

\* settle_metered() finds no hold, or the ledger is busy.
ChargeRefused ==
  /\ at = "charge"
  /\ GoTo("idle")
  /\ UNCHANGED <<files, ledger, merchant, wire, chain>>

\* release_metered(), for the hold the journal names.
Release ==
  /\ at = "release"
  /\ holds' = holds \ {journal}
  /\ GoTo("archive")
  /\ UNCHANGED <<files, rows, merchant, wire, chain>>

\* _archive(): the journal is moved away, then the checkpoint.
ArchiveJournal ==
  /\ at = "archive"
  /\ journal' = None
  /\ GoTo("archiving")
  /\ UNCHANGED <<checkpoint, torn, ledger, merchant, wire, chain>>

ArchiveCheckpoint ==
  /\ at = "archiving"
  /\ checkpoint' = None
  /\ GoTo("idle")
  /\ UNCHANGED <<journal, torn, ledger, merchant, wire, chain>>

\* The gateway dies, and the helper with it; files, ledger and what was sent remain.
Crash ==
  /\ at # "idle"
  /\ GoTo("idle")
  /\ UNCHANGED <<files, ledger, merchant, wire, chain>>

-----------------------------------------------------------------------------
(* The merchant                                                            *)

Pending == \E r \in Requests : quote[r] = "settling" /\ ~old[r]

\* /prepare, up to the model's answer: QuoteStore.create().  A settlement of the account
\* that is still in time refuses the request; an unpaid quote is abandoned.
Create(r) ==
  /\ r \in prepares
  /\ prepares' = prepares \ {r}
  /\ IF Pending
     THEN UNCHANGED <<quote, old, working>>
     ELSE /\ quote' = [s \in Requests |->
                         IF s = r THEN "preparing"
                         ELSE IF quote[s] \in {"preparing", "quoted"} THEN "expired"
                         ELSE quote[s]]
          /\ old' = [old EXCEPT ![r] = FALSE]
          /\ working' = working \cup {r}
  /\ UNCHANGED <<gateway, files, ledger, offered, settled, post, chain>>

\* Mutant: the quote becomes payable whatever its status.
ReadyAnyway(r) ==
  /\ r \in working
  /\ working' = working \ {r}
  /\ quote' = [quote EXCEPT ![r] = "quoted"]
  /\ offered' = offered \cup {r}
  /\ old' = [old EXCEPT ![r] = FALSE]
  /\ UNCHANGED <<gateway, files, ledger, settled, wire, chain>>

\* The answer is there and the offer stored, if the quote is still being prepared; the
\* helper is sent the offer.
Ready(r) ==
  /\ r \in working /\ quote[r] = "preparing"
  /\ working' = working \ {r}
  /\ quote' = [quote EXCEPT ![r] = "quoted"]
  /\ offered' = offered \cup {r}
  /\ old' = [old EXCEPT ![r] = FALSE]
  /\ UNCHANGED <<gateway, files, ledger, settled, wire, chain>>

\* The model fails, or ready() finds the quote abandoned.
NotReady(r) ==
  /\ r \in working
  /\ working' = working \ {r}
  /\ quote' = [quote EXCEPT ![r] = "failed"]
  /\ UNCHANGED <<gateway, files, ledger, old, offered, settled, wire, chain>>

Reply(d, answer) == post' = [post EXCEPT ![d] = answer]

\* Mutant: a quote is claimed whatever its status.
ClaimAnyway(d) ==
  /\ post[d] = "sent" /\ Reply(d, "verifying")
  /\ quote' = [quote EXCEPT ![d[1]] = "settling"]
  /\ UNCHANGED <<gateway, files, ledger, old, offered, working, settled, prepares, chain>>

\* A payment arrives for a quote that is open and in time: claim(), before any call.
Claim(d) ==
  /\ post[d] = "sent" /\ Reply(d, "verifying")
  /\ quote[d[1]] = "quoted" /\ ~old[d[1]]
  /\ quote' = [quote EXCEPT ![d[1]] = "settling"]
  /\ UNCHANGED <<gateway, files, ledger, old, offered, working, settled, prepares, chain>>

\* It arrives for any other: paid or being settled, which says nothing of this payment,
\* or a quote that can no longer be paid (quote_unavailable).
TurnAway(d) ==
  /\ post[d] = "sent"
  /\ Reply(d, IF quote[d[1]] \in {"paid", "settling", "unresolved"}
              THEN "unclear" ELSE "refused")
  /\ quote[d[1]] = "quoted" => old[d[1]]
  /\ UNCHANGED <<gateway, files, ledger, merchant, prepares, chain>>

\* The facilitator does not verify it, or does not answer: nothing was submitted.
VerifyFails(d) ==
  /\ post[d] = "verifying" /\ Reply(d, "refused")
  /\ quote' = [quote EXCEPT ![d[1]] = "failed"]
  /\ UNCHANGED <<gateway, files, ledger, old, offered, working, settled, prepares, chain>>

\* Verified: the facilitator is asked to settle, and has the payment from then on.
AskToSettle(d) ==
  /\ post[d] = "verifying" /\ Reply(d, "settling")
  /\ settled' = settled \cup {d}
  /\ tx' = [tx EXCEPT ![d[1]] = IF @ = "signed" THEN "open" ELSE @]
  /\ UNCHANGED <<gateway, files, ledger, quote, old, offered, working, prepares, dead>>

\* Its receipt names a transaction: paid(), and the answer is handed out.
Paid(d) ==
  /\ post[d] = "settling" /\ Reply(d, "answered")
  /\ tx[d[1]] \in {"landed", "final"}
  /\ quote' = [quote EXCEPT ![d[1]] = IF @ = "settling" THEN "paid" ELSE @]
  /\ UNCHANGED <<gateway, files, ledger, old, offered, working, settled, prepares, chain>>

\* No receipt, a bad one, or an error after it: for review, and never settled again.
Unresolved(d) ==
  /\ post[d] = "settling" /\ Reply(d, "unclear")
  /\ quote' = [quote EXCEPT ![d[1]] = "unresolved"]
  /\ UNCHANGED <<gateway, files, ledger, old, offered, working, settled, prepares, chain>>

\* The merchant restarts: its handlers are gone, the quotes stay as they were.
MerchantCrash ==
  /\ \/ working # {}
     \/ \E d \in Deliveries : post[d] \in {"verifying", "settling"}
  /\ working' = {}
  /\ post' = [d \in Deliveries |->
                IF post[d] \in {"verifying", "settling"} THEN "unclear" ELSE post[d]]
  /\ UNCHANGED <<gateway, files, ledger, quote, old, offered, settled, prepares, chain>>

\* Five minutes after it was created or made ready, a quote is past its time.
Age(r) ==
  /\ quote[r] # None /\ ~old[r]
  /\ old' = [old EXCEPT ![r] = TRUE]
  /\ UNCHANGED <<gateway, files, ledger, quote, offered, working, settled, wire, chain>>

-----------------------------------------------------------------------------
(* The chain                                                               *)

Land(r) ==
  /\ tx[r] = "open" /\ ~dead[r]
  /\ tx' = [tx EXCEPT ![r] = "landed"]
  /\ UNCHANGED <<gateway, files, ledger, merchant, wire, dead>>

Finalize(r) ==
  /\ tx[r] = "landed"
  /\ tx' = [tx EXCEPT ![r] = "final"]
  /\ UNCHANGED <<gateway, files, ledger, merchant, wire, dead>>

\* The finalized height passes the payment's last valid one: what has landed by then is
\* finalized too.
Expire(r) ==
  /\ tx[r] \in {"signed", "open", "final"} /\ ~dead[r]
  /\ dead' = [dead EXCEPT ![r] = TRUE]
  /\ UNCHANGED <<gateway, files, ledger, merchant, wire, tx>>

-----------------------------------------------------------------------------
Pay == \/ \E r \in Requests : Ask(r)
       \/ Reserve \/ ReserveRefused \/ NotPrepared \/ Free \/ Forget
       \/ Prepare \/ Build \/ Write \/ Submit \/ Refused \/ Confirmed \/ Keep
       \/ Unsubmit \/ Charge \/ DropCheckpoint \/ DropJournal
Settling == \/ Recover \/ ReadHeight \/ List \/ NoProof \/ ChargeFound \/ ChargeRefused
            \/ Release \/ ArchiveJournal \/ ArchiveCheckpoint
Merchant == \/ \E r \in Requests : Create(r) \/ Ready(r) \/ NotReady(r) \/ Age(r)
            \/ \E d \in Deliveries :
                 \/ Claim(d) \/ TurnAway(d) \/ VerifyFails(d) \/ AskToSettle(d)
                 \/ Paid(d) \/ Unresolved(d)
            \/ MerchantCrash
Chain == \E r \in Requests : Land(r) \/ Finalize(r) \/ Expire(r)

Next == Pay \/ Settling \/ Crash \/ Merchant \/ Chain

Spec == Init /\ [][Next]_vars

\* A request goes on (the helper is killed at 240 s), the account asks again now and then
\* and the chain's node answers now and then, whatever crashes in between; heights grow
\* and what has landed is finalized.
Fairness ==
  /\ WF_vars((Pay \/ Settling) /\ at # "idle") /\ WF_vars(Recover)
  /\ SF_vars(ReadHeight) /\ SF_vars(List) /\ SF_vars(ChargeFound) /\ SF_vars(Release)
  /\ \A r \in Requests : WF_vars(Finalize(r)) /\ WF_vars(Expire(r))

FairSpec == Spec /\ Fairness

-----------------------------------------------------------------------------
(* Properties                                                              *)

\* The payment of r may still move money: the facilitator has it, or the merchant may
\* come to hand it over.
Claimable(r) == quote[r] = "quoted" /\ ~old[r]
MayLand(r) ==
  /\ ~dead[r]
  /\ \/ tx[r] = "open"
     \/ /\ tx[r] = "signed"
        /\ \E d \in Deliveries : /\ d[1] = r
                                 /\ \/ post[d] = "verifying"
                                    \/ post[d] = "sent" /\ Claimable(r)
Landed(r) == tx[r] \in {"landed", "final"}

\* Room is given back only for a payment that can never land: as long as one may, or
\* has, the hold or its charge is in the ledger, across lost answers, refusals, crashes
\* and recoveries (_recover 140-147, pay 246-249 and 270-275).
CountedWhileOpen ==
  \A r \in Requests : MayLand(r) \/ Landed(r) => r \in holds \/ rows[r] > 0

\* A second payment of the account is never open beside a first whose fate is unknown:
\* "An uncertain submitted payment ... blocks retry" (module docstring 1-5).
OnePaymentOpen ==
  \A r, s \in Requests : MayLand(r) /\ MayLand(s) => r = s

\* However often a payment is delivered, and wherever the merchant restarts, settlement
\* is asked for once (solana-quoted.mjs 133-134; README "cannot settle again").
SettledOnce ==
  \A d, e \in settled : d[1] = e[1] => d = e

\* "Only one live quote per owner/agent exists" (singit-ask README 105-106): also when
\* a /prepare arrives after its helper's death, or an answer after its quote was abandoned.
Live(r) == quote[r] \in {"preparing", "quoted"} \/ (quote[r] = "settling" /\ ~old[r])
OneLiveQuote == \A r, s \in Requests : Live(r) /\ Live(s) => r = s

\* The inductive invariants behind the theorems.  QuoteInv: a quote's life, and who may
\* still settle it.  FileInv: what the files say of the ledger.  StageInv: what each step
\* of the lock's holder knows.
Unseen(r) == /\ quote[r] = None /\ r \notin prepares \cup offered \cup working
             /\ tx[r] = None
Over(r) == quote[r] \in {"failed", "expired"} \/ (quote[r] = "quoted" /\ old[r])
NeverPaid(r) == tx[r] = None \/ (tx[r] = "signed" /\ Over(r))
QuoteInv ==
  /\ \A r \in Requests :
       /\ r \in prepares => quote[r] = None /\ r \notin offered \cup working
       /\ r \in working => r \notin offered
       /\ quote[r] \in {"quoted", "settling", "paid", "unresolved"} => r \in offered
       /\ r \in offered => quote[r] \notin {None, "preparing"} /\ r \notin prepares
       /\ tx[r] # None => r \in offered
       /\ dead[r] => tx[r] # "landed"
       /\ tx[r] \in {"open", "landed", "final"} =>
            quote[r] \in {"settling", "paid", "unresolved"}
            /\ \A d \in Deliveries : d[1] = r => post[d] # "verifying"
  /\ \A d \in Deliveries :
       /\ post[d] # "unsent" => tx[d[1]] # None
       /\ post[d] = "verifying" => /\ quote[d[1]] = "settling"
                                   /\ \A e \in Deliveries : e[1] = d[1] =>
                                        /\ e \notin settled
                                        /\ post[e] = "verifying" => e = d
       /\ post[d] = "settling" => d \in settled
       /\ post[d] = "refused" => Over(d[1])
       /\ post[d] = "answered" => Landed(d[1])
       /\ d \in settled => /\ quote[d[1]] \in {"settling", "paid", "unresolved"}
                           /\ tx[d[1]] \in {"open", "landed", "final"}

FileInv ==
  /\ \A r \in holds : journal = r /\ rows[r] = 0
  /\ checkpoint # None => journal \in {checkpoint, None}
  /\ checkpoint = None => \A r \in holds : NeverPaid(r)
  /\ \A r \in Requests : rows[r] > 0 => Landed(r)
  /\ \A r \in Requests \ asked : Unseen(r) /\ rows[r] = 0 /\ r \notin {journal, checkpoint}

Before == {"saved", "held", "preparing"}
Under == {"writing", "written", "waiting", "refused", "confirmed"}
After == {"failed", "freed", "complete", "tidy"}
Probing == {"height", "listing", "charge"}
StageInv ==
  /\ at # "idle" => cur \in asked
  /\ at \in Before \cup Under \cup After => journal = cur
  /\ at \in Under \cup {"complete"} \cup Probing => checkpoint = cur
  /\ at \in Before \cup {"failed", "freed", "tidy"} => checkpoint = None
  /\ at \in {"held", "preparing"} \cup Under => cur \in holds
  /\ at \in {"saved", "freed", "complete", "tidy", "archive"} => cur \notin holds
  /\ at \in {"saved", "held"} => Unseen(cur)
  /\ at = "saved" => rows[cur] = 0
  /\ at = "preparing" => tx[cur] = None
  /\ at \in {"writing", "written", "waiting", "refused"} => tx[cur] # None
  /\ at \in {"refused", "failed", "freed"} => NeverPaid(cur)
  /\ at \in {"confirmed", "complete", "tidy", "charge"} => Landed(cur)
  /\ at \in {"complete", "tidy"} => rows[cur] = 1
  /\ at = "charge" => journal = cur
  /\ at = "listing" /\ expired => dead[cur]
  /\ at = "release" => /\ journal \in {cur, None}
                       /\ ~MayLand(cur) /\ (~Landed(cur) \/ cur \notin holds)
  /\ at \in {"archive", "archiving"} => journal \in {cur, None}
  /\ at = "archiving" => journal = None

\* Each request's hold keeps the promise of MeteredHold: money moves only under a hold,
\* a hold whose money moved becomes a charge, once.
Hold == INSTANCE MeteredHold WITH
  Questions <- Requests,
  hold <- [r \in Requests |-> IF r \in holds THEN "open"
                              ELSE IF rows[r] = 0 THEN "none"
                              ELSE IF rows[r] = 1 THEN "charged" ELSE "twice"],
  moved <- {r \in Requests : Landed(r)}
ImplementsHold == Hold!Spec

\* No hold eats the day's room for ever: it is settled or released, unless its
\* checkpoint cannot be read (_recover 140-173).
HoldsResolve ==
  \A r \in Requests : r \in holds ~> r \notin holds \/ (checkpoint = r /\ torn)

-----------------------------------------------------------------------------
(* What the documentation says of recovery                                 *)

\* "With one, the chain decides" and anything else keeps the block "until the chain can
\* tell" (_recover 144-145): a readable checkpoint is settled up in the end.
ChainDecides == (checkpoint # None /\ ~torn) ~> (checkpoint = None)
=============================================================================
