-------------------------- MODULE AskSolanaProofs --------------------------
(* Theorems about AskSolana, for any number of requests and deliveries.  A   *)
(* step is either one of the merchant and the chain, which leaves the files, *)
(* the ledger and the lock's holder alone (WorldStep), or one of the account,*)
(* which leaves the merchant and the chain alone but for Prepare, Build and  *)
(* Submit (OwnStep).                                                         *)
EXTENDS AskSolana, TLAPS

\* The two sides, and the inductive invariant of every theorem below.
World == Merchant \/ Chain
Own == Pay \/ Settling \/ Crash
Invs == TypeOK /\ QuoteInv /\ FileInv /\ StageInv /\ CountedWhileOpen

\* A delivery is one of some request of the account.
LEMMA Names == None \notin Requests /\ \A d \in Deliveries : d[1] \in Requests
  BY RequestsAssumption

-----------------------------------------------------------------------------
(* What the merchant and the chain may do to a request's payment             *)

\* No step of theirs lets a payment land that could not before, or takes back that one has
\* landed, was refused, was never seen or is past its last height.
LEMMA WorldStep ==
  ASSUME Invs, World, NEW r \in Requests
  PROVE  /\ MayLand(r)' => MayLand(r)
         /\ Landed(r)' => Landed(r) \/ MayLand(r)
         /\ Landed(r) => Landed(r)'
         /\ NeverPaid(r) => NeverPaid(r)'
         /\ Unseen(r) => Unseen(r)'
         /\ (tx'[r] = None) = (tx[r] = None)
         /\ dead[r] => dead'[r]
  <1> DEFINE Goal ==
         /\ MayLand(r)' => MayLand(r)
         /\ Landed(r)' => Landed(r) \/ MayLand(r)
         /\ Landed(r) => Landed(r)'
         /\ NeverPaid(r) => NeverPaid(r)'
         /\ Unseen(r) => Unseen(r)'
         /\ (tx'[r] = None) = (tx[r] = None)
         /\ dead[r] => dead'[r]
  <1> USE Names DEF None, Invs, TypeOK, QuoteInv, MayLand, Landed, Claimable, NeverPaid,
        Unseen, Over, gateway, files, ledger, merchant, wire, chain
  <1>1. ASSUME NEW s \in Requests, Create(s) PROVE Goal
    BY <1>1 DEF Create
  <1>2. ASSUME NEW s \in Requests, Ready(s) PROVE Goal
    BY <1>2 DEF Ready
  <1>3. ASSUME NEW s \in Requests, NotReady(s) PROVE Goal
    BY <1>3 DEF NotReady
  <1>4. ASSUME NEW s \in Requests, Age(s) PROVE Goal
    BY <1>4 DEF Age
  <1>5. ASSUME NEW s \in Requests, Land(s) PROVE Goal
    BY <1>5 DEF Land
  <1>6. ASSUME NEW s \in Requests, Finalize(s) PROVE Goal
    BY <1>6 DEF Finalize
  <1>7. ASSUME NEW s \in Requests, Expire(s) PROVE Goal
    BY <1>7 DEF Expire
  <1>8. ASSUME NEW d \in Deliveries, Claim(d) PROVE Goal
    BY <1>8 DEF Claim, Reply
  <1>9. ASSUME NEW d \in Deliveries, TurnAway(d) PROVE Goal
    BY <1>9 DEF TurnAway, Reply
  <1>10. ASSUME NEW d \in Deliveries, VerifyFails(d) PROVE Goal
    BY <1>10 DEF VerifyFails, Reply
  <1>11. ASSUME NEW d \in Deliveries, AskToSettle(d) PROVE Goal
    BY <1>11 DEF AskToSettle, Reply
  <1>12. ASSUME NEW d \in Deliveries, Paid(d) PROVE Goal
    BY <1>12 DEF Paid, Reply
  <1>13. ASSUME NEW d \in Deliveries, Unresolved(d) PROVE Goal
    BY <1>13 DEF Unresolved, Reply
  <1>14. ASSUME MerchantCrash PROVE Goal
    BY <1>14 DEF MerchantCrash
  <1>15. QED
    BY <1>1, <1>2, <1>3, <1>4, <1>5, <1>6, <1>7, <1>8, <1>9, <1>10, <1>11,
       <1>12, <1>13, <1>14 DEF World, Merchant, Chain

\* They write no file of the account and no row of its ledger.
LEMMA WorldFrame ==
  ASSUME World
  PROVE  UNCHANGED <<gateway, files, ledger>>
  BY DEF World, Merchant, Chain, gateway, files, ledger, merchant, wire,
     chain, Create, Ready, NotReady, Age, Claim, TurnAway, VerifyFails,
     AskToSettle, Paid, Unresolved, MerchantCrash, Land, Finalize, Expire

\* The account reaches the merchant and the chain in three steps only.
LEMMA OwnStep ==
  ASSUME Own
  PROVE  \/ UNCHANGED <<merchant, wire, chain>>
         \/ Prepare \/ Build \/ Submit
  BY DEF Own, Pay, Settling, gateway, files, ledger, merchant, wire, chain,
     Ask, GoTo, Settle, Reserve, ReserveRefused, NotPrepared, Free, Forget,
     Write, Refused, Confirmed, Keep, Unsubmit, Charge, DropCheckpoint,
     DropJournal, Recover, ReadHeight, List, NoProof, ChargeFound,
     ChargeRefused, Release, ArchiveJournal, ArchiveCheckpoint, Crash

\* A payment that was refused, or never built, can neither land nor have landed.
LEMMA NeverMeansNever ==
  ASSUME Invs, NEW r \in Requests, NeverPaid(r)
  PROVE  ~MayLand(r) /\ ~Landed(r)
  BY Names DEF Invs, QuoteInv, TypeOK, NeverPaid, MayLand, Landed, Over, Claimable, None

\* What the account's own steps leave as it is.
LEMMA SameWorld ==
  ASSUME UNCHANGED <<merchant, wire, chain>>, NEW r \in Requests
  PROVE  /\ MayLand(r)' = MayLand(r)
         /\ Landed(r)' = Landed(r)
         /\ NeverPaid(r)' = NeverPaid(r)
         /\ Unseen(r)' = Unseen(r)
         /\ tx'[r] = tx[r] /\ dead'[r] = dead[r]
  BY DEF MayLand, Landed, NeverPaid, Unseen, Over, Claimable, merchant, wire, chain

-----------------------------------------------------------------------------
(* The inductive invariant                                                   *)

\* Every step keeps the types; a settlement finds its row absent.
LEMMA TypeStep == ASSUME Invs, [Next]_vars PROVE TypeOK'
  <1> USE Names DEF None, Invs, TypeOK, gateway, files, ledger, merchant, wire, chain
  <1>1. ASSUME NEW s \in Requests, Create(s) PROVE TypeOK'
    <2>1. quote' \in [Requests -> {None, "preparing", "quoted", "settling", "paid",
                                   "failed", "expired", "unresolved"}]
      BY <1>1 DEF Create
    <2> QED
      BY <1>1, <2>1 DEF Create
  <1>2. ASSUME NEW s \in Requests, Ready(s) PROVE TypeOK'
    BY <1>2 DEF Ready
  <1>3. ASSUME NEW s \in Requests, NotReady(s) PROVE TypeOK'
    BY <1>3 DEF NotReady
  <1>4. ASSUME NEW s \in Requests, Age(s) PROVE TypeOK'
    BY <1>4 DEF Age
  <1>5. ASSUME NEW s \in Requests, Land(s) PROVE TypeOK'
    BY <1>5 DEF Land
  <1>6. ASSUME NEW s \in Requests, Finalize(s) PROVE TypeOK'
    BY <1>6 DEF Finalize
  <1>7. ASSUME NEW s \in Requests, Expire(s) PROVE TypeOK'
    BY <1>7 DEF Expire
  <1>8. ASSUME NEW d \in Deliveries, Claim(d) PROVE TypeOK'
    BY <1>8 DEF Claim, Reply
  <1>9. ASSUME NEW d \in Deliveries, TurnAway(d) PROVE TypeOK'
    BY <1>9 DEF TurnAway, Reply
  <1>10. ASSUME NEW d \in Deliveries, VerifyFails(d) PROVE TypeOK'
    BY <1>10 DEF VerifyFails, Reply
  <1>11. ASSUME NEW d \in Deliveries, AskToSettle(d) PROVE TypeOK'
    BY <1>11 DEF AskToSettle, Reply
  <1>12. ASSUME NEW d \in Deliveries, Paid(d) PROVE TypeOK'
    BY <1>12 DEF Paid, Reply
  <1>13. ASSUME NEW d \in Deliveries, Unresolved(d) PROVE TypeOK'
    BY <1>13 DEF Unresolved, Reply
  <1>14. ASSUME MerchantCrash PROVE TypeOK'
    BY <1>14 DEF MerchantCrash
  <1>15. ASSUME NEW s \in Requests, Ask(s) PROVE TypeOK'
    BY <1>15 DEF Ask, Steps, StageInv, Before, Under, After, Probing,
       FileInv
  <1>16. ASSUME Reserve PROVE TypeOK'
    BY <1>16 DEF Reserve, GoTo, Steps, StageInv, Before, Under, After,
       Probing, FileInv
  <1>17. ASSUME ReserveRefused PROVE TypeOK'
    BY <1>17 DEF ReserveRefused, GoTo, Steps, StageInv, Before, Under,
       After, Probing, FileInv
  <1>18. ASSUME NotPrepared PROVE TypeOK'
    BY <1>18 DEF NotPrepared, GoTo, Steps, StageInv, Before, Under, After,
       Probing, FileInv
  <1>19. ASSUME Free PROVE TypeOK'
    BY <1>19 DEF Free, GoTo, Steps, StageInv, Before, Under, After, Probing,
       FileInv
  <1>20. ASSUME Forget PROVE TypeOK'
    BY <1>20 DEF Forget, GoTo, Steps, StageInv, Before, Under, After,
       Probing, FileInv
  <1>21. ASSUME Write PROVE TypeOK'
    BY <1>21 DEF Write, GoTo, Steps, StageInv, Before, Under, After,
       Probing, FileInv
  <1>22. ASSUME Refused PROVE TypeOK'
    BY <1>22 DEF Refused, GoTo, Steps, StageInv, Before, Under, After,
       Probing, FileInv
  <1>23. ASSUME Confirmed PROVE TypeOK'
    BY <1>23 DEF Confirmed, GoTo, Steps, StageInv, Before, Under, After,
       Probing, FileInv
  <1>24. ASSUME Keep PROVE TypeOK'
    BY <1>24 DEF Keep, GoTo, Steps, StageInv, Before, Under, After, Probing,
       FileInv
  <1>25. ASSUME Unsubmit PROVE TypeOK'
    BY <1>25 DEF Unsubmit, GoTo, Steps, StageInv, Before, Under, After,
       Probing, FileInv
  <1>26. ASSUME Charge PROVE TypeOK'
    BY <1>26 DEF Charge, GoTo, Settle, Steps, StageInv, Before, Under,
       After, Probing, FileInv
  <1>27. ASSUME DropCheckpoint PROVE TypeOK'
    BY <1>27 DEF DropCheckpoint, GoTo, Steps, StageInv, Before, Under,
       After, Probing, FileInv
  <1>28. ASSUME DropJournal PROVE TypeOK'
    BY <1>28 DEF DropJournal, GoTo, Steps, StageInv, Before, Under, After,
       Probing, FileInv
  <1>29. ASSUME Prepare PROVE TypeOK'
    BY <1>29 DEF Prepare, GoTo, Steps, StageInv, Before, Under, After,
       Probing, FileInv
  <1>30. ASSUME Build PROVE TypeOK'
    BY <1>30 DEF Build, GoTo, Steps, StageInv, Before, Under, After,
       Probing, FileInv
  <1>31. ASSUME Submit PROVE TypeOK'
    BY <1>31 DEF Submit, GoTo, Steps, StageInv, Before, Under, After,
       Probing, FileInv
  <1>32. ASSUME Recover PROVE TypeOK'
    BY <1>32 DEF Recover, GoTo, Steps, StageInv, Before, Under, After,
       Probing, FileInv
  <1>33. ASSUME ReadHeight PROVE TypeOK'
    BY <1>33 DEF ReadHeight, GoTo, Steps, StageInv, Before, Under, After,
       Probing, FileInv
  <1>34. ASSUME List PROVE TypeOK'
    BY <1>34 DEF List, GoTo, Steps, StageInv, Before, Under, After, Probing,
       FileInv
  <1>35. ASSUME NoProof PROVE TypeOK'
    BY <1>35 DEF NoProof, GoTo, Steps, StageInv, Before, Under, After,
       Probing, FileInv
  <1>36. ASSUME ChargeFound PROVE TypeOK'
    BY <1>36 DEF ChargeFound, GoTo, Settle, Steps, StageInv, Before, Under,
       After, Probing, FileInv
  <1>37. ASSUME ChargeRefused PROVE TypeOK'
    BY <1>37 DEF ChargeRefused, GoTo, Steps, StageInv, Before, Under, After,
       Probing, FileInv
  <1>38. ASSUME Release PROVE TypeOK'
    BY <1>38 DEF Release, GoTo, Steps, StageInv, Before, Under, After,
       Probing, FileInv
  <1>39. ASSUME ArchiveJournal PROVE TypeOK'
    BY <1>39 DEF ArchiveJournal, GoTo, Steps, StageInv, Before, Under,
       After, Probing, FileInv
  <1>40. ASSUME ArchiveCheckpoint PROVE TypeOK'
    BY <1>40 DEF ArchiveCheckpoint, GoTo, Steps, StageInv, Before, Under,
       After, Probing, FileInv
  <1>41. ASSUME Crash PROVE TypeOK'
    BY <1>41 DEF Crash, GoTo, Steps, StageInv, Before, Under, After,
       Probing, FileInv
  <1>42. QED
    BY <1>1, <1>2, <1>3, <1>4, <1>5, <1>6, <1>7, <1>8, <1>9, <1>10, <1>11,
       <1>12, <1>13, <1>14, <1>15, <1>16, <1>17, <1>18, <1>19, <1>20, <1>21,
       <1>22, <1>23, <1>24, <1>25, <1>26, <1>27, <1>28, <1>29, <1>30, <1>31,
       <1>32, <1>33, <1>34, <1>35, <1>36, <1>37, <1>38, <1>39, <1>40, <1>41
       DEF Own, World, Merchant, Chain, Pay, Settling, Next, vars

\* Every step keeps what is known of quotes, deliveries and transactions
\* (solana-quoted.mjs).
LEMMA QuoteStep == ASSUME Invs, [Next]_vars PROVE QuoteInv'
  <1> USE Names DEF None, Invs, TypeOK, QuoteInv, StageInv, FileInv, Over, Landed, Unseen,
        Before, Under, gateway, files, ledger, merchant, wire, chain
  <1>1. ASSUME NEW s \in Requests, Create(s) PROVE QuoteInv'
    BY <1>1 DEF Create
  <1>2. ASSUME NEW s \in Requests, Ready(s) PROVE QuoteInv'
    BY <1>2 DEF Ready
  <1>3. ASSUME NEW s \in Requests, NotReady(s) PROVE QuoteInv'
    BY <1>3 DEF NotReady
  <1>4. ASSUME NEW s \in Requests, Age(s) PROVE QuoteInv'
    BY <1>4 DEF Age
  <1>5. ASSUME NEW s \in Requests, Land(s) PROVE QuoteInv'
    BY <1>5 DEF Land
  <1>6. ASSUME NEW s \in Requests, Finalize(s) PROVE QuoteInv'
    BY <1>6 DEF Finalize
  <1>7. ASSUME NEW s \in Requests, Expire(s) PROVE QuoteInv'
    BY <1>7 DEF Expire
  <1>8. ASSUME NEW d \in Deliveries, Claim(d) PROVE QuoteInv'
    BY <1>8 DEF Claim, Reply
  <1>9. ASSUME NEW d \in Deliveries, TurnAway(d) PROVE QuoteInv'
    BY <1>9 DEF TurnAway, Reply
  <1>10. ASSUME NEW d \in Deliveries, VerifyFails(d) PROVE QuoteInv'
    BY <1>10 DEF VerifyFails, Reply
  <1>11. ASSUME NEW d \in Deliveries, AskToSettle(d) PROVE QuoteInv'
    BY <1>11 DEF AskToSettle, Reply
  <1>12. ASSUME NEW d \in Deliveries, Paid(d) PROVE QuoteInv'
    BY <1>12 DEF Paid, Reply
  <1>13. ASSUME NEW d \in Deliveries, Unresolved(d) PROVE QuoteInv'
    BY <1>13 DEF Unresolved, Reply
  <1>14. ASSUME MerchantCrash PROVE QuoteInv'
    BY <1>14 DEF MerchantCrash
  <1>15. ASSUME UNCHANGED <<merchant, wire, chain>> PROVE QuoteInv'
    BY <1>15
  <1>16. ASSUME Prepare PROVE QuoteInv'
    BY <1>16 DEF Prepare, GoTo
  <1>17. ASSUME Build PROVE QuoteInv'
    BY <1>17 DEF Build, GoTo
  <1>18. ASSUME Submit PROVE QuoteInv'
    BY <1>18 DEF Submit, GoTo
  <1>20. QED
    BY <1>1, <1>2, <1>3, <1>4, <1>5, <1>6, <1>7, <1>8, <1>9, <1>10, <1>11,
       <1>12, <1>13, <1>14, <1>15, <1>16, <1>17, <1>18, OwnStep DEF Own,
       World, Merchant, Chain, Next, vars

\* Every step keeps what the journal and the checkpoint say of the ledger.
LEMMA FileStep == ASSUME Invs, [Next]_vars PROVE FileInv'
  <1> USE Names DEF None, Invs, TypeOK, FileInv, StageInv, Before, Under, After, Probing
  <1>1. CASE World
    <2>1. UNCHANGED <<gateway, files, ledger>>
      BY <1>1, WorldFrame
    <2>2. \A r \in Requests :
         /\ MayLand(r)' => MayLand(r)
         /\ Landed(r)' => Landed(r) \/ MayLand(r)
         /\ Landed(r) => Landed(r)'
         /\ NeverPaid(r) => NeverPaid(r)'
         /\ Unseen(r) => Unseen(r)'
         /\ (tx'[r] = None) = (tx[r] = None)
         /\ dead[r] => dead'[r]
      BY <1>1, WorldStep
    <2> QED
      BY <2>1, <2>2 DEF gateway, files, ledger
  <1>2. CASE UNCHANGED vars
    BY <1>2, SameWorld DEF vars, gateway, files, ledger
  <1>3. ASSUME NEW s \in Requests, Ask(s) PROVE FileInv'
    BY <1>3, SameWorld, NeverMeansNever DEF Ask, gateway, files, ledger,
       merchant, wire, chain, Unseen, NeverPaid
  <1>4. ASSUME Reserve PROVE FileInv'
    BY <1>4, SameWorld, NeverMeansNever DEF Reserve, GoTo, gateway, files,
       ledger, merchant, wire, chain, Unseen, NeverPaid
  <1>5. ASSUME ReserveRefused PROVE FileInv'
    BY <1>5, SameWorld, NeverMeansNever DEF ReserveRefused, GoTo, gateway,
       files, ledger, merchant, wire, chain
  <1>6. ASSUME NotPrepared PROVE FileInv'
    BY <1>6, SameWorld, NeverMeansNever DEF NotPrepared, GoTo, gateway,
       files, ledger, merchant, wire, chain
  <1>7. ASSUME Free PROVE FileInv'
    BY <1>7, SameWorld, NeverMeansNever DEF Free, GoTo, gateway, files,
       ledger, merchant, wire, chain
  <1>8. ASSUME Forget PROVE FileInv'
    BY <1>8, SameWorld, NeverMeansNever DEF Forget, GoTo, gateway, files,
       ledger, merchant, wire, chain
  <1>9. ASSUME Write PROVE FileInv'
    BY <1>9, SameWorld, NeverMeansNever DEF Write, GoTo, gateway, files,
       ledger, merchant, wire, chain
  <1>10. ASSUME Refused PROVE FileInv'
    BY <1>10, SameWorld, NeverMeansNever DEF Refused, GoTo, gateway, files,
       ledger, merchant, wire, chain, Landed, QuoteInv, NeverPaid, Over,
       Answers
  <1>11. ASSUME Confirmed PROVE FileInv'
    BY <1>11, SameWorld, NeverMeansNever DEF Confirmed, GoTo, gateway,
       files, ledger, merchant, wire, chain, Landed, QuoteInv
  <1>12. ASSUME Keep PROVE FileInv'
    BY <1>12, SameWorld, NeverMeansNever DEF Keep, GoTo, gateway, files,
       ledger, merchant, wire, chain
  <1>13. ASSUME Unsubmit PROVE FileInv'
    BY <1>13, SameWorld, NeverMeansNever DEF Unsubmit, GoTo, gateway, files,
       ledger, merchant, wire, chain
  <1>14. ASSUME Charge PROVE FileInv'
    BY <1>14, SameWorld, NeverMeansNever DEF Charge, GoTo, Settle, gateway,
       files, ledger, merchant, wire, chain
  <1>15. ASSUME DropCheckpoint PROVE FileInv'
    BY <1>15, SameWorld, NeverMeansNever DEF DropCheckpoint, GoTo, gateway,
       files, ledger, merchant, wire, chain
  <1>16. ASSUME DropJournal PROVE FileInv'
    BY <1>16, SameWorld, NeverMeansNever DEF DropJournal, GoTo, gateway,
       files, ledger, merchant, wire, chain
  <1>17. ASSUME Prepare PROVE FileInv'
    BY <1>17 DEF Prepare, GoTo, QuoteInv, NeverPaid, Unseen, Landed,
       MayLand, Over, gateway, files, ledger, merchant, wire, chain
  <1>18. ASSUME Build PROVE FileInv'
    BY <1>18 DEF Build, GoTo, QuoteInv, NeverPaid, Unseen, Landed, MayLand,
       Over, gateway, files, ledger, merchant, wire, chain
  <1>19. ASSUME Submit PROVE FileInv'
    BY <1>19 DEF Submit, GoTo, QuoteInv, NeverPaid, Unseen, Landed, MayLand,
       Over, gateway, files, ledger, merchant, wire, chain
  <1>20. ASSUME Recover PROVE FileInv'
    BY <1>20, SameWorld, NeverMeansNever DEF Recover, GoTo, gateway, files,
       ledger, merchant, wire, chain, CountedWhileOpen, Landed, MayLand,
       NeverPaid
  <1>21. ASSUME ReadHeight PROVE FileInv'
    BY <1>21, SameWorld, NeverMeansNever DEF ReadHeight, GoTo, gateway,
       files, ledger, merchant, wire, chain
  <1>22. ASSUME List PROVE FileInv'
    BY <1>22, SameWorld, NeverMeansNever DEF List, GoTo, gateway, files,
       ledger, merchant, wire, chain, Landed, QuoteInv, MayLand
  <1>23. ASSUME NoProof PROVE FileInv'
    BY <1>23, SameWorld, NeverMeansNever DEF NoProof, GoTo, gateway, files,
       ledger, merchant, wire, chain
  <1>24. ASSUME ChargeFound PROVE FileInv'
    BY <1>24, SameWorld, NeverMeansNever DEF ChargeFound, GoTo, Settle,
       gateway, files, ledger, merchant, wire, chain
  <1>25. ASSUME ChargeRefused PROVE FileInv'
    BY <1>25, SameWorld, NeverMeansNever DEF ChargeRefused, GoTo, gateway,
       files, ledger, merchant, wire, chain
  <1>26. ASSUME Release PROVE FileInv'
    BY <1>26, SameWorld, NeverMeansNever DEF Release, GoTo, gateway, files,
       ledger, merchant, wire, chain
  <1>27. ASSUME ArchiveJournal PROVE FileInv'
    BY <1>27, SameWorld, NeverMeansNever DEF ArchiveJournal, GoTo, gateway,
       files, ledger, merchant, wire, chain
  <1>28. ASSUME ArchiveCheckpoint PROVE FileInv'
    BY <1>28, SameWorld, NeverMeansNever DEF ArchiveCheckpoint, GoTo,
       gateway, files, ledger, merchant, wire, chain
  <1>29. ASSUME Crash PROVE FileInv'
    BY <1>29, SameWorld, NeverMeansNever DEF Crash, GoTo, gateway, files,
       ledger, merchant, wire, chain
  <1>30. QED
    BY <1>1, <1>2, <1>3, <1>4, <1>5, <1>6, <1>7, <1>8, <1>9, <1>10, <1>11,
       <1>12, <1>13, <1>14, <1>15, <1>16, <1>17, <1>18, <1>19, <1>20, <1>21,
       <1>22, <1>23, <1>24, <1>25, <1>26, <1>27, <1>28, <1>29 DEF World,
       Own, Pay, Settling, Next

\* Every step leaves the lock's holder knowing what its next one relies on.
LEMMA StageStep == ASSUME Invs, [Next]_vars PROVE StageInv'
  <1> USE Names DEF None, Invs, TypeOK, FileInv, StageInv, Before, Under, After, Probing
  <1>1. CASE World
    <2>1. UNCHANGED <<gateway, files, ledger>>
      BY <1>1, WorldFrame
    <2>2. \A r \in Requests :
         /\ MayLand(r)' => MayLand(r)
         /\ Landed(r)' => Landed(r) \/ MayLand(r)
         /\ Landed(r) => Landed(r)'
         /\ NeverPaid(r) => NeverPaid(r)'
         /\ Unseen(r) => Unseen(r)'
         /\ (tx'[r] = None) = (tx[r] = None)
         /\ dead[r] => dead'[r]
      BY <1>1, WorldStep
    <2> QED
      BY <2>1, <2>2 DEF gateway, files, ledger
  <1>2. CASE UNCHANGED vars
    BY <1>2, SameWorld DEF vars, gateway, files, ledger
  <1>3. ASSUME NEW s \in Requests, Ask(s) PROVE StageInv'
    BY <1>3, SameWorld, NeverMeansNever DEF Ask, gateway, files, ledger,
       merchant, wire, chain, Unseen, NeverPaid
  <1>4. ASSUME Reserve PROVE StageInv'
    BY <1>4, SameWorld, NeverMeansNever DEF Reserve, GoTo, gateway, files,
       ledger, merchant, wire, chain, Unseen, NeverPaid
  <1>5. ASSUME ReserveRefused PROVE StageInv'
    BY <1>5, SameWorld, NeverMeansNever DEF ReserveRefused, GoTo, gateway,
       files, ledger, merchant, wire, chain
  <1>6. ASSUME NotPrepared PROVE StageInv'
    BY <1>6, SameWorld, NeverMeansNever DEF NotPrepared, GoTo, gateway,
       files, ledger, merchant, wire, chain
  <1>7. ASSUME Free PROVE StageInv'
    BY <1>7, SameWorld, NeverMeansNever DEF Free, GoTo, gateway, files,
       ledger, merchant, wire, chain
  <1>8. ASSUME Forget PROVE StageInv'
    BY <1>8, SameWorld, NeverMeansNever DEF Forget, GoTo, gateway, files,
       ledger, merchant, wire, chain
  <1>9. ASSUME Write PROVE StageInv'
    BY <1>9, SameWorld, NeverMeansNever DEF Write, GoTo, gateway, files,
       ledger, merchant, wire, chain
  <1>10. ASSUME Refused PROVE StageInv'
    BY <1>10, SameWorld, NeverMeansNever DEF Refused, GoTo, gateway, files,
       ledger, merchant, wire, chain, Landed, QuoteInv, NeverPaid, Over,
       Answers
  <1>11. ASSUME Confirmed PROVE StageInv'
    BY <1>11, SameWorld, NeverMeansNever DEF Confirmed, GoTo, gateway,
       files, ledger, merchant, wire, chain, Landed, QuoteInv
  <1>12. ASSUME Keep PROVE StageInv'
    BY <1>12, SameWorld, NeverMeansNever DEF Keep, GoTo, gateway, files,
       ledger, merchant, wire, chain
  <1>13. ASSUME Unsubmit PROVE StageInv'
    BY <1>13, SameWorld, NeverMeansNever DEF Unsubmit, GoTo, gateway, files,
       ledger, merchant, wire, chain
  <1>14. ASSUME Charge PROVE StageInv'
    BY <1>14, SameWorld, NeverMeansNever DEF Charge, GoTo, Settle, gateway,
       files, ledger, merchant, wire, chain
  <1>15. ASSUME DropCheckpoint PROVE StageInv'
    BY <1>15, SameWorld, NeverMeansNever DEF DropCheckpoint, GoTo, gateway,
       files, ledger, merchant, wire, chain
  <1>16. ASSUME DropJournal PROVE StageInv'
    BY <1>16, SameWorld, NeverMeansNever DEF DropJournal, GoTo, gateway,
       files, ledger, merchant, wire, chain
  <1>17. ASSUME Prepare PROVE StageInv'
    BY <1>17 DEF Prepare, GoTo, QuoteInv, NeverPaid, Unseen, Landed,
       MayLand, Over, gateway, files, ledger, merchant, wire, chain
  <1>18. ASSUME Build PROVE StageInv'
    BY <1>18 DEF Build, GoTo, QuoteInv, NeverPaid, Unseen, Landed, MayLand,
       Over, gateway, files, ledger, merchant, wire, chain
  <1>19. ASSUME Submit PROVE StageInv'
    BY <1>19 DEF Submit, GoTo, QuoteInv, NeverPaid, Unseen, Landed, MayLand,
       Over, gateway, files, ledger, merchant, wire, chain
  <1>20. ASSUME Recover PROVE StageInv'
    <2>1. ASSUME journal # None, checkpoint = None
          PROVE  /\ journal \in asked /\ ~MayLand(journal)
                 /\ ~Landed(journal) \/ journal \notin holds
      <3>1. CASE journal \in holds
        BY <2>1, <3>1, NeverMeansNever
      <3>2. CASE journal \notin holds
        BY <2>1, <3>2 DEF Invs, CountedWhileOpen, MayLand, Landed
      <3> QED
        BY <2>1, <3>1, <3>2
    <2>2. UNCHANGED <<merchant, wire, chain>>
      BY <1>20 DEF Recover
    <2> QED
      BY <1>20, <2>1, <2>2, SameWorld, NeverMeansNever DEF Recover, files, ledger
  <1>21. ASSUME ReadHeight PROVE StageInv'
    BY <1>21, SameWorld, NeverMeansNever DEF ReadHeight, GoTo, gateway,
       files, ledger, merchant, wire, chain
  <1>22. ASSUME List PROVE StageInv'
    BY <1>22, SameWorld, NeverMeansNever DEF List, GoTo, gateway, files,
       ledger, merchant, wire, chain, Landed, QuoteInv, MayLand
  <1>23. ASSUME NoProof PROVE StageInv'
    BY <1>23, SameWorld, NeverMeansNever DEF NoProof, GoTo, gateway, files,
       ledger, merchant, wire, chain
  <1>24. ASSUME ChargeFound PROVE StageInv'
    BY <1>24, SameWorld, NeverMeansNever DEF ChargeFound, GoTo, Settle,
       gateway, files, ledger, merchant, wire, chain
  <1>25. ASSUME ChargeRefused PROVE StageInv'
    BY <1>25, SameWorld, NeverMeansNever DEF ChargeRefused, GoTo, gateway,
       files, ledger, merchant, wire, chain
  <1>26. ASSUME Release PROVE StageInv'
    BY <1>26, SameWorld, NeverMeansNever DEF Release, GoTo, gateway, files,
       ledger, merchant, wire, chain
  <1>27. ASSUME ArchiveJournal PROVE StageInv'
    BY <1>27, SameWorld, NeverMeansNever DEF ArchiveJournal, GoTo, gateway,
       files, ledger, merchant, wire, chain
  <1>28. ASSUME ArchiveCheckpoint PROVE StageInv'
    BY <1>28, SameWorld, NeverMeansNever DEF ArchiveCheckpoint, GoTo,
       gateway, files, ledger, merchant, wire, chain
  <1>29. ASSUME Crash PROVE StageInv'
    BY <1>29, SameWorld, NeverMeansNever DEF Crash, GoTo, gateway, files,
       ledger, merchant, wire, chain
  <1>30. QED
    BY <1>1, <1>2, <1>3, <1>4, <1>5, <1>6, <1>7, <1>8, <1>9, <1>10, <1>11,
       <1>12, <1>13, <1>14, <1>15, <1>16, <1>17, <1>18, <1>19, <1>20, <1>21,
       <1>22, <1>23, <1>24, <1>25, <1>26, <1>27, <1>28, <1>29 DEF World,
       Own, Pay, Settling, Next

\* Only Free, Release and the two settlements take a hold away, each for a payment
\* that can no longer land or has.
LEMMA CountedStep == ASSUME Invs, [Next]_vars PROVE CountedWhileOpen'
  <1> USE Names DEF Invs, TypeOK, CountedWhileOpen
  <1>1. CASE World
    <2>1. /\ UNCHANGED ledger
          /\ \A r \in Requests : MayLand(r)' \/ Landed(r)' => MayLand(r) \/ Landed(r)
      BY <1>1, WorldFrame, WorldStep
    <2> QED
      BY <2>1 DEF ledger
  <1>2. CASE UNCHANGED vars
    BY <1>2, SameWorld DEF vars, ledger
  <1>3. ASSUME NEW s \in Requests, Ask(s) PROVE CountedWhileOpen'
    BY <1>3, SameWorld DEF Ask, ledger
  <1>4. ASSUME Reserve PROVE CountedWhileOpen'
    BY <1>4, SameWorld DEF Reserve, GoTo, ledger
  <1>5. ASSUME ReserveRefused PROVE CountedWhileOpen'
    BY <1>5, SameWorld DEF ReserveRefused, GoTo, ledger
  <1>6. ASSUME NotPrepared PROVE CountedWhileOpen'
    BY <1>6, SameWorld DEF NotPrepared, GoTo, ledger
  <1>7. ASSUME Free PROVE CountedWhileOpen'
    BY <1>7, SameWorld, NeverMeansNever DEF Free, GoTo, ledger, StageInv,
       Before, Under, After, Probing, FileInv
  <1>8. ASSUME Forget PROVE CountedWhileOpen'
    BY <1>8, SameWorld DEF Forget, GoTo, ledger
  <1>9. ASSUME Write PROVE CountedWhileOpen'
    BY <1>9, SameWorld DEF Write, GoTo, ledger
  <1>10. ASSUME Refused PROVE CountedWhileOpen'
    BY <1>10, SameWorld DEF Refused, GoTo, ledger
  <1>11. ASSUME Confirmed PROVE CountedWhileOpen'
    BY <1>11, SameWorld DEF Confirmed, GoTo, ledger
  <1>12. ASSUME Keep PROVE CountedWhileOpen'
    BY <1>12, SameWorld DEF Keep, GoTo, ledger
  <1>13. ASSUME Unsubmit PROVE CountedWhileOpen'
    BY <1>13, SameWorld DEF Unsubmit, GoTo, ledger
  <1>14. ASSUME Charge PROVE CountedWhileOpen'
    BY <1>14, SameWorld DEF Charge, GoTo, Settle, ledger, StageInv, Before,
       Under, After, Probing, FileInv
  <1>15. ASSUME DropCheckpoint PROVE CountedWhileOpen'
    BY <1>15, SameWorld DEF DropCheckpoint, GoTo, ledger
  <1>16. ASSUME DropJournal PROVE CountedWhileOpen'
    BY <1>16, SameWorld DEF DropJournal, GoTo, ledger
  <1>17. ASSUME Prepare PROVE CountedWhileOpen'
    BY <1>17 DEF Prepare, GoTo, StageInv, Before, Under, QuoteInv, Landed,
       MayLand, Claimable, None, ledger, chain, merchant, wire, files
  <1>18. ASSUME Build PROVE CountedWhileOpen'
    BY <1>18 DEF Build, GoTo, StageInv, Before, Under, QuoteInv, Landed,
       MayLand, Claimable, None, ledger, chain, merchant, wire, files
  <1>19. ASSUME Submit PROVE CountedWhileOpen'
    BY <1>19 DEF Submit, GoTo, StageInv, Before, Under, QuoteInv, Landed,
       MayLand, Claimable, None, ledger, chain, merchant, wire, files
  <1>20. ASSUME Recover PROVE CountedWhileOpen'
    BY <1>20, SameWorld DEF Recover, GoTo, ledger
  <1>21. ASSUME ReadHeight PROVE CountedWhileOpen'
    BY <1>21, SameWorld DEF ReadHeight, GoTo, ledger
  <1>22. ASSUME List PROVE CountedWhileOpen'
    BY <1>22, SameWorld DEF List, GoTo, ledger
  <1>23. ASSUME NoProof PROVE CountedWhileOpen'
    BY <1>23, SameWorld DEF NoProof, GoTo, ledger
  <1>24. ASSUME ChargeFound PROVE CountedWhileOpen'
    BY <1>24, SameWorld DEF ChargeFound, GoTo, Settle, ledger, StageInv,
       Before, Under, After, Probing, FileInv
  <1>25. ASSUME ChargeRefused PROVE CountedWhileOpen'
    BY <1>25, SameWorld DEF ChargeRefused, GoTo, ledger
  <1>26. ASSUME Release PROVE CountedWhileOpen'
    BY <1>26, SameWorld DEF Release, GoTo, ledger, StageInv, Before, Under,
       After, Probing, FileInv
  <1>27. ASSUME ArchiveJournal PROVE CountedWhileOpen'
    BY <1>27, SameWorld DEF ArchiveJournal, GoTo, ledger
  <1>28. ASSUME ArchiveCheckpoint PROVE CountedWhileOpen'
    BY <1>28, SameWorld DEF ArchiveCheckpoint, GoTo, ledger
  <1>29. ASSUME Crash PROVE CountedWhileOpen'
    BY <1>29, SameWorld DEF Crash, GoTo, ledger
  <1>30. QED
    BY <1>1, <1>2, <1>3, <1>4, <1>5, <1>6, <1>7, <1>8, <1>9, <1>10, <1>11,
       <1>12, <1>13, <1>14, <1>15, <1>16, <1>17, <1>18, <1>19, <1>20, <1>21,
       <1>22, <1>23, <1>24, <1>25, <1>26, <1>27, <1>28, <1>29 DEF World,
       Own, Pay, Settling, Next

\* The parts of the invariant hold together in every reachable state, crashes and all.
THEOREM Inductive == Spec => []Invs
  <1>1. Init => Invs
    <2> SUFFICES ASSUME Init PROVE Invs
      OBVIOUS
    <2> USE Names DEF Init, None
    <2>1. TypeOK
      <3>1. /\ quote \in [Requests -> {None, "preparing", "quoted", "settling", "paid",
                                       "failed", "expired", "unresolved"}]
            /\ tx \in [Requests -> {None, "signed", "open", "landed", "final"}]
        OBVIOUS
      <3>2. /\ rows \in [Requests -> 0..1] /\ old \in [Requests -> BOOLEAN]
            /\ dead \in [Requests -> BOOLEAN]
            /\ post \in [Deliveries -> {"unsent", "sent", "verifying", "settling",
                                       "refused", "answered", "unclear"}]
        OBVIOUS
      <3> QED
        BY <3>1, <3>2 DEF TypeOK, Steps
    <2>2. QuoteInv
      BY DEF QuoteInv
    <2>3. FileInv
      BY DEF FileInv, Unseen
    <2>4. StageInv
      BY DEF StageInv, Before, Under, After, Probing
    <2>5. CountedWhileOpen
      BY DEF CountedWhileOpen, MayLand, Landed
    <2> QED
      BY <2>1, <2>2, <2>3, <2>4, <2>5 DEF Invs
  <1>2. Invs /\ [Next]_vars => Invs'
    BY TypeStep, QuoteStep, FileStep, StageStep, CountedStep DEF Invs
  <1> QED
    BY <1>1, <1>2, PTL DEF Spec

-----------------------------------------------------------------------------
(* What follows                                                              *)

\* Every variable stays of its type (the lock's steps, the files, the ledger's holds and
\* rows, quotes, deliveries and transactions).
THEOREM Typing == Spec => []TypeOK
  BY Inductive, PTL DEF Invs

\* Room is given back only for a payment that can never land (_recover 140-147, pay
\* 246-249 and 270-275): through lost, late and repeated deliveries, refusals, crashes
\* at any step and recoveries.
THEOREM RoomIsKept == Spec => []CountedWhileOpen
  BY Inductive, PTL DEF Invs

\* The account has one payment of unknown fate at most (module docstring 1-5): it is the
\* one of the hold the journal names.
THEOREM OneAtATime == Spec => []OnePaymentOpen
  <1>1. Invs => OnePaymentOpen
    BY DEF Invs, TypeOK, FileInv, CountedWhileOpen, OnePaymentOpen, MayLand, Landed
  <1> QED
    BY <1>1, Inductive, PTL

\* However often a payment is delivered and wherever the merchant restarts, settlement is
\* asked for once (solana-quoted.mjs 133-134): the quote's one claim comes before it.
THEOREM SettledAtMostOnce == Spec => []SettledOnce
  <1>1. Init => SettledOnce
    BY DEF Init, SettledOnce
  <1>2. Invs /\ SettledOnce /\ [Next]_vars => SettledOnce'
    <2> SUFFICES ASSUME Invs, SettledOnce, Next PROVE SettledOnce'
      BY DEF vars, merchant, SettledOnce
    <2>1. UNCHANGED settled \/ \E d \in Deliveries : AskToSettle(d)
      <3>1. CASE World
        BY <3>1 DEF World, Merchant, Chain, Create, Ready, NotReady, Age, Claim, TurnAway,
             VerifyFails, Paid, Unresolved, MerchantCrash, Land, Finalize, Expire, merchant
      <3>2. CASE Own
        BY <3>2, OwnStep DEF Prepare, Build, Submit, merchant
      <3> QED
        BY <3>1, <3>2 DEF Next, World, Own
    <2>2. ASSUME NEW d \in Deliveries, AskToSettle(d) PROVE SettledOnce'
      BY <2>2 DEF AskToSettle, Invs, TypeOK, QuoteInv, SettledOnce
    <2> QED
      BY <2>1, <2>2 DEF SettledOnce
  <1> QED
    BY <1>1, <1>2, Inductive, PTL DEF Spec

\* "Only one live quote per owner/agent exists" (singit-ask README 105-106): a new quote
\* abandons the others, and nothing brings one back to life.
THEOREM OneQuoteAtATime == Spec => []OneLiveQuote
  <1>1. Init => OneLiveQuote
    BY DEF Init, OneLiveQuote, Live, None
  <1>2. Invs /\ OneLiveQuote /\ [Next]_vars => OneLiveQuote'
    <2> SUFFICES ASSUME Invs, OneLiveQuote, Next PROVE OneLiveQuote'
      BY DEF vars, merchant, OneLiveQuote, Live
    <2> USE Names DEF None, Invs, TypeOK, QuoteInv, Live, merchant, Reply
    <2>1. CASE Own
      <3>1. UNCHANGED merchant
        BY <2>1, OwnStep DEF Prepare, Build, Submit
      <3> QED
        BY <3>1 DEF OneLiveQuote
    <2>2. ASSUME NEW s \in Requests, Create(s) PROVE OneLiveQuote'
      <3>1. CASE Pending
        BY <2>2, <3>1 DEF Create, OneLiveQuote
      <3>2. CASE ~Pending
        <4>1. \A r \in Requests : Live(r)' => r = s
          BY <2>2, <3>2 DEF Create, Pending
        <4> QED
          BY <4>1 DEF OneLiveQuote
      <3> QED
        BY <3>1, <3>2
    <2>3. ASSUME Merchant \/ Chain, \A s \in Requests : ~Create(s)
          PROVE  OneLiveQuote'
      <3>1. \A r \in Requests : Live(r)' => Live(r)
        BY <2>3 DEF Merchant, Chain, Ready, NotReady, Age, Claim, TurnAway, VerifyFails,
             AskToSettle, Paid, Unresolved, MerchantCrash, Land, Finalize, Expire
      <3> QED
        BY <3>1 DEF OneLiveQuote
    <2> QED
      BY <2>1, <2>2, <2>3 DEF Next, Own
  <1> QED
    BY <1>1, <1>2, Inductive, PTL DEF Spec

\* The files, the ledger and the chain together keep the promise of MeteredHold: Reserve
\* opens a hold, Land moves the money, the settlements charge it, Free and Release give
\* it back, and every other step is a stutter.
THEOREM KeepsThePromise == Spec => ImplementsHold
  <1> DEFINE held == [r \in Requests |-> IF r \in holds THEN "open"
                                         ELSE IF rows[r] = 0 THEN "none"
                                         ELSE IF rows[r] = 1 THEN "charged" ELSE "twice"]
             paid == {r \in Requests : Landed(r)}
  <1>1. Init => Hold!Init
    BY Names DEF Init, Hold!Init, Landed, None
  <1>2. Invs /\ [Next]_vars => [Hold!Next]_(Hold!vars)
    <2> SUFFICES ASSUME Invs, [Next]_vars PROVE Hold!Next \/ UNCHANGED <<held, paid>>
      BY DEF Hold!vars
    <2> USE Names DEF Invs, TypeOK
    <2> PICK c : c = cur
      OBVIOUS
    <2>1. ASSUME UNCHANGED <<ledger, chain>> PROVE UNCHANGED <<held, paid>>
      BY <2>1 DEF ledger, chain, Landed
    <2>2. ASSUME Reserve PROVE c \in Requests /\ Hold!Open(c)
      BY <2>2 DEF Reserve, GoTo, StageInv, FileInv, Unseen, Landed, Hold!Open, None, chain
    <2>3. ASSUME NEW r \in Requests, ~Landed(r), ledger' = <<holds \ {r}, rows>>,
                 UNCHANGED chain
          PROVE  Hold!Release(r) \/ UNCHANGED <<held, paid>>
      <3>1. paid' = paid
        BY <2>3 DEF Landed, chain
      <3>2. CASE r \in holds
        BY <2>3, <3>1, <3>2 DEF FileInv, Hold!Release, ledger
      <3>3. CASE r \notin holds
        BY <2>3, <3>1, <3>3 DEF ledger
      <3> QED
        BY <3>2, <3>3
    <2>4. ASSUME Free PROVE c \in Requests /\ (Hold!Release(c) \/ UNCHANGED <<held, paid>>)
      <3>1. /\ c \in Requests /\ ~Landed(c) /\ UNCHANGED chain
            /\ ledger' = <<holds \ {c}, rows>>
        BY <2>4, NeverMeansNever DEF Free, GoTo, StageInv, After, ledger
      <3> QED
        BY <2>3, <3>1
    <2>5. ASSUME Release PROVE Hold!Next \/ UNCHANGED <<held, paid>>
      <3>1. CASE journal \in holds
        <4>1. /\ c \in Requests /\ ~Landed(c) /\ UNCHANGED chain
              /\ ledger' = <<holds \ {c}, rows>>
          BY <2>5, <3>1 DEF Release, StageInv, ledger
        <4> QED
          BY <2>3, <4>1 DEF Hold!Next
      <3>2. CASE journal \notin holds
        <4>1. holds' = holds
          BY <2>5, <3>2 DEF Release
        <4> QED
          BY <2>1, <2>5, <4>1 DEF Release, ledger
      <3> QED
        BY <3>1, <3>2
    <2>6. ASSUME c \in Requests, Landed(c), c \in holds, UNCHANGED chain,
                 holds' = holds \ {c}, rows' = [rows EXCEPT ![c] = @ + 1]
          PROVE  Hold!Charge(c)
      <3>1. paid' = paid
        BY <2>6 DEF Landed, chain
      <3>2. rows[c] = 0
        BY <2>6 DEF FileInv
      <3>3. held' = [held EXCEPT ![c] = "charged"]
        <4>1. \A r \in Requests : held'[r] = IF r = c THEN "charged" ELSE held[r]
          BY <2>6, <3>2
        <4> QED
          BY <2>6, <4>1
      <3> QED
        BY <2>6, <3>1, <3>3 DEF Hold!Charge
    <2>7. ASSUME Charge \/ ChargeFound PROVE c \in Requests /\ Hold!Charge(c)
      BY <2>6, <2>7 DEF Charge, ChargeFound, Settle, StageInv, Probing
    <2>8. ASSUME NEW r \in Requests, Land(r) PROVE Hold!Move(r)
      <3>1. MayLand(r) /\ ~Landed(r)
        BY <2>8 DEF Land, MayLand, Landed
      <3>2. r \in holds
        BY <3>1 DEF CountedWhileOpen, FileInv
      <3>3. paid' = paid \cup {r}
        BY <2>8 DEF Land, Landed
      <3> QED
        BY <2>8, <3>1, <3>2, <3>3 DEF Land, Hold!Move, ledger
    <2>9. ASSUME NEW r \in Requests, Finalize(r) PROVE UNCHANGED <<held, paid>>
      BY <2>9 DEF Finalize, Landed, ledger
    <2>10. ASSUME NEW d \in Deliveries, AskToSettle(d) PROVE UNCHANGED <<held, paid>>
      BY <2>10, Names DEF AskToSettle, Landed, ledger
    <2>11. ASSUME Build PROVE UNCHANGED <<held, paid>>
      BY <2>11 DEF Build, GoTo, StageInv, Before, Landed, ledger, None
    <2>12. CASE UNCHANGED vars
      BY <2>1, <2>12 DEF vars
    <2>13. CASE World
      <3>1. \/ UNCHANGED <<ledger, chain>>
            \/ \E r \in Requests : Land(r) \/ Finalize(r) \/ Expire(r)
            \/ \E d \in Deliveries : AskToSettle(d)
        BY <2>13 DEF World, Merchant, Chain, Create, Ready, NotReady, Age, Claim, TurnAway,
           VerifyFails, Paid, Unresolved, MerchantCrash
      <3>2. ASSUME NEW r \in Requests, Expire(r) PROVE UNCHANGED <<held, paid>>
        BY <3>2 DEF Expire, Landed, ledger
      <3> HIDE DEF held, paid
      <3> QED
        BY <2>1, <2>8, <2>9, <2>10, <3>1, <3>2 DEF Hold!Next
    <2>14. CASE Own
      <3>1. \/ UNCHANGED <<ledger, chain>>
            \/ Reserve \/ Free \/ Release \/ Charge \/ ChargeFound \/ Build
        BY <2>14 DEF Own, Pay, Settling, Ask, ReserveRefused, NotPrepared, Forget, Prepare,
           Write, Submit, Refused, Confirmed, Keep, Unsubmit, DropCheckpoint, DropJournal,
           Recover, ReadHeight, List, NoProof, ChargeRefused, ArchiveJournal,
           ArchiveCheckpoint, Crash, GoTo, chain
      <3> HIDE DEF held, paid
      <3> QED
        BY <2>1, <2>2, <2>4, <2>5, <2>7, <2>11, <3>1 DEF Hold!Next
    <2> QED
      BY <2>12, <2>13, <2>14 DEF Next, World, Own
  <1> QED
    BY <1>1, <1>2, Inductive, PTL DEF Spec, ImplementsHold, Hold!Spec

=============================================================================
