-------------------------- MODULE BaseSpendProofs --------------------------
(* Theorems about BaseSpend, for any number of purchases, orders, thefts and *)
(* strays, any lag within the margin, and any length of the chain.  A step   *)
(* of the gateway leaves the chain and the watcher alone, a step of the      *)
(* watcher leaves the gateway, the transfers and the chain alone, and the    *)
(* two only share the settlements, which the watcher reads.                  *)
EXTENDS BaseSpend, TLAPS, WellFoundedInduction

-----------------------------------------------------------------------------
(* Names, numbers and what find_settlement finds                             *)

LEMMA Names ==
  /\ Payments \subseteq Calls /\ Orders \subseteq Calls /\ Outflows \subseteq Transfers
  /\ \A c \in Calls, k \in {1, 2} : <<c, k>> \in Outflows
  /\ Calls \X {1, 2} \subseteq Outflows
  /\ None \notin Transfers /\ Made \notin Transfers /\ NoCall \notin Calls
  /\ NoCall \notin Payments /\ NoCall \notin Orders
  /\ Payments \cap Orders = {} /\ None # Made
  <1> USE NamesAssumption, BoundAssumption
      DEF Payments, Calls, Transfers, Outflows, NoCall, None, Made
  <1>1. NoCall \notin Calls /\ Calls \cap (Thefts \cup Strays) = {} /\ NoCall \notin Thefts \cup Strays
    OBVIOUS
  <1>2. \A c \in Calls, k \in {1, 2} : <<c, k>> \in Outflows
    BY <1>1
  <1>3. None \notin Transfers /\ Made \notin Transfers
    BY <1>1
  <1>4. Calls \X {1, 2} \subseteq Outflows
    BY <1>2
  <1>5. QED
    BY <1>1, <1>2, <1>3, <1>4

\* A nonempty set of naturals has a least one.
LEMMA Least ==
  ASSUME NEW S \in SUBSET Nat, S # {}
  PROVE  \E m \in S : \A x \in S : m <= x
  <1> DEFINE R == OpToRel(<, Nat)
  <1>1. IsWellFoundedOn(R, Nat)
    BY NatLessThanWellFounded
  <1>2. \A x, y \in Nat : x < y => <<x, y>> \in R
    BY DEF OpToRel
  <1> HIDE DEF R
  <1>3. PICK m \in S : \A y \in S : <<y, m>> \notin R
    BY <1>1, WFMin, Zenon
  <1>4. \A x \in S : m <= x
    <2>1. SUFFICES ASSUME NEW x \in S PROVE ~ (x < m)
      OBVIOUS
    <2>2. m \in Nat /\ x \in Nat /\ <<x, m>> \notin R
      BY <1>3
    <2>3. QED
      BY <1>2, <2>2, Zenon
  <1>5. QED
    BY <1>3, <1>4

\* What is found is in a block of the range, is like the call's own and was not
\* counted; and if there is such a block, something is found.
LEMMA FindsOne ==
  ASSUME NEW c \in Calls, NEW known \in Heads, Len(chain) \in Nat
  PROVE  /\ Found(c, known) # None =>
              \E b \in 1..Len(chain) :
                /\ b \in Blocks /\ scan <= b
                /\ Found(c, known) = chain[b] /\ chain[b] \in Alike(c) \ counted
         /\ Matches(c, known) # {} => Found(c, known) # None
  <1> DEFINE M == Matches(c, known)
             m == CHOOSE b \in M : \A x \in M : b <= x
  <1>1. M \in SUBSET Nat /\ \A b \in M : b \in 1..Len(chain)
    BY BoundAssumption DEF Matches, Blocks, Heads
  <1>2. CASE M = {}
    BY <1>2 DEF Found
  <1>3. CASE M # {}
    <2>1. \E b \in M : \A x \in M : b <= x
      BY <1>1, <1>3, Least
    <2>2. m \in M
      BY <2>1
    <2>3. Found(c, known) = chain[m]
      BY <1>3 DEF Found
    <2>4. chain[m] \in Alike(c) \ counted /\ m \in Blocks /\ scan <= m
      BY <2>2 DEF Matches, Seen
    <2>5. chain[m] \in Transfers
      BY <2>4, Names DEF Alike, Transfers
    <2>6. QED
      BY <1>1, <2>2, <2>3, <2>4, <2>5, Names
  <1>4. QED
    BY <1>2, <1>3

\* The same, as the steps that count use it: what is found was mined, and not counted.
LEMMA FindsMined ==
  ASSUME TypeOK, ChainInv, NEW c \in Calls, NEW known \in Heads, Found(c, known) # None
  PROVE  /\ Found(c, known) \in (Calls \X {1, 2}) \ counted
         /\ Found(c, known) \in Alike(c)
         /\ transfer[Found(c, known)] = "mined"
         /\ \E b \in DOMAIN chain : scan <= b /\ Found(c, known) = chain[b]
  <1>1. Len(chain) \in Nat /\ DOMAIN chain = 1..Len(chain)
    BY DEF TypeOK
  <1>2. PICK b \in 1..Len(chain) : /\ scan <= b /\ Found(c, known) = chain[b]
                                   /\ chain[b] \in Alike(c) \ counted
    BY <1>1, FindsOne
  <1>3. chain[b] \in Calls \X {1, 2}
    BY <1>2, Names DEF Alike
  <1>4. QED
    BY <1>1, <1>2, <1>3 DEF ChainInv

\* A read covers at least one block, and no more than there are up to the newest.
LEMMA Ahead ==
  ASSUME TypeOK, Reading
  PROVE  /\ scan \in Nat /\ latest \in Nat /\ latest <= MaxBlocks
         /\ End \in Nat /\ scan <= End /\ End <= latest
  BY BoundAssumption DEF TypeOK, Reading, NoHead, End

-----------------------------------------------------------------------------
(* The types                                                                 *)

LEMMA TypeBegins == Init => TypeOK
  <1>1. Init => chain \in Seq(Transfers \cup {None}) /\ Len(chain) = 0
    BY DEF Init
  <1>2. Init => /\ outcome \in [Calls -> {"new", "ok", "failed"}]
                /\ claims \in [Orders -> {None, Made} \cup Transfers]
                /\ transfer \in [Transfers -> {"none", "pending", "mined"}]
    BY DEF Init
  <1>3. Init => age \in [Transfers -> 0..Grace + 1]
    BY GraceAssumption DEF Init
  <1>4. Init => delivered \in BOOLEAN /\ shown \in BOOLEAN
    BY DEF Init
  <1>5. Init => /\ scan \in 0..MaxBlocks + 1 /\ latest \in 0..NoHead
                /\ start \in 0..MaxBlocks /\ busy \in 0..CallTicks
                /\ waiting \in 0..PassTicks /\ crashes \in 0..MaxCrashes
                /\ \A c \in {spentCursor, cursor} :
                     c \in 0..MaxBlocks /\ (c > 0 => c + HeadMargin <= Len(chain))
    BY BoundAssumption, GraceAssumption DEF Init, NoHead
  <1>6. QED
    BY <1>1, <1>2, <1>3, <1>4, <1>5 DEF Init, TypeOK, Steps

\* A call in hand is one, and the end of it keeps the types.
LEMMA InHand == Inv /\ at # "idle" => cur \in Calls
  BY DEF Inv, TypeOK, AtInv

LEMMA EndTypes ==
  ASSUME Inv, at # "idle", NEW told \in {"ok", "failed"}, Ends(cur, told)
  PROVE  /\ at' \in Steps /\ cur' \in Calls \cup {NoCall} /\ start' \in 0..MaxBlocks
         /\ scan' \in 0..MaxBlocks + 1 /\ latest' \in 0..NoHead /\ shown' \in BOOLEAN
         /\ delivered' \in BOOLEAN /\ busy' \in 0..CallTicks
         /\ outcome' \in [Calls -> {"new", "ok", "failed"}]
  <1>1. outcome' \in [Calls -> {"new", "ok", "failed"}]
    BY DEF Ends, Inv, TypeOK
  <1>2. delivered' \in BOOLEAN /\ shown' \in BOOLEAN
    BY DEF Ends
  <1>3. /\ start' \in 0..MaxBlocks /\ busy' \in 0..CallTicks
        /\ scan' \in 0..MaxBlocks + 1 /\ latest' \in 0..NoHead
    BY BoundAssumption, GraceAssumption DEF Ends, NoSearch, SearchFrom, NoHead
  <1>4. QED
    BY <1>1, <1>2, <1>3 DEF Ends, Steps

LEMMA ShownTyped == Shown \in BOOLEAN
  BY DEF Shown

LEMMA TypeStep == ASSUME Inv, [Next]_vars PROVE TypeOK'
  <1> USE BoundAssumption, GraceAssumption
      DEF Inv, TypeOK, Steps, search, SearchFrom, NoSearch, NoHead, gateway, watcher, clock, GatewayStep, WatcherStep, Heads, Blocks
  <1>1. ASSUME NEW n \in Heads, NEW p \in Payments, Ask(p, n) PROVE TypeOK'
    <2>1. n \in 0..MaxBlocks /\ p \in Calls /\ <<p, 1>> \in Transfers
      <3>1. n \in 0..MaxBlocks
        BY <1>1 DEF Ask
      <3>2. p \in Calls /\ <<p, 1>> \in Transfers
        BY Names
      <3>3. QED
        BY <3>1, <3>2
    <2>2. transfer' \in [Transfers -> {"none", "pending", "mined"}]
      BY <1>1, <2>1 DEF Ask
    <2>3. QED
      BY <1>1, <2>1, <2>2 DEF Ask
  <1>2. ASSUME NEW o \in Orders, RecordClaimed(o) PROVE TypeOK'
    BY <1>2, Names DEF RecordClaimed
  <1>3. ASSUME NEW o \in Orders, ClaimOrder(o) PROVE TypeOK'
    <2>1. claims' \in [Orders -> {None, Made} \cup Transfers] /\ o \in Calls
      BY <1>3, Names DEF ClaimOrder
    <2>2. QED
      BY <1>3, <2>1 DEF ClaimOrder
  <1>4. ASSUME AnswerLost PROVE TypeOK'
    <2>1. at # "idle" /\ Ends(cur, "failed")
      BY <1>4 DEF AnswerLost
    <2>2. QED
      BY <1>4, <2>1, EndTypes DEF AnswerLost
  <1>5. ASSUME ShortOfFunds PROVE TypeOK'
    BY <1>5, ShownTyped DEF ShortOfFunds
  <1>6. ASSUME Return PROVE TypeOK'
    <2>1. at # "idle" /\ \E told \in {"ok", "failed"} : Ends(cur, told)
      BY <1>6 DEF Return
    <2>2. QED
      BY <1>6, <2>1, EndTypes DEF Return
  <1>7. ASSUME OrderFails PROVE TypeOK'
    <2>1. at # "idle" /\ Ends(cur, "failed")
      BY <1>7 DEF OrderFails
    <2>2. QED
      BY <1>7, <2>1, EndTypes DEF OrderFails
  <1>8. ASSUME NoteTx PROVE TypeOK'
    <2>1. cur \in Calls /\ Sent(cur) \in Transfers
      BY <1>8, InHand, Names DEF NoteTx, Sent
    <2>2. claims' \in [Orders -> {None, Made} \cup Transfers]
      BY <1>8, <2>1 DEF NoteTx
    <2>3. QED
      BY <1>8, <2>2 DEF NoteTx
  <1>9. ASSUME OrderMined PROVE TypeOK'
    BY <1>9 DEF OrderMined
  <1>10. ASSUME NEW good \in BOOLEAN, Answer(good) PROVE TypeOK'
    BY <1>10, ShownTyped DEF Answer
  <1>11. ASSUME Retry PROVE TypeOK'
    <2>1. transfer' \in [Transfers -> {"none", "pending", "mined"}]
      BY <1>11 DEF Retry
    <2>2. scan' \in 0..MaxBlocks + 1 /\ latest' \in 0..NoHead
      BY <1>11 DEF Retry
    <2>3. QED
      BY <1>11, <2>1, <2>2 DEF Retry
  <1>12. ASSUME NEW n \in Heads, MovedAnyway(n) PROVE TypeOK'
    BY <1>12 DEF MovedAnyway
  <1>13. ASSUME NEW n \in Heads, CountPayment(n) PROVE TypeOK'
    <2>1. cur \in Calls
      BY <1>13, InHand DEF CountPayment
    <2>2. Found(cur, n) \in Transfers
      BY <1>13, <2>1, FindsMined, Names DEF CountPayment
    <2>3. QED
      BY <1>13, <2>2 DEF CountPayment
  <1>14. ASSUME NoSettlement PROVE TypeOK'
    BY <1>14 DEF NoSettlement
  <1>15. ASSUME NEW n \in Heads, CountOrder(n) PROVE TypeOK'
    <2>1. cur \in Calls /\ Sent(cur) \in Transfers
      BY <1>15, InHand, Names DEF CountOrder, Sent
    <2>2. QED
      BY <1>15, <2>1 DEF CountOrder
  <1>16. ASSUME NEW n \in Heads, NEW answered \in BOOLEAN, SendOrder(n, answered) PROVE TypeOK'
    <2>1. cur \in Calls /\ n \in 0..MaxBlocks
      BY <1>16, InHand DEF SendOrder, ChainInv
    <2>2. transfer' \in [Transfers -> {"none", "pending", "mined"}]
      BY <1>16 DEF SendOrder
    <2>3. CASE answered
      BY <1>16, <2>1, <2>2, <2>3 DEF SendOrder
    <2>4. CASE ~answered
      <3>1. at # "idle" /\ Ends(cur, "failed")
        BY <1>16, <2>4 DEF SendOrder
      <3>2. QED
        <4>1. /\ at' \in Steps /\ cur' \in Calls \cup {NoCall} /\ start' \in 0..MaxBlocks
              /\ scan' \in 0..MaxBlocks + 1 /\ latest' \in 0..NoHead /\ shown' \in BOOLEAN
              /\ delivered' \in BOOLEAN /\ busy' \in 0..CallTicks
              /\ outcome' \in [Calls -> {"new", "ok", "failed"}]
          BY <3>1, EndTypes
        <4>2. UNCHANGED <<counted, claims, basket, chain, watcher, age, waiting>>
          BY <1>16 DEF SendOrder
        <4>3. QED
          BY <2>2, <4>1, <4>2
    <2>5. QED
      BY <2>3, <2>4
  <1>17. ASSUME Crash PROVE TypeOK'
    <2>1. at # "idle" /\ Ends(cur, "failed")
      BY <1>17 DEF Crash
    <2>2. QED
      BY <1>17, <2>1, EndTypes DEF Crash
  <1>31. ASSUME NEW n \in Heads, ReadHead(n) PROVE TypeOK'
    <2>1. n \in 0..MaxBlocks
      BY DEF ChainInv
    <2>2. QED
      BY <1>31, <2>1 DEF ReadHead, NoHead
  <1>32. ASSUME NEW n \in Heads, ReadOn(n) PROVE TypeOK'
    <2>1. End + 1 \in 0..MaxBlocks + 1
      BY <1>32, Ahead DEF ReadOn
    <2>2. QED
      BY <1>32, <2>1 DEF ReadOn
  <1>33. ASSUME NEW n \in Heads, CountClaimed(n) PROVE TypeOK'
    <2>1. at # "idle" /\ Ends(cur, "failed") /\ cur \in Calls
      BY <1>33, InHand DEF CountClaimed
    <2>2. Found(cur, n) \in Transfers
      BY <1>33, <2>1, FindsMined, Names DEF CountClaimed
    <2>3. QED
      BY <1>33, <2>1, <2>2, EndTypes DEF CountClaimed
  <1>18. ASSUME NEW e \in Blocks, NEW head \in Heads, NEW known \in Heads,
              NEW some \in SUBSET (Chunk(spentCursor, e, head, known) \ Outflows),
              ReportSpends(e, head, known, some) PROVE TypeOK'
    <2>1. crashes' \in 0..MaxCrashes /\ spentCursor' \in {spentCursor, e}
      BY <1>18 DEF ReportSpends, CursorAfter, Lives
    <2>2. some \subseteq Transfers
      BY DEF Chunk
    <2>3. QED
      BY <1>18, <2>1, <2>2 DEF ReportSpends
  <1>19. ASSUME NEW e \in Blocks, NEW head \in Heads, NEW known \in Heads,
              NEW some \in SUBSET (Chunk(cursor, e, head, known) \cap Outflows),
              NoteChunk(e, head, known, some) PROVE TypeOK'
    BY <1>19 DEF NoteChunk, CursorAfter, Lives
  <1>20. ASSUME ReadTables PROVE TypeOK'
    BY <1>20 DEF ReadTables
  <1>21. ASSUME NEW t \in left, NotYet(t) PROVE TypeOK'
    BY <1>21 DEF NotYet
  <1>22. ASSUME NEW t \in left, Unexplained(t) PROVE TypeOK'
    <2>1. age' \in [Transfers -> 0..Grace + 1]
      <3>1. 0 \in 0..Grace + 1
        OBVIOUS
      <3>2. QED
        BY <1>22, <3>1 DEF Unexplained
    <2>2. QED
      BY <1>22, <2>1, Names DEF Unexplained
  <1>23. ASSUME Alarm PROVE TypeOK'
    BY <1>23 DEF Alarm
  <1>24. ASSUME WatcherCrash PROVE TypeOK'
    BY <1>24 DEF WatcherCrash
  <1>25. ASSUME NEW t \in Transfers, Mine(t) PROVE TypeOK'
    BY <1>25 DEF Mine
  <1>26. ASSUME Tick PROVE TypeOK'
    BY <1>26 DEF Tick
  <1>27. CASE UNCHANGED vars
    BY <1>27 DEF vars
  <1>28. QED
    BY <1>1, <1>2, <1>3, <1>4, <1>5, <1>6, <1>7, <1>8, <1>9, <1>10, <1>11, <1>12, <1>13, <1>14,
       <1>15, <1>16, <1>31, <1>32, <1>33, <1>17, <1>18, <1>19, <1>20, <1>21, <1>22, <1>23, <1>24, <1>25, <1>26, <1>27
       DEF Next, Gateway, CallStep, Watch

-----------------------------------------------------------------------------
(* What each side leaves alone                                               *)

LEMMA GatewayFrame == Gateway => UNCHANGED <<basket, chain, watcher, age, waiting>>
  BY DEF Gateway, CallStep, GatewayStep, Ask, ReadHead, ReadOn, RecordClaimed, CountClaimed, ClaimOrder, AnswerLost,
     ShortOfFunds, Return, OrderFails, NoteTx, OrderMined, Answer, Retry, MovedAnyway,
     CountPayment, NoSettlement, CountOrder, SendOrder, Crash

LEMMA WatchFrame == Watch \/ WatcherCrash => UNCHANGED <<gateway, transfer, chain, busy>>
  BY DEF Watch, WatcherStep, ReportSpends, NoteChunk, ReadTables, NotYet, Unexplained,
     Alarm, WatcherCrash

LEMMA WorldFrame ==
  (\E t \in Transfers : Mine(t)) \/ Tick => UNCHANGED <<gateway, watcher>>
  BY DEF Mine, Tick

\* A call that ends leaves none in hand.
LEMMA NoneInHand == ASSUME NEW told, Ends(cur, told) PROVE ~Asking' /\ ~Sending' /\ at' = "idle" /\ cur' = NoCall
  BY DEF Ends, Asking, Sending

-----------------------------------------------------------------------------
(* The call in hand                                                          *)

\* Only the gateway takes a step of a call or ends it.
LEMMA AtStep == ASSUME Inv, [Next]_vars PROVE AtInv'
  <1> USE Names DEF Inv, AtInv, Asking, Sending
  <1>1. ASSUME NEW n \in Heads, NEW p \in Payments, Ask(p, n) PROVE AtInv'
    BY <1>1 DEF Ask
  <1>2. ASSUME NEW o \in Orders, RecordClaimed(o) PROVE AtInv'
    BY <1>2 DEF RecordClaimed
  <1>3. ASSUME NEW o \in Orders, ClaimOrder(o) PROVE AtInv'
    BY <1>3 DEF ClaimOrder
  <1>4. ASSUME AnswerLost PROVE AtInv'
    BY <1>4, NoneInHand DEF AnswerLost
  <1>5. ASSUME ShortOfFunds PROVE AtInv'
    BY <1>5 DEF ShortOfFunds
  <1>6. ASSUME Return PROVE AtInv'
    BY <1>6, NoneInHand DEF Return
  <1>7. ASSUME OrderFails PROVE AtInv'
    BY <1>7, NoneInHand DEF OrderFails
  <1>8. ASSUME NoteTx PROVE AtInv'
    BY <1>8 DEF NoteTx, Sent
  <1>9. ASSUME OrderMined PROVE AtInv'
    BY <1>9 DEF OrderMined
  <1>10. ASSUME NEW good \in BOOLEAN, Answer(good) PROVE AtInv'
    BY <1>10 DEF Answer
  <1>11. ASSUME Retry PROVE AtInv'
    BY <1>11 DEF Retry
  <1>12. ASSUME NEW n \in Heads, MovedAnyway(n) PROVE AtInv'
    BY <1>12 DEF MovedAnyway
  <1>13. ASSUME NEW n \in Heads, CountPayment(n) PROVE AtInv'
    BY <1>13 DEF CountPayment
  <1>14. ASSUME NoSettlement PROVE AtInv'
    BY <1>14 DEF NoSettlement
  <1>15. ASSUME NEW n \in Heads, CountOrder(n) PROVE AtInv'
    BY <1>15 DEF CountOrder
  <1>16. ASSUME NEW n \in Heads, NEW answered \in BOOLEAN, SendOrder(n, answered) PROVE AtInv'
    <2>1. CASE answered
      BY <1>16, <2>1 DEF SendOrder
    <2>2. CASE ~answered
      BY <1>16, <2>2, NoneInHand DEF SendOrder
    <2>3. QED
      BY <2>1, <2>2
  <1>17. ASSUME Crash PROVE AtInv'
    BY <1>17, NoneInHand DEF Crash
  <1>31. ASSUME NEW n \in Heads, ReadHead(n) PROVE AtInv'
    BY <1>31 DEF ReadHead
  <1>32. ASSUME NEW n \in Heads, ReadOn(n) PROVE AtInv'
    BY <1>32 DEF ReadOn
  <1>33. ASSUME NEW n \in Heads, CountClaimed(n) PROVE AtInv'
    BY <1>33, NoneInHand DEF CountClaimed
  <1>18. CASE Watch \/ WatcherCrash
    BY <1>18, WatchFrame DEF gateway
  <1>19. CASE (\E t \in Transfers : Mine(t)) \/ Tick
    BY <1>19, WorldFrame DEF gateway
  <1>20. CASE UNCHANGED vars
    BY <1>20 DEF vars, gateway
  <1>21. QED
    BY <1>1, <1>2, <1>3, <1>4, <1>5, <1>6, <1>7, <1>8, <1>9, <1>10, <1>11, <1>12,
       <1>13, <1>14, <1>15, <1>16, <1>31, <1>32, <1>33, <1>17, <1>18, <1>19, <1>20
       DEF Next, Gateway, CallStep

-----------------------------------------------------------------------------
(* The chain                                                                 *)

\* One more block at the end of the chain.
LEMMA OneMore ==
  ASSUME NEW c, NEW S, c \in Seq(S), NEW t \in S
  PROVE  /\ DOMAIN Append(c, t) = DOMAIN c \cup {Len(c) + 1}
         /\ Len(Append(c, t)) = Len(c) + 1 /\ Len(c) \in Nat
         /\ \A b \in DOMAIN c : Append(c, t)[b] = c[b] /\ b \in 1..Len(c)
         /\ Append(c, t)[Len(c) + 1] = t
  OBVIOUS

\* A block of the chain is empty or holds a transfer.
LEMMA OnChain == TypeOK => \A b \in DOMAIN chain : chain[b] \in Transfers \cup {None}
  BY DEF TypeOK

LEMMA ChainSeq == Inv => chain \in Seq(Transfers \cup {None})
  BY DEF Inv, TypeOK

\* What a node shows was mined; outflows of it may be noted.
LEMMA ChunkMined ==
  ASSUME TypeOK, ChainInv, NEW old, NEW e \in Blocks, NEW head \in Heads, NEW known \in Heads,
         NEW t \in Chunk(old, e, head, known)
  PROVE  /\ transfer[t] = "mined" /\ t \in Transfers
         /\ \E b \in DOMAIN chain : chain[b] = t /\ b + HeadMargin <= Len(chain)
  <1>1. Len(chain) \in Nat /\ DOMAIN chain = 1..Len(chain)
    BY DEF TypeOK
  <1>2. PICK b \in Blocks : /\ b <= e /\ b <= known /\ t = chain[b] /\ t # None
                            /\ e + HeadMargin <= head
    BY DEF Chunk
  <1>3. b \in DOMAIN chain /\ b + HeadMargin <= Len(chain)
    BY <1>1, <1>2, BoundAssumption DEF Heads, Blocks
  <1>4. chain[b] \in Transfers \cup {None}
    BY <1>3 DEF TypeOK
  <1>5. QED
    BY <1>2, <1>3, <1>4 DEF ChainInv

\* Only a transfer that is not on the chain is signed or mined.
LEMMA ChainStep == ASSUME Inv, [Next]_vars PROVE ChainInv'
  <1> USE DEF Inv, ChainInv
  <1>0. TypeOK' /\ Len(chain) \in Nat /\ DOMAIN chain = 1..Len(chain)
    BY TypeStep DEF TypeOK
  <1>1. ASSUME NEW n \in Heads, NEW p \in Payments, Ask(p, n) PROVE ChainInv'
    <2>1. p \in Calls /\ <<p, 1>> \in Transfers /\ transfer[<<p, 1>>] = "none"
      BY <1>1, Names DEF Ask, FreshInv, AtInv
    <2>2. transfer' = [transfer EXCEPT ![<<p, 1>>] = "pending"] /\ UNCHANGED <<chain, counted, noted, age>>
      BY <1>1 DEF Ask, GatewayStep, watcher
    <2>3. \A t \in Transfers : transfer[t] = "mined" => transfer'[t] = "mined"
      BY <2>1, <2>2 DEF TypeOK
    <2>4. QED
      BY <1>0, <2>2, <2>3, OnChain, Names DEF TypeOK
  <1>2. ASSUME NEW o \in Orders, RecordClaimed(o) PROVE ChainInv'
    BY <1>2 DEF RecordClaimed, GatewayStep, watcher
  <1>3. ASSUME NEW o \in Orders, ClaimOrder(o) PROVE ChainInv'
    BY <1>3 DEF ClaimOrder, GatewayStep, watcher
  <1>4. ASSUME AnswerLost PROVE ChainInv'
    BY <1>4 DEF AnswerLost, GatewayStep, watcher
  <1>5. ASSUME ShortOfFunds PROVE ChainInv'
    BY <1>5 DEF ShortOfFunds, GatewayStep, watcher
  <1>6. ASSUME Return PROVE ChainInv'
    BY <1>6 DEF Return, GatewayStep, watcher
  <1>7. ASSUME OrderFails PROVE ChainInv'
    BY <1>7 DEF OrderFails, GatewayStep, watcher
  <1>8. ASSUME NoteTx PROVE ChainInv'
    BY <1>8 DEF NoteTx, GatewayStep, watcher
  <1>9. ASSUME OrderMined PROVE ChainInv'
    BY <1>9 DEF OrderMined, GatewayStep, watcher
  <1>10. ASSUME NEW good \in BOOLEAN, Answer(good) PROVE ChainInv'
    BY <1>10 DEF Answer, GatewayStep, watcher
  <1>11. ASSUME Retry PROVE ChainInv'
    <2>1. cur \in Calls /\ <<cur, 2>> \in Transfers /\ transfer[<<cur, 2>>] = "none"
      BY <1>11, Names DEF Retry, FreshInv, AtInv, Asking
    <2>2. transfer' = [transfer EXCEPT ![<<cur, 2>>] = "pending"] /\ UNCHANGED <<chain, counted, noted, age>>
      BY <1>11 DEF Retry, GatewayStep, watcher
    <2>3. \A t \in Transfers : transfer[t] = "mined" => transfer'[t] = "mined"
      BY <2>1, <2>2 DEF TypeOK
    <2>4. QED
      BY <1>0, <2>2, <2>3, OnChain, Names DEF TypeOK
  <1>12. ASSUME NEW n \in Heads, MovedAnyway(n) PROVE ChainInv'
    BY <1>12 DEF MovedAnyway, GatewayStep, watcher
  <1>13. ASSUME NEW n \in Heads, CountPayment(n) PROVE ChainInv'
    <2>1. cur \in Calls
      BY <1>13, InHand DEF CountPayment
    <2>2. Found(cur, n) \in Calls \X {1, 2} /\ transfer[Found(cur, n)] = "mined"
      BY <1>13, <2>1, FindsMined DEF CountPayment
    <2>3. QED
      BY <1>13, <2>2 DEF CountPayment, GatewayStep, watcher
  <1>14. ASSUME NoSettlement PROVE ChainInv'
    BY <1>14 DEF NoSettlement, GatewayStep, watcher
  <1>15. ASSUME NEW n \in Heads, CountOrder(n) PROVE ChainInv'
    <2>1. cur \in Calls /\ Sent(cur) # None
      BY <1>15, InHand, Names DEF CountOrder, Sent
    <2>2. Found(cur, n) \in Calls \X {1, 2} /\ transfer[Found(cur, n)] = "mined"
      BY <1>15, <2>1, FindsMined DEF CountOrder
    <2>3. QED
      BY <1>15, <2>2 DEF CountOrder, GatewayStep, watcher
  <1>16. ASSUME NEW n \in Heads, NEW answered \in BOOLEAN, SendOrder(n, answered) PROVE ChainInv'
    <2>1. PICK k \in {1, 2} : transfer[<<cur, k>>] = "none" /\ transfer' = [transfer EXCEPT ![<<cur, k>>] = "pending"]
      BY <1>16 DEF SendOrder
    <2>2. UNCHANGED <<chain, counted, noted, age>>
      BY <1>16 DEF SendOrder, GatewayStep, watcher
    <2>3. \A t \in Transfers : transfer[t] = "mined" => transfer'[t] = "mined"
      BY <2>1 DEF TypeOK
    <2>4. QED
      BY <1>0, <2>2, <2>3, OnChain, Names DEF TypeOK
  <1>17. ASSUME Crash PROVE ChainInv'
    BY <1>17 DEF Crash, GatewayStep, watcher
  <1>31. ASSUME NEW n \in Heads, ReadHead(n) PROVE ChainInv'
    BY <1>31 DEF ReadHead, GatewayStep, watcher
  <1>32. ASSUME NEW n \in Heads, ReadOn(n) PROVE ChainInv'
    BY <1>32 DEF ReadOn, GatewayStep, watcher
  <1>33. ASSUME NEW n \in Heads, CountClaimed(n) PROVE ChainInv'
    <2>1. cur \in Calls
      BY <1>33, InHand DEF CountClaimed
    <2>2. Found(cur, n) \in Calls \X {1, 2} /\ transfer[Found(cur, n)] = "mined"
      BY <1>33, <2>1, FindsMined DEF CountClaimed
    <2>3. QED
      BY <1>33, <2>2 DEF CountClaimed, GatewayStep, watcher
  <1>18. ASSUME NEW e \in Blocks, NEW head \in Heads, NEW known \in Heads,
              NEW some \in SUBSET (Chunk(spentCursor, e, head, known) \ Outflows),
              ReportSpends(e, head, known, some) PROVE ChainInv'
    BY <1>18 DEF ReportSpends, WatcherStep, gateway
  <1>19. ASSUME NEW e \in Blocks, NEW head \in Heads, NEW known \in Heads,
              NEW some \in SUBSET (Chunk(cursor, e, head, known) \cap Outflows),
              NoteChunk(e, head, known, some) PROVE ChainInv'
    <2>1. \A t \in some : transfer[t] = "mined" /\ t \in Transfers
      BY ChunkMined
    <2>2. noted' = noted \cup some /\ UNCHANGED <<chain, counted, transfer, age>>
      BY <1>19 DEF NoteChunk, WatcherStep, gateway
    <2>3. QED
      BY <2>1, <2>2
  <1>20. ASSUME ReadTables PROVE ChainInv'
    <2>1. UNCHANGED <<chain, counted, transfer, noted>>
      BY <1>20 DEF ReadTables, WatcherStep, gateway
    <2>2. \A t \in Transfers : age'[t] \in {0, age[t]}
      BY <1>20 DEF ReadTables
    <2>3. QED
      BY <2>1, <2>2
  <1>21. ASSUME NEW t \in left, NotYet(t) PROVE ChainInv'
    BY <1>21 DEF NotYet, WatcherStep, gateway
  <1>22. ASSUME NEW t \in left, Unexplained(t) PROVE ChainInv'
    <2>1. UNCHANGED <<chain, counted, transfer, noted>>
      BY <1>22 DEF Unexplained, WatcherStep, gateway
    <2>2. \A u \in Transfers : age'[u] \in {0, age[u]}
      BY <1>22 DEF Unexplained, TypeOK
    <2>3. QED
      BY <2>1, <2>2
  <1>23. ASSUME Alarm PROVE ChainInv'
    BY <1>23 DEF Alarm, WatcherStep, gateway
  <1>24. ASSUME WatcherCrash PROVE ChainInv'
    BY <1>24 DEF WatcherCrash, WatcherStep, gateway
  <1>25. ASSUME NEW t \in Transfers, Mine(t) PROVE ChainInv'
    <2>1. transfer' = [transfer EXCEPT ![t] = "mined"] /\ transfer[t] # "mined" /\ UNCHANGED <<counted, noted, age>>
      BY <1>25 DEF Mine, gateway, watcher, clock
    <2>2. chain' = Append(chain, t) /\ Len(chain) + 1 <= MaxBlocks
      BY <1>0, <1>25, BoundAssumption DEF Mine, Room
    <2>3. DOMAIN chain' = DOMAIN chain \cup {Len(chain) + 1} /\ Len(chain') = Len(chain) + 1
      BY <2>2, OneMore DEF TypeOK
    <2>4. chain'[Len(chain) + 1] = t /\ \A b \in DOMAIN chain : chain'[b] = chain[b] /\ chain[b] # t
      BY <2>1, <2>2, OneMore, Names DEF TypeOK
    <2>5. \A u \in Transfers : transfer'[u] = IF u = t THEN "mined" ELSE transfer[u]
      BY <2>1 DEF TypeOK
    <2>6. \A b \in DOMAIN chain' : chain'[b] # None => transfer'[chain'[b]] = "mined"
      BY <1>0, <2>3, <2>4, <2>5, OnChain
    <2>7. \A b, x \in DOMAIN chain' : chain'[b] = chain'[x] /\ chain'[b] # None => b = x
      BY <1>0, <2>3, <2>4
    <2>8. \A u \in counted' \cup noted' : transfer'[u] = "mined"
      BY <2>1, <2>5, Names DEF TypeOK
    <2>9. QED
      BY <2>1, <2>2, <2>3, <2>6, <2>7, <2>8
  <1>26. ASSUME Tick PROVE ChainInv'
    <2>1. UNCHANGED <<transfer, counted, noted>> /\ \A t \in Transfers : t \notin noted => age'[t] = age[t]
      BY <1>26 DEF Tick, gateway, watcher
    <2>2. CASE Len(chain) < MaxBlocks
      <3>1. chain' = Append(chain, None) /\ Len(chain) + 1 <= MaxBlocks
        BY <1>0, <1>26, <2>2, BoundAssumption DEF Tick
      <3>2. DOMAIN chain' = DOMAIN chain \cup {Len(chain) + 1} /\ Len(chain') = Len(chain) + 1
        BY <3>1, OneMore DEF TypeOK
      <3>3. chain'[Len(chain) + 1] = None /\ \A b \in DOMAIN chain : chain'[b] = chain[b]
        BY <3>1, OneMore DEF TypeOK
      <3>4. QED
        BY <1>0, <2>1, <3>1, <3>2, <3>3
    <2>3. CASE ~(Len(chain) < MaxBlocks)
      BY <1>26, <2>1, <2>3 DEF Tick
    <2>4. QED
      BY <2>2, <2>3
  <1>27. CASE UNCHANGED vars
    BY <1>27 DEF vars, gateway, watcher, clock
  <1>28. QED
    BY <1>1, <1>2, <1>3, <1>4, <1>5, <1>6, <1>7, <1>8, <1>9, <1>10, <1>11, <1>12,
       <1>13, <1>14, <1>15, <1>16, <1>31, <1>32, <1>33, <1>17, <1>18, <1>19, <1>20, <1>21, <1>22, <1>23, <1>24,
       <1>25, <1>26, <1>27
       DEF Next, Gateway, CallStep, Watch

-----------------------------------------------------------------------------
(* An order is sent once                                                     *)

\* The chain takes what was signed, or what is nobody's call.
LEMMA MinedCall ==
  ASSUME TypeOK, NEW t \in Transfers, Mine(t), NEW c \in Calls, NEW k \in {1, 2}
  PROVE  transfer[<<c, k>>] = "none" => transfer'[<<c, k>>] = "none"
  <1>1. transfer' = [transfer EXCEPT ![t] = "mined"]
        /\ (transfer[t] = "pending" \/ t[1] \in Thefts \cup Strays)
    BY DEF Mine
  <1>2. c \notin Thefts \cup Strays /\ <<c, k>>[1] = c
    BY NamesAssumption DEF Calls
  <1>3. QED
    BY <1>1, <1>2, Names DEF TypeOK

\* Its claim is there before it is sent, and no step takes a claim back.
LEMMA OrderStep == ASSUME Inv, [Next]_vars PROVE OrderInv'
  <1> USE Names DEF Inv, AtInv, Asking, Sending
  <1> SUFFICES ASSUME NEW w \in Orders
               PROVE  /\ transfer'[<<w, 2>>] = "none"
                      /\ claims'[w] = None => transfer'[<<w, 1>>] = "none" /\ cur' # w /\ outcome'[w] # "ok"
                      /\ cur' = w /\ at' = "claimed" => transfer'[<<w, 1>>] = "none"
                      /\ outcome'[w] = "ok" \/ (cur' = w /\ at' = "counted") => <<w, 1>> \in counted'
                      /\ cur' = w => outcome'[w] # "ok"
    BY DEF OrderInv
  <1> DEFINE Goal == /\ transfer'[<<w, 2>>] = "none"
                     /\ claims'[w] = None => transfer'[<<w, 1>>] = "none" /\ cur' # w /\ outcome'[w] # "ok"
                     /\ cur' = w /\ at' = "claimed" => transfer'[<<w, 1>>] = "none"
                     /\ outcome'[w] = "ok" \/ (cur' = w /\ at' = "counted") => <<w, 1>> \in counted'
                     /\ cur' = w => outcome'[w] # "ok"
  <1>0. /\ transfer[<<w, 2>>] = "none"
        /\ claims[w] = None => transfer[<<w, 1>>] = "none" /\ cur # w /\ outcome[w] # "ok"
        /\ cur = w /\ at = "claimed" => transfer[<<w, 1>>] = "none"
        /\ outcome[w] = "ok" \/ (cur = w /\ at = "counted") => <<w, 1>> \in counted
        /\ cur = w => outcome[w] # "ok"
    BY DEF OrderInv
  <1>00. /\ transfer \in [Transfers -> {"none", "pending", "mined"}]
         /\ claims \in [Orders -> {None, Made} \cup Transfers]
         /\ outcome \in [Calls -> {"new", "ok", "failed"}]
         /\ <<w, 1>> \in Transfers /\ <<w, 2>> \in Transfers /\ w \in Calls
    BY DEF TypeOK
  <1>1. ASSUME NEW n \in Heads, NEW p \in Payments, Ask(p, n) PROVE Goal
    BY <1>1, <1>0, <1>00 DEF Ask
  <1>2. ASSUME NEW o \in Orders, RecordClaimed(o) PROVE Goal
    <2>1. outcome[o] # "ok" /\ claims[o] # None
      <3>1. <<o, 1>>[1] = o
        OBVIOUS
      <3>2. QED
        BY <1>2, <3>1 DEF RecordClaimed, NotAttempted, PaidAlready, OrderInv
    <2>2. QED
      BY <1>2, <1>0, <1>00, <2>1 DEF RecordClaimed
  <1>3. ASSUME NEW o \in Orders, ClaimOrder(o) PROVE Goal
    BY <1>3, <1>0, <1>00 DEF ClaimOrder, NotAttempted
  <1>4. ASSUME AnswerLost PROVE Goal
    BY <1>4, <1>0, <1>00 DEF AnswerLost, Ends
  <1>5. ASSUME ShortOfFunds PROVE Goal
    BY <1>5, <1>0, <1>00 DEF ShortOfFunds
  <1>6. ASSUME Return PROVE Goal
    BY <1>6, <1>0, <1>00 DEF Return, Ends
  <1>7. ASSUME OrderFails PROVE Goal
    BY <1>7, <1>0, <1>00 DEF OrderFails, Ends
  <1>8. ASSUME NoteTx PROVE Goal
    <2>1. Sent(cur) # None /\ cur \in Orders
      BY <1>8 DEF NoteTx, Sent
    <2>2. claims'[w] = None => claims[w] = None
      BY <1>8, <1>00, <2>1 DEF NoteTx
    <2>3. QED
      BY <1>8, <1>0, <2>2 DEF NoteTx
  <1>9. ASSUME OrderMined PROVE Goal
    BY <1>9, <1>0, <1>00 DEF OrderMined
  <1>10. ASSUME NEW good \in BOOLEAN, Answer(good) PROVE Goal
    BY <1>10, <1>0, <1>00 DEF Answer
  <1>11. ASSUME Retry PROVE Goal
    BY <1>11, <1>0, <1>00 DEF Retry
  <1>12. ASSUME NEW n \in Heads, MovedAnyway(n) PROVE Goal
    BY <1>12, <1>0, <1>00 DEF MovedAnyway
  <1>13. ASSUME NEW n \in Heads, CountPayment(n) PROVE Goal
    BY <1>13, <1>0, <1>00 DEF CountPayment
  <1>14. ASSUME NoSettlement PROVE Goal
    BY <1>14, <1>0, <1>00 DEF NoSettlement
  <1>15. ASSUME NEW n \in Heads, CountOrder(n) PROVE Goal
    <2>1. Sent(cur) = <<cur, 1>> /\ cur \in Orders
      BY <1>15, Names DEF CountOrder, Sent, OrderInv
    <2>2. QED
      BY <1>15, <1>0, <1>00, <2>1 DEF CountOrder
  <1>16. ASSUME NEW n \in Heads, NEW answered \in BOOLEAN, SendOrder(n, answered) PROVE Goal
    <2>1. cur \in Orders
      BY <1>16 DEF SendOrder
    <2>2. transfer' = [transfer EXCEPT ![<<cur, 1>>] = "pending"] /\ UNCHANGED <<counted, claims>>
      BY <1>16, <2>1 DEF SendOrder, OrderInv
    <2>3. CASE answered
      BY <1>16, <1>0, <1>00, <2>1, <2>2, <2>3 DEF SendOrder
    <2>4. CASE ~answered
      BY <1>16, <1>0, <1>00, <2>1, <2>2, <2>4 DEF SendOrder, Ends
    <2>5. QED
      BY <2>3, <2>4
  <1>17. ASSUME Crash PROVE Goal
    BY <1>17, <1>0, <1>00 DEF Crash, Ends
  <1>31. ASSUME NEW n \in Heads, ReadHead(n) PROVE Goal
    BY <1>31, <1>0, <1>00 DEF ReadHead
  <1>32. ASSUME NEW n \in Heads, ReadOn(n) PROVE Goal
    BY <1>32, <1>0, <1>00 DEF ReadOn
  <1>33. ASSUME NEW n \in Heads, CountClaimed(n) PROVE Goal
    BY <1>33, <1>0, <1>00 DEF CountClaimed, Ends
  <1>18. CASE Watch \/ WatcherCrash
    BY <1>18, <1>0, WatchFrame DEF gateway
  <1>19. ASSUME NEW t \in Transfers, Mine(t) PROVE Goal
    <2>1. UNCHANGED gateway
      BY <1>19 DEF Mine
    <2>2. QED
      BY <1>0, <1>19, <2>1, MinedCall DEF gateway
  <1>20. CASE Tick
    BY <1>20, <1>0 DEF Tick, gateway
  <1>21. CASE UNCHANGED vars
    BY <1>21, <1>0 DEF vars, gateway
  <1>22. QED
    BY <1>1, <1>2, <1>3, <1>4, <1>5, <1>6, <1>7, <1>8, <1>9, <1>10, <1>11, <1>12,
       <1>13, <1>14, <1>15, <1>16, <1>31, <1>32, <1>33, <1>17, <1>18, <1>19, <1>20, <1>21
       DEF Next, Gateway, CallStep

-----------------------------------------------------------------------------
(* A purchase not made yet is not counted                                    *)

\* A call counts what was mined, and no transfer of a later purchase was.
LEMMA FreshStep == ASSUME Inv, [Next]_vars PROVE FreshInv'
  <1> USE Names DEF Inv, AtInv, Asking, Sending
  <1> DEFINE Goal(w) ==
             outcome'[w] = "new" =>
               /\ cur' # w => transfer'[<<w, 1>>] = "none"
               /\ cur' # w \/ at' \in {"asked", "checking"} => transfer'[<<w, 2>>] = "none"
               /\ cur' # w \/ Asking' => \A k \in {1, 2} : <<w, k>> \notin counted'
  <1> SUFFICES ASSUME NEW w \in Payments PROVE Goal(w)
    BY DEF FreshInv
  <1>0. outcome[w] = "new" =>
          /\ cur # w => transfer[<<w, 1>>] = "none"
          /\ cur # w \/ at \in {"asked", "checking"} => transfer[<<w, 2>>] = "none"
          /\ cur # w \/ Asking => \A k \in {1, 2} : <<w, k>> \notin counted
    BY DEF FreshInv
  <1>00. /\ transfer \in [Transfers -> {"none", "pending", "mined"}]
         /\ outcome \in [Calls -> {"new", "ok", "failed"}]
         /\ <<w, 1>> \in Transfers /\ <<w, 2>> \in Transfers /\ w \in Calls
    BY DEF TypeOK
  <1>1. ASSUME NEW n \in Heads, NEW p \in Payments, Ask(p, n) PROVE Goal(w)
    BY <1>1, <1>0, <1>00 DEF Ask
  <1>2. ASSUME NEW o \in Orders, RecordClaimed(o) PROVE Goal(w)
    BY <1>2, <1>0, <1>00 DEF RecordClaimed
  <1>3. ASSUME NEW o \in Orders, ClaimOrder(o) PROVE Goal(w)
    BY <1>3, <1>0, <1>00 DEF ClaimOrder
  <1>4. ASSUME AnswerLost PROVE Goal(w)
    BY <1>4, <1>0, <1>00 DEF AnswerLost, Ends
  <1>5. ASSUME ShortOfFunds PROVE Goal(w)
    BY <1>5, <1>0, <1>00 DEF ShortOfFunds
  <1>6. ASSUME Return PROVE Goal(w)
    BY <1>6, <1>0, <1>00 DEF Return, Ends
  <1>7. ASSUME OrderFails PROVE Goal(w)
    BY <1>7, <1>0, <1>00 DEF OrderFails, Ends
  <1>8. ASSUME NoteTx PROVE Goal(w)
    BY <1>8, <1>0, <1>00 DEF NoteTx, Sent
  <1>9. ASSUME OrderMined PROVE Goal(w)
    BY <1>9, <1>0, <1>00 DEF OrderMined
  <1>10. ASSUME NEW good \in BOOLEAN, Answer(good) PROVE Goal(w)
    BY <1>10, <1>0, <1>00 DEF Answer
  <1>11. ASSUME Retry PROVE Goal(w)
    BY <1>11, <1>0, <1>00 DEF Retry
  <1>12. ASSUME NEW n \in Heads, MovedAnyway(n) PROVE Goal(w)
    BY <1>12, <1>0, <1>00 DEF MovedAnyway
  <1>13. ASSUME NEW n \in Heads, CountPayment(n) PROVE Goal(w)
    <2>1. cur \in Calls
      BY <1>13, InHand DEF CountPayment
    <2>2. transfer[Found(cur, n)] = "mined"
      BY <1>13, <2>1, FindsMined DEF CountPayment
    <2>3. QED
      BY <1>13, <1>0, <1>00, <2>2 DEF CountPayment
  <1>14. ASSUME NoSettlement PROVE Goal(w)
    BY <1>14, <1>0, <1>00 DEF NoSettlement
  <1>15. ASSUME NEW n \in Heads, CountOrder(n) PROVE Goal(w)
    <2>1. \A k \in {1, 2} : Sent(cur) # <<w, k>>
      BY <1>15 DEF CountOrder, Sent
    <2>2. QED
      BY <1>15, <1>0, <2>1 DEF CountOrder
  <1>16. ASSUME NEW n \in Heads, NEW answered \in BOOLEAN, SendOrder(n, answered) PROVE Goal(w)
    <2>1. PICK k \in {1, 2} : transfer' = [transfer EXCEPT ![<<cur, k>>] = "pending"]
      BY <1>16 DEF SendOrder
    <2>2. cur \in Orders /\ counted' = counted
      BY <1>16 DEF SendOrder
    <2>3. transfer'[<<w, 1>>] = transfer[<<w, 1>>] /\ transfer'[<<w, 2>>] = transfer[<<w, 2>>]
      BY <1>00, <2>1, <2>2
    <2>4. CASE answered
      BY <1>16, <1>0, <1>00, <2>2, <2>3, <2>4 DEF SendOrder
    <2>5. CASE ~answered
      BY <1>16, <1>0, <1>00, <2>2, <2>3, <2>5 DEF SendOrder, Ends
    <2>6. QED
      BY <2>4, <2>5
  <1>17. ASSUME Crash PROVE Goal(w)
    BY <1>17, <1>0, <1>00 DEF Crash, Ends
  <1>31. ASSUME NEW n \in Heads, ReadHead(n) PROVE Goal(w)
    BY <1>31, <1>0, <1>00 DEF ReadHead
  <1>32. ASSUME NEW n \in Heads, ReadOn(n) PROVE Goal(w)
    BY <1>32, <1>0, <1>00 DEF ReadOn
  <1>33. ASSUME NEW n \in Heads, CountClaimed(n) PROVE Goal(w)
    <2>1. cur \in Orders /\ cur \in Calls
      BY <1>33 DEF CountClaimed
    <2>2. Found(cur, n) \in {cur} \X {1, 2}
      BY <1>33, <2>1, FindsMined DEF CountClaimed, Alike
    <2>3. \A k \in {1, 2} : Found(cur, n) # <<w, k>>
      BY <2>1, <2>2
    <2>4. QED
      BY <1>33, <1>0, <1>00, <2>1, <2>3 DEF CountClaimed, Ends
  <1>18. CASE Watch \/ WatcherCrash
    BY <1>18, <1>0, WatchFrame DEF gateway
  <1>19. ASSUME NEW t \in Transfers, Mine(t) PROVE Goal(w)
    <2>1. UNCHANGED gateway
      BY <1>19 DEF Mine
    <2>2. \A k \in {1, 2} : transfer[<<w, k>>] = "none" => transfer'[<<w, k>>] = "none"
      BY <1>19, <1>00, MinedCall
    <2>3. QED
      BY <1>0, <2>1, <2>2 DEF gateway
  <1>20. CASE Tick
    BY <1>20, <1>0 DEF Tick, gateway
  <1>21. CASE UNCHANGED vars
    BY <1>21, <1>0 DEF vars, gateway
  <1>22. QED
    BY <1>1, <1>2, <1>3, <1>4, <1>5, <1>6, <1>7, <1>8, <1>9, <1>10, <1>11, <1>12,
       <1>13, <1>14, <1>15, <1>16, <1>31, <1>32, <1>33, <1>17, <1>18, <1>19, <1>20, <1>21
       DEF Next, Gateway, CallStep

-----------------------------------------------------------------------------
(* What a call counts, and when                                              *)

\* A purchase begins with a head of its time; the steps that look for its
\* transfer change neither its first block nor its clock.  An order is sent
\* when nothing of it is on the chain, and is not counted before it is done.
LEMMA Beginnings ==
  ASSUME Inv, Gateway
  PROVE  /\ Asking' => \/ Asking /\ start' = start /\ busy' = busy
                       \/ Len(chain) < MaxBlocks /\ start' \in Heads /\ busy' = 0
         /\ Sending' => /\ cur' \in Orders /\ counted' = counted
                        /\ \/ Sending /\ cur' = cur /\ busy' = busy
                           \/ transfer[<<cur', 1>>] = "none"
  <1> DEFINE Goal ==
         /\ Asking' => \/ Asking /\ start' = start /\ busy' = busy
                       \/ Len(chain) < MaxBlocks /\ start' \in Heads /\ busy' = 0
         /\ Sending' => /\ cur' \in Orders /\ counted' = counted
                        /\ \/ Sending /\ cur' = cur /\ busy' = busy
                           \/ transfer[<<cur', 1>>] = "none"
  <1> USE DEF Inv, AtInv, Asking, Sending
  <1>1. ASSUME NEW n \in Heads, NEW p \in Payments, Ask(p, n) PROVE Goal
    BY <1>1 DEF Ask
  <1>2. ASSUME NEW o \in Orders, RecordClaimed(o) PROVE Goal
    BY <1>2 DEF RecordClaimed
  <1>3. ASSUME NEW o \in Orders, ClaimOrder(o) PROVE Goal
    BY <1>3 DEF ClaimOrder
  <1>4. ASSUME AnswerLost PROVE Goal
    BY <1>4 DEF AnswerLost, Ends
  <1>5. ASSUME ShortOfFunds PROVE Goal
    BY <1>5 DEF ShortOfFunds
  <1>6. ASSUME Return PROVE Goal
    BY <1>6 DEF Return, Ends
  <1>7. ASSUME OrderFails PROVE Goal
    BY <1>7 DEF OrderFails, Ends
  <1>8. ASSUME NoteTx PROVE Goal
    BY <1>8 DEF NoteTx, Sent
  <1>9. ASSUME OrderMined PROVE Goal
    BY <1>9 DEF OrderMined
  <1>10. ASSUME NEW good \in BOOLEAN, Answer(good) PROVE Goal
    BY <1>10 DEF Answer
  <1>11. ASSUME Retry PROVE Goal
    BY <1>11 DEF Retry
  <1>12. ASSUME NEW n \in Heads, MovedAnyway(n) PROVE Goal
    BY <1>12 DEF MovedAnyway
  <1>13. ASSUME NEW n \in Heads, CountPayment(n) PROVE Goal
    BY <1>13 DEF CountPayment
  <1>14. ASSUME NoSettlement PROVE Goal
    BY <1>14 DEF NoSettlement
  <1>15. ASSUME NEW n \in Heads, CountOrder(n) PROVE Goal
    BY <1>15 DEF CountOrder
  <1>16. ASSUME NEW n \in Heads, NEW answered \in BOOLEAN, SendOrder(n, answered) PROVE Goal
    <2>1. cur \in Orders /\ transfer[<<cur, 1>>] = "none"
      BY <1>16 DEF SendOrder, OrderInv
    <2>2. CASE answered
      BY <1>16, <2>1, <2>2 DEF SendOrder
    <2>3. CASE ~answered
      BY <1>16, <2>3 DEF SendOrder, Ends
    <2>4. QED
      BY <2>2, <2>3
  <1>17. ASSUME Crash PROVE Goal
    BY <1>17 DEF Crash, Ends
  <1>31. ASSUME NEW n \in Heads, ReadHead(n) PROVE Goal
    BY <1>31 DEF ReadHead
  <1>32. ASSUME NEW n \in Heads, ReadOn(n) PROVE Goal
    BY <1>32 DEF ReadOn
  <1>33. ASSUME NEW n \in Heads, CountClaimed(n) PROVE Goal
    BY <1>33 DEF CountClaimed, Ends
  <1>18. QED
    BY <1>1, <1>2, <1>3, <1>4, <1>5, <1>6, <1>7, <1>8, <1>9, <1>10, <1>11, <1>12,
       <1>13, <1>14, <1>15, <1>16, <1>31, <1>32, <1>33, <1>17
       DEF Gateway, CallStep

\* What comes to be counted in time was counted in time before, or is not
\* resolved yet and no older than the call.
LEMMA InTime ==
  ASSUME Inv, Gateway, NEW t \in counted', Timely(t)'
  PROVE  \/ t \in counted /\ Timely(t)
         \/ t \notin resolved /\ (t \in noted => age[t] <= busy)
  <1> DEFINE Goal == \/ t \in counted /\ Timely(t)
                     \/ t \notin resolved /\ (t \in noted => age[t] <= busy)
  <1> USE Names DEF Inv, AtInv, Asking, Sending, Timely
  <1>0. TypeOK' /\ (\A u \in counted' : u \in Calls \X {1, 2}) /\ Len(chain) \in Nat
        /\ outcome \in [Calls -> {"new", "ok", "failed"}]
    <2>1. [Next]_vars
      BY DEF Next
    <2>2. TypeOK' /\ counted' \subseteq Calls \X {1, 2}
      BY <2>1, TypeStep, ChainStep DEF ChainInv
    <2>3. Len(chain) \in Nat /\ outcome \in [Calls -> {"new", "ok", "failed"}]
      BY DEF TypeOK
    <2>4. QED
      BY <2>2, <2>3
  <1> DEFINE c == t[1]
  <1>00. c \in Calls
    BY <1>0
  <1>1. ASSUME NEW n \in Heads, NEW p \in Payments, Ask(p, n) PROVE Goal
    BY <1>1, <1>0, <1>00 DEF Ask
  <1>2. ASSUME NEW o \in Orders, RecordClaimed(o) PROVE Goal
    BY <1>2, <1>0, <1>00 DEF RecordClaimed
  <1>3. ASSUME NEW o \in Orders, ClaimOrder(o) PROVE Goal
    BY <1>3, <1>0, <1>00 DEF ClaimOrder
  <1>4. ASSUME AnswerLost PROVE Goal
    BY <1>4, <1>0, <1>00 DEF AnswerLost, Ends
  <1>5. ASSUME ShortOfFunds PROVE Goal
    BY <1>5, <1>0, <1>00 DEF ShortOfFunds
  <1>6. ASSUME Return PROVE Goal
    BY <1>6, <1>0, <1>00 DEF Return, Ends
  <1>7. ASSUME OrderFails PROVE Goal
    BY <1>7, <1>0, <1>00 DEF OrderFails, Ends
  <1>8. ASSUME NoteTx PROVE Goal
    BY <1>8, <1>0, <1>00 DEF NoteTx, Sent
  <1>9. ASSUME OrderMined PROVE Goal
    BY <1>9, <1>0, <1>00 DEF OrderMined
  <1>10. ASSUME NEW good \in BOOLEAN, Answer(good) PROVE Goal
    BY <1>10, <1>0, <1>00 DEF Answer
  <1>11. ASSUME Retry PROVE Goal
    BY <1>11, <1>0, <1>00 DEF Retry
  <1>12. ASSUME NEW n \in Heads, MovedAnyway(n) PROVE Goal
    BY <1>12, <1>0, <1>00 DEF MovedAnyway
  <1>13. ASSUME NEW n \in Heads, CountPayment(n) PROVE Goal
    <2>1. cur \in Payments /\ cur \in Calls /\ at = "answered"
      BY <1>13 DEF CountPayment
    <2>2. CASE t \in counted
      BY <1>13, <1>00, <2>1, <2>2 DEF CountPayment
    <2>3. CASE t \notin counted
      <3>1. t = Found(cur, n) /\ t # None
        BY <1>13, <2>3 DEF CountPayment
      <3>2. PICK b \in DOMAIN chain : start <= b /\ t = chain[b]
        <4>1. PICK b \in DOMAIN chain : scan <= b /\ t = chain[b]
          BY <2>1, <3>1, FindsMined
        <4>2. start <= scan /\ start \in Nat /\ scan \in Nat /\ b \in Nat
          BY <2>1, BoundAssumption DEF SearchInv, TypeOK
        <4>3. QED
          BY <4>1, <4>2
      <3>3. t \in Payments \X {1, 2}
        BY <2>1, <3>1, FindsMined DEF Alike
      <3>4. t \notin resolved
        <4>1. b \in Nat /\ start \in Nat
          BY BoundAssumption DEF TypeOK
        <4>2. chain[b][1] \in Payments /\ ~(b < start)
          BY <3>2, <3>3, <4>1
        <4>3. QED
          BY <2>1, <2>3, <3>2, <4>2 DEF RaiseInv
      <3>5. t \in noted => age[t] <= busy
        BY <1>0, <2>1, <3>2 DEF AgeInv, TypeOK
      <3>6. QED
        BY <3>4, <3>5
    <2>4. QED
      BY <2>2, <2>3
  <1>14. ASSUME NoSettlement PROVE Goal
    BY <1>14, <1>0, <1>00 DEF NoSettlement
  <1>15. ASSUME NEW n \in Heads, CountOrder(n) PROVE Goal
    <2>1. cur \in Orders /\ Sent(cur) = <<cur, 1>> /\ at = "mined"
      BY <1>15 DEF CountOrder, Sent, OrderInv
    <2>2. <<cur, 1>> \notin counted \cup resolved /\ age[<<cur, 1>>] <= busy
      BY <2>1 DEF AgeInv
    <2>3. CASE t = <<cur, 1>>
      BY <2>2, <2>3
    <2>4. CASE t # <<cur, 1>>
      <3>1. t \in counted /\ counted' = counted \cup {<<cur, 1>>}
        BY <1>15, <2>1, <2>4 DEF CountOrder
      <3>2. t # <<cur, 2>>
        BY <2>1, <3>1 DEF OrderInv, ChainInv
      <3>3. c # cur
        BY <1>0, <2>4, <3>2
      <3>4. QED
        BY <1>15, <3>1, <3>3 DEF CountOrder
    <2>5. QED
      BY <2>3, <2>4
  <1>16. ASSUME NEW n \in Heads, NEW answered \in BOOLEAN, SendOrder(n, answered) PROVE Goal
    <2>1. t \in counted
      BY <1>16 DEF SendOrder
    <2>2. CASE answered
      BY <1>16, <1>00, <2>1, <2>2 DEF SendOrder
    <2>3. CASE ~answered
      BY <1>16, <1>0, <1>00, <2>1, <2>3 DEF SendOrder, Ends
    <2>4. QED
      BY <2>2, <2>3
  <1>17. ASSUME Crash PROVE Goal
    BY <1>17, <1>0, <1>00 DEF Crash, Ends
  <1>31. ASSUME NEW n \in Heads, ReadHead(n) PROVE Goal
    BY <1>31, <1>0, <1>00 DEF ReadHead
  <1>32. ASSUME NEW n \in Heads, ReadOn(n) PROVE Goal
    BY <1>32, <1>0, <1>00 DEF ReadOn
  <1>33. ASSUME NEW n \in Heads, CountClaimed(n) PROVE Goal
    <2>1. cur \in Orders /\ cur \in Calls
      BY <1>33 DEF CountClaimed
    <2>2. Found(cur, n) \in {cur} \X {1, 2}
      BY <1>33, <2>1, FindsMined DEF CountClaimed, Alike
    <2>3. outcome' = [outcome EXCEPT ![cur] = "failed"] /\ cur' = NoCall /\ at' = "idle"
          /\ counted' \subseteq counted \cup {Found(cur, n)}
      BY <1>33 DEF CountClaimed, Ends
    <2>4. c # cur
      BY <1>0, <2>1, <2>3
    <2>5. t \in counted
      BY <2>2, <2>3, <2>4
    <2>6. QED
      BY <1>0, <1>00, <2>3, <2>4, <2>5
  <1>18. QED
    BY <1>1, <1>2, <1>3, <1>4, <1>5, <1>6, <1>7, <1>8, <1>9, <1>10, <1>11, <1>12,
       <1>13, <1>14, <1>15, <1>16, <1>31, <1>32, <1>33, <1>17
       DEF Gateway, CallStep

-----------------------------------------------------------------------------
(* The clocks                                                                *)

\* The numbers among the types.
LEMMA Numbers ==
  Inv => /\ start \in Nat /\ busy \in Nat /\ busy <= CallTicks /\ waiting \in Nat /\ waiting <= PassTicks
         /\ CallTicks \in Nat /\ PassTicks \in Nat /\ Grace \in Nat /\ CallTicks + PassTicks <= Grace
         /\ Lag \in Nat /\ HeadMargin \in Nat /\ Lag <= HeadMargin /\ MaxBlocks \in Nat
         /\ Len(chain) \in Nat /\ Len(chain) <= MaxBlocks /\ DOMAIN chain = 1..Len(chain)
         /\ \A b \in DOMAIN chain : b \in Nat /\ chain[b] \in Transfers \cup {None}
         /\ noted \subseteq Transfers /\ resolved \subseteq noted /\ left \subseteq noted
         /\ None \notin Transfers
         /\ age \in [Transfers -> Nat]
  BY Names, BoundAssumption, GraceAssumption, MarginAssumption DEF Inv, TypeOK, ChainInv

LEMMA AgeGateway == ASSUME Inv, Gateway PROVE AgeInv'
  <1> USE Numbers
  <1>1. UNCHANGED <<chain, noted, resolved, left, age, waiting>>
    BY GatewayFrame DEF watcher
  <1>2. Len(chain') < MaxBlocks =>
          \A b \in DOMAIN chain' : chain'[b] \in noted' => age'[chain'[b]] + b + HeadMargin <= Len(chain')
    BY <1>1 DEF Inv, AgeInv
  <1>3. ASSUME Asking', NEW b \in DOMAIN chain, b >= start', chain[b] \in noted
        PROVE  age[chain[b]] <= busy'
    <2>1. CASE Asking /\ start' = start /\ busy' = busy
      BY <1>3, <2>1 DEF Inv, AgeInv
    <2>2. CASE Len(chain) < MaxBlocks /\ start' \in Heads /\ busy' = 0
      <3>1. age[chain[b]] + b + HeadMargin <= Len(chain) /\ age[chain[b]] \in Nat
        BY <1>3, <2>2 DEF Inv, AgeInv
      <3>2. start' \in Nat /\ start' + Lag >= Len(chain)
        BY <2>2 DEF Heads
      <3>3. QED
        BY <1>3, <2>2, <3>1, <3>2
    <2>3. QED
      BY <1>3, <2>1, <2>2, Beginnings
  <1>4. ASSUME Sending' PROVE age'[<<cur', 1>>] <= busy' /\ <<cur', 1>> \notin counted' \cup resolved'
    <2>1. CASE Sending /\ cur' = cur /\ busy' = busy /\ counted' = counted
      BY <1>1, <2>1 DEF Inv, AgeInv
    <2>2. CASE cur' \in Orders /\ counted' = counted /\ transfer[<<cur', 1>>] = "none"
      <3>1. <<cur', 1>> \in Transfers
        BY <2>2, Names
      <3>2. <<cur', 1>> \notin counted \cup noted /\ age[<<cur', 1>>] = 0
        BY <2>2, <3>1 DEF Inv, ChainInv
      <3>3. busy' >= 0
        <4>1. TypeOK'
          BY TypeStep DEF Next
        <4>2. QED
          BY <4>1, GraceAssumption DEF TypeOK
      <3>4. QED
        BY <1>1, <2>2, <3>2, <3>3
    <2>3. QED
      BY <1>4, <2>1, <2>2, Beginnings
  <1>5. ASSUME NEW t \in left' \cap counted', Timely(t)' PROVE age'[t] <= CallTicks + waiting'
    <2>1. t \in left /\ t \in noted /\ age[t] \in Nat
      BY <1>1, <1>5
    <2>2. CASE t \in counted /\ Timely(t)
      BY <1>1, <2>1, <2>2 DEF Inv, AgeInv
    <2>3. CASE age[t] <= busy
      BY <1>1, <2>1, <2>3
    <2>4. QED
      BY <1>5, <2>1, <2>2, <2>3, InTime
  <1>6. Asking' => \A b \in DOMAIN chain' : b >= start' /\ chain'[b] \in noted' => age'[chain'[b]] <= busy'
    BY <1>1, <1>3
  <1>7. \A t \in left' \cap counted' : Timely(t)' => age'[t] <= CallTicks + waiting'
    BY <1>5
  <1>8. QED
    BY <1>2, <1>4, <1>6, <1>7 DEF AgeInv

\* A step of a pass that notes no outflow leaves the clocks where they are or
\* starts them again.
LEMMA AgeSame ==
  ASSUME Inv, TypeOK', UNCHANGED <<gateway, transfer, chain, busy, noted>>,
         \A t \in Transfers : age'[t] <= age[t],
         Sending => <<cur, 1>> \notin resolved',
         left' \cap counted \subseteq left, left' = {} \/ waiting' = waiting \/ left' \cap counted = {}
  PROVE  AgeInv'
  <1> USE Numbers
  <1>1. UNCHANGED <<at, cur, start, counted, chain, busy, noted>> /\ (Asking' <=> Asking) /\ (Sending' <=> Sending)
        /\ \A t : Timely(t)' <=> Timely(t)
    BY DEF gateway, Asking, Sending, Timely
  <1>2. \A t \in Transfers : age[t] \in Nat /\ age'[t] \in Nat
    BY GraceAssumption DEF TypeOK
  <1>3. Len(chain') < MaxBlocks =>
          \A b \in DOMAIN chain' : chain'[b] \in noted' => age'[chain'[b]] + b + HeadMargin <= Len(chain')
    BY <1>1, <1>2 DEF Inv, AgeInv
  <1>4. Asking' => \A b \in DOMAIN chain' : b >= start' /\ chain'[b] \in noted' => age'[chain'[b]] <= busy'
    BY <1>1, <1>2 DEF Inv, AgeInv
  <1>5. Sending => cur \in Orders /\ <<cur, 1>> \in Transfers
    BY Names DEF Inv, AtInv
  <1>6. Sending' => age'[<<cur', 1>>] <= busy' /\ <<cur', 1>> \notin counted' \cup resolved'
    BY <1>1, <1>2, <1>5 DEF Inv, AgeInv
  <1>7. \A t \in left' \cap counted' : Timely(t)' => age'[t] <= CallTicks + waiting'
    BY <1>1, <1>2 DEF Inv, AgeInv
  <1>8. QED
    BY <1>3, <1>4, <1>6, <1>7 DEF AgeInv

\* A clock starts when the margin has passed over its block.
LEMMA AgeNote ==
  ASSUME Inv, NEW e \in Blocks, NEW head \in Heads, NEW known \in Heads,
         NEW some \in SUBSET (Chunk(cursor, e, head, known) \cap Outflows),
         NoteChunk(e, head, known, some)
  PROVE  AgeInv'
  <1> USE Numbers
  <1>1. noted' = noted \cup some /\ UNCHANGED <<gateway, chain, transfer, resolved, left, age, waiting, busy>>
    BY DEF NoteChunk, WatcherStep
  <1>2. UNCHANGED <<at, cur, start, counted>> /\ (Asking' <=> Asking) /\ (Sending' <=> Sending)
        /\ \A t : Timely(t)' <=> Timely(t)
    BY <1>1 DEF gateway, Asking, Sending, Timely
  <1>3. ASSUME NEW b \in DOMAIN chain, chain[b] \in some \ noted
        PROVE  age[chain[b]] = 0 /\ b + HeadMargin <= Len(chain)
    <2>1. chain[b] \in Transfers /\ age[chain[b]] = 0
      BY <1>3, Names DEF Inv, ChainInv
    <2>2. PICK x \in DOMAIN chain : chain[x] = chain[b] /\ x + HeadMargin <= Len(chain)
      BY <1>3, ChunkMined DEF Inv
    <2>3. x = b
      BY <1>3, <2>1, <2>2 DEF Inv, ChainInv
    <2>4. QED
      BY <2>1, <2>2, <2>3
  <1>4. Len(chain') < MaxBlocks =>
          \A b \in DOMAIN chain' : chain'[b] \in noted' => age'[chain'[b]] + b + HeadMargin <= Len(chain')
    BY <1>1, <1>3 DEF Inv, AgeInv
  <1>5. Asking' => \A b \in DOMAIN chain' : b >= start' /\ chain'[b] \in noted' => age'[chain'[b]] <= busy'
    BY <1>1, <1>2, <1>3 DEF Inv, AgeInv
  <1>6. QED
    BY <1>1, <1>2, <1>4, <1>5 DEF Inv, AgeInv

\* A block more, and nothing in it that was noted.
LEMMA AgeMine == ASSUME Inv, NEW t \in Transfers, Mine(t) PROVE AgeInv'
  <1> USE Numbers
  <1>1. chain' = Append(chain, t) /\ transfer[t] # "mined" /\ UNCHANGED <<gateway, watcher, clock>>
    BY DEF Mine
  <1>2. UNCHANGED <<at, cur, start, counted, noted, resolved, left, age, waiting, busy>>
        /\ (Asking' <=> Asking) /\ (Sending' <=> Sending) /\ \A u : Timely(u)' <=> Timely(u)
    BY <1>1 DEF gateway, watcher, clock, Asking, Sending, Timely
  <1>3. t \notin noted
    BY <1>1 DEF Inv, ChainInv
  <1>4. Len(chain') = Len(chain) + 1
        /\ \A b \in DOMAIN chain' : chain'[b] \in noted => b \in DOMAIN chain /\ chain'[b] = chain[b]
    BY <1>1, <1>3, ChainSeq, OneMore
  <1>5. Len(chain') < MaxBlocks =>
          \A b \in DOMAIN chain' : chain'[b] \in noted' => age'[chain'[b]] + b + HeadMargin <= Len(chain')
    <2> SUFFICES ASSUME Len(chain') < MaxBlocks, NEW b \in DOMAIN chain', chain'[b] \in noted
                 PROVE  age[chain'[b]] + b + HeadMargin <= Len(chain')
      BY <1>2
    <2>1. b \in DOMAIN chain /\ chain'[b] = chain[b] /\ age[chain[b]] \in Nat
      BY <1>4
    <2>2. age[chain[b]] + b + HeadMargin <= Len(chain)
      BY <1>4, <2>1 DEF Inv, AgeInv
    <2>3. QED
      BY <1>4, <2>1, <2>2
  <1>6. Asking' => \A b \in DOMAIN chain' : b >= start' /\ chain'[b] \in noted' => age'[chain'[b]] <= busy'
    BY <1>2, <1>4 DEF Inv, AgeInv
  <1>7. QED
    BY <1>2, <1>5, <1>6 DEF Inv, AgeInv

\* A tick is one for the outflow, the call and the pass, and a block for the chain.
LEMMA AgeTick == ASSUME Inv, Tick PROVE AgeInv'
  <1> USE Numbers
  <1>1. UNCHANGED <<at, cur, start, counted, noted, resolved, left, raising>>
        /\ (Asking' <=> Asking) /\ (Sending' <=> Sending) /\ \A u : Timely(u)' <=> Timely(u)
    BY DEF Tick, gateway, watcher, Asking, Sending, Timely
  <1>2. \A t \in Transfers : age'[t] <= age[t] + 1 /\ age'[t] \in Nat
    BY DEF Tick
  <1>3. Asking \/ Sending => busy' = busy + 1
    BY DEF Tick, Asking, Sending
  <1>4. left # {} => waiting' = waiting + 1
    BY DEF Tick, Judging
  <1>5. /\ Len(chain) < MaxBlocks => Len(chain') = Len(chain) + 1
        /\ Len(chain) = MaxBlocks => Len(chain') = MaxBlocks
        /\ \A b \in DOMAIN chain' : chain'[b] \in noted => b \in DOMAIN chain /\ chain'[b] = chain[b]
    <2>1. CASE Len(chain) < MaxBlocks
      <3>1. chain' = Append(chain, None)
        BY <2>1 DEF Tick
      <3>2. QED
        BY <2>1, <3>1, ChainSeq, OneMore
    <2>2. CASE ~(Len(chain) < MaxBlocks)
      BY <2>2 DEF Tick
    <2>3. QED
      BY <2>1, <2>2
  <1>6. Len(chain') < MaxBlocks =>
          \A b \in DOMAIN chain' : chain'[b] \in noted' => age'[chain'[b]] + b + HeadMargin <= Len(chain')
    <2> SUFFICES ASSUME Len(chain') < MaxBlocks, NEW b \in DOMAIN chain', chain'[b] \in noted
                 PROVE  age'[chain'[b]] + b + HeadMargin <= Len(chain')
      BY <1>1
    <2>1. Len(chain) < MaxBlocks /\ Len(chain') = Len(chain) + 1
      BY <1>5
    <2>2. b \in DOMAIN chain /\ chain'[b] = chain[b] /\ chain[b] \in Transfers
      BY <1>5
    <2>3. age[chain[b]] + b + HeadMargin <= Len(chain)
      BY <2>1, <2>2 DEF Inv, AgeInv
    <2>4. QED
      BY <1>2, <2>1, <2>2, <2>3
  <1>7. Asking' => \A b \in DOMAIN chain' : b >= start' /\ chain'[b] \in noted' => age'[chain'[b]] <= busy'
    <2> SUFFICES ASSUME Asking, NEW b \in DOMAIN chain', b >= start, chain'[b] \in noted
                 PROVE  age'[chain'[b]] <= busy + 1
      BY <1>1, <1>3
    <2>1. b \in DOMAIN chain /\ chain'[b] = chain[b] /\ chain[b] \in Transfers
      BY <1>5
    <2>2. age[chain[b]] <= busy
      BY <2>1 DEF Inv, AgeInv
    <2>3. QED
      BY <1>2, <2>1, <2>2
  <1>8. Sending => cur \in Orders /\ <<cur, 1>> \in Transfers
    BY Names DEF Inv, AtInv
  <1>9. Sending' => age'[<<cur', 1>>] <= busy' /\ <<cur', 1>> \notin counted' \cup resolved'
    BY <1>1, <1>2, <1>3, <1>8 DEF Inv, AgeInv
  <1>10. \A t \in left' \cap counted' : Timely(t)' => age'[t] <= CallTicks + waiting'
    BY <1>1, <1>2, <1>4 DEF Inv, AgeInv
  <1>11. QED
    BY <1>6, <1>7, <1>9, <1>10 DEF AgeInv

LEMMA AgeStep == ASSUME Inv, [Next]_vars PROVE AgeInv'
  <1> USE Numbers
  <1>0. TypeOK'
    BY TypeStep
  <1>00. age \in [Transfers -> Nat] /\ (Sending => <<cur, 1>> \in Transfers /\ <<cur, 1>> \notin counted \cup resolved)
    BY Names DEF Inv, AtInv, AgeInv
  <1>1. CASE Gateway
    BY <1>1, AgeGateway
  <1>2. ASSUME NEW e \in Blocks, NEW head \in Heads, NEW known \in Heads,
              NEW some \in SUBSET (Chunk(spentCursor, e, head, known) \ Outflows),
              ReportSpends(e, head, known, some) PROVE AgeInv'
    <2>1. UNCHANGED <<gateway, transfer, chain, busy, noted, age, resolved, left, waiting>>
      BY <1>2 DEF ReportSpends, WatcherStep
    <2>2. QED
      BY <1>0, <1>00, <2>1, AgeSame
  <1>3. ASSUME NEW e \in Blocks, NEW head \in Heads, NEW known \in Heads,
              NEW some \in SUBSET (Chunk(cursor, e, head, known) \cap Outflows),
              NoteChunk(e, head, known, some) PROVE AgeInv'
    BY <1>3, AgeNote
  <1>4. CASE ReadTables
    <2>1. UNCHANGED <<gateway, transfer, chain, busy, noted>> /\ left' \cap counted = {}
          /\ (\A t \in Transfers : age'[t] <= age[t]) /\ resolved' \subseteq resolved \cup counted
      BY <1>4, <1>00 DEF ReadTables, WatcherStep
    <2>2. QED
      BY <1>0, <1>00, <2>1, AgeSame
  <1>5. ASSUME NEW t \in left, NotYet(t) PROVE AgeInv'
    <2>1. UNCHANGED <<gateway, transfer, chain, busy, noted, age, resolved, waiting>> /\ left' \subseteq left
      BY <1>5 DEF NotYet, WatcherStep
    <2>2. QED
      BY <1>0, <1>00, <2>1, AgeSame
  <1>6. ASSUME NEW t \in left, Unexplained(t) PROVE AgeInv'
    <2>1. UNCHANGED <<gateway, transfer, chain, busy, noted, waiting>> /\ left' \subseteq left
          /\ (\A u \in Transfers : age'[u] <= age[u]) /\ resolved' = resolved \cup {t} /\ age[t] > Grace
      BY <1>6, <1>00 DEF Unexplained, PastGrace, WatcherStep
    <2>2. Sending => t # <<cur, 1>>
      <3> SUFFICES ASSUME Sending, t = <<cur, 1>> PROVE FALSE
        OBVIOUS
      <3>1. age[t] <= busy
        BY DEF Inv, AgeInv
      <3>2. t \in Transfers /\ age[t] \in Nat
        BY <1>00
      <3>3. QED
        BY <2>1, <3>1, <3>2
    <2>3. QED
      BY <1>0, <1>00, <2>1, <2>2, AgeSame
  <1>7. CASE Alarm
    <2>1. UNCHANGED <<gateway, transfer, chain, busy, noted, age, resolved, left, waiting>>
      BY <1>7 DEF Alarm, WatcherStep
    <2>2. QED
      BY <1>0, <1>00, <2>1, AgeSame
  <1>8. CASE WatcherCrash
    <2>1. UNCHANGED <<gateway, transfer, chain, busy, noted, age, resolved>> /\ left' = {}
      BY <1>8 DEF WatcherCrash, WatcherStep
    <2>2. QED
      BY <1>0, <1>00, <2>1, AgeSame
  <1>9. ASSUME NEW t \in Transfers, Mine(t) PROVE AgeInv'
    BY <1>9, AgeMine
  <1>10. CASE Tick
    BY <1>10, AgeTick
  <1>11. CASE UNCHANGED vars
    <2>1. UNCHANGED <<gateway, transfer, chain, busy, noted, age, resolved, left, waiting>>
      BY <1>11 DEF vars, watcher, clock
    <2>2. QED
      BY <1>0, <1>00, <2>1, AgeSame
  <1>12. QED
    BY <1>1, <1>2, <1>3, <1>4, <1>5, <1>6, <1>7, <1>8, <1>9, <1>10, <1>11 DEF Next, Watch

-----------------------------------------------------------------------------
(* The search for a purchase                                                 *)

\* A read of the logs passes no block that every node has and that holds a
\* transfer of the call in hand that was not counted.
LEMMA NotPassed ==
  ASSUME Inv, NEW known \in Heads, ReadOn(known), at \in {"checking", "answered"},
         NEW b \in DOMAIN chain, scan <= b, b <= latest, b + Lag <= Len(chain),
         chain[b] \in {cur} \X {1, 2}
  PROVE  scan' <= b
  <1> USE Numbers
  <1>1. cur \in Payments /\ cur \in Calls /\ outcome[cur] = "new"
    BY Names DEF Inv, AtInv, Asking
  <1>2. chain[b] \in Alike(cur) \ counted
    <2>1. \A k \in {1, 2} : <<cur, k>> \notin counted
      BY <1>1 DEF Inv, FreshInv, Asking
    <2>2. PICK k \in {1, 2} : chain[b] = <<cur, k>>
      OBVIOUS
    <2>3. <<cur, k>> \in Alike(cur)
      BY <1>1 DEF Alike
    <2>4. QED
      BY <2>1, <2>2, <2>3
  <1>3. b \in Blocks /\ b <= known
    BY DEF Blocks, Heads
  <1>4. scan \in Nat /\ End \in Nat /\ scan' = End + 1
    BY Ahead DEF ReadOn, Inv
  <1>5. Matches(cur, known) = {}
    BY <1>1, FindsOne DEF ReadOn
  <1>6. ~ (b <= End)
    BY <1>2, <1>3, <1>5 DEF Matches, Seen
  <1>7. QED
    BY <1>3, <1>4, <1>6

\* A round is over when all is read, the block with a transfer that was shown included.
LEMMA NotOver == ASSUME Inv, at \in {"checking", "answered"}, shown PROVE ~RoundOver
  <1>1. PICK b \in DOMAIN chain : scan <= b /\ b <= latest
    BY DEF Inv, SearchInv
  <1>2. b \in Nat /\ scan \in Nat /\ latest \in Nat
    BY <1>1, Numbers, BoundAssumption DEF Inv, TypeOK, NoHead
  <1>3. QED
    BY <1>1, <1>2 DEF RoundOver

\* It begins at the first block of the call, and goes on from block to block.
LEMMA SearchStep == ASSUME Inv, [Next]_vars PROVE SearchInv'
  <1> USE Numbers
  <1> SUFFICES ASSUME at' \in {"checking", "answered"}
               PROVE  /\ start' <= scan'
                      /\ shown' => \E b \in DOMAIN chain' :
                           /\ scan' <= b /\ b <= latest' /\ b + Lag <= Len(chain')
                           /\ chain'[b] \in {cur'} \X {1, 2}
    BY DEF SearchInv
  <1> DEFINE Goal == /\ start' <= scan'
                     /\ shown' => \E b \in DOMAIN chain' :
                          /\ scan' <= b /\ b <= latest' /\ b + Lag <= Len(chain')
                          /\ chain'[b] \in {cur'} \X {1, 2}
  <1>0. /\ scan \in Nat /\ latest \in Nat /\ NoHead = MaxBlocks + 1
        /\ at \in {"checking", "answered"} =>
             /\ start <= scan
             /\ shown => \E b \in DOMAIN chain : /\ scan <= b /\ b <= latest /\ b + Lag <= Len(chain)
                                                 /\ chain[b] \in {cur} \X {1, 2}
    BY BoundAssumption DEF Inv, TypeOK, SearchInv, NoHead
  <1>1. CASE ShortOfFunds \/ \E good \in BOOLEAN : Answer(good)
    <2>1. /\ start' = start /\ scan' = start /\ latest' = NoHead /\ cur' = cur /\ chain' = chain
          /\ shown' = Shown
      BY <1>1 DEF ShortOfFunds, Answer, SearchFrom, GatewayStep
    <2>2. ASSUME Shown
          PROVE  \E b \in DOMAIN chain : start <= b /\ b <= NoHead /\ b + Lag <= Len(chain) /\ chain[b] \in {cur} \X {1, 2}
      <3>1. PICK b \in DOMAIN chain : start <= b /\ b + Lag <= Len(chain) /\ chain[b] \in {cur} \X {1, 2}
        BY <2>2 DEF Shown
      <3>2. b <= NoHead
        BY <1>0, <3>1
      <3>3. QED
        BY <3>1, <3>2
    <2>3. QED
      BY <2>1, <2>2
  <1>2. ASSUME NEW n \in Heads, MovedAnyway(n) PROVE Goal
    <2>1. /\ start' = start /\ scan' = start /\ latest' = NoHead /\ cur' = cur /\ chain' = chain
          /\ shown' = shown /\ at = "checking"
      BY <1>2 DEF MovedAnyway, SearchFrom, GatewayStep
    <2>2. \A b \in DOMAIN chain : scan <= b => start <= b /\ b <= NoHead
      BY <1>0, <2>1
    <2>3. QED
      BY <1>0, <2>1, <2>2
  <1>3. ASSUME NEW n \in Heads, ReadHead(n) PROVE Goal
    <2>1. UNCHANGED <<at, start, scan, cur, chain, shown>> /\ latest' = n /\ n \in Nat /\ n + Lag >= Len(chain)
      BY <1>3 DEF ReadHead, GatewayStep, Heads
    <2>2. \A b \in DOMAIN chain : b + Lag <= Len(chain) => b <= n
      BY <2>1
    <2>3. QED
      BY <1>0, <2>1, <2>2
  <1>4. ASSUME NEW n \in Heads, ReadOn(n) PROVE Goal
    <2>1. UNCHANGED <<at, start, latest, cur, chain, shown>>
      BY <1>4 DEF ReadOn, GatewayStep
    <2>2. End \in Nat /\ scan <= End /\ scan' = End + 1
      BY <1>4, Ahead DEF ReadOn, Inv
    <2>3. start' <= scan'
      BY <1>0, <2>1, <2>2
    <2>4. ASSUME shown
          PROVE  \E b \in DOMAIN chain : /\ scan' <= b /\ b <= latest /\ b + Lag <= Len(chain)
                                         /\ chain[b] \in {cur} \X {1, 2}
      <3>1. PICK b \in DOMAIN chain : /\ scan <= b /\ b <= latest /\ b + Lag <= Len(chain)
                                      /\ chain[b] \in {cur} \X {1, 2}
        BY <1>0, <2>1, <2>4
      <3>2. scan' <= b
        BY <1>4, <2>1, <3>1, NotPassed
      <3>3. QED
        BY <3>1, <3>2
    <2>5. QED
      BY <2>1, <2>3, <2>4
  <1>5. ASSUME UNCHANGED gateway, Len(chain') \in Nat, Len(chain') >= Len(chain),
               \A b \in DOMAIN chain : b \in DOMAIN chain' /\ chain'[b] = chain[b]
        PROVE  Goal
    <2>1. UNCHANGED <<at, start, scan, latest, cur, shown>>
      BY <1>5 DEF gateway, search
    <2>2. \A b \in DOMAIN chain : b + Lag <= Len(chain) => b + Lag <= Len(chain')
      BY <1>5
    <2>3. QED
      BY <1>0, <1>5, <2>1, <2>2
  <1>6. CASE Gateway
    BY <1>1, <1>2, <1>3, <1>4, <1>6 DEF Gateway, CallStep, Ask, RecordClaimed, CountClaimed, ClaimOrder,
       AnswerLost, Return, OrderFails, NoteTx, OrderMined, Retry, CountPayment, NoSettlement, CountOrder,
       SendOrder, Crash, Ends
  <1>7. CASE Watch \/ WatcherCrash
    BY <1>5, <1>7, WatchFrame
  <1>8. ASSUME NEW t \in Transfers, Mine(t) PROVE Goal
    <2>1. UNCHANGED gateway /\ chain' = Append(chain, t)
      BY <1>8 DEF Mine
    <2>2. QED
      BY <1>5, <2>1, ChainSeq, OneMore
  <1>9. CASE Tick
    <2>1. UNCHANGED gateway /\ (chain' = Append(chain, None) \/ chain' = chain)
      BY <1>9 DEF Tick
    <2>2. QED
      BY <1>5, <2>1, ChainSeq, OneMore
  <1>10. CASE UNCHANGED vars
    BY <1>5, <1>10 DEF vars
  <1>11. QED
    BY <1>6, <1>7, <1>8, <1>9, <1>10 DEF Next

-----------------------------------------------------------------------------
(* Resolved before raised                                                    *)

\* The gateway counts nothing that is resolved, and begins with a head past all
\* that is resolved and not counted.
LEMMA RaiseGateway == ASSUME Inv, Gateway PROVE RaiseInv'
  <1> USE Numbers
  <1>1. UNCHANGED <<chain, noted, resolved, raising, alarms>>
    BY GatewayFrame DEF watcher
  <1>2. counted \subseteq counted' /\ counted' \subseteq Outflows
    <2>1. counted \subseteq counted'
      BY DEF Gateway, CallStep, Ask, ReadHead, ReadOn, RecordClaimed, CountClaimed, ClaimOrder, AnswerLost, ShortOfFunds, Return,
         OrderFails, NoteTx, OrderMined, Answer, Retry, MovedAnyway, CountPayment, NoSettlement,
         CountOrder, SendOrder, Crash
    <2>2. ChainInv'
      BY ChainStep DEF Next
    <2>3. QED
      BY <2>1, <2>2, Names DEF ChainInv
  <1>3. ASSUME NEW t \in counted', Timely(t)' PROVE t \notin alarms \cup {raising}
    <2>1. t \in alarms \cup {raising} => t \in resolved
      BY <1>2, Names DEF Inv, RaiseInv
    <2>2. QED
      BY <1>3, <2>1, InTime DEF Inv, RaiseInv
  <1>4. ASSUME NEW b \in DOMAIN chain, chain[b] \in resolved \ counted', chain[b][1] \in Payments
        PROVE  /\ Len(chain) = MaxBlocks \/ b + Lag < Len(chain)
               /\ Asking' => b < start'
    <2>1. /\ Len(chain) = MaxBlocks \/ b + Lag < Len(chain)
          /\ Asking => b < start
      BY <1>2, <1>4 DEF Inv, RaiseInv
    <2>2. ASSUME Len(chain) < MaxBlocks, start' \in Heads PROVE b < start'
      BY <2>1, <2>2 DEF Heads
    <2>3. QED
      BY <2>1, <2>2, Beginnings
  <1>5. QED
    BY <1>1, <1>2, <1>3, <1>4 DEF Inv, RaiseInv

\* A step of the watcher raises what it resolved, and resolves what is past the
\* grace period or counted.
LEMMA RaiseStep == ASSUME Inv, [Next]_vars PROVE RaiseInv'
  <1> USE Numbers
  <1>0. counted \subseteq Outflows /\ Outflows \subseteq Transfers /\ noted \subseteq Outflows
    BY Names DEF Inv, ChainInv, TypeOK
  <1>1. CASE Gateway
    BY <1>1, RaiseGateway
  <1>2. ASSUME UNCHANGED <<gateway, chain>>, alarms' \cap Outflows \subseteq resolved',
               raising' # None => raising' \in resolved',
               \A t \in counted : Timely(t) => t \notin alarms' \cup {raising'},
               \A b \in DOMAIN chain : chain[b] \in resolved' \ counted /\ chain[b][1] \in Payments =>
                 chain[b] \in resolved \/ /\ Len(chain) = MaxBlocks \/ b + Lag < Len(chain)
                                          /\ Asking => b < start
        PROVE  RaiseInv'
    <2>1. UNCHANGED <<at, cur, start, counted, chain>> /\ (Asking' <=> Asking) /\ \A u : Timely(u)' <=> Timely(u)
      BY <1>2 DEF gateway, Asking, Timely
    <2>2. QED
      BY <1>2, <2>1 DEF Inv, RaiseInv
  <1>3. ASSUME NEW e \in Blocks, NEW head \in Heads, NEW known \in Heads,
              NEW some \in SUBSET (Chunk(spentCursor, e, head, known) \ Outflows),
              ReportSpends(e, head, known, some) PROVE RaiseInv'
    <2>1. UNCHANGED <<gateway, chain, resolved, raising>> /\ alarms' = alarms \cup some
      BY <1>3 DEF ReportSpends, WatcherStep
    <2>2. QED
      BY <1>0, <1>2, <2>1 DEF Inv, RaiseInv
  <1>4. ASSUME NEW e \in Blocks, NEW head \in Heads, NEW known \in Heads,
              NEW some \in SUBSET (Chunk(cursor, e, head, known) \cap Outflows),
              NoteChunk(e, head, known, some) PROVE RaiseInv'
    <2>1. UNCHANGED <<gateway, chain, resolved, raising, alarms>>
      BY <1>4 DEF NoteChunk, WatcherStep
    <2>2. QED
      BY <1>2, <2>1 DEF Inv, RaiseInv
  <1>5. CASE ReadTables
    <2>1. UNCHANGED <<gateway, chain, raising, alarms>> /\ resolved' = resolved \cup (noted \cap counted)
      BY <1>5 DEF ReadTables, WatcherStep
    <2>2. QED
      BY <1>2, <2>1 DEF Inv, RaiseInv
  <1>6. ASSUME NEW t \in left, NotYet(t) PROVE RaiseInv'
    <2>1. UNCHANGED <<gateway, chain, resolved, raising, alarms>>
      BY <1>6 DEF NotYet, WatcherStep
    <2>2. QED
      BY <1>2, <2>1 DEF Inv, RaiseInv
  <1>7. ASSUME NEW t \in left, Unexplained(t) PROVE RaiseInv'
    <2>1. UNCHANGED <<gateway, chain, alarms>> /\ resolved' = resolved \cup {t} /\ raising' = t
          /\ age[t] > Grace /\ age[t] \in Nat /\ t \in noted
      BY <1>7 DEF Unexplained, PastGrace, WatcherStep
    <2>2. t \in counted => ~Timely(t)
      BY <2>1 DEF Inv, AgeInv
    <2>3. ASSUME NEW b \in DOMAIN chain, chain[b] = t
          PROVE  /\ Len(chain) = MaxBlocks \/ b + Lag < Len(chain)
                 /\ Asking => b < start
      <3>1. Asking => b < start
        BY <2>1, <2>3 DEF Inv, AgeInv
      <3>2. Len(chain) < MaxBlocks => age[t] + b + HeadMargin <= Len(chain)
        BY <2>1, <2>3 DEF Inv, AgeInv
      <3>3. QED
        BY <2>1, <3>1, <3>2
    <2>4. QED
      BY <1>2, <2>1, <2>2, <2>3 DEF Inv, RaiseInv
  <1>8. CASE Alarm
    <2>1. UNCHANGED <<gateway, chain, resolved>> /\ alarms' = alarms \cup {raising} /\ raising' = None /\ raising # None
      BY <1>8 DEF Alarm, WatcherStep
    <2>2. QED
      BY <1>0, <1>2, <2>1 DEF Inv, RaiseInv
  <1>9. CASE WatcherCrash
    <2>1. UNCHANGED <<gateway, chain, resolved, alarms>> /\ raising' = None
      BY <1>9 DEF WatcherCrash, WatcherStep
    <2>2. QED
      BY <1>0, <1>2, <2>1 DEF Inv, RaiseInv
  <1>10. CASE (\E t \in Transfers : Mine(t)) \/ Tick
    <2>1. UNCHANGED <<gateway, watcher>>
      BY <1>10, WorldFrame
    <2>2. UNCHANGED <<at, cur, start, counted, resolved, raising, alarms>> /\ (Asking' <=> Asking)
          /\ \A u : Timely(u)' <=> Timely(u)
      BY <2>1 DEF gateway, watcher, Asking, Timely
    <2>3. PICK x \in Transfers \cup {None} : x \notin resolved /\ (chain' = Append(chain, x) \/ (chain' = chain /\ Len(chain) = MaxBlocks))
      <3>1. ASSUME NEW t \in Transfers, Mine(t) PROVE t \notin resolved /\ chain' = Append(chain, t)
        BY <3>1 DEF Mine, Inv, ChainInv
      <3>2. ASSUME Tick
            PROVE  None \notin resolved /\ (chain' = Append(chain, None) \/ (chain' = chain /\ Len(chain) = MaxBlocks))
        <4>1. chain' = IF Len(chain) < MaxBlocks THEN Append(chain, None) ELSE chain
          BY <3>2 DEF Tick
        <4>2. None \notin resolved
          OBVIOUS
        <4>3. Len(chain) < MaxBlocks \/ Len(chain) = MaxBlocks
          OBVIOUS
        <4>4. QED
          BY <4>1, <4>2, <4>3, Zenon
      <3>3. QED
        BY <1>10, <3>1, <3>2
    <2>4. Len(chain') <= MaxBlocks
      BY ChainStep DEF ChainInv
    <2>5. ASSUME NEW b \in DOMAIN chain', chain'[b] \in resolved \ counted, chain'[b][1] \in Payments
          PROVE  /\ Len(chain') = MaxBlocks \/ b + Lag < Len(chain')
                 /\ Asking => b < start
      <3>1. CASE chain' = Append(chain, x)
        <4>1. b \in DOMAIN chain /\ chain'[b] = chain[b] /\ Len(chain') = Len(chain) + 1
          BY <2>3, <2>5, <3>1, OneMore DEF Inv, TypeOK
        <4>2. Len(chain) # MaxBlocks
          BY <2>4, <4>1
        <4>3. QED
          BY <2>5, <4>1, <4>2 DEF Inv, RaiseInv
      <3>2. CASE chain' = chain /\ Len(chain) = MaxBlocks
        BY <2>5, <3>2 DEF Inv, RaiseInv
      <3>3. QED
        BY <2>3, <3>1, <3>2
    <2>6. QED
      BY <2>2, <2>5 DEF Inv, RaiseInv
  <1>11. CASE UNCHANGED vars
    <2>1. UNCHANGED <<gateway, chain, resolved, raising, alarms>>
      BY <1>11 DEF vars, watcher
    <2>2. QED
      BY <1>2, <2>1 DEF Inv, RaiseInv
  <1>12. QED
    BY <1>1, <1>3, <1>4, <1>5, <1>6, <1>7, <1>8, <1>9, <1>10, <1>11 DEF Next, Watch

-----------------------------------------------------------------------------
(* The theorems                                                              *)

LEMMA InvBegins == Init => Inv
  <1> SUFFICES ASSUME Init PROVE Inv
    OBVIOUS
  <1>1. TypeOK
    BY TypeBegins
  <1>2. at = "idle" /\ ~Asking /\ ~Sending /\ DOMAIN chain = {} /\ Len(chain) = 0
    BY DEF Init, Asking, Sending
  <1>3. AtInv
    BY <1>2, Names DEF Init, AtInv
  <1>10. SearchInv
    BY <1>2 DEF SearchInv
  <1>4. ChainInv
    BY <1>2, BoundAssumption DEF Init, ChainInv
  <1>5. OrderInv
    BY <1>2, Names DEF Init, OrderInv
  <1>6. FreshInv
    BY <1>2, Names DEF Init, FreshInv
  <1>7. AgeInv
    BY <1>2 DEF Init, AgeInv
  <1>8. RaiseInv
    BY <1>2 DEF Init, RaiseInv
  <1>9. QED
    BY <1>1, <1>3, <1>4, <1>5, <1>6, <1>7, <1>8, <1>10 DEF Inv

LEMMA InvStep == Inv /\ [Next]_vars => Inv'
  BY TypeStep, AtStep, SearchStep, ChainStep, OrderStep, FreshStep, AgeStep, RaiseStep DEF Inv

\* The invariant that the properties below rest on holds in every state.
THEOREM Invariance == Spec => []Inv
  BY InvBegins, InvStep, PTL DEF Spec

\* Every variable keeps its type, the cursors' distance from the head included.
THEOREM Typing == Spec => []TypeOK
  <1>1. Inv => TypeOK
    BY DEF Inv
  <1>2. QED
    BY <1>1, Invariance, PTL

\* An order is paid by one transfer at most, whatever the lag, the crashes and
\* the retries.
THEOREM SentOnce == Spec => []OrderSentOnce
  <1>1. Inv => OrderSentOnce
    BY DEF Inv, OrderInv, OrderSentOnce
  <1>2. QED
    BY <1>1, Invariance, PTL

\* No transfer that an ok call was credited with is raised, as long as nodes lag
\* no more than the margin and a call and a pass fit into the grace period.
THEOREM NotAlarmed == Spec => []PaidIsNotAlarmed
  <1>1. Inv => PaidIsNotAlarmed
    <2> SUFFICES ASSUME Inv, NEW t \in Transfers, t \in alarms, t \in counted
                 PROVE  t[1] \in Orders /\ outcome[t[1]] # "ok"
      BY DEF PaidIsNotAlarmed
    <2>1. t[1] \in Calls
      BY DEF Inv, ChainInv
    <2>2. ~Timely(t)
      BY DEF Inv, RaiseInv
    <2>3. QED
      BY <2>1, <2>2 DEF Timely, Calls
  <1>2. QED
    BY <1>1, Invariance, PTL

\* A purchase whose transfer every node has when the seller answers is neither
\* tried again nor ends unpaid, whichever nodes the search reads its blocks from,
\* however many eth_getLogs it takes, and whatever was counted before.
THEOREM Credited == Spec => ShownIsFound
  <1>1. ASSUME Inv, Next, NEW p \in Payments, cur = p, at \in {"checking", "answered"}, shown
        PROVE  at' \notin {"retried", "unpaid"}
    <2> USE <1>1
    <2>1. ASSUME NEW n \in Heads, CountPayment(n) PROVE at' = "counted"
      <3>1. Found(cur, n) \notin counted
        BY <2>1, FindsMined, Names DEF Inv, CountPayment
      <3>2. QED
        BY <2>1, <3>1 DEF CountPayment
    <2>2. ~Retry /\ ~NoSettlement
      BY NotOver DEF Retry, NoSettlement
    <2>3. CASE UNCHANGED gateway
      BY <2>3 DEF gateway
    <2>4. CASE Gateway
      BY <2>1, <2>2, <2>4 DEF Gateway, CallStep, Ask, ReadHead, ReadOn, RecordClaimed, CountClaimed,
         ClaimOrder, AnswerLost, ShortOfFunds, Return, OrderFails, NoteTx, OrderMined, Answer,
         MovedAnyway, CountOrder, SendOrder, Crash, Ends
    <2>5. QED
      BY <2>3, <2>4, WatchFrame, WorldFrame DEF Next
  <1>2. ASSUME Inv, UNCHANGED vars, NEW p \in Payments, cur = p, at \in {"checking", "answered"}, shown
        PROVE  at' \notin {"retried", "unpaid"}
    BY <1>2 DEF vars, gateway
  <1>3. Inv /\ [Next]_vars =>
          [\A p \in Payments : cur = p /\ at \in {"checking", "answered"} /\ shown
             => at' \notin {"retried", "unpaid"}]_vars
    BY <1>1, <1>2
  <1>4. QED
    BY <1>3, Invariance, PTL DEF Spec, ShownIsFound
=============================================================================
