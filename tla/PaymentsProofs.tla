--------------------------- MODULE PaymentsProofs ---------------------------
(***************************************************************************)
(* PInv is an inductive invariant of Payments, so a payment is granted     *)
(* once, and a referral rewarded once, for any number of users, payments,  *)
(* events and requests.  One lemma per action; Respond and the provider's  *)
(* steps touch no lock and no table, so only the type and the request's    *)
(* own part are at stake there.  AInv adds what a webhook knows of its     *)
(* event, for RecordedMeansApplied.                                        *)
(***************************************************************************)
EXTENDS Payments, TLAPS

USE PaymentsAssumption, NoneIsNoEvent

\* Empty tables, no request in flight: the invariant holds at the start.
LEMMA InitSound == Init => PInv
  BY DEF Init, PInv, TypeOK, BuyersKnown, Grounded, Guarded, GrantedOnce, RewardedOnce,
     OrderStatus, PaymentStatus, Idle, Request

\* The record of a request that is over is a request.
LEMMA IdleType == Idle \in Request
  BY DEF Idle, Request, PaymentStatus, OrderStatus

\* A request that goes on with a well-typed record leaves tx well typed.
LEMMA ProceedType ==
  ASSUME tx \in [Txns -> Request], NEW t \in Txns, NEW r \in Request, Proceed(t, r)
  PROVE  tx' \in [Txns -> Request]
  BY DEF Proceed

\* start_checkout opens an order no row names yet.
LEMMA CheckoutOpenSound ==
  ASSUME PInv, NEW t \in Txns, NEW p \in PaymentIds, NEW u \in Users, CheckoutOpen(t, p, u)
  PROVE  PInv'
<1>1. TypeOK'
  <2> DEFINE r == [Idle EXCEPT !.op = "checkout", !.pc = "respond", !.p = p, !.u = u]
  <2>3. r \in Request
    BY IdleType DEF Idle, Request, PaymentStatus, OrderStatus
  <2>4. Proceed(t, r)
    BY DEF CheckoutOpen, LockPayment
  <2>5. tx' \in [Txns -> Request]
    BY <2>3, <2>4, ProceedType DEF PInv, TypeOK
  <2> QED BY <2>5, SMTT(60) DEF PInv, CheckoutOpen, provider, tables, locks, Proceed,
       TypeOK, BuyersKnown, Grounded, Guarded, OrderStatus, PaymentStatus
<1>2. BuyersKnown'
  BY SMTT(60) DEF PInv, CheckoutOpen, provider, tables, locks, Proceed, TypeOK,
       BuyersKnown, Grounded, Guarded, Request, PaymentStatus
<1>3. \A r \in Txns : Grounded(r)'
  <2> SUFFICES ASSUME NEW r \in Txns PROVE Grounded(r)'
    OBVIOUS
  <2>0. /\ tx \in [Txns -> Request] /\ tx'[t].op = "checkout" /\ tx'[t].p = p /\ tx'[t].u = u
        /\ order[p] = "none" /\ order'[p] = "open" /\ payments' = payments
        /\ \A q \in PaymentIds \ {p} : order'[q] = order[q]
        /\ \A s \in Txns \ {t} : tx'[s] = tx[s] /\ Grounded(s)
    BY DEF PInv, TypeOK, CheckoutOpen, tables, Proceed, Idle
  <2>1. payments[p].status = "none"
    BY <2>0 DEF PInv, BuyersKnown
  <2>2. \A s \in Txns \ {t} : tx[s].op = "checkout" => tx[s].p # p
    BY <2>0 DEF Grounded
  <2>3. CASE r = t
    BY <2>0, <2>1, <2>2, <2>3 DEF Grounded
  <2>4. CASE r # t
    BY <2>0, <2>2, <2>4 DEF Grounded
  <2> QED BY <2>3, <2>4
<1>4. ASSUME NEW r \in Txns PROVE Guarded(r)'
  <2>1. CASE r = t
    BY <2>1, SMTT(60) DEF PInv, CheckoutOpen, provider, tables, locks, Proceed, TypeOK,
         Grounded, Guarded, Buyer, BuyersKnown, Request, OrderStatus, PaymentStatus,
         Idle
  <2>2. CASE r # t
    BY <2>2, SMTT(60) DEF PInv, CheckoutOpen, provider, tables, locks, Proceed, TypeOK,
         Grounded, Guarded, Buyer, BuyersKnown, Request, OrderStatus, PaymentStatus,
         Idle
  <2> QED BY <2>1, <2>2
<1>5. GrantedOnce'
  BY SMTT(60) DEF PInv, CheckoutOpen, provider, tables, locks, Proceed, TypeOK,
       GrantedOnce, Grounded, Guarded, Request, OrderStatus, PaymentStatus
<1>6. RewardedOnce'
  BY SMTT(60) DEF PInv, CheckoutOpen, provider, tables, locks, Proceed, TypeOK,
       RewardedOnce, Grounded, Guarded, BuyersKnown, Request, OrderStatus, PaymentStatus
<1> QED BY <1>1, <1>2, <1>3, <1>4, <1>5, <1>6 DEF PInv

\* verify_payment reads a row and locks nothing.
LEMMA VerifyLoadSound ==
  ASSUME PInv, NEW t \in Txns, NEW p \in PaymentIds, VerifyLoad(t, p)
  PROVE  PInv'
<1>1. TypeOK'
  <2> DEFINE r == [Idle EXCEPT !.op = "verify", !.pc = "ask", !.p = p,
                           !.seen = payments[p].status]
  <2>1. payments[p].status \in PaymentStatus
    BY DEF PInv, TypeOK
  <2>3. r \in Request
    BY <2>1 DEF Idle, Request, PaymentStatus, OrderStatus
  <2>4. Proceed(t, r)
    BY DEF VerifyLoad, LockPayment
  <2>5. tx' \in [Txns -> Request]
    BY <2>3, <2>4, ProceedType DEF PInv, TypeOK
  <2> QED BY <2>5, SMTT(60) DEF PInv, VerifyLoad, provider, tables, locks, Proceed,
       TypeOK, BuyersKnown, Grounded, Guarded, OrderStatus, PaymentStatus
<1>2. BuyersKnown'
  BY SMTT(60) DEF PInv, VerifyLoad, provider, tables, locks, Proceed, TypeOK, BuyersKnown,
       Grounded, Guarded, Request, PaymentStatus
<1>3. \A r \in Txns : Grounded(r)'
  BY SMTT(60) DEF PInv, VerifyLoad, provider, tables, locks, Proceed, TypeOK, Grounded,
       Guarded, Request, OrderStatus, PaymentStatus, Idle
<1>4. ASSUME NEW r \in Txns PROVE Guarded(r)'
  <2>1. CASE r = t
    BY <2>1, SMTT(60) DEF PInv, VerifyLoad, provider, tables, locks, Proceed, TypeOK,
         Grounded, Guarded, Buyer, BuyersKnown, Request, OrderStatus, PaymentStatus,
         Idle
  <2>2. CASE r # t
    BY <2>2, SMTT(60) DEF PInv, VerifyLoad, provider, tables, locks, Proceed, TypeOK,
         Grounded, Guarded, Buyer, BuyersKnown, Request, OrderStatus, PaymentStatus,
         Idle
  <2> QED BY <2>1, <2>2
<1>5. GrantedOnce'
  BY SMTT(60) DEF PInv, VerifyLoad, provider, tables, locks, Proceed, TypeOK, GrantedOnce,
       Grounded, Guarded, Request, OrderStatus, PaymentStatus
<1>6. RewardedOnce'
  BY SMTT(60) DEF PInv, VerifyLoad, provider, tables, locks, Proceed, TypeOK,
       RewardedOnce, Grounded, Guarded, BuyersKnown, Request, OrderStatus, PaymentStatus
<1> QED BY <1>1, <1>2, <1>3, <1>4, <1>5, <1>6 DEF PInv

\* fetch_status: what the provider answers is grounded in its order.
LEMMA VerifyAskSound ==
  ASSUME PInv, NEW t \in Txns, VerifyAsk(t)
  PROVE  PInv'
<1>1. TypeOK'
  <2> DEFINE r == [tx[t] EXCEPT !.pc = "lock", !.answer = order[tx[t].p]]
  <2>1. tx[t] \in Request
    BY DEF PInv, TypeOK
  <2>2. order[tx[t].p] \in OrderStatus
    BY DEF PInv, TypeOK, Grounded, At, VerifyAsk
  <2>3. r \in Request
    BY <2>1, <2>2 DEF Request
  <2>4. Proceed(t, r)
    BY DEF VerifyAsk, LockPayment
  <2>5. tx' \in [Txns -> Request]
    BY <2>3, <2>4, ProceedType DEF PInv, TypeOK
  <2> QED BY <2>5, SMTT(60) DEF PInv, VerifyAsk, provider, tables, locks, At, Proceed,
       TypeOK, BuyersKnown, Grounded, Guarded, OrderStatus, PaymentStatus
<1>2. BuyersKnown'
  BY SMTT(60) DEF PInv, VerifyAsk, provider, tables, locks, At, Proceed, TypeOK,
       BuyersKnown, Grounded, Guarded, Request, PaymentStatus
<1>3. \A r \in Txns : Grounded(r)'
  BY SMTT(60) DEF PInv, VerifyAsk, provider, tables, locks, At, Proceed, TypeOK, Grounded,
       Guarded, Request, OrderStatus, PaymentStatus
<1>4. ASSUME NEW r \in Txns PROVE Guarded(r)'
  <2>1. CASE r = t
    BY <2>1, SMTT(60) DEF PInv, VerifyAsk, provider, tables, locks, At, Proceed, TypeOK,
         Grounded, Guarded, Buyer, BuyersKnown, Request, OrderStatus, PaymentStatus
  <2>2. CASE r # t
    BY <2>2, SMTT(60) DEF PInv, VerifyAsk, provider, tables, locks, At, Proceed, TypeOK,
         Grounded, Guarded, Buyer, BuyersKnown, Request, OrderStatus, PaymentStatus
  <2> QED BY <2>1, <2>2
<1>5. GrantedOnce'
  BY SMTT(60) DEF PInv, VerifyAsk, provider, tables, locks, At, Proceed, TypeOK,
       GrantedOnce, Grounded, Guarded, Request, OrderStatus, PaymentStatus
<1>6. RewardedOnce'
  BY SMTT(60) DEF PInv, VerifyAsk, provider, tables, locks, At, Proceed, TypeOK,
       RewardedOnce, Grounded, Guarded, BuyersKnown, Request, OrderStatus, PaymentStatus
<1> QED BY <1>1, <1>2, <1>3, <1>4, <1>5, <1>6 DEF PInv

\* _lock_payment in verify_payment: who settles holds the lock.
LEMMA VerifyLockSound ==
  ASSUME PInv, NEW t \in Txns, VerifyLock(t)
  PROVE  PInv'
<1>1. TypeOK'
  <2> DEFINE r == [tx[t] EXCEPT !.answer = tx[t].answer, !.settles = Settles(t, tx[t].answer),
                      !.pc = IF Settles(t, tx[t].answer) THEN "refer" ELSE "respond"]
  <2>1. tx[t] \in Request
    BY DEF PInv, TypeOK
  <2>3. r \in Request
    BY <2>1 DEF Request, Settles
  <2>4. Proceed(t, r)
    BY DEF VerifyLock, LockPayment
  <2>5. tx' \in [Txns -> Request]
    BY <2>3, <2>4, ProceedType DEF PInv, TypeOK
  <2> QED BY <2>5, SMTT(60) DEF PInv, VerifyLock, provider, tables, locks, At, Proceed,
       LockPayment, PaymentFree, Settles, StatusUnderLock, Buyer, TypeOK, BuyersKnown,
       Grounded, Guarded, OrderStatus, PaymentStatus
<1>2. BuyersKnown'
  BY SMTT(60) DEF PInv, VerifyLock, provider, tables, locks, At, Proceed, LockPayment,
       PaymentFree, Settles, StatusUnderLock, Buyer, TypeOK, BuyersKnown, Grounded,
       Guarded, Request, PaymentStatus
<1>3. \A r \in Txns : Grounded(r)'
  BY SMTT(60) DEF PInv, VerifyLock, provider, tables, locks, At, Proceed, LockPayment,
       PaymentFree, Settles, StatusUnderLock, Buyer, TypeOK, Grounded, Guarded, Request,
       OrderStatus, PaymentStatus
<1>4. ASSUME NEW r \in Txns PROVE Guarded(r)'
  <2>1. CASE r = t
    <3> DEFINE answer == tx[t].answer
    <3>1. /\ tx[t] \in Request /\ tx[t].pc = "lock" /\ tx[t].p \in PaymentIds
          /\ payments[tx[t].p].status \in {"created", "failed", "paid"}
          /\ payments' = payments /\ order' = order
          /\ ~tx[t].settles /\ ~tx[t].rewards /\ tx[t].op \in {"verify", "webhook"}
      BY DEF PInv, TypeOK, VerifyLock, At, Grounded, Guarded, provider, tables,
           PaymentStatus
    <3>2. /\ paymentLock'[tx[t].p] = t
          /\ tx'[t] = [tx[t] EXCEPT !.answer = answer, !.settles = Settles(t, answer),
                                   !.pc = IF Settles(t, answer) THEN "refer" ELSE "respond"]
      BY <3>1 DEF PInv, TypeOK, VerifyLock, LockPayment, Proceed
    <3>3. answer = "paid" => order[tx[t].p] = "paid"
      BY <3>1 DEF PInv, Grounded, VerifyLock, At
    <3>4. /\ tx'[t].settles => /\ answer = "paid" /\ payments[tx[t].p].status # "paid"
                              /\ tx'[t].pc = "refer"
          /\ tx'[t].pc = "refer" => tx'[t].settles
          /\ ~tx'[t].rewards /\ tx'[t].op = tx[t].op /\ tx'[t].p = tx[t].p
      BY <3>1, <3>2 DEF Settles, StatusUnderLock, Request
    <3> HIDE DEF answer
    <3> QED BY <2>1, <3>1, <3>2, <3>3, <3>4 DEF Guarded
  <2>2. CASE r # t
    BY <2>2, SMTT(60) DEF PInv, VerifyLock, provider, tables, locks, At, Proceed,
         LockPayment, PaymentFree, Settles, StatusUnderLock, Buyer, TypeOK, Grounded,
         Guarded, BuyersKnown, Request, OrderStatus, PaymentStatus
  <2> QED BY <2>1, <2>2
<1>5. GrantedOnce'
  BY SMTT(60) DEF PInv, VerifyLock, provider, tables, locks, At, Proceed, LockPayment,
       PaymentFree, Settles, StatusUnderLock, Buyer, TypeOK, GrantedOnce, Grounded,
       Guarded, Request, OrderStatus, PaymentStatus
<1>6. RewardedOnce'
  BY SMTT(60) DEF PInv, VerifyLock, provider, tables, locks, At, Proceed, LockPayment,
       PaymentFree, Settles, StatusUnderLock, Buyer, TypeOK, RewardedOnce, Grounded,
       Guarded, BuyersKnown, Request, OrderStatus, PaymentStatus
<1> QED BY <1>1, <1>2, <1>3, <1>4, <1>5, <1>6 DEF PInv

\* A replayed event only gets its 200.
LEMMA WebhookDuplicateSound ==
  ASSUME PInv, NEW e \in Event, WebhookDuplicate(e)
  PROVE  PInv'
<1>1. TypeOK'
  BY SMTT(60) DEF PInv, WebhookDuplicate, provider, tables, locks, TypeOK, OrderStatus,
       PaymentStatus, Event
<1>2. BuyersKnown'
  BY SMTT(60) DEF PInv, WebhookDuplicate, provider, tables, locks, TypeOK, BuyersKnown,
       Grounded, Guarded, Request, PaymentStatus
<1>3. \A r \in Txns : Grounded(r)'
  BY SMTT(60) DEF PInv, WebhookDuplicate, provider, tables, locks, TypeOK, Grounded,
       Guarded, Request, OrderStatus, PaymentStatus
<1>4. ASSUME NEW r \in Txns PROVE Guarded(r)'
  BY SMTT(60) DEF PInv, WebhookDuplicate, provider, tables, locks, TypeOK, Grounded,
       Guarded, Buyer, BuyersKnown, Request, OrderStatus, PaymentStatus
<1>5. GrantedOnce'
  BY SMTT(60) DEF PInv, WebhookDuplicate, provider, tables, locks, TypeOK, GrantedOnce,
       Grounded, Guarded, Request, OrderStatus, PaymentStatus
<1>6. RewardedOnce'
  BY SMTT(60) DEF PInv, WebhookDuplicate, provider, tables, locks, TypeOK, RewardedOnce,
       Grounded, Guarded, BuyersKnown, Request, OrderStatus, PaymentStatus
<1> QED BY <1>1, <1>2, <1>3, <1>4, <1>5, <1>6 DEF PInv

\* A webhook request begins with its event.
LEMMA WebhookInsertSound ==
  ASSUME PInv, NEW t \in Txns, NEW e \in Event, WebhookInsert(t, e)
  PROVE  PInv'
<1>1. TypeOK'
  <2> DEFINE r == [Idle EXCEPT !.op = "webhook", !.pc = "lock", !.p = e.p, !.e = e]
  <2>1. e.p \in PaymentIds
    BY DEF Event
  <2>3. r \in Request
    BY <2>1 DEF Idle, Request, PaymentStatus, OrderStatus
  <2>4. Proceed(t, r)
    BY DEF WebhookInsert, LockPayment
  <2>5. tx' \in [Txns -> Request]
    BY <2>3, <2>4, ProceedType DEF PInv, TypeOK
  <2> QED BY <2>5, SMTT(60) DEF PInv, WebhookInsert, provider, tables, locks, Proceed,
       TypeOK, BuyersKnown, Grounded, Guarded, OrderStatus, PaymentStatus
<1>2. BuyersKnown'
  BY SMTT(60) DEF PInv, WebhookInsert, provider, tables, locks, Proceed, TypeOK,
       BuyersKnown, Grounded, Guarded, Request, PaymentStatus
<1>3. \A r \in Txns : Grounded(r)'
  BY SMTT(60) DEF PInv, WebhookInsert, provider, tables, locks, Proceed, TypeOK, Grounded,
       Guarded, Request, OrderStatus, PaymentStatus, Event, Idle
<1>4. ASSUME NEW r \in Txns PROVE Guarded(r)'
  <2>1. CASE r = t
    BY <2>1, SMTT(60) DEF PInv, WebhookInsert, provider, tables, locks, Proceed, TypeOK,
         Grounded, Guarded, Buyer, BuyersKnown, Request, OrderStatus, PaymentStatus,
         Idle
  <2>2. CASE r # t
    BY <2>2, SMTT(60) DEF PInv, WebhookInsert, provider, tables, locks, Proceed, TypeOK,
         Grounded, Guarded, Buyer, BuyersKnown, Request, OrderStatus, PaymentStatus,
         Idle
  <2> QED BY <2>1, <2>2
<1>5. GrantedOnce'
  BY SMTT(60) DEF PInv, WebhookInsert, provider, tables, locks, Proceed, TypeOK,
       GrantedOnce, Grounded, Guarded, Request, OrderStatus, PaymentStatus
<1>6. RewardedOnce'
  BY SMTT(60) DEF PInv, WebhookInsert, provider, tables, locks, Proceed, TypeOK,
       RewardedOnce, Grounded, Guarded, BuyersKnown, Request, OrderStatus, PaymentStatus
<1> QED BY <1>1, <1>2, <1>3, <1>4, <1>5, <1>6 DEF PInv

LEMMA AnswerType ==
  ASSUME NEW q \in Request, NEW answer \in OrderStatus, NEW settles \in BOOLEAN
  PROVE  [q EXCEPT !.answer = answer, !.settles = settles,
                   !.pc = IF settles THEN "refer" ELSE "respond"] \in Request
  BY DEF Request

\* _lock_payment in handle_webhook: who settles holds the lock.
LEMMA WebhookLockSound ==
  ASSUME PInv, NEW t \in Txns, WebhookLock(t)
  PROVE  PInv'
<1>1. TypeOK'
  <2> DEFINE answer == IF tx[t].e.kind = "paid" THEN order[tx[t].p] ELSE "expired"
             r == [tx[t] EXCEPT !.answer = answer, !.settles = Settles(t, answer),
                                !.pc = IF Settles(t, answer) THEN "refer" ELSE "respond"]
  <2>1. tx[t] \in Request
    BY DEF PInv, TypeOK
  <2>2. order[tx[t].p] \in OrderStatus
    BY DEF PInv, TypeOK, Grounded, At, WebhookLock
  <2>3. r \in Request
    <3>1. answer \in OrderStatus /\ Settles(t, answer) \in BOOLEAN
      BY <2>2 DEF OrderStatus, Settles
    <3> HIDE DEF answer
    <3> QED BY <2>1, <3>1, AnswerType
  <2>4. Proceed(t, r)
    BY DEF WebhookLock, LockPayment
  <2>5. tx' \in [Txns -> Request]
    BY <2>3, <2>4, ProceedType DEF PInv, TypeOK
  <2>6. paymentLock' \in [PaymentIds -> Txns \cup {None}]
    BY DEF PInv, TypeOK, WebhookLock, LockPayment
  <2> QED BY <2>5, <2>6 DEF PInv, WebhookLock, provider, tables, TypeOK, LockPayment
<1>2. BuyersKnown'
  BY SMTT(60) DEF PInv, WebhookLock, provider, tables, locks, At, Proceed, LockPayment,
       PaymentFree, Settles, StatusUnderLock, Buyer, TypeOK, BuyersKnown, Grounded,
       Guarded, Request, PaymentStatus
<1>3. \A r \in Txns : Grounded(r)'
  BY SMTT(60) DEF PInv, WebhookLock, provider, tables, locks, At, Proceed, LockPayment,
       PaymentFree, Settles, StatusUnderLock, Buyer, TypeOK, Grounded, Guarded, Request,
       OrderStatus, PaymentStatus
<1>4. ASSUME NEW r \in Txns PROVE Guarded(r)'
  <2>1. CASE r = t
    <3> DEFINE answer == IF tx[t].e.kind = "paid" THEN order[tx[t].p] ELSE "expired"
    <3>1. /\ tx[t] \in Request /\ tx[t].pc = "lock" /\ tx[t].p \in PaymentIds
          /\ payments[tx[t].p].status \in {"created", "failed", "paid"}
          /\ payments' = payments /\ order' = order
          /\ ~tx[t].settles /\ ~tx[t].rewards /\ tx[t].op \in {"verify", "webhook"}
      BY DEF PInv, TypeOK, WebhookLock, At, Grounded, Guarded, provider, tables,
           PaymentStatus
    <3>2. /\ paymentLock'[tx[t].p] = t
          /\ tx'[t] = [tx[t] EXCEPT !.answer = answer, !.settles = Settles(t, answer),
                                   !.pc = IF Settles(t, answer) THEN "refer" ELSE "respond"]
      BY <3>1 DEF PInv, TypeOK, WebhookLock, LockPayment, Proceed
    <3>3. answer = "paid" => order[tx[t].p] = "paid"
      BY <3>1 DEF PInv, Grounded, WebhookLock, At
    <3>4. /\ tx'[t].settles => /\ answer = "paid" /\ payments[tx[t].p].status # "paid"
                              /\ tx'[t].pc = "refer"
          /\ tx'[t].pc = "refer" => tx'[t].settles
          /\ ~tx'[t].rewards /\ tx'[t].op = tx[t].op /\ tx'[t].p = tx[t].p
      BY <3>1, <3>2 DEF Settles, StatusUnderLock, Request
    <3> HIDE DEF answer
    <3> QED BY <2>1, <3>1, <3>2, <3>3, <3>4 DEF Guarded
  <2>2. CASE r # t
    BY <2>2, SMTT(60) DEF PInv, WebhookLock, provider, tables, locks, At, Proceed,
         LockPayment, PaymentFree, Settles, StatusUnderLock, Buyer, TypeOK, Grounded,
         Guarded, BuyersKnown, Request, OrderStatus, PaymentStatus
  <2> QED BY <2>1, <2>2
<1>5. GrantedOnce'
  BY SMTT(60) DEF PInv, WebhookLock, provider, tables, locks, At, Proceed, LockPayment,
       PaymentFree, Settles, StatusUnderLock, Buyer, TypeOK, GrantedOnce, Grounded,
       Guarded, Request, OrderStatus, PaymentStatus
<1>6. RewardedOnce'
  BY SMTT(60) DEF PInv, WebhookLock, provider, tables, locks, At, Proceed, LockPayment,
       PaymentFree, Settles, StatusUnderLock, Buyer, TypeOK, RewardedOnce, Grounded,
       Guarded, BuyersKnown, Request, OrderStatus, PaymentStatus
<1> QED BY <1>1, <1>2, <1>3, <1>4, <1>5, <1>6 DEF PInv

\* An order without a row settles nothing.
LEMMA WebhookUnknownSound ==
  ASSUME PInv, NEW t \in Txns, WebhookUnknown(t)
  PROVE  PInv'
<1>1. TypeOK'
  <2> DEFINE r == [tx[t] EXCEPT !.pc = "respond"]
  <2>1. tx[t] \in Request
    BY DEF PInv, TypeOK
  <2>3. r \in Request
    BY <2>1 DEF Request
  <2>4. Proceed(t, r)
    BY DEF WebhookUnknown, LockPayment
  <2>5. tx' \in [Txns -> Request]
    BY <2>3, <2>4, ProceedType DEF PInv, TypeOK
  <2> QED BY <2>5, SMTT(60) DEF PInv, WebhookUnknown, provider, tables, locks, At,
       Proceed, TypeOK, BuyersKnown, Grounded, Guarded, OrderStatus, PaymentStatus
<1>2. BuyersKnown'
  BY SMTT(60) DEF PInv, WebhookUnknown, provider, tables, locks, At, Proceed, TypeOK,
       BuyersKnown, Grounded, Guarded, Request, PaymentStatus
<1>3. \A r \in Txns : Grounded(r)'
  BY SMTT(60) DEF PInv, WebhookUnknown, provider, tables, locks, At, Proceed, TypeOK,
       Grounded, Guarded, Request, OrderStatus, PaymentStatus
<1>4. ASSUME NEW r \in Txns PROVE Guarded(r)'
  <2>1. CASE r = t
    BY <2>1, SMTT(60) DEF PInv, WebhookUnknown, provider, tables, locks, At, Proceed,
         TypeOK, Grounded, Guarded, Buyer, BuyersKnown, Request, OrderStatus,
         PaymentStatus
  <2>2. CASE r # t
    BY <2>2, SMTT(60) DEF PInv, WebhookUnknown, provider, tables, locks, At, Proceed,
         TypeOK, Grounded, Guarded, Buyer, BuyersKnown, Request, OrderStatus,
         PaymentStatus
  <2> QED BY <2>1, <2>2
<1>5. GrantedOnce'
  BY SMTT(60) DEF PInv, WebhookUnknown, provider, tables, locks, At, Proceed, TypeOK,
       GrantedOnce, Grounded, Guarded, Request, OrderStatus, PaymentStatus
<1>6. RewardedOnce'
  BY SMTT(60) DEF PInv, WebhookUnknown, provider, tables, locks, At, Proceed, TypeOK,
       RewardedOnce, Grounded, Guarded, BuyersKnown, Request, OrderStatus, PaymentStatus
<1> QED BY <1>1, <1>2, <1>3, <1>4, <1>5, <1>6 DEF PInv

\* credit_enrollment: who rewards holds the lock of an open referral.
LEMMA RewardReferrerSound ==
  ASSUME PInv, NEW t \in Txns, RewardReferrer(t)
  PROVE  PInv'
<1>1. TypeOK'
  <2> DEFINE r == [tx[t] EXCEPT !.pc = "respond", !.rewards = TRUE]
  <2>1. tx[t] \in Request
    BY DEF PInv, TypeOK
  <2>3. r \in Request
    BY <2>1 DEF Request
  <2>4. Proceed(t, r)
    BY DEF RewardReferrer, LockPayment
  <2>5. tx' \in [Txns -> Request]
    BY <2>3, <2>4, ProceedType DEF PInv, TypeOK
  <2> QED BY <2>5, SMTT(60) DEF PInv, RewardReferrer, provider, tables, locks, Proceed,
       Buyer, TypeOK, BuyersKnown, Grounded, Guarded, OrderStatus, PaymentStatus
<1>2. BuyersKnown'
  BY SMTT(60) DEF PInv, RewardReferrer, provider, tables, locks, Proceed, Buyer, TypeOK,
       BuyersKnown, Grounded, Guarded, Request, PaymentStatus
<1>3. \A r \in Txns : Grounded(r)'
  BY SMTT(60) DEF PInv, RewardReferrer, provider, tables, locks, Proceed, Buyer, TypeOK,
       Grounded, Guarded, Request, OrderStatus, PaymentStatus
<1>4. ASSUME NEW r \in Txns PROVE Guarded(r)'
  <2>1. CASE r = t
    BY <2>1, SMTT(60) DEF PInv, RewardReferrer, provider, tables, locks, Proceed, Buyer,
         TypeOK, Grounded, Guarded, BuyersKnown, Request, OrderStatus, PaymentStatus
  <2>2. CASE r # t
    BY <2>2, SMTT(60) DEF PInv, RewardReferrer, provider, tables, locks, Proceed, Buyer,
         TypeOK, Grounded, Guarded, BuyersKnown, Request, OrderStatus, PaymentStatus
  <2> QED BY <2>1, <2>2
<1>5. GrantedOnce'
  BY SMTT(60) DEF PInv, RewardReferrer, provider, tables, locks, Proceed, Buyer, TypeOK,
       GrantedOnce, Grounded, Guarded, Request, OrderStatus, PaymentStatus
<1>6. RewardedOnce'
  BY SMTT(60) DEF PInv, RewardReferrer, provider, tables, locks, Proceed, Buyer, TypeOK,
       RewardedOnce, Grounded, Guarded, BuyersKnown, Request, OrderStatus, PaymentStatus
<1> QED BY <1>1, <1>2, <1>3, <1>4, <1>5, <1>6 DEF PInv

\* credit_enrollment finds no open referral and locks nothing.
LEMMA NoRewardSound ==
  ASSUME PInv, NEW t \in Txns, NoReward(t)
  PROVE  PInv'
<1>1. TypeOK'
  <2> DEFINE r == [tx[t] EXCEPT !.pc = "respond"]
  <2>1. tx[t] \in Request
    BY DEF PInv, TypeOK
  <2>3. r \in Request
    BY <2>1 DEF Request
  <2>4. Proceed(t, r)
    BY DEF NoReward, LockPayment
  <2>5. tx' \in [Txns -> Request]
    BY <2>3, <2>4, ProceedType DEF PInv, TypeOK
  <2> QED BY <2>5, SMTT(60) DEF PInv, NoReward, provider, tables, locks, Proceed, Buyer,
       TypeOK, BuyersKnown, Grounded, Guarded, OrderStatus, PaymentStatus
<1>2. BuyersKnown'
  BY SMTT(60) DEF PInv, NoReward, provider, tables, locks, Proceed, Buyer, TypeOK,
       BuyersKnown, Grounded, Guarded, Request, PaymentStatus
<1>3. \A r \in Txns : Grounded(r)'
  BY SMTT(60) DEF PInv, NoReward, provider, tables, locks, Proceed, Buyer, TypeOK,
       Grounded, Guarded, Request, OrderStatus, PaymentStatus
<1>4. ASSUME NEW r \in Txns PROVE Guarded(r)'
  <2>1. CASE r = t
    BY <2>1, SMTT(60) DEF PInv, NoReward, provider, tables, locks, Proceed, Buyer,
         TypeOK, Grounded, Guarded, BuyersKnown, Request, OrderStatus, PaymentStatus
  <2>2. CASE r # t
    BY <2>2, SMTT(60) DEF PInv, NoReward, provider, tables, locks, Proceed, Buyer,
         TypeOK, Grounded, Guarded, BuyersKnown, Request, OrderStatus, PaymentStatus
  <2> QED BY <2>1, <2>2
<1>5. GrantedOnce'
  BY SMTT(60) DEF PInv, NoReward, provider, tables, locks, Proceed, Buyer, TypeOK,
       GrantedOnce, Grounded, Guarded, Request, OrderStatus, PaymentStatus
<1>6. RewardedOnce'
  BY SMTT(60) DEF PInv, NoReward, provider, tables, locks, Proceed, Buyer, TypeOK,
       RewardedOnce, Grounded, Guarded, BuyersKnown, Request, OrderStatus, PaymentStatus
<1> QED BY <1>1, <1>2, <1>3, <1>4, <1>5, <1>6 DEF PInv

\* The response goes out; tables and locks stay.
LEMMA RespondSound ==
  ASSUME PInv, NEW t \in Txns, Respond(t)
  PROVE  PInv'
<1>1. TypeOK'
  <2> DEFINE r == [tx[t] EXCEPT !.pc = "commit"]
  <2>1. tx[t] \in Request
    BY DEF PInv, TypeOK
  <2>3. r \in Request
    BY <2>1 DEF Request
  <2>4. Proceed(t, r)
    BY DEF Respond, LockPayment
  <2>5. tx' \in [Txns -> Request]
    BY <2>3, <2>4, ProceedType DEF PInv, TypeOK
  <2> QED BY <2>5, SMTT(60) DEF PInv, Respond, tables, locks, Proceed, Buyer, TypeOK,
       BuyersKnown, Grounded, Guarded, OrderStatus, PaymentStatus
<1>2. BuyersKnown'
  BY SMTT(60) DEF PInv, Respond, tables, locks, Proceed, Buyer, TypeOK, BuyersKnown,
       Grounded, Guarded, Request, PaymentStatus
<1>3. \A r \in Txns : Grounded(r)'
  BY SMTT(60) DEF PInv, Respond, tables, locks, Proceed, Buyer, TypeOK, Grounded, Guarded,
       Request, OrderStatus, PaymentStatus
<1>4. ASSUME NEW r \in Txns PROVE Guarded(r)'
  <2>1. CASE r = t
    BY <2>1, SMTT(60) DEF PInv, Respond, tables, locks, Proceed, Buyer, TypeOK,
         Grounded, Guarded, BuyersKnown, Request, OrderStatus, PaymentStatus
  <2>2. CASE r # t
    BY <2>2, SMTT(60) DEF PInv, Respond, tables, locks, Proceed, Buyer, TypeOK,
         Grounded, Guarded, BuyersKnown, Request, OrderStatus, PaymentStatus
  <2> QED BY <2>1, <2>2
<1>5. GrantedOnce'
  BY SMTT(60) DEF PInv, Respond, tables, locks, Proceed, Buyer, TypeOK, GrantedOnce,
       Grounded, Guarded, Request, OrderStatus, PaymentStatus
<1>6. RewardedOnce'
  BY SMTT(60) DEF PInv, Respond, tables, locks, Proceed, Buyer, TypeOK, RewardedOnce,
       Grounded, Guarded, BuyersKnown, Request, OrderStatus, PaymentStatus
<1> QED BY <1>1, <1>2, <1>3, <1>4, <1>5, <1>6 DEF PInv

\* The response goes astray; tables and locks stay.
LEMMA AnswerLostSound ==
  ASSUME PInv, NEW t \in Txns, AnswerLost(t)
  PROVE  PInv'
<1>1. TypeOK'
  <2> DEFINE r == [tx[t] EXCEPT !.pc = "commit"]
  <2>1. tx[t] \in Request
    BY DEF PInv, TypeOK
  <2>3. r \in Request
    BY <2>1 DEF Request
  <2>4. Proceed(t, r)
    BY DEF AnswerLost, LockPayment
  <2>5. tx' \in [Txns -> Request]
    BY <2>3, <2>4, ProceedType DEF PInv, TypeOK
  <2> QED BY <2>5, SMTT(60) DEF PInv, AnswerLost, At, provider, tables, locks, Proceed, Buyer, TypeOK,
       BuyersKnown, Grounded, Guarded, OrderStatus, PaymentStatus
<1>2. BuyersKnown'
  BY SMTT(60) DEF PInv, AnswerLost, At, provider, tables, locks, Proceed, Buyer, TypeOK, BuyersKnown,
       Grounded, Guarded, Request, PaymentStatus
<1>3. \A r \in Txns : Grounded(r)'
  BY SMTT(60) DEF PInv, AnswerLost, At, provider, tables, locks, Proceed, Buyer, TypeOK, Grounded, Guarded,
       Request, OrderStatus, PaymentStatus
<1>4. ASSUME NEW r \in Txns PROVE Guarded(r)'
  <2>1. CASE r = t
    BY <2>1, SMTT(60) DEF PInv, AnswerLost, At, provider, tables, locks, Proceed, Buyer, TypeOK,
         Grounded, Guarded, BuyersKnown, Request, OrderStatus, PaymentStatus
  <2>2. CASE r # t
    BY <2>2, SMTT(60) DEF PInv, AnswerLost, At, provider, tables, locks, Proceed, Buyer, TypeOK,
         Grounded, Guarded, BuyersKnown, Request, OrderStatus, PaymentStatus
  <2> QED BY <2>1, <2>2
<1>5. GrantedOnce'
  BY SMTT(60) DEF PInv, AnswerLost, At, provider, tables, locks, Proceed, Buyer, TypeOK, GrantedOnce,
       Grounded, Guarded, Request, OrderStatus, PaymentStatus
<1>6. RewardedOnce'
  BY SMTT(60) DEF PInv, AnswerLost, At, provider, tables, locks, Proceed, Buyer, TypeOK, RewardedOnce,
       Grounded, Guarded, BuyersKnown, Request, OrderStatus, PaymentStatus
<1> QED BY <1>1, <1>2, <1>3, <1>4, <1>5, <1>6 DEF PInv

\* The checkout inserts the only row of its order.
LEMMA CheckoutCommitSound ==
  ASSUME PInv, NEW t \in Txns, CheckoutCommit(t)
  PROVE  PInv'
<1>1. TypeOK'
  <2>1. tx' \in [Txns -> Request]
    BY IdleType, ProceedType DEF PInv, TypeOK, CheckoutCommit
  <2> QED BY <2>1, SMTT(60) DEF PInv, CheckoutCommit, provider, At, Proceed, ReleaseLocks,
       Idle, Buyer, TypeOK, BuyersKnown, Grounded, Guarded, OrderStatus, PaymentStatus
<1>2. BuyersKnown'
  BY SMTT(60) DEF PInv, CheckoutCommit, provider, At, Proceed, ReleaseLocks, Idle, Buyer,
       TypeOK, BuyersKnown, Grounded, Guarded, Request, PaymentStatus
<1>3. \A r \in Txns : Grounded(r)'
  BY SMTT(60) DEF PInv, CheckoutCommit, provider, At, Proceed, ReleaseLocks, Idle, Buyer,
       TypeOK, Grounded, Guarded, Request, OrderStatus, PaymentStatus
<1>4. ASSUME NEW r \in Txns PROVE Guarded(r)'
  <2>1. CASE r = t
    BY <2>1, SMTT(60) DEF PInv, CheckoutCommit, provider, At, Proceed, ReleaseLocks,
         Idle, Buyer, TypeOK, Grounded, Guarded, BuyersKnown, Request, OrderStatus,
         PaymentStatus
  <2>2. CASE r # t
    BY <2>2, SMTT(60) DEF PInv, CheckoutCommit, provider, At, Proceed, ReleaseLocks,
         Idle, Buyer, TypeOK, Grounded, Guarded, BuyersKnown, Request, OrderStatus,
         PaymentStatus
  <2> QED BY <2>1, <2>2
<1>5. GrantedOnce'
  BY SMTT(60) DEF PInv, CheckoutCommit, provider, At, Proceed, ReleaseLocks, Idle, Buyer,
       TypeOK, GrantedOnce, Grounded, Guarded, Request, OrderStatus, PaymentStatus
<1>6. RewardedOnce'
  BY SMTT(60) DEF PInv, CheckoutCommit, provider, At, Proceed, ReleaseLocks, Idle, Buyer,
       TypeOK, RewardedOnce, Grounded, Guarded, BuyersKnown, Request, OrderStatus,
       PaymentStatus
<1> QED BY <1>1, <1>2, <1>3, <1>4, <1>5, <1>6 DEF PInv

\* The settling request grants once, marks paid, and rewards once.
LEMMA SettleCommitSound ==
  ASSUME PInv, NEW t \in Txns, SettleCommit(t)
  PROVE  PInv'
<1>1. TypeOK'
  <2>1. tx' \in [Txns -> Request]
    BY IdleType, ProceedType DEF PInv, TypeOK, SettleCommit
  <2> QED BY <2>1, SMTT(60) DEF PInv, SettleCommit, provider, Proceed, ReleaseLocks, Idle,
       NewStatus, Fails, Buyer, TypeOK, BuyersKnown, Grounded, Guarded, OrderStatus,
       PaymentStatus
<1>2. BuyersKnown'
  BY SMTT(60) DEF PInv, SettleCommit, provider, Proceed, ReleaseLocks, Idle, NewStatus,
       Fails, Buyer, TypeOK, BuyersKnown, Grounded, Guarded, Request, PaymentStatus
<1>3. \A r \in Txns : Grounded(r)'
  BY SMTT(60) DEF PInv, SettleCommit, provider, Proceed, ReleaseLocks, Idle, NewStatus,
       Fails, Buyer, TypeOK, Grounded, Guarded, Request, OrderStatus, PaymentStatus
<1>4. ASSUME NEW r \in Txns PROVE Guarded(r)'
  <2>1. CASE r = t
    <3>1. tx'[t] = Idle
      BY DEF PInv, TypeOK, SettleCommit, Proceed
    <3> QED BY <2>1, <3>1 DEF Guarded, Idle
  <2>2. CASE r # t
    <3>1. /\ tx'[r] = tx[r] /\ tx[r] \in Request /\ tx[t] \in Request
          /\ tx[t].p \in PaymentIds /\ (tx[r].op # "none" => tx[r].p \in PaymentIds)
      BY <2>2 DEF PInv, TypeOK, SettleCommit, Proceed, Grounded
    <3>2. tx[r].settles => tx[r].op # "none" /\ tx[r].p \in PaymentIds
      BY <3>1 DEF PInv, Guarded
    <3>3. \A p \in PaymentIds : payments'[p].user = payments[p].user
      BY DEF PInv, TypeOK, SettleCommit
    <3>4. ASSUME tx[r].settles
          PROVE  /\ paymentLock'[tx[r].p] = r /\ order'[tx[r].p] = "paid"
                 /\ payments'[tx[r].p].status \in {"created", "failed"}
      <4>1. paymentLock[tx[r].p] = r /\ order[tx[r].p] = "paid"
            /\ payments[tx[r].p].status \in {"created", "failed"}
            /\ (tx[t].settles => paymentLock[tx[t].p] = t)
        BY <3>4 DEF PInv, Guarded
      <4>2. paymentLock'[tx[r].p] = r /\ order'[tx[r].p] = "paid"
        BY <2>2, <3>2, <3>4, <4>1 DEF SettleCommit, ReleaseLocks, provider
      <4>3. CASE tx[r].p # tx[t].p
        BY <3>1, <3>2, <3>4, <4>1, <4>2, <4>3 DEF PInv, TypeOK, SettleCommit
      <4>4. CASE tx[r].p = tx[t].p
        <5>1. ~tx[t].settles
          BY <2>2, <4>1, <4>4
        <5>2. NewStatus(t) \in {"created", "failed"}
          BY <4>1, <4>4, <5>1 DEF NewStatus, Fails
        <5> QED BY <3>1, <4>2, <4>4, <5>2 DEF PInv, TypeOK, SettleCommit
      <4> QED BY <4>3, <4>4
    <3>5. tx[r].settles => Buyer(r)' = Buyer(r)
      BY <3>1, <3>2, <3>3 DEF Buyer
    <3>6. ASSUME tx[r].settles, tx[r].pc # "refer"
          PROVE  IF tx[r].rewards
                 THEN referralLock'[Buyer(r)] = r /\ referral'[Buyer(r)] = "open"
                 ELSE referral'[Buyer(r)] # "open"
      <4>1. IF tx[r].rewards
            THEN referralLock[Buyer(r)] = r /\ referral[Buyer(r)] = "open"
            ELSE referral[Buyer(r)] # "open"
        BY <3>6 DEF PInv, Guarded
      <4>2. payments[tx[r].p].status # "none"
        BY <3>6 DEF PInv, Guarded
      <4>3. Buyer(r) \in Users
        BY <3>2, <3>6, <4>2 DEF PInv, BuyersKnown, Buyer
      <4>4. CASE tx[r].rewards
        <5>1. ~(tx[t].rewards /\ Buyer(r) = Buyer(t))
          BY <2>2, <4>1, <4>4 DEF PInv, Guarded, SettleCommit
        <5> QED BY <2>2, <3>5, <3>6, <4>1, <4>3, <4>4, <5>1 DEF SettleCommit, ReleaseLocks
      <4>5. CASE ~tx[r].rewards
        BY <3>5, <3>6, <4>1, <4>3, <4>5 DEF SettleCommit
      <4> QED BY <4>4, <4>5
    <3> QED BY <3>1, <3>4, <3>5, <3>6 DEF PInv, Guarded
  <2> QED BY <2>1, <2>2
<1>5. GrantedOnce'
  <2> SUFFICES ASSUME NEW p \in PaymentIds
               PROVE  /\ purchases'[p] = IF payments'[p].status = "paid" THEN 1 ELSE 0
                      /\ payments'[p].status = "paid" => order'[p] = "paid"
    BY DEF GrantedOnce
  <2>0. /\ tx[t] \in Request /\ tx[t].p \in PaymentIds
        /\ payments[p] \in [status: PaymentStatus, user: Users \cup {None}]
        /\ purchases[p] \in Nat
        /\ order' = order
        /\ purchases[p] = IF payments[p].status = "paid" THEN 1 ELSE 0
        /\ payments[p].status = "paid" => order[p] = "paid"
        /\ tx[t].settles => payments[tx[t].p].status # "paid" /\ order[tx[t].p] = "paid"
    BY DEF PInv, TypeOK, SettleCommit, provider, GrantedOnce, Grounded, Guarded
  <2>1. CASE p # tx[t].p
    BY <2>0, <2>1 DEF SettleCommit, PInv, TypeOK
  <2>2. CASE p = tx[t].p /\ tx[t].settles
    <3>1. payments'[p].status = "paid" /\ purchases'[p] = purchases[p] + 1
      BY <2>0, <2>2 DEF SettleCommit, PInv, TypeOK, NewStatus
    <3> QED BY <2>0, <2>2, <3>1
  <2>3. CASE p = tx[t].p /\ ~tx[t].settles
    <3>1. /\ payments'[p].status = NewStatus(t)
          /\ purchases'[p] = purchases[p]
      BY <2>0, <2>3 DEF SettleCommit, PInv, TypeOK
    <3>2. NewStatus(t) = "paid" <=> payments[p].status = "paid"
      BY <2>0, <2>3 DEF NewStatus, Fails
    <3> QED BY <2>0, <3>1, <3>2
  <2> QED BY <2>0, <2>1, <2>2, <2>3 DEF Request
<1>6. RewardedOnce'
  BY SMTT(60) DEF PInv, SettleCommit, provider, Proceed, ReleaseLocks, Idle, NewStatus,
       Fails, Buyer, TypeOK, RewardedOnce, Grounded, Guarded, BuyersKnown, Request,
       OrderStatus, PaymentStatus
<1> QED BY <1>1, <1>2, <1>3, <1>4, <1>5, <1>6 DEF PInv

\* A failed request writes nothing and lets its locks go.
LEMMA RollbackSound ==
  ASSUME PInv, NEW t \in Txns, Rollback(t)
  PROVE  PInv'
<1>1. TypeOK'
  <2>1. tx' \in [Txns -> Request]
    BY IdleType, ProceedType DEF PInv, TypeOK, Rollback
  <2> QED BY <2>1, SMTT(60) DEF PInv, Rollback, provider, tables, Proceed, ReleaseLocks,
       Idle, Buyer, TypeOK, BuyersKnown, Grounded, Guarded, OrderStatus, PaymentStatus
<1>2. BuyersKnown'
  BY SMTT(60) DEF PInv, Rollback, provider, tables, Proceed, ReleaseLocks, Idle, Buyer,
       TypeOK, BuyersKnown, Grounded, Guarded, Request, PaymentStatus
<1>3. \A r \in Txns : Grounded(r)'
  BY SMTT(60) DEF PInv, Rollback, provider, tables, Proceed, ReleaseLocks, Idle, Buyer,
       TypeOK, Grounded, Guarded, Request, OrderStatus, PaymentStatus
<1>4. ASSUME NEW r \in Txns PROVE Guarded(r)'
  <2>1. CASE r = t
    BY <2>1, SMTT(60) DEF PInv, Rollback, provider, tables, Proceed, ReleaseLocks, Idle,
         Buyer, TypeOK, Grounded, Guarded, BuyersKnown, Request, OrderStatus,
         PaymentStatus
  <2>2. CASE r # t
    BY <2>2, SMTT(60) DEF PInv, Rollback, provider, tables, Proceed, ReleaseLocks, Idle,
         Buyer, TypeOK, Grounded, Guarded, BuyersKnown, Request, OrderStatus,
         PaymentStatus
  <2> QED BY <2>1, <2>2
<1>5. GrantedOnce'
  BY SMTT(60) DEF PInv, Rollback, provider, tables, Proceed, ReleaseLocks, Idle, Buyer,
       TypeOK, GrantedOnce, Grounded, Guarded, Request, OrderStatus, PaymentStatus
<1>6. RewardedOnce'
  BY SMTT(60) DEF PInv, Rollback, provider, tables, Proceed, ReleaseLocks, Idle, Buyer,
       TypeOK, RewardedOnce, Grounded, Guarded, BuyersKnown, Request, OrderStatus,
       PaymentStatus
<1> QED BY <1>1, <1>2, <1>3, <1>4, <1>5, <1>6 DEF PInv

\* The provider marks an open order; no payment was settled on it.
LEMMA PaySound ==
  ASSUME PInv, NEW p \in PaymentIds, NEW outcome \in Outcomes, Pay(p, outcome)
  PROVE  PInv'
<1>1. TypeOK'
  BY SMTT(60) DEF PInv, Pay, tables, locks, Sends, Buyer, TypeOK, OrderStatus,
       PaymentStatus, Event
<1>2. BuyersKnown'
  BY SMTT(60) DEF PInv, Pay, tables, locks, Sends, Buyer, TypeOK, BuyersKnown, Grounded,
       Guarded, Request, PaymentStatus
<1>3. \A r \in Txns : Grounded(r)'
  BY SMTT(60) DEF PInv, Pay, tables, locks, Sends, Buyer, TypeOK, Grounded, Guarded,
       Request, OrderStatus, PaymentStatus
<1>4. ASSUME NEW r \in Txns PROVE Guarded(r)'
  BY SMTT(60) DEF PInv, Pay, tables, locks, Sends, Buyer, TypeOK, Grounded, Guarded,
       BuyersKnown, Request, OrderStatus, PaymentStatus
<1>5. GrantedOnce'
  BY SMTT(60) DEF PInv, Pay, tables, locks, Sends, Buyer, TypeOK, GrantedOnce, Grounded,
       Guarded, Request, OrderStatus, PaymentStatus
<1>6. RewardedOnce'
  BY SMTT(60) DEF PInv, Pay, tables, locks, Sends, Buyer, TypeOK, RewardedOnce, Grounded,
       Guarded, BuyersKnown, Request, OrderStatus, PaymentStatus
<1> QED BY <1>1, <1>2, <1>3, <1>4, <1>5, <1>6 DEF PInv

\* A declined card sends an event and changes nothing here.
LEMMA DeclineSound ==
  ASSUME PInv, NEW p \in PaymentIds, Decline(p)
  PROVE  PInv'
<1>1. TypeOK'
  BY SMTT(60) DEF PInv, Decline, tables, locks, Sends, TypeOK, OrderStatus, PaymentStatus,
       Event
<1>2. BuyersKnown'
  BY SMTT(60) DEF PInv, Decline, tables, locks, Sends, TypeOK, BuyersKnown, Grounded,
       Guarded, Request, PaymentStatus
<1>3. \A r \in Txns : Grounded(r)'
  BY SMTT(60) DEF PInv, Decline, tables, locks, Sends, TypeOK, Grounded, Guarded, Request,
       OrderStatus, PaymentStatus
<1>4. ASSUME NEW r \in Txns PROVE Guarded(r)'
  BY SMTT(60) DEF PInv, Decline, tables, locks, Sends, TypeOK, Grounded, Guarded, Buyer,
       BuyersKnown, Request, OrderStatus, PaymentStatus
<1>5. GrantedOnce'
  BY SMTT(60) DEF PInv, Decline, tables, locks, Sends, TypeOK, GrantedOnce, Grounded,
       Guarded, Request, OrderStatus, PaymentStatus
<1>6. RewardedOnce'
  BY SMTT(60) DEF PInv, Decline, tables, locks, Sends, TypeOK, RewardedOnce, Grounded,
       Guarded, BuyersKnown, Request, OrderStatus, PaymentStatus
<1> QED BY <1>1, <1>2, <1>3, <1>4, <1>5, <1>6 DEF PInv

\* An expired order was open, so no payment was settled on it.
LEMMA ExpireSound ==
  ASSUME PInv, NEW p \in PaymentIds, Expire(p)
  PROVE  PInv'
<1>1. TypeOK'
  BY SMTT(60) DEF PInv, Expire, tables, locks, Sends, TypeOK, OrderStatus, PaymentStatus,
       Event
<1>2. BuyersKnown'
  BY SMTT(60) DEF PInv, Expire, tables, locks, Sends, TypeOK, BuyersKnown, Grounded,
       Guarded, Request, PaymentStatus
<1>3. \A r \in Txns : Grounded(r)'
  BY SMTT(60) DEF PInv, Expire, tables, locks, Sends, TypeOK, Grounded, Guarded, Request,
       OrderStatus, PaymentStatus
<1>4. ASSUME NEW r \in Txns PROVE Guarded(r)'
  BY SMTT(60) DEF PInv, Expire, tables, locks, Sends, TypeOK, Grounded, Guarded, Buyer,
       BuyersKnown, Request, OrderStatus, PaymentStatus
<1>5. GrantedOnce'
  BY SMTT(60) DEF PInv, Expire, tables, locks, Sends, TypeOK, GrantedOnce, Grounded,
       Guarded, Request, OrderStatus, PaymentStatus
<1>6. RewardedOnce'
  BY SMTT(60) DEF PInv, Expire, tables, locks, Sends, TypeOK, RewardedOnce, Grounded,
       Guarded, BuyersKnown, Request, OrderStatus, PaymentStatus
<1> QED BY <1>1, <1>2, <1>3, <1>4, <1>5, <1>6 DEF PInv

\* A step in which nothing moves.
LEMMA StutterSound ==
  ASSUME PInv, UNCHANGED vars
  PROVE  PInv'
  BY DEF PInv, TypeOK, BuyersKnown, Grounded, Guarded, Buyer, GrantedOnce, RewardedOnce,
         vars, provider, tables, locks

\* Every step of Payments preserves the invariant.
LEMMA NextSound ==
  ASSUME PInv, [Next]_vars
  PROVE  PInv'
<1>1. ASSUME NEW t \in Txns, Continue(t) PROVE PInv'
  BY <1>1, VerifyAskSound, VerifyLockSound, WebhookLockSound, WebhookUnknownSound,
     RewardReferrerSound, NoRewardSound, RespondSound, CheckoutCommitSound,
     SettleCommitSound DEF Continue
<1>2. ASSUME NEW t \in Txns, AnswerLost(t) \/ Rollback(t) PROVE PInv'
  BY <1>2, AnswerLostSound, RollbackSound
<1>3. ASSUME NEW t \in Txns, NEW p \in PaymentIds, VerifyLoad(t, p) PROVE PInv'
  BY <1>3, VerifyLoadSound
<1>4. ASSUME NEW t \in Txns, NEW p \in PaymentIds, NEW u \in Users, CheckoutOpen(t, p, u)
      PROVE  PInv'
  BY <1>4, CheckoutOpenSound
<1>5. ASSUME NEW e \in Event, Deliver(e) PROVE PInv'
  BY <1>5, WebhookDuplicateSound, WebhookInsertSound DEF Deliver
<1>6. ASSUME NEW p \in PaymentIds, NEW outcome \in Outcomes, Pay(p, outcome) PROVE PInv'
  BY <1>6, PaySound
<1>7. ASSUME NEW p \in PaymentIds, Decline(p) \/ Expire(p) PROVE PInv'
  BY <1>7, DeclineSound, ExpireSound
<1>8. CASE UNCHANGED vars
  BY <1>8, StutterSound
<1> QED BY <1>1, <1>2, <1>3, <1>4, <1>5, <1>6, <1>7, <1>8 DEF Next

\* PInv is an invariant of the payments, whatever the constants.
THEOREM PaymentsInvariant == Spec => []PInv
<1>1. Init => PInv
  BY InitSound
<1>2. PInv /\ [Next]_vars => PInv'
  BY NextSound
<1> QED BY <1>1, <1>2, PTL DEF Spec

\* Credits are granted once for a paid payment and never otherwise, whichever
\* of the buyer's return and the provider's webhooks settles it first.
THEOREM GrantedExactlyOnce == Spec => []GrantedOnce
<1>1. PInv => GrantedOnce
  BY DEF PInv
<1> QED BY <1>1, PaymentsInvariant, PTL

\* A referrer is rewarded once, when the referred user's first payment settles,
\* also when several payments of that user settle at once.
THEOREM RewardedExactlyOnce == Spec => []RewardedOnce
<1>1. PInv => RewardedOnce
  BY DEF PInv
<1> QED BY <1>1, PaymentsInvariant, PTL

\* No step moves a paid payment: a late failed event or a declined attempt
\* finds it paid and leaves it so.
LEMMA PaidStays ==
  ASSUME PInv, [Next]_vars, NEW p \in PaymentIds, payments[p].status = "paid"
  PROVE  payments'[p].status = "paid"
<1>1. ASSUME NEW t \in Txns, CheckoutCommit(t) PROVE payments'[p].status = "paid"
  <2>1. tx[t].p # p
    BY <1>1 DEF CheckoutCommit, At, PInv, Grounded
  <2> QED BY <1>1, <2>1 DEF CheckoutCommit, PInv, TypeOK
<1>2. ASSUME NEW t \in Txns, SettleCommit(t) PROVE payments'[p].status = "paid"
  <2>1. CASE tx[t].p # p
    BY <1>2, <2>1 DEF SettleCommit, PInv, TypeOK
  <2>2. CASE tx[t].p = p
    <3>1. NewStatus(t) = "paid"
      BY <2>2 DEF NewStatus, Fails
    <3> QED BY <1>2, <2>2, <3>1 DEF SettleCommit, PInv, TypeOK
  <2> QED BY <2>1, <2>2
<1>3. CASE payments' = payments
  BY <1>3
<1>4. CASE \E t \in Txns : Continue(t) \/ AnswerLost(t) \/ Rollback(t)
  BY <1>1, <1>2, <1>3, <1>4 DEF Continue, VerifyAsk, VerifyLock, WebhookLock, WebhookUnknown,
     RewardReferrer, NoReward, Respond, AnswerLost, Rollback, tables
<1>5. CASE \E t \in Txns, q \in PaymentIds : VerifyLoad(t, q)
  BY <1>3, <1>5 DEF VerifyLoad, tables
<1>6. CASE \E t \in Txns, q \in PaymentIds, u \in Users : CheckoutOpen(t, q, u)
  BY <1>3, <1>6 DEF CheckoutOpen, tables
<1>7. CASE \E e \in Event : Deliver(e)
  BY <1>3, <1>7 DEF Deliver, WebhookDuplicate, WebhookInsert, tables
<1>8. CASE \/ \E q \in PaymentIds, outcome \in Outcomes : Pay(q, outcome)
          \/ \E q \in PaymentIds : Decline(q) \/ Expire(q)
  BY <1>3, <1>8 DEF Pay, Decline, Expire, tables
<1>9. CASE UNCHANGED vars
  BY <1>3, <1>9 DEF vars, tables
<1> QED BY <1>4, <1>5, <1>6, <1>7, <1>8, <1>9 DEF Next

\* A payment that is paid stays paid, for any number of late answers.
THEOREM PaidStaysPaid == Spec => PaidIsFinal
<1>1. PInv /\ [Next]_vars =>
        [\A p \in PaymentIds : payments[p].status = "paid" => payments'[p].status = "paid"]_vars
  BY PaidStays
<1> QED BY <1>1, PaymentsInvariant, PTL DEF Spec, PaidIsFinal

(***************************************************************************)
(* What is recorded is applied                                             *)
(***************************************************************************)
\* What was paid stays as it was paid, and was paid before the provider said so.
LEMMA PaidOrders ==
  ASSUME AInv, [Next]_vars
  PROVE  /\ \A p \in PaymentIds : order[p] \in {"paid", "paid_other"} => order'[p] = order[p]
         /\ sent \subseteq sent'
         /\ \A e \in sent' : e.kind = "paid" => order'[e.p] \in {"paid", "paid_other"}
<1>0. order \in [PaymentIds -> OrderStatus] /\ sent \subseteq Event
  BY DEF AInv, PInv, TypeOK
<1>1. CASE UNCHANGED <<order, sent>>
  BY <1>1 DEF AInv
<1>2. CASE \E t \in Txns, p \in PaymentIds, u \in Users : CheckoutOpen(t, p, u)
  BY <1>0, <1>2 DEF CheckoutOpen, AInv, Event
<1>3. CASE \E p \in PaymentIds, outcome \in Outcomes : Pay(p, outcome)
  BY <1>0, <1>3 DEF Pay, Sends, AInv, Event
<1>4. CASE \E p \in PaymentIds : Decline(p)
  BY <1>0, <1>4 DEF Decline, Sends, AInv, Event
<1>5. CASE \E p \in PaymentIds : Expire(p)
  BY <1>0, <1>5 DEF Expire, Sends, AInv, Event
<1>6. ASSUME NEW t \in Txns, Continue(t) \/ AnswerLost(t) \/ Rollback(t) PROVE UNCHANGED <<order, sent>>
  BY <1>6 DEF Continue, VerifyAsk, VerifyLock, WebhookLock, WebhookUnknown, RewardReferrer, NoReward,
     Respond, CheckoutCommit, SettleCommit, AnswerLost, Rollback, provider
<1>7. ASSUME NEW t \in Txns, NEW p \in PaymentIds, VerifyLoad(t, p) PROVE UNCHANGED <<order, sent>>
  BY <1>7 DEF VerifyLoad, provider
<1>8. ASSUME NEW e \in Event, Deliver(e) PROVE UNCHANGED <<order, sent>>
  BY <1>8 DEF Deliver, WebhookDuplicate, WebhookInsert, provider
<1>9. CASE UNCHANGED vars
  BY <1>1, <1>9 DEF vars, provider
<1> QED BY <1>1, <1>2, <1>3, <1>4, <1>5, <1>6, <1>7, <1>8, <1>9 DEF Next

\* Nobody but t moves, or takes a payment's lock.
Alone(t) ==
  \A q \in Txns \ {t} :
    tx'[q] = tx[q] /\ \A p \in PaymentIds : paymentLock'[p] = q => paymentLock[p] = q

\* A request begins, goes on or ends, and holds the lock only as it should.
LEMMA ApplyStep ==
  ASSUME AInv, [Next]_vars, NEW t \in Txns, Alone(t),
         \/ tx'[t].op # "webhook" /\ tx'[t].e = None
         \/ /\ tx[t].op = "webhook" /\ tx'[t].op = "webhook"
            /\ tx'[t].e = tx[t].e /\ tx'[t].p = tx[t].p
         \/ /\ tx'[t].op = "webhook" /\ tx'[t].e \in sent /\ tx'[t].p = tx'[t].e.p
            /\ ~Inserting(tx'[t].e),
         \A p \in PaymentIds : paymentLock'[p] = t =>
           /\ tx'[t].pc \in {"refer", "respond", "commit"} /\ tx'[t].p = p
           /\ tx'[t].op = "webhook" /\ tx'[t].e.kind = "paid" /\ order[p] = "paid" =>
                tx'[t].settles \/ payments[p].status = "paid"
  PROVE  AInv'
<1>1. PInv' /\ \A p \in PaymentIds : payments[p].status = "paid" => payments'[p].status = "paid"
  BY NextSound, PaidStays DEF AInv
<1>2. \A q \in Txns : Applies(q)
  BY DEF AInv
<1>3. /\ \A q \in Txns : tx'[q].op = "webhook" => tx'[q].e \in sent /\ tx'[q].p = tx'[q].e.p
      /\ \A q \in Txns : tx'[q].op # "webhook" => tx'[q].e = None
      /\ \A q, r \in Txns : tx'[q].op = "webhook" /\ tx'[r].op = "webhook" /\ tx'[q].e = tx'[r].e => r = q
  BY <1>2 DEF Applies, Alone, Inserting
<1>4. ASSUME NEW q \in Txns, NEW p \in PaymentIds, paymentLock'[p] = q
      PROVE  /\ tx'[q].pc \in {"refer", "respond", "commit"} /\ tx'[q].p = p
             /\ tx'[q].op = "webhook" /\ tx'[q].e.kind = "paid" /\ order[p] = "paid" =>
                  tx'[q].settles \/ payments[p].status = "paid"
  BY <1>2, <1>4 DEF Applies, Alone
<1>5. ASSUME NEW q \in Txns, NEW p \in PaymentIds, paymentLock'[p] = q,
             tx'[q].op = "webhook", tx'[q].e.kind = "paid", order'[p] = "paid"
      PROVE  order[p] = "paid"
  <2>1. tx'[q].e \in sent /\ tx'[q].e.p = p
    BY <1>3, <1>4, <1>5
  <2> QED BY <1>5, <2>1, PaidOrders DEF AInv
<1>6. \A e \in sent : e \in sent'
  BY PaidOrders
<1>7. \A q \in Txns : Applies(q)'
  BY <1>1, <1>3, <1>4, <1>5, <1>6 DEF Applies
<1> QED BY <1>1, <1>7, PaidOrders DEF AInv

\* The provider, a replay and a stutter move no request.
LEMMA UnmovedStep ==
  ASSUME AInv, [Next]_vars, UNCHANGED <<tx, paymentLock>>
  PROVE  AInv'
<1>1. CASE Txns = {}
  BY <1>1, NextSound, PaidOrders DEF AInv
<1>2. ASSUME NEW t \in Txns PROVE AInv'
  <2>1. Applies(t) /\ Alone(t)
    BY DEF AInv, Alone
  <2> QED BY <2>1, ApplyStep DEF Applies
<1> QED BY <1>1, <1>2

\* What a request stands on, and who waits for a lock holds none.
LEMMA ApplyFacts ==
  ASSUME AInv, NEW t \in Txns
  PROVE  /\ tx \in [Txns -> Request] /\ tx[t] \in Request /\ Applies(t)
         /\ paymentLock \in [PaymentIds -> Txns \cup {None}]
         /\ tx[t].op # "none" => tx[t].p \in PaymentIds
         /\ tx[t].pc \in {"idle", "ask", "lock"} => \A p \in PaymentIds : paymentLock[p] # t
  BY DEF AInv, PInv, TypeOK, Grounded, Applies

\* A request begins.
LEMMA BeginApply ==
  ASSUME AInv, [Next]_vars, NEW t \in Txns,
         \/ \E p \in PaymentIds : VerifyLoad(t, p)
         \/ \E p \in PaymentIds, u \in Users : CheckoutOpen(t, p, u)
         \/ \E e \in Event : WebhookInsert(t, e)
  PROVE  AInv'
<1>1. /\ tx \in [Txns -> Request] /\ tx[t].pc = "idle" /\ paymentLock' = paymentLock
      /\ \A p \in PaymentIds : paymentLock'[p] # t
  BY ApplyFacts DEF VerifyLoad, CheckoutOpen, WebhookInsert, locks
<1>2. Alone(t)
  BY <1>1 DEF VerifyLoad, CheckoutOpen, WebhookInsert, Proceed, Alone
<1>3. \/ tx'[t].op # "webhook" /\ tx'[t].e = None
      \/ /\ tx'[t].op = "webhook" /\ tx'[t].e \in sent /\ tx'[t].p = tx'[t].e.p
         /\ ~Inserting(tx'[t].e)
  <2>1. ASSUME NEW p \in PaymentIds, VerifyLoad(t, p)
        PROVE  tx'[t].op # "webhook" /\ tx'[t].e = None
    <3>1. tx'[t] = [Idle EXCEPT !.op = "verify", !.pc = "ask", !.p = p, !.seen = payments[p].status]
      BY <1>1, <2>1 DEF VerifyLoad, Proceed
    <3> QED BY <3>1 DEF Idle
  <2>2. ASSUME NEW p \in PaymentIds, NEW u \in Users, CheckoutOpen(t, p, u)
        PROVE  tx'[t].op # "webhook" /\ tx'[t].e = None
    <3>1. tx'[t] = [Idle EXCEPT !.op = "checkout", !.pc = "respond", !.p = p, !.u = u]
      BY <1>1, <2>2 DEF CheckoutOpen, Proceed
    <3> QED BY <3>1 DEF Idle
  <2>3. ASSUME NEW e \in Event, WebhookInsert(t, e)
        PROVE  /\ tx'[t].op = "webhook" /\ tx'[t].e \in sent /\ tx'[t].p = tx'[t].e.p
               /\ ~Inserting(tx'[t].e)
    <3>1. tx'[t].op = "webhook" /\ tx'[t].e = e /\ tx'[t].p = e.p /\ e \in sent /\ ~Inserting(e)
      BY <1>1, <2>3 DEF WebhookInsert, Proceed, Idle
    <3> QED BY <3>1
  <2> QED BY <2>1, <2>2, <2>3
<1> QED BY <1>1, <1>2, <1>3, ApplyStep

\* A request goes on with the payment and the event it has; what it locks, if
\* it locks anything, it settles unless it was settled.
LEMMA GoOnApply ==
  ASSUME AInv, [Next]_vars, NEW t \in Txns,
         \/ VerifyAsk(t) \/ WebhookUnknown(t) \/ RewardReferrer(t) \/ NoReward(t)
         \/ Respond(t) \/ AnswerLost(t)
  PROVE  AInv'
<1>1. /\ tx \in [Txns -> Request] /\ tx[t] \in Request /\ Applies(t) /\ paymentLock' = paymentLock
      /\ tx[t].pc \in {"ask", "lock"} => \A p \in PaymentIds : paymentLock[p] # t
  BY ApplyFacts DEF VerifyAsk, WebhookUnknown, RewardReferrer, NoReward, Respond, AnswerLost, locks
<1>2. Alone(t)
  BY <1>1 DEF VerifyAsk, WebhookUnknown, RewardReferrer, NoReward, Respond, AnswerLost, Proceed, Alone
<1>3. /\ tx'[t].op = tx[t].op /\ tx'[t].e = tx[t].e /\ tx'[t].p = tx[t].p
      /\ tx'[t].settles = tx[t].settles
      /\ tx[t].pc \in {"ask", "lock"} \/ tx'[t].pc \in {"respond", "commit"}
  <2> DEFINE r == tx[t]
  <2>1. CASE VerifyAsk(t)
    <3>1. tx'[t] = [r EXCEPT !.pc = "lock", !.answer = order[tx[t].p]] /\ r.pc = "ask"
      BY <1>1, <2>1 DEF VerifyAsk, At, Proceed
    <3> HIDE DEF r
    <3> QED BY <1>1, <3>1 DEF Request, r
  <2>2. CASE RewardReferrer(t)
    <3>1. tx'[t] = [r EXCEPT !.pc = "respond", !.rewards = TRUE]
      BY <1>1, <2>2 DEF RewardReferrer, Proceed
    <3> QED BY <1>1, <3>1 DEF Request
  <2>3. CASE WebhookUnknown(t) \/ NoReward(t) \/ Respond(t) \/ AnswerLost(t)
    <3>1. PICK pc \in {"respond", "commit"} : tx'[t] = [r EXCEPT !.pc = pc]
      BY <1>1, <2>3 DEF WebhookUnknown, NoReward, Respond, AnswerLost, Proceed
    <3> QED BY <1>1, <3>1 DEF Request
  <2> QED BY <2>1, <2>2, <2>3
<1> QED BY <1>1, <1>2, <1>3, ApplyStep DEF Applies

LEMMA LockApply ==
  ASSUME AInv, [Next]_vars, NEW t \in Txns, VerifyLock(t) \/ WebhookLock(t)
  PROVE  AInv'
<1>1. PICK answer :
        /\ LockPayment(t, answer)
        /\ tx[t].op = "webhook" /\ tx[t].e.kind = "paid" => answer = order[tx[t].p]
  BY DEF VerifyLock, WebhookLock, At
<1>2. /\ tx \in [Txns -> Request] /\ tx[t] \in Request /\ Applies(t)
      /\ paymentLock \in [PaymentIds -> Txns \cup {None}] /\ tx[t].p \in PaymentIds
      /\ \A p \in PaymentIds : paymentLock[p] # t
  BY ApplyFacts DEF VerifyLock, WebhookLock, At
<1>3. Alone(t)
  BY <1>1, <1>2 DEF LockPayment, Proceed, Alone
<1>4. /\ tx'[t].op = tx[t].op /\ tx'[t].e = tx[t].e /\ tx'[t].p = tx[t].p
      /\ tx'[t].settles = Settles(t, answer) /\ tx'[t].pc \in {"refer", "respond"}
      /\ \A p \in PaymentIds : paymentLock'[p] = t => p = tx[t].p
  BY <1>1, <1>2 DEF LockPayment, Proceed, Request
<1>5. tx[t].op = "webhook" /\ tx[t].e.kind = "paid" /\ order[tx[t].p] = "paid" =>
        tx'[t].settles \/ payments[tx[t].p].status = "paid"
  BY <1>1, <1>4 DEF Settles, StatusUnderLock
<1> QED BY <1>2, <1>3, <1>4, <1>5, ApplyStep DEF Applies

\* A request that is over has let its locks go.
LEMMA EndApply ==
  ASSUME AInv, [Next]_vars, NEW t \in Txns, CheckoutCommit(t) \/ SettleCommit(t) \/ Rollback(t)
  PROVE  AInv'
<1>1. ReleaseLocks(t) /\ Proceed(t, Idle)
  BY DEF CheckoutCommit, SettleCommit, Rollback
<1>2. tx \in [Txns -> Request]
  BY ApplyFacts
<1>3. Alone(t) /\ tx'[t] = Idle /\ \A p \in PaymentIds : paymentLock'[p] # t
  BY <1>1, <1>2 DEF ReleaseLocks, Proceed, Alone
<1> QED BY <1>3, ApplyStep DEF Idle

LEMMA StepApply == AInv /\ [Next]_vars => AInv'
<1> SUFFICES ASSUME AInv, [Next]_vars PROVE AInv'
  OBVIOUS
<1>1. ASSUME NEW t \in Txns, Continue(t) \/ AnswerLost(t) \/ Rollback(t) PROVE AInv'
  BY <1>1, GoOnApply, LockApply, EndApply DEF Continue
<1>2. ASSUME NEW e \in Event, Deliver(e) PROVE AInv'
  <2>1. CASE WebhookDuplicate(e)
    BY <2>1, UnmovedStep DEF WebhookDuplicate, locks
  <2>2. CASE \E t \in Txns : WebhookInsert(t, e)
    BY <2>2, BeginApply
  <2> QED BY <1>2, <2>1, <2>2 DEF Deliver
<1>3. CASE \/ \E p \in PaymentIds, outcome \in Outcomes : Pay(p, outcome)
           \/ \E p \in PaymentIds : Decline(p) \/ Expire(p)
  BY <1>3, UnmovedStep DEF Pay, Decline, Expire, locks
<1>4. CASE UNCHANGED vars
  BY <1>4, UnmovedStep DEF vars, locks
<1> QED BY <1>1, <1>2, <1>3, <1>4, BeginApply DEF Next

\* A webhook under way grants what its event says was paid, or has found it
\* granted, under the payment's lock.
THEOREM AppliesInvariant == Spec => []AInv
<1>1. Init => AInv
  BY InitSound DEF Init, AInv, Applies, Idle
<1> QED BY <1>1, StepApply, PTL DEF Spec

\* The commit that records an event of a payment we have is the one that leaves
\* the payment paid.
LEMMA RecordedApplied ==
  ASSUME AInv, [Next]_vars, NEW e \in events' \ events, NEW t \in Txns,
         e.kind = "paid", order[e.p] = "paid", tx[t].e = e, paymentLock[e.p] = t
  PROVE  payments'[e.p].status = "paid"
<1>1. PICK q \in Txns : SettleCommit(q) /\ tx[q].op = "webhook" /\ e = tx[q].e
  <2>1. ASSUME NEW q \in Txns, SettleCommit(q) PROVE tx[q].op = "webhook" /\ e = tx[q].e
    BY <2>1 DEF SettleCommit
  <2>2. ASSUME NEW q \in Txns, Continue(q) \/ AnswerLost(q) \/ Rollback(q) PROVE SettleCommit(q)
    BY <2>2 DEF Continue, VerifyAsk, VerifyLock, WebhookLock, WebhookUnknown, RewardReferrer, NoReward,
       Respond, CheckoutCommit, AnswerLost, Rollback, tables
  <2>3. ASSUME NEW q \in Txns, NEW p \in PaymentIds, VerifyLoad(q, p) PROVE FALSE
    BY <2>3 DEF VerifyLoad, tables
  <2>4. ASSUME NEW q \in Txns, NEW p \in PaymentIds, NEW u \in Users, CheckoutOpen(q, p, u) PROVE FALSE
    BY <2>4 DEF CheckoutOpen, tables
  <2>5. ASSUME NEW f \in Event, Deliver(f) PROVE FALSE
    BY <2>5 DEF Deliver, WebhookDuplicate, WebhookInsert, tables
  <2>6. ASSUME NEW p \in PaymentIds,
               Decline(p) \/ Expire(p) \/ \E outcome \in Outcomes : Pay(p, outcome)
        PROVE  FALSE
    BY <2>6 DEF Pay, Decline, Expire, tables
  <2>7. ~UNCHANGED vars
    BY DEF vars, tables
  <2> QED BY <2>1, <2>2, <2>3, <2>4, <2>5, <2>6, <2>7 DEF Next
<1>2. Applies(q) /\ Applies(t) /\ e \in Event /\ e.p \in PaymentIds
  BY <1>1 DEF AInv, Applies, PInv, TypeOK, Event
<1>3. q = t /\ tx[q].p = e.p
  BY <1>1, <1>2 DEF Applies
<1>4. tx[q].settles \/ payments[e.p].status = "paid"
  BY <1>1, <1>2, <1>3 DEF Applies
<1>5. CASE tx[q].settles
  BY <1>1, <1>2, <1>3, <1>5 DEF SettleCommit, NewStatus, AInv, PInv, TypeOK
<1>6. CASE payments[e.p].status = "paid"
  BY <1>2, <1>6, PaidStays DEF AInv
<1> QED BY <1>4, <1>5, <1>6

\* "FAILED is deliberately not terminal": no commit records that an order we
\* know was paid as quoted and leaves its payment unpaid.
THEOREM RecordedIsApplied == Spec => RecordedMeansApplied
<1>1. AInv /\ [Next]_vars =>
        [\A e \in events' \ events, t \in Txns :
           e.kind = "paid" /\ order[e.p] = "paid" /\ tx[t].e = e /\ paymentLock[e.p] = t
             => payments'[e.p].status = "paid"]_vars
  BY RecordedApplied
<1> QED BY <1>1, AppliesInvariant, PTL DEF Spec, RecordedMeansApplied
=============================================================================
