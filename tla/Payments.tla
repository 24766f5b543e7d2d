------------------------------ MODULE Payments ------------------------------
(***************************************************************************)
(* Buying credits (services/billing.py): a checkout opens an order with    *)
(* the payment provider, and what the provider says of the order turns it  *)
(* into credits.  Two routes bring that answer, the buyer's return         *)
(* (verify_payment, which asks) and the provider's webhook                 *)
(* (handle_webhook, which is told), and both end in settle_paid, which     *)
(* also pays the buyer's referrer (services/referrals.py).                 *)
(*                                                                         *)
(* Each request is one transaction, as in Booking; its writes are applied  *)
(* in the commit step.  The response goes out before the commit: get_db    *)
(* is a dependency with yield, whose exit code FastAPI runs afterwards.    *)
(*                                                                         *)
(* The provider is modelled from how the code uses it: it may deliver an   *)
(* event any number of times, in any order, and repeats one until it is    *)
(* answered with a 200.                                                    *)
(***************************************************************************)
EXTENDS Integers, FiniteSets

CONSTANTS
  Users,
  PaymentIds,    \* primary keys of payments, each with one provider order
  Txns,          \* requests that may be in flight at once
  None,
  Copies,        \* events the provider may send of one outcome
  Outcomes,      \* how an order may be paid
  MaxFailures,   \* bound: requests that fail
  LateFailures   \* may a request fail after its response, at the commit?

ASSUME PaymentsAssumption ==
  /\ None \notin Txns
  /\ Copies \in Nat /\ MaxFailures \in Nat
  /\ Outcomes \subseteq {"paid", "paid_other"}
  /\ LateFailures \in BOOLEAN

VARIABLES
  order,        \* the provider's record of each order
  sent,         \* events the provider has sent at least once
  acked,        \* events answered with a 200
  known,        \* orders whose buyer has been told how to pay
  payments,     \* the payments table
  events,       \* the webhook_events table
  purchases,    \* per payment, ledger rows that grant its credits
  referral,     \* per user, the referral that brought the user
  rewards,      \* per user, ledger rows that reward the user's referrer
  paymentLock,  \* holder of the FOR UPDATE lock on each payment
  referralLock, \* holder of the FOR UPDATE lock on each referral
  tx,           \* what each request is doing
  failures      \* requests that have failed and answers that were lost

provider == <<order, sent, known>>
tables == <<payments, events, purchases, referral, rewards>>
locks == <<paymentLock, referralLock>>
vars == <<provider, acked, tables, locks, tx, failures>>

\* "paid_other": the money that moved is not the money that was quoted.
OrderStatus == {"none", "open", "paid", "paid_other", "expired"}
PaymentStatus == {"none", "created", "paid", "failed"}
Event == [p: PaymentIds, kind: {"paid", "failed"}, n: 1..Copies]

ASSUME NoneIsNoEvent == None \notin Event

Idle == [op |-> "none", pc |-> "idle", p |-> None, u |-> None, e |-> None,
         seen |-> "none", answer |-> "none", settles |-> FALSE, rewards |-> FALSE]

At(t, op, pc) == tx[t].op = op /\ tx[t].pc = pc
Proceed(t, r) == tx' = [tx EXCEPT ![t] = r]

\* Mutant: a row read without FOR UPDATE.
PaymentUnlocked(p) == TRUE
PaymentFree(p) == paymentLock[p] = None

(***************************************************************************)
(* start_checkout                                                          *)
(***************************************************************************)
\* The order is opened first, then the row is inserted.
CheckoutOpen(t, p, u) ==
  /\ tx[t].pc = "idle"
  /\ order[p] = "none"
  /\ order' = [order EXCEPT ![p] = "open"]
  /\ Proceed(t, [Idle EXCEPT !.op = "checkout", !.pc = "respond", !.p = p, !.u = u])
  /\ UNCHANGED <<sent, known, acked, tables, locks, failures>>

(***************************************************************************)
(* verify_payment                                                          *)
(***************************************************************************)
\* The ownership read, which returns a settled payment untouched.
VerifyLoad(t, p) ==
  /\ tx[t].pc = "idle"
  /\ payments[p].status \in {"created", "failed"}
  /\ Proceed(t, [Idle EXCEPT !.op = "verify", !.pc = "ask", !.p = p,
                             !.seen = payments[p].status])
  /\ UNCHANGED <<provider, acked, tables, locks, failures>>

\* fetch_status, before any lock.
VerifyAsk(t) ==
  /\ At(t, "verify", "ask")
  /\ Proceed(t, [tx[t] EXCEPT !.pc = "lock", !.answer = order[tx[t].p]])
  /\ UNCHANGED <<provider, acked, tables, locks, failures>>

\* Mutant: _lock_payment without populate_existing.
SeenBeforeLock(t) ==
  IF tx[t].op = "verify" THEN tx[t].seen ELSE payments[tx[t].p].status
\* The status settle_paid tests: the locked row's.
StatusUnderLock(t) == payments[tx[t].p].status

\* Mutant: only a payment still created may settle.
SettlesCreated(t, answer) == answer = "paid" /\ StatusUnderLock(t) = "created"
\* settle_paid up to the grant: not paid already, amount and currency agree.
Settles(t, answer) == answer = "paid" /\ StatusUnderLock(t) # "paid"

\* _lock_payment.
LockPayment(t, answer) ==
  LET settles == Settles(t, answer) IN
  /\ PaymentFree(tx[t].p)
  /\ paymentLock' = [paymentLock EXCEPT ![tx[t].p] = t]
  /\ Proceed(t, [tx[t] EXCEPT !.answer = answer, !.settles = settles,
                              !.pc = IF settles THEN "refer" ELSE "respond"])

VerifyLock(t) ==
  /\ At(t, "verify", "lock")
  /\ LockPayment(t, tx[t].answer)
  /\ UNCHANGED <<provider, acked, tables, referralLock, failures>>

(***************************************************************************)
(* handle_webhook                                                          *)
(***************************************************************************)
\* The unique index makes a second insert of an event wait for the first.
Inserting(e) == \E t \in Txns : tx[t].op = "webhook" /\ tx[t].e = e

\* A replayed event: the insert fails, nothing else happens.
WebhookDuplicate(e) ==
  /\ e \in sent \cap events
  /\ e \notin acked
  /\ acked' = acked \cup {e}
  /\ UNCHANGED <<provider, tables, locks, tx, failures>>

\* Mutant: the event is recorded in a transaction of its own.
RecordFirst(t, e) ==
  /\ tx[t].pc = "idle"
  /\ e \in sent \ events
  /\ ~Inserting(e)
  /\ events' = events \cup {e}
  /\ Proceed(t, [Idle EXCEPT !.op = "webhook", !.pc = "lock", !.p = e.p, !.e = e])
  /\ UNCHANGED <<provider, acked, payments, purchases, referral, rewards, locks, failures>>

WebhookInsert(t, e) ==
  /\ tx[t].pc = "idle"
  /\ e \in sent \ events
  /\ ~Inserting(e)
  /\ Proceed(t, [Idle EXCEPT !.op = "webhook", !.pc = "lock", !.p = e.p, !.e = e])
  /\ UNCHANGED <<provider, acked, tables, locks, failures>>

WebhookLock(t) ==
  /\ At(t, "webhook", "lock")
  /\ payments[tx[t].p].status # "none"
  /\ LockPayment(t, IF tx[t].e.kind = "paid" THEN order[tx[t].p] ELSE "expired")
  /\ UNCHANGED <<provider, acked, tables, referralLock, failures>>

\* "unknown order": recorded as processed, nothing else.
WebhookUnknown(t) ==
  /\ At(t, "webhook", "lock")
  /\ payments[tx[t].p].status = "none"
  /\ Proceed(t, [tx[t] EXCEPT !.pc = "respond"])
  /\ UNCHANGED <<provider, acked, tables, locks, failures>>

(***************************************************************************)
(* settle_paid: credit_enrollment                                          *)
(***************************************************************************)
Buyer(t) == payments[tx[t].p].user

\* Mutant: the referral is read without FOR UPDATE.
RewardUnlocked(t) ==
  /\ tx[t].pc = "refer"
  /\ referral[Buyer(t)] = "open"
  /\ Proceed(t, [tx[t] EXCEPT !.pc = "respond", !.rewards = TRUE])
  /\ UNCHANGED <<provider, acked, tables, locks, failures>>

\* The first settled payment: the referrer's session is granted.
RewardReferrer(t) ==
  /\ tx[t].pc = "refer"
  /\ referral[Buyer(t)] = "open"
  /\ referralLock[Buyer(t)] = None
  /\ referralLock' = [referralLock EXCEPT ![Buyer(t)] = t]
  /\ Proceed(t, [tx[t] EXCEPT !.pc = "respond", !.rewards = TRUE])
  /\ UNCHANGED <<provider, acked, tables, paymentLock, failures>>

\* Not referred, or rewarded before.
NoReward(t) ==
  /\ tx[t].pc = "refer"
  /\ referral[Buyer(t)] # "open"
  /\ Proceed(t, [tx[t] EXCEPT !.pc = "respond"])
  /\ UNCHANGED <<provider, acked, tables, locks, failures>>

(***************************************************************************)
(* The end of a request                                                    *)
(***************************************************************************)
Respond(t) ==
  /\ tx[t].pc = "respond"
  /\ acked' = IF tx[t].op = "webhook" THEN acked \cup {tx[t].e} ELSE acked
  /\ known' = IF tx[t].op = "checkout" THEN known \cup {tx[t].p} ELSE known
  /\ Proceed(t, [tx[t] EXCEPT !.pc = "commit"])
  /\ UNCHANGED <<order, sent, tables, locks, failures>>

\* A webhook's 200 is too slow: the provider gives up on it and will repeat.
AnswerLost(t) ==
  /\ At(t, "webhook", "respond")
  /\ failures < MaxFailures
  /\ failures' = failures + 1
  /\ Proceed(t, [tx[t] EXCEPT !.pc = "commit"])
  /\ UNCHANGED <<provider, acked, tables, locks>>

ReleaseLocks(t) ==
  /\ paymentLock' = [p \in PaymentIds |-> IF paymentLock[p] = t THEN None ELSE paymentLock[p]]
  /\ referralLock' = [u \in Users |-> IF referralLock[u] = t THEN None ELSE referralLock[u]]

\* Mutant: an attempt that fails late undoes a payment.
FailsAlways(t) == paymentLock[tx[t].p] = t /\ tx[t].answer = "expired"
\* The order expired or an attempt failed, and the payment is still created.
Fails(t) ==
  /\ paymentLock[tx[t].p] = t
  /\ tx[t].answer = "expired"
  /\ payments[tx[t].p].status = "created"

NewStatus(t) ==
  IF tx[t].settles THEN "paid"
  ELSE IF Fails(t) THEN "failed" ELSE payments[tx[t].p].status

CheckoutCommit(t) ==
  /\ At(t, "checkout", "commit")
  /\ payments' = [payments EXCEPT ![tx[t].p] = [status |-> "created", user |-> tx[t].u]]
  /\ ReleaseLocks(t)
  /\ Proceed(t, Idle)
  /\ UNCHANGED <<provider, acked, events, purchases, referral, rewards, failures>>

SettleCommit(t) ==
  /\ tx[t].op \in {"verify", "webhook"} /\ tx[t].pc = "commit"
  /\ payments' = [payments EXCEPT ![tx[t].p].status = NewStatus(t)]
  /\ purchases' = [purchases EXCEPT ![tx[t].p] = IF tx[t].settles THEN @ + 1 ELSE @]
  /\ rewards' = [u \in Users |-> IF tx[t].rewards /\ u = Buyer(t)
                                 THEN rewards[u] + 1 ELSE rewards[u]]
  /\ referral' = [u \in Users |-> IF tx[t].rewards /\ u = Buyer(t)
                                  THEN "credited" ELSE referral[u]]
  /\ events' = IF tx[t].op = "webhook" THEN events \cup {tx[t].e} ELSE events
  /\ ReleaseLocks(t)
  /\ Proceed(t, Idle)
  /\ UNCHANGED <<provider, acked, failures>>

\* The provider cannot be reached, the process is killed, the connection is
\* lost: nothing is written, and no 200 unless it was out already.
Rollback(t) ==
  /\ tx[t].pc # "idle"
  /\ tx[t].pc = "commit" => LateFailures
  /\ failures < MaxFailures
  /\ failures' = failures + 1
  /\ ReleaseLocks(t)
  /\ Proceed(t, Idle)
  /\ UNCHANGED <<provider, acked, tables>>

(***************************************************************************)
(* The provider and the buyer                                              *)
(***************************************************************************)
Sends(p, kind) == sent' = sent \cup {e \in Event : e.p = p /\ e.kind = kind}

\* One purchase, several events (order.paid and payment.captured).
Pay(p, outcome) ==
  /\ p \in known
  /\ order[p] = "open"
  /\ order' = [order EXCEPT ![p] = outcome]
  /\ Sends(p, "paid")
  /\ UNCHANGED <<known, acked, tables, locks, tx, failures>>

\* A declined card: the order stays open.
Decline(p) ==
  /\ p \in known
  /\ order[p] = "open"
  /\ Sends(p, "failed")
  /\ sent' # sent
  /\ UNCHANGED <<order, known, acked, tables, locks, tx, failures>>

Expire(p) ==
  /\ order[p] = "open"
  /\ order' = [order EXCEPT ![p] = "expired"]
  /\ Sends(p, "failed")
  /\ UNCHANGED <<known, acked, tables, locks, tx, failures>>

(***************************************************************************)
(* Specification                                                           *)
(***************************************************************************)
Init ==
  /\ order = [p \in PaymentIds |-> "none"]
  /\ sent = {} /\ acked = {} /\ known = {} /\ events = {}
  /\ payments = [p \in PaymentIds |-> [status |-> "none", user |-> None]]
  /\ purchases = [p \in PaymentIds |-> 0]
  /\ referral \in [Users -> {"none", "open"}]
  /\ rewards = [u \in Users |-> 0]
  /\ paymentLock = [p \in PaymentIds |-> None]
  /\ referralLock = [u \in Users |-> None]
  /\ tx = [t \in Txns |-> Idle]
  /\ failures = 0

\* A request in flight goes on.
Continue(t) ==
  \/ VerifyAsk(t)
  \/ VerifyLock(t)
  \/ WebhookLock(t)
  \/ WebhookUnknown(t)
  \/ RewardReferrer(t)
  \/ NoReward(t)
  \/ Respond(t)
  \/ CheckoutCommit(t)
  \/ SettleCommit(t)

Deliver(e) == WebhookDuplicate(e) \/ \E t \in Txns : WebhookInsert(t, e)

Next ==
  \/ \E t \in Txns : Continue(t) \/ AnswerLost(t) \/ Rollback(t)
  \/ \E t \in Txns, p \in PaymentIds : VerifyLoad(t, p)
  \/ \E t \in Txns, p \in PaymentIds, u \in Users : CheckoutOpen(t, p, u)
  \/ \E e \in Event : Deliver(e)
  \/ \E p \in PaymentIds, outcome \in Outcomes : Pay(p, outcome)
  \/ \E p \in PaymentIds : Decline(p) \/ Expire(p)

Spec == Init /\ [][Next]_vars

\* The server serves what it has begun; the provider repeats an event that
\* has not been answered with a 200 until a request takes it.
FairSpec ==
  /\ Spec
  /\ \A t \in Txns : WF_vars(Continue(t))
  /\ \A e \in Event : SF_vars(e \notin acked /\ Deliver(e))

(***************************************************************************)
(* Properties                                                              *)
(***************************************************************************)
Request ==
  [op: {"none", "checkout", "verify", "webhook"},
   pc: {"idle", "ask", "lock", "refer", "respond", "commit"},
   p: PaymentIds \cup {None}, u: Users \cup {None}, e: Event \cup {None},
   seen: PaymentStatus, answer: OrderStatus, settles: BOOLEAN, rewards: BOOLEAN]

\* The type of every variable.
TypeOK ==
  /\ order \in [PaymentIds -> OrderStatus]
  /\ sent \subseteq Event /\ acked \subseteq Event /\ events \subseteq Event
  /\ known \subseteq PaymentIds
  /\ payments \in [PaymentIds -> [status: PaymentStatus, user: Users \cup {None}]]
  /\ purchases \in [PaymentIds -> Nat]
  /\ referral \in [Users -> {"none", "open", "credited"}]
  /\ rewards \in [Users -> Nat]
  /\ paymentLock \in [PaymentIds -> Txns \cup {None}]
  /\ referralLock \in [Users -> Txns \cup {None}]
  /\ tx \in [Txns -> Request]
  /\ failures \in Nat

\* "Either can win the race and the loser is a no-op": a payment is granted
\* once when it is paid, and never otherwise, and paid is what the provider
\* says of the quoted amount.
GrantedOnce ==
  \A p \in PaymentIds :
    /\ purchases[p] = IF payments[p].status = "paid" THEN 1 ELSE 0
    /\ payments[p].status = "paid" => order[p] = "paid"

\* The referrer is rewarded exactly when the referred user's first payment
\* settles, and never twice, whichever payments of that user settle at once.
RewardedOnce ==
  \A u \in Users :
    /\ rewards[u] = IF referral[u] = "credited" THEN 1 ELSE 0
    /\ referral[u] = "open" =>
         \A p \in PaymentIds : payments[p].user = u => payments[p].status # "paid"

\* A payment that is paid stays paid, whatever arrives late.
PaidIsFinal ==
  [][\A p \in PaymentIds : payments[p].status = "paid" => payments'[p].status = "paid"]_vars

\* "FAILED is deliberately not terminal": a request that found our payment and
\* records that its order was paid as quoted leaves the payment paid.
RecordedMeansApplied ==
  [][\A e \in events' \ events, t \in Txns :
       e.kind = "paid" /\ order[e.p] = "paid" /\ tx[t].e = e /\ paymentLock[e.p] = t
         => payments'[e.p].status = "paid"]_vars

\* The backstop "for the buyer who pays and then closes the tab": when an event
\* says that an order we have a row for was paid, and no request has taken or
\* recorded it yet, the order ends in credits.
PaidIsCredited ==
  \A e \in Event :
    /\ e \in sent \ (acked \cup events) /\ ~Inserting(e)
    /\ e.kind = "paid" /\ order[e.p] = "paid" /\ payments[e.p].status # "none"
    ~> payments[e.p].status = "paid"
(***************************************************************************)
(* The inductive invariant behind GrantedOnce and RewardedOnce             *)
(***************************************************************************)
\* A row names its buyer, and was inserted after its order was opened.
BuyersKnown ==
  \A p \in PaymentIds : payments[p].status # "none" => payments[p].user \in Users /\ order[p] # "none"

\* What a request stands on while it goes on.
Grounded(t) ==
  /\ tx[t].op # "none" => tx[t].p \in PaymentIds
  /\ tx[t].op = "checkout" =>
       /\ payments[tx[t].p].status = "none" /\ order[tx[t].p] # "none"
       /\ tx[t].u \in Users
       /\ \A r \in Txns \ {t} : tx[r].op = "checkout" => tx[r].p # tx[t].p
  /\ tx[t].op = "verify" => payments[tx[t].p].status # "none"
  /\ tx[t].op = "verify" /\ tx[t].answer = "paid" => order[tx[t].p] = "paid"
  /\ tx[t].op = "webhook" => tx[t].e \in Event

\* Who grants a payment holds its lock and has found it unpaid; who rewards a
\* referrer holds the referral's lock and has found it open.
Guarded(t) ==
  /\ tx[t].pc = "refer" => tx[t].settles
  /\ tx[t].settles =>
       /\ tx[t].op \in {"verify", "webhook"} /\ tx[t].pc \in {"refer", "respond", "commit"}
       /\ paymentLock[tx[t].p] = t
       /\ payments[tx[t].p].status \in {"created", "failed"}
       /\ order[tx[t].p] = "paid"
       /\ tx[t].pc # "refer" =>
            IF tx[t].rewards
            THEN referralLock[Buyer(t)] = t /\ referral[Buyer(t)] = "open"
            ELSE referral[Buyer(t)] # "open"
  /\ tx[t].rewards => tx[t].settles /\ tx[t].pc # "refer"

PInv ==
  /\ TypeOK
  /\ BuyersKnown
  /\ \A t \in Txns : Grounded(t) /\ Guarded(t)
  /\ GrantedOnce
  /\ RewardedOnce

(***************************************************************************)
(* What RecordedMeansApplied needs besides                                 *)
(***************************************************************************)
\* A webhook under way has an event of its own that was sent for the payment it
\* locks; under that lock it either grants what the event says was paid or has
\* found it granted.
Applies(t) ==
  /\ tx[t].op = "webhook" => tx[t].e \in sent /\ tx[t].p = tx[t].e.p
  /\ tx[t].op # "webhook" => tx[t].e = None
  /\ \A r \in Txns : tx[t].op = "webhook" /\ tx[r].op = "webhook" /\ tx[t].e = tx[r].e => r = t
  /\ \A p \in PaymentIds : paymentLock[p] = t =>
       /\ tx[t].pc \in {"refer", "respond", "commit"} /\ tx[t].p = p
       /\ tx[t].op = "webhook" /\ tx[t].e.kind = "paid" /\ order[p] = "paid" =>
            tx[t].settles \/ payments[p].status = "paid"

AInv ==
  /\ PInv
  /\ \A e \in sent : e.kind = "paid" => order[e.p] \in {"paid", "paid_other"}
  /\ \A t \in Txns : Applies(t)
=============================================================================
