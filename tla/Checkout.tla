------------------------------ MODULE Checkout ------------------------------
(***************************************************************************)
(* One browser tab buying credits and spending them: the pack checkout     *)
(* (/checkout, with or without a chosen one-to-one), the checkout of one   *)
(* discussion, Razorpay's window, the trip to Stripe and back, the success *)
(* page that settles the payment and takes the seat, and what the tab      *)
(* keeps across all of them: the signed-in user's balance and the pending  *)
(* booking in session storage.                                             *)
(*                                                                         *)
(* Every call to the API is in three steps: sent, answered by the server,  *)
(* applied by the handler that awaits it.  A handler outlives its page: on *)
(* another page its setState calls do nothing, but what it does to storage,*)
(* the router and the window still happens.  An effect runs in the step    *)
(* that changes what it depends on.  Answers arrive in any order.          *)
(***************************************************************************)
EXTENDS Integers, FiniteSets

CONSTANTS
  Sessions,        \* discussions one may check out
  PayIds,          \* orders, and the bound on how many are opened
  Currencies, SoldIn, Usd,  \* what the browser may detect, what the server sells in
  None,            \* no session, no order, no answer yet
  SlotRecord,      \* stands for the one-to-one chosen on /one-on-one
  SeatPrice, PackCredits,
  MaxPolls,        \* MAX_POLLS of the success page
  MaxVisits,       \* bound: links followed
  MaxTroubles      \* bound: calls that fail, switches of the currency, and what
                   \* others do (a session fills, frees or starts)

CreditsPerSession == 2

CheckoutAssumption ==
  /\ {SeatPrice, PackCredits, MaxPolls, MaxVisits, MaxTroubles} \subseteq Nat
  /\ Usd \in SoldIn /\ SoldIn \subseteq Currencies
  /\ SlotRecord \notin Sessions
  /\ None \notin Sessions \cup PayIds \cup Currencies \cup {SlotRecord}
  /\ None \notin {"confirmed", "waitlisted", "already"}

VARIABLES
  server,    \* balance, seats, the slot, who may still book what, the orders
  auth,      \* AuthProvider: user, loading, credits
  currency,  \* CurrencyProvider
  pending,   \* the record in session storage
  page,      \* the mounted page and its state
  modals,    \* Razorpay windows on screen
  calls,     \* requests whose handlers have not finished
  left       \* what remains of the bounds

vars == <<server, auth, currency, pending, page, modals, calls, left>>

Records == Sessions \cup {SlotRecord}
Wants == Records \cup {"topup"}
Buying == {"topup", "slot", "seat"}
Screens == Buying \cup {"elsewhere", "login", "away", "success"}

\* What a refresh of the user goes on to do when it is done.
Goals == {"load", "paid", "dashboard", "session", "retry", "confirmed", "waitlisted"}

NoOrder == [status |-> "none", money |-> "none", cur |-> None, shown |-> None, wants |-> "topup"]

(***************************************************************************)
(* Pages                                                                   *)
(***************************************************************************)

\* The state a page starts with.
Fresh(at, sid, pay) ==
  [at |-> at, sid |-> sid, pay |-> pay, loaded |-> FALSE, quoted |-> None,
   full |-> FALSE, found |-> FALSE, open |-> FALSE, error |-> FALSE, booking |-> FALSE, busy |-> FALSE,
   status |-> "unknown", polls |-> 0, timer |-> FALSE, seen |-> None, seat |-> "none"]

\* What a call asks for and, once answered, what it was told; "mine" while
\* the page that sent it is still there.
Call(op, arg) ==
  [op |-> op, arg |-> arg, cur |-> None, shown |-> None, attempt |-> 1, mine |-> TRUE,
   ans |-> None, pay |-> None, balance |-> 0, full |-> FALSE]

\* me and what is for sale: their answers do not depend on anything that
\* changes here, so they are given with the question.  The billing profile
\* resolves to a currency that is sold in.
Refresh(goal) == [Call("me", goal) EXCEPT !.ans = "ok"]
Sold(cur) == IF cur \in SoldIn THEN cur ELSE Usd
Packs(cur) == [Call("packs", cur) EXCEPT !.ans = Sold(cur)]
\* The page is gone: what would only have set its state does nothing any more.
Orphaned(cs) ==
  {[c EXCEPT !.mine = FALSE] : c \in {d \in cs : d.op \notin {"packs", "session", "verify"}}}

\* The calls a page makes when it is mounted: what is for sale once somebody
\* is signed in, the session, the payment.
MountCalls(at, sid, signedIn) ==
  (IF at \in Buying /\ signedIn THEN {Packs(currency)} ELSE {})
    \cup (IF at = "seat" THEN {Call("session", sid)} ELSE {})

\* readPendingBooking: a one-to-one past its start is not offered any more.
ReadPending == IF pending = SlotRecord /\ ~server.slotAhead THEN None ELSE pending

\* router.push and router.replace, taken as the moment the old page is unmounted;
\* its Razorpay windows and calls stay.  In the code the page is on screen until
\* the navigation commits, its button freed by the handler's finally, and going
\* from /checkout?slot to /checkout keeps the component and its state.
GoTo(at, sid, cs) ==
  /\ page' = Fresh(at, sid, None)
  /\ calls' = Orphaned(cs) \cup MountCalls(at, sid, auth'.user)
  /\ modals' = {[m EXCEPT !.mine = FALSE] : m \in modals}

\* Arriving on the success page inside the application.
PushSuccess(p, cs) ==
  /\ page' = [Fresh("success", None, p) EXCEPT !.seen = ReadPending]
  /\ calls' = Orphaned(cs) \cup {Call("verify", p)}
  /\ modals' = {[m EXCEPT !.mine = FALSE] : m \in modals}

\* What the balance buys outright, and what the order summary charges.
BookNow == page.at = "slot" /\ auth.credits >= CreditsPerSession
Cost == IF page.full THEN 0 ELSE SeatPrice
CanConfirm == page.at = "seat" /\ page.open /\ auth.credits >= Cost

\* What /checkout, a discussion's checkout and the success page render.
Waiting == auth.loading \/ ~page.loaded
CheckoutShown ==
  CASE Waiting -> "loading" [] BookNow -> "confirm" [] OTHER -> "packs"
SeatShown ==
  CASE Waiting -> "loading" [] ~page.found -> "not found" [] ~page.open -> "closed"
    [] CanConfirm -> "confirm" [] OTHER -> "packs"
SuccessShown ==
  CASE page.error              -> "unconfirmed"
    [] page.status = "unknown" -> "checking"
    [] page.status = "paid"    -> IF page.seat = "booking" THEN "taking the seat" ELSE "paid"
    [] page.status = "failed"  -> "declined"
    [] OTHER                   -> "still confirming"
Shown ==
  CASE page.at \in {"topup", "slot"} -> CheckoutShown
    [] page.at = "seat"              -> SeatShown
    [] page.at = "success"           -> SuccessShown
    [] OTHER                         -> page.at

\* The payment methods of the order summary: none before the billing profile
\* is known, and pressable one at a time.
MethodsShown == Shown = "packs" /\ page.quoted # None

Init ==
  /\ server = [balance |-> 0, seat |-> [s \in Sessions |-> "none"], slot |-> "none",
               bookable |-> [s \in Sessions |-> TRUE], full |-> [s \in Sessions |-> FALSE],
               slotAhead |-> TRUE, order |-> [p \in PayIds |-> NoOrder]]
  /\ auth = [user |-> FALSE, loading |-> TRUE, credits |-> 0]
  /\ currency \in Currencies
  /\ pending = None
  /\ page = Fresh("elsewhere", None, None)
  /\ modals = {}
  /\ calls = {Refresh("load")}
  /\ left = [visits |-> MaxVisits, troubles |-> MaxTroubles]

(***************************************************************************)
(* The learner                                                             *)
(***************************************************************************)

\* Following a link of the site.  The checkouts send a signed-out visitor to
\* /login as soon as the user is known not to be there.
Visit ==
  /\ page.at # "away"
  /\ left.visits > 0
  /\ left' = [left EXCEPT !.visits = @ - 1]
  /\ \E at \in Buying \cup {"elsewhere"}, sid \in Sessions \cup {None} :
       /\ at = "seat" <=> sid # None
       /\ <<at, sid>> # <<page.at, page.sid>>
       /\ UNCHANGED auth
       /\ IF at \in Buying /\ ~auth.loading /\ ~auth.user
            THEN GoTo("login", None, calls)
            ELSE GoTo(at, sid, calls)
  /\ UNCHANGED <<server, currency, pending>>

\* setCurrency of the switcher among the payment methods: the effect that
\* reads the billing profile runs again, the old answer stays on screen.
SwitchCurrency ==
  /\ MethodsShown
  /\ left.troubles > 0
  /\ \E cur \in Currencies \ {currency} :
       /\ currency' = cur
       /\ calls' = calls \cup {Packs(cur)}
  /\ left' = [left EXCEPT !.troubles = @ - 1]
  /\ UNCHANGED <<server, auth, pending, page, modals>>

\* confirmBooking and confirm: spend credits that are already there.
Confirm ==
  /\ Shown = "confirm" /\ ~page.booking
  /\ page' = [page EXCEPT !.booking = TRUE, !.error = FALSE]
  /\ calls' = calls \cup {IF page.at = "slot" THEN Call("book slot", None)
                                              ELSE Call("book seat", page.sid)}
  /\ UNCHANGED <<server, auth, currency, pending, modals, left>>

\* pay, up to its first await: what is being bought is remembered for the way
\* back, unless this is a plain top-up.  The order is asked for in the
\* currency the button quotes.
\* Mutant: the currency chosen now, whatever the button was drawn with.
CurrencyNow == currency
PayCurrency == page.quoted
Pay ==
  /\ MethodsShown /\ ~page.busy
  /\ LET wants == CASE page.at = "topup" -> "topup"
                    [] page.at = "slot"  -> SlotRecord
                    [] page.at = "seat"  -> page.sid
     IN  /\ pending' = IF wants = "topup" THEN pending ELSE wants
         /\ calls' = calls \cup 
              {[Call("start", wants) EXCEPT !.cur = PayCurrency, !.shown = page.quoted]}
  /\ page' = [page EXCEPT !.busy = TRUE, !.error = FALSE]
  /\ UNCHANGED <<server, auth, currency, modals, left>>

\* The provider takes the money at once, or only says it will.
Takes(p, money) ==
  server' = [server EXCEPT !.order[p].money = money]

\* Razorpay's handler: the signature is spent on a first verification.
PayInWindow(m) ==
  /\ \E money \in {"captured", "clearing"} : Takes(m.pay, money)
  /\ modals' = modals \ {m}
  /\ calls' = calls \cup {[Call("hand over", m.pay) EXCEPT !.mine = m.mine]}
  /\ UNCHANGED <<auth, currency, pending, page, left>>

\* Mutant: no ondismiss, so the button stays disabled.
DismissUnheard(m) ==
  /\ modals' = modals \ {m}
  /\ UNCHANGED <<server, auth, currency, pending, page, calls, left>>

\* ondismiss
Dismiss(m) ==
  /\ modals' = modals \ {m}
  /\ page' = IF m.mine THEN [page EXCEPT !.busy = FALSE] ELSE page
  /\ UNCHANGED <<server, auth, currency, pending, calls, left>>

\* A page load from outside: nothing of the application survives but storage.
Load(newPage) ==
  /\ page' = newPage
  /\ auth' = [user |-> FALSE, loading |-> TRUE, credits |-> 0]
  /\ modals' = {}

\* Stripe's page, and its way back to the success or the cancelled page.
PayAway ==
  /\ page.at = "away"
  /\ \E money \in {"captured", "clearing"} : Takes(page.pay, money)
  /\ Load([Fresh("success", None, page.pay) EXCEPT !.seen = ReadPending])
  /\ calls' = {Refresh("load"), Call("verify", page.pay)}
  /\ UNCHANGED <<currency, pending, left>>

Abandon ==
  /\ page.at = "away"
  /\ Load(Fresh("elsewhere", None, None))
  /\ calls' = {Refresh("load")}
  /\ UNCHANGED <<server, currency, pending, left>>

\* Reloading the success page ("reloading is safe").
Reload ==
  /\ page.at = "success" /\ page.error
  /\ Load([Fresh("success", None, page.pay) EXCEPT !.seen = ReadPending])
  /\ calls' = {Refresh("load"), Call("verify", page.pay)}
  /\ UNCHANGED <<server, currency, pending, left>>

(***************************************************************************)
(* The server, as far as these pages can tell.                             *)
(***************************************************************************)

Answered(c, told, s) ==
  /\ server' = s
  /\ calls' = (calls \ {c}) \cup {told}
  /\ UNCHANGED <<auth, currency, pending, page, modals, left>>
Says(c, ans) == [c EXCEPT !.ans = ans]

AnswerRead(c) ==
  \/ c.op = "balance" /\ Answered(c, [Says(c, "ok") EXCEPT !.balance = server.balance], server)
  \/ /\ c.op = "session"
     /\ LET seen == IF server.seat[c.arg] = "none" /\ ~server.bookable[c.arg]
                      THEN "closed" ELSE server.seat[c.arg]
        IN  Answered(c, [Says(c, seen) EXCEPT !.full = server.full[c.arg]], server)

\* POST /bookings: a full session waitlists for nothing, a second booking and
\* a balance too short are refused.
AnswerSeat(c) ==
  LET s == c.arg IN
  /\ c.op \in {"book seat", "book paid"}
  /\ \/ server.seat[s] # "none" /\ Answered(c, Says(c, "already"), server)
     \/ /\ server.seat[s] = "none"
        /\ \/ ~server.bookable[s] /\ Answered(c, Says(c, "refused"), server)
           \/ /\ server.bookable[s] /\ server.full[s]
              /\ Answered(c, Says(c, "waitlisted"), [server EXCEPT !.seat[s] = "waitlisted"])
           \/ /\ server.bookable[s] /\ ~server.full[s]
              /\ IF server.balance < SeatPrice
                   THEN Answered(c, Says(c, "insufficient"), server)
                   ELSE Answered(c, Says(c, "confirmed"),
                          [server EXCEPT !.seat[s] = "confirmed", !.balance = @ - SeatPrice])

AnswerSlot(c) ==
  /\ c.op = "book slot"
  /\ IF server.slot = "none" /\ server.slotAhead /\ server.balance >= CreditsPerSession
       THEN Answered(c, Says(c, "confirmed"),
              [server EXCEPT !.slot = "booked", !.balance = @ - CreditsPerSession])
       ELSE Answered(c, Says(c, "refused"), server)

\* POST /billing/checkout: an order, and either Stripe's page or a payload for
\* Razorpay's window, which may lack what the window needs.
AnswerStart(c) ==
  /\ c.op = "start"
  /\ \E p \in PayIds, way \in {"stripe", "razorpay", "unusable"} :
       /\ server.order[p].status = "none"
       /\ Answered(c, [Says(c, way) EXCEPT !.pay = p],
            [server EXCEPT !.order[p] = [status |-> "created", money |-> "none",
                                         cur |-> Sold(c.cur), shown |-> c.shown, wants |-> c.arg]])

\* POST /billing/verify: the provider is asked, and a payment is credited once.
Settled(o) == CASE o.status = "created" /\ o.money = "captured" -> "paid"
                [] o.status = "created" /\ o.money = "declined" -> "failed"
                [] OTHER -> o.status
Verified(p) ==
  [server EXCEPT !.order[p].status = Settled(server.order[p]),
                 !.balance = IF server.order[p].status # "paid" /\ Settled(server.order[p]) = "paid"
                               THEN @ + PackCredits ELSE @]
AnswerVerify(c) ==
  /\ c.op \in {"verify", "hand over"}
  /\ Answered(c, Says(c, Settled(server.order[c.arg])), Verified(c.arg))

\* The provider's event about a payment, with or without a page that asks.
Webhook ==
  /\ \E p \in PayIds :
       /\ server.order[p].status = "created" /\ Settled(server.order[p]) # "created"
       /\ server' = Verified(p)
  /\ UNCHANGED <<auth, currency, pending, page, modals, calls, left>>

Answer(c) ==
  /\ c.ans = None
  /\ AnswerRead(c) \/ AnswerSeat(c) \/ AnswerSlot(c) \/ AnswerStart(c) \/ AnswerVerify(c)

\* A call whose answer is an error: the request or its response is lost.
Fail(c) ==
  /\ c.ans # "error"
  /\ left.troubles > 0
  /\ left' = [left EXCEPT !.troubles = @ - 1]
  /\ calls' = (calls \ {c}) \cup {Says(c, "error")}
  /\ UNCHANGED <<server, auth, currency, pending, page, modals>>

\* Money that was clearing arrives or does not; sessions fill, free and start.
Clears ==
  /\ \E p \in PayIds, money \in {"captured", "declined"} :
       /\ server.order[p].money = "clearing"
       /\ Takes(p, money)
  /\ UNCHANGED <<auth, currency, pending, page, modals, calls, left>>

OthersAct ==
  /\ left.troubles > 0
  /\ left' = [left EXCEPT !.troubles = @ - 1]
  /\ \/ \E s \in Sessions : server' = [server EXCEPT !.full[s] = ~@]
     \/ \E s \in Sessions : server' = [server EXCEPT !.bookable[s] = FALSE]
     \/ server' = [server EXCEPT !.slotAhead = FALSE]
  /\ UNCHANGED <<auth, currency, pending, page, modals, calls>>

(***************************************************************************)
(* The handlers' second halves.                                            *)
(***************************************************************************)

\* setState of a handler: nothing on a page that is gone.
Update(c, new) == page' = IF c.mine THEN new ELSE page

\* refresh: me, then the balance.  Every new user object runs the effect that
\* reads what is for sale; a failure signs out, which sends the checkouts to
\* /login.
ApplyMe(c) ==
  /\ c.op = "me" /\ c.ans = "ok"
  /\ auth' = [auth EXCEPT !.user = TRUE]
  /\ calls' = (calls \ {c}) \cup {[c EXCEPT !.op = "balance", !.ans = None]}
                \cup (IF page.at \in Buying THEN {Packs(currency)} ELSE {})
  /\ UNCHANGED <<server, currency, pending, page, modals, left>>

\* What follows the awaited refresh.
After(c, cs) ==
  CASE c.arg \in {"dashboard", "session"} -> GoTo("elsewhere", None, cs)
    [] c.arg = "retry" ->
         /\ Update(c, [page EXCEPT !.booking = FALSE]) /\ calls' = cs /\ UNCHANGED modals
    [] c.arg \in {"confirmed", "waitlisted"} ->
         /\ Update(c, [page EXCEPT !.seat = c.arg]) /\ calls' = cs /\ UNCHANGED modals
    [] OTHER -> calls' = cs /\ UNCHANGED <<page, modals>>

ApplyBalance(c) ==
  /\ c.op = "balance" /\ c.ans = "ok"
  /\ auth' = [auth EXCEPT !.credits = c.balance, !.loading = FALSE]
  /\ After(c, calls \ {c})
  /\ UNCHANGED <<server, currency, pending, left>>

SignedOut(c) ==
  /\ c.op \in {"me", "balance"} /\ c.ans = "error"
  /\ auth' = [user |-> FALSE, loading |-> FALSE, credits |-> 0]
  /\ \/ page.at \in Buying /\ GoTo("login", None, calls \ {c})
     \/ /\ page.at \notin Buying \/ c.arg \in {"dashboard", "session"}
        /\ After(c, calls \ {c})
  /\ UNCHANGED <<server, currency, pending, left>>

ApplyPacks(c) ==
  /\ c.op = "packs" /\ c.ans # None
  /\ Update(c, IF c.ans = "error"
                 THEN [page EXCEPT !.error = TRUE, !.loaded = @ \/ page.at # "seat"]
                 ELSE [page EXCEPT !.quoted = c.ans, !.loaded = @ \/ page.at # "seat"])
  /\ calls' = calls \ {c}
  /\ UNCHANGED <<server, auth, currency, pending, modals, left>>

\* Somebody who already has a place is sent back to the session; one that is
\* cancelled or has begun offers nothing to press.
ApplySession(c) ==
  /\ c.op = "session" /\ c.ans # None
  /\ IF c.mine /\ c.ans \in {"confirmed", "waitlisted"}
       THEN UNCHANGED auth /\ GoTo("elsewhere", None, calls \ {c})
       ELSE /\ Update(c, IF c.ans = "error" THEN [page EXCEPT !.error = TRUE, !.loaded = TRUE]
                         ELSE [page EXCEPT !.loaded = TRUE, !.found = TRUE,
                                           !.open = c.ans # "closed", !.full = c.full])
            /\ calls' = calls \ {c}
            /\ UNCHANGED <<auth, modals>>
  /\ UNCHANGED <<server, currency, pending, left>>

Went(c) == c.ans \in {"confirmed", "waitlisted"}

\* Mutant: the record cleared however the booking went.
ForgotAnyway(c) == None
\* The record, once the booking has been answered.
Remembered(c) == IF Went(c) THEN None ELSE pending

\* The rest of confirmBooking and of confirm.
ApplyConfirm(c) ==
  /\ c.op \in {"book slot", "book seat"} /\ c.ans # None
  /\ pending' = Remembered(c)
  /\ Update(c, IF Went(c) THEN page
               ELSE [page EXCEPT !.error = TRUE, !.booking = c.op = "book seat"])
  /\ calls' = (calls \ {c}) \cup
       {[Refresh(goal) EXCEPT !.mine = c.mine] :
          goal \in IF Went(c) THEN {IF c.op = "book slot" THEN "dashboard" ELSE "session"}
                   ELSE IF c.op = "book seat" THEN {"retry"} ELSE {}}
  /\ UNCHANGED <<server, auth, currency, modals, left>>

\* openRazorpayCheckout may find its script blocked.
ScriptFails == left.troubles > 0

\* The rest of pay: away to Stripe, Razorpay's window (whose script may not
\* load), or an error.
ApplyStart(c) ==
  /\ c.op = "start" /\ c.ans # None
  /\ \/ /\ c.ans = "stripe"
        /\ Load(Fresh("away", None, c.pay))
        /\ calls' = {}
     \/ /\ c.ans = "razorpay"
        /\ modals' = modals \cup {[pay |-> c.pay, mine |-> c.mine]}
        /\ calls' = calls \ {c}
        /\ UNCHANGED <<auth, page>>
     \/ /\ c.ans \in {"error", "unusable"} \/ (c.ans = "razorpay" /\ ScriptFails)
        /\ Update(c, [page EXCEPT !.error = TRUE, !.busy = FALSE])
        /\ calls' = calls \ {c}
        /\ UNCHANGED <<auth, modals>>
  /\ UNCHANGED <<server, currency, pending, left>>

\* Whatever the first verification said, the buyer goes to the success page.
ApplyHandOver(c) ==
  /\ c.op = "hand over" /\ c.ans # None
  /\ PushSuccess(c.arg, calls \ {c})
  /\ UNCHANGED <<server, auth, currency, pending, left>>

\* check: a paid answer refreshes the balance and, through the effect on it,
\* takes the pending seat; an open one is asked about again.
ApplyVerify(c) ==
  /\ c.op = "verify" /\ c.ans # None
  /\ calls' = (calls \ {c}) \cup
       (IF c.mine /\ c.ans = "paid"
          THEN {Refresh("paid")} \cup
               (IF page.seen \in Sessions THEN {Call("book paid", page.seen)} ELSE {})
          ELSE {})
  /\ Update(c, CASE c.ans = "error" -> [page EXCEPT !.error = TRUE]
                 [] c.ans = "paid" ->
                      [page EXCEPT !.status = "paid", !.polls = c.attempt,
                                   !.seat = IF page.seen \in Sessions THEN "booking" ELSE @]
                 [] OTHER ->
                      [page EXCEPT !.status = c.ans, !.polls = c.attempt,
                                   !.timer = c.ans = "created" /\ c.attempt < MaxPolls])
  /\ UNCHANGED <<server, auth, currency, pending, modals, left>>

PollTimer ==
  /\ page.at = "success" /\ page.timer
  /\ page' = [page EXCEPT !.timer = FALSE]
  /\ calls' = calls \cup {[Call("verify", page.pay) EXCEPT !.attempt = page.polls + 1]}
  /\ UNCHANGED <<server, auth, currency, pending, modals, left>>

\* The seat taken unasked: "already booked" is a success too.
ApplySeat(c) ==
  /\ c.op = "book paid" /\ c.ans # None
  /\ pending' = IF Went(c) \/ c.ans = "already" THEN None ELSE pending
  /\ Update(c, IF c.ans = "already" THEN [page EXCEPT !.seat = "confirmed"]
               ELSE IF Went(c) THEN page ELSE [page EXCEPT !.seat = "failed"])
  /\ calls' = (calls \ {c}) \cup
       (IF Went(c) THEN {[Refresh(c.ans) EXCEPT !.mine = c.mine]} ELSE {})
  /\ UNCHANGED <<server, auth, currency, modals, left>>

Apply(c) ==
  \/ ApplyMe(c) \/ ApplyBalance(c) \/ SignedOut(c) \/ ApplyPacks(c) \/ ApplySession(c)
  \/ ApplyConfirm(c) \/ ApplyStart(c) \/ ApplyHandOver(c) \/ ApplyVerify(c) \/ ApplySeat(c)

Learner ==
  \/ Visit \/ SwitchCurrency \/ Confirm \/ Pay \/ PayAway \/ Abandon \/ Reload
  \/ \E m \in modals : PayInWindow(m) \/ Dismiss(m)

Next ==
  \/ Learner
  \/ \E c \in calls : Answer(c) \/ Fail(c) \/ Apply(c)
  \/ PollTimer \/ Clears \/ Webhook \/ OthersAct

Answers == \E c \in calls : Answer(c)
Applies == \E c \in calls : Apply(c)

Spec == Init /\ [][Next]_vars

\* The server answers, the browser runs its handlers and its timer.
FairSpec ==
  /\ Spec
  /\ WF_vars(Answers)
  /\ WF_vars(Applies)
  /\ WF_vars(PollTimer)

(***************************************************************************)
(* Properties                                                              *)
(***************************************************************************)

TypeOK ==
  /\ server \in
       [balance : Nat, seat : [Sessions -> {"none", "confirmed", "waitlisted"}],
        slot : {"none", "booked"}, bookable : [Sessions -> BOOLEAN],
        full : [Sessions -> BOOLEAN], slotAhead : BOOLEAN,
        order : [PayIds -> [status : {"none", "created", "paid", "failed"},
                            money : {"none", "captured", "clearing", "declined"},
                            cur : SoldIn \cup {None}, shown : SoldIn \cup {None}, wants : Wants]]]
  /\ auth \in [user : BOOLEAN, loading : BOOLEAN, credits : Nat]
  /\ currency \in Currencies /\ pending \in Records \cup {None}
  /\ page.at \in Screens /\ page.sid \in Sessions \cup {None} /\ page.pay \in PayIds \cup {None}
  /\ page.at = "seat" <=> page.sid # None
  /\ page.at \in {"away", "success"} <=> page.pay # None
  /\ \A c \in calls : c.op = "me" => c.arg \in Goals

\* No spinner without a reason: the pay button is only disabled while an order
\* is being opened, a Razorpay window of this page is up or its payment is being
\* handed over, and the confirm button only while a booking or what follows it
\* is in flight.  Otherwise a buyer is left with a page that can do nothing.
BusyHasAReason ==
  /\ page.busy => \/ \E c \in calls : c.op \in {"start", "hand over"} /\ c.mine
                  \/ \E m \in modals : m.mine
  /\ page.booking => \E c \in calls :
       /\ c.mine
       /\ \/ c.op \in {"book slot", "book seat"}
          \/ c.op \in {"me", "balance"} /\ c.arg \in {"dashboard", "session", "retry"}

\* An order is opened in the currency its pay button quoted, though the
\* switcher and the answers about the billing profile come and go meanwhile
\* and the server converts a currency it does not sell in.
ShownIsCharged ==
  \A p \in PayIds :
    server.order[p].status # "none" => server.order[p].cur = server.order[p].shown

\* The place a booking call asked for is the buyer's.
Took(c) ==
  \/ c.op = "book slot" /\ server.slot # "none"
  \/ c.op \in {"book seat", "book paid"} /\ server.seat[c.arg] # "none"

\* What the buyer went to pay for is not forgotten on the way: the pending
\* record is dropped only by the handler of a booking whose place is taken, and
\* survives refusals, lost answers, a dismissed window and the trip to the
\* provider.  It need not be the place on the record: clearPendingBooking asks
\* for no session, so a confirmation drops whatever record the tab then has.
RecordKept ==
  [][pending # None /\ pending' = None => \E c \in calls : c \notin calls' /\ Took(c)]_vars

\* Coming back from the provider ends on a screen that says what happened:
\* paid, declined, not confirmed, or "still confirming" when every poll has
\* found the payment open.
Settling ==
  \/ Shown \in {"unconfirmed", "declined", "paid"}
  \/ Shown = "still confirming" /\ page.polls >= MaxPolls
=============================================================================
