--------------------------- MODULE PurchaseProofs ----------------------------
(***************************************************************************)
(* Proofs about the pages a visitor buys and signs in on, as the           *)
(* composition of the pages has them: the checkout is never left with a    *)
(* button disabled for nothing and charges what it showed, and a captcha   *)
(* token is spent once; and the types of both.                             *)
(***************************************************************************)
EXTENDS Frontend, TLAPS

(***************************************************************************)
(* Checkout                                                                *)
(***************************************************************************)

\* The types in full, and what each kind of call asks for and may be told.
Money == SoldIn \cup {None}
Said == SoldIn \cup {None, "ok", "error", "closed", "none", "confirmed", "waitlisted", "already",
                     "refused", "insufficient", "stripe", "razorpay", "unusable",
                     "created", "paid", "failed"}
PageType ==
  [at : CO!Screens, sid : Discussions \cup {None}, pay : PayIds \cup {None}, loaded : BOOLEAN,
   quoted : Money, full : BOOLEAN, found : BOOLEAN, open : BOOLEAN, error : BOOLEAN,
   booking : BOOLEAN, busy : BOOLEAN, status : Said \cup {"unknown"}, polls : Nat,
   timer : BOOLEAN, seen : CO!Records \cup {None}, seat : {"none", "booking", "failed"} \cup CO!Goals]
CallType ==
  [op : {"me", "balance", "packs", "session", "book slot", "book seat", "book paid", "start",
         "verify", "hand over"},
   arg : CO!Goals \cup CO!Wants \cup PayIds \cup Currencies \cup {None}, cur : Money, shown : Money,
   attempt : Nat, mine : BOOLEAN, ans : Said, pay : PayIds \cup {None}, balance : Nat,
   full : BOOLEAN]
PageOK(p) ==
  /\ p \in PageType
  /\ p.at = "seat" <=> p.sid # None
  /\ p.at \in {"away", "success"} <=> p.pay # None
CallOK(c) ==
  /\ c \in CallType
  /\ c.op \in {"me", "balance"} => c.arg \in CO!Goals
  /\ c.op \in {"session", "book seat", "book paid"} => c.arg \in Discussions
  /\ c.op = "start" => /\ c.arg \in CO!Wants /\ c.cur \in SoldIn /\ c.shown = c.cur
                       /\ c.ans \notin {None, "error"} => c.pay \in PayIds
  /\ c.op \in {"verify", "hand over"} => c.arg \in PayIds
  /\ c.op = "packs" => c.ans \in SoldIn \cup {"error"}
OrderType ==
  [status : {"none", "created", "paid", "failed"},
   money : {"none", "captured", "clearing", "declined"},
   cur : Money, shown : Money, wants : CO!Wants]
ServerType ==
  [balance : Nat, seat : [Discussions -> {"none", "confirmed", "waitlisted"}],
   slot : {"none", "booked"}, bookable : [Discussions -> BOOLEAN],
   full : [Discussions -> BOOLEAN], slotAhead : BOOLEAN, order : [PayIds -> OrderType]]
AuthType == [user : BOOLEAN, loading : BOOLEAN, credits : Nat]
ModalType == [pay : PayIds, mine : BOOLEAN]

\* What excuses a disabled button.
Paying(c) == c.op \in {"start", "hand over"} /\ c.mine
Taking(c) == /\ c.mine
             /\ \/ c.op \in {"book slot", "book seat"}
                \/ c.op \in {"me", "balance"} /\ c.arg \in {"dashboard", "session", "retry"}

Data == coServer \in ServerType /\ CO!ShownIsCharged
Tab == coAuth \in AuthType /\ coCurrency \in Currencies /\ coPending \in CO!Records \cup {None}
Screen == /\ PageOK(coPage) /\ (\A c \in coCalls : CallOK(c)) /\ coModals \subseteq ModalType
          /\ CO!BusyHasAReason
CheckoutInv == Data /\ Tab /\ Screen

LEMMA FreshOK ==
  ASSUME NEW at \in CO!Screens, NEW sid \in Discussions \cup {None}, NEW pay \in PayIds \cup {None},
         at = "seat" <=> sid # None, at \in {"away", "success"} <=> pay # None
  PROVE  /\ PageOK(CO!Fresh(at, sid, pay))
         /\ ~CO!Fresh(at, sid, pay).busy /\ ~CO!Fresh(at, sid, pay).booking
BY DEF PageOK, PageType, CO!Fresh, Money, Said

LEMMA FreshSeen ==
  ASSUME NEW p, PageOK(p), NEW seen \in CO!Records \cup {None}
  PROVE  LET q == [p EXCEPT !.seen = seen]
         IN  PageOK(q) /\ q.busy = p.busy /\ q.booking = p.booking
BY DEF PageOK, PageType

LEMMA NewCall ==
  ASSUME CO!CheckoutAssumption, NEW op, NEW arg,
         \/ op = "session" /\ arg \in Discussions
         \/ op \in {"book seat", "book paid"} /\ arg \in Discussions
         \/ op = "book slot" /\ arg = None
         \/ op \in {"verify", "hand over"} /\ arg \in PayIds
  PROVE  CallOK(CO!Call(op, arg)) /\ CO!Call(op, arg).op = op /\ CO!Call(op, arg).mine = TRUE
BY DEF CallOK, CallType, CO!Call, Money, Said, CO!Wants, CO!Records

LEMMA NewRead ==
  ASSUME CO!CheckoutAssumption
  PROVE  /\ \A goal \in CO!Goals : CallOK(CO!Refresh(goal)) /\ CO!Refresh(goal).arg = goal
                                   /\ CO!Refresh(goal).op = "me" /\ CO!Refresh(goal).mine = TRUE
         /\ \A cur \in Currencies : CallOK(CO!Packs(cur))
<1>1. ASSUME NEW goal \in CO!Goals
      PROVE  CallOK(CO!Refresh(goal)) /\ CO!Refresh(goal).arg = goal /\ CO!Refresh(goal).op = "me"
             /\ CO!Refresh(goal).mine = TRUE
  BY DEF CO!Refresh, CallOK, CallType, CO!Call, Money, Said
<1>2. ASSUME NEW cur \in Currencies PROVE CallOK(CO!Packs(cur))
  <2>1. CO!Sold(cur) \in SoldIn
    BY DEF CO!CheckoutAssumption, CO!Sold
  <2> QED BY <2>1 DEF CO!Packs, CallOK, CallType, CO!Call, Money, Said
<1> QED BY <1>1, <1>2

LEMMA Disown ==
  ASSUME NEW c, CallOK(c), NEW mine \in BOOLEAN
  PROVE  LET d == [c EXCEPT !.mine = mine]
         IN  CallOK(d) /\ d.op = c.op /\ d.arg = c.arg /\ d.mine = mine
BY ZenonT(40) DEF CallOK, CallType

LEMMA Told ==
  ASSUME NEW c, CallOK(c), NEW ans \in Said, c.op # "start", c.op # "packs"
  PROVE  LET d == CO!Says(c, ans)
         IN  CallOK(d) /\ d.op = c.op /\ d.arg = c.arg /\ d.mine = c.mine
BY DEF CallOK, CallType, CO!Says

LEMMA Erred ==
  ASSUME NEW c, CallOK(c)
  PROVE  LET d == CO!Says(c, "error")
         IN  CallOK(d) /\ d.op = c.op /\ d.arg = c.arg /\ d.mine = c.mine
<1>1. "error" \in Said
  BY DEF Said
<1> QED BY <1>1, ZenonT(40) DEF CallOK, CallType, CO!Says

\* Which excuses last: of a page that asks for no more than before, when each
\* call that excused it still does, or is followed by one that does.
LEMMA Excused ==
  ASSUME CO!BusyHasAReason,
         coPage'.busy => coPage.busy, coPage'.booking => coPage.booking,
         coPage'.busy => \A c \in coCalls : Paying(c) =>
            (\E d \in coCalls' : Paying(d)) \/ \E m \in coModals' : m.mine,
         coPage'.busy => \A m \in coModals : m.mine =>
            (\E d \in coCalls' : Paying(d)) \/ \E n \in coModals' : n.mine,
         coPage'.booking => \A c \in coCalls : Taking(c) => \E d \in coCalls' : Taking(d)
  PROVE  CO!BusyHasAReason'
BY DEF CO!BusyHasAReason, Paying, Taking

LEMMA Unasked ==
  ASSUME ~coPage'.busy, ~coPage'.booking PROVE CO!BusyHasAReason'
BY DEF CO!BusyHasAReason

\* Opening a page of the site.
LEMMA Going ==
  ASSUME CO!CheckoutAssumption, coCurrency \in Currencies, coModals \subseteq ModalType,
         NEW at \in CO!Buying \cup {"elsewhere", "login"}, NEW sid \in Discussions \cup {None},
         at = "seat" <=> sid # None,
         NEW cs, \A c \in cs : CallOK(c), CO!GoTo(at, sid, cs)
  PROVE  Screen'
<1>1. /\ coPage' = CO!Fresh(at, sid, None)
      /\ coCalls' = CO!Orphaned(cs) \cup CO!MountCalls(at, sid, coAuth'.user)
      /\ coModals' = {[m EXCEPT !.mine = FALSE] : m \in coModals}
  BY DEF CO!GoTo
<1>2. PageOK(coPage') /\ ~coPage'.busy /\ ~coPage'.booking
  BY <1>1, FreshOK DEF CO!Buying, CO!Screens
<1>3. ASSUME NEW c \in CO!Orphaned(cs) PROVE CallOK(c)
  <2>1. PICK d \in cs : c = [d EXCEPT !.mine = FALSE]
    BY DEF CO!Orphaned
  <2>2. CallOK(d) /\ FALSE \in BOOLEAN
    BY <2>1
  <2>3. CallOK([d EXCEPT !.mine = FALSE])
    BY <2>2, Disown
  <2> QED BY <2>1, <2>3
<1>4. ASSUME NEW c \in CO!MountCalls(at, sid, coAuth'.user) PROVE CallOK(c)
  <2>1. CASE c = CO!Packs(coCurrency)
    BY <2>1, NewRead
  <2>2. CASE at = "seat" /\ c = CO!Call("session", sid)
    <3>1. sid \in Discussions
      BY <2>2
    <3> QED BY <2>2, <3>1, NewCall
  <2> QED BY <2>1, <2>2 DEF CO!MountCalls
<1>5. coModals' \subseteq ModalType
  BY <1>1 DEF ModalType
<1> QED BY <1>1, <1>2, <1>3, <1>4, <1>5, Unasked DEF Screen, PageOK, CallOK

\* Coming to a page with nothing else left of the application.
LEMMA Loading ==
  ASSUME NEW p, PageOK(p), ~p.busy, ~p.booking, CO!Load(p), \A c \in coCalls' : CallOK(c)
  PROVE  Screen' /\ coAuth' \in AuthType
BY Unasked DEF CO!Load, Screen, AuthType, PageOK, CallOK

(***************************************************************************)
(* The learner                                                             *)
(***************************************************************************)
LEMMA InitCheckout == CO!CheckoutAssumption /\ CO!Init => CheckoutInv
<1> SUFFICES ASSUME CO!CheckoutAssumption, CO!Init PROVE CheckoutInv
  OBVIOUS
<1>1. coServer \in ServerType
  <2>1. CO!NoOrder \in OrderType
    BY DEF CO!NoOrder, OrderType, Money, CO!Wants
  <2> QED BY <2>1 DEF CO!Init, ServerType
<1>2. CO!ShownIsCharged
  BY DEF CO!Init, CO!ShownIsCharged, CO!NoOrder
<1>3. Tab
  BY DEF CO!Init, Tab, AuthType
<1>4. PageOK(coPage) /\ ~coPage.busy /\ ~coPage.booking
  BY FreshOK DEF CO!Init, CO!Screens
<1>5. \A c \in coCalls : CallOK(c)
  BY NewRead DEF CO!Init, CO!Goals
<1>6. CO!BusyHasAReason
  BY <1>4 DEF CO!BusyHasAReason
<1> QED BY <1>1, <1>2, <1>3, <1>4, <1>5, <1>6 DEF CO!Init, CheckoutInv, Data, Screen

\* What sets the page's fields and sends calls.
LEMMA StepPress ==
  ASSUME CO!CheckoutAssumption, CheckoutInv, CO!Visit \/ CO!SwitchCurrency \/ CO!Confirm
           \/ CO!Pay \/ CO!PollTimer
  PROVE  CheckoutInv'
<1>0. /\ Data /\ Tab /\ Screen /\ PageOK(coPage) /\ (\A c \in coCalls : CallOK(c))
      /\ coModals \subseteq ModalType /\ CO!BusyHasAReason
  BY DEF CheckoutInv, Screen
<1>1. CASE CO!Visit
  <2>1. PICK at \in CO!Buying \cup {"elsewhere"}, sid \in Discussions \cup {None} :
          /\ at = "seat" <=> sid # None
          /\ CO!GoTo("login", None, coCalls) \/ CO!GoTo(at, sid, coCalls)
    BY <1>1 DEF CO!Visit
  <2>2. Screen'
    <3>1. CASE CO!GoTo("login", None, coCalls)
      BY <1>0, <3>1, Going DEF Tab
    <3>2. CASE CO!GoTo(at, sid, coCalls)
      BY <1>0, <2>1, <3>2, Going DEF Tab
    <3> QED BY <2>1, <3>1, <3>2
  <2>3. coServer' = coServer /\ coAuth' = coAuth /\ coCurrency' = coCurrency
          /\ coPending' = coPending
    BY <1>1 DEF CO!Visit
  <2> QED BY <1>0, <2>2, <2>3 DEF CheckoutInv, Data, Tab, CO!ShownIsCharged
<1>2. CASE CO!SwitchCurrency
  <2>1. PICK cur \in Currencies : coCurrency' = cur /\ coCalls' = coCalls \cup {CO!Packs(cur)}
    BY <1>2 DEF CO!SwitchCurrency
  <2>2. UNCHANGED <<coServer, coAuth, coPending, coPage, coModals>>
    BY <1>2 DEF CO!SwitchCurrency
  <2>3. CO!BusyHasAReason'
    BY <1>0, <2>1, <2>2, Excused
  <2> QED BY <1>0, <2>1, <2>2, <2>3, NewRead DEF CheckoutInv, Data, Tab, Screen, CO!ShownIsCharged
<1>3. CASE CO!Confirm
  <2> DEFINE c == IF coPage.at = "slot" THEN CO!Call("book slot", None) ELSE CO!Call("book seat", coPage.sid)
  <2>1. /\ coPage' = [coPage EXCEPT !.booking = TRUE, !.error = FALSE]
             /\ coCalls' = coCalls \cup {c}
        /\ UNCHANGED <<coServer, coAuth, coCurrency, coPending, coModals>>
    BY <1>3 DEF CO!Confirm
  <2>2. coPage.at = "slot" \/ (coPage.at = "seat" /\ coPage.sid \in Discussions)
    BY <1>0, <1>3 DEF CO!Confirm, CO!Shown, CO!CheckoutShown, CO!SeatShown, CO!SuccessShown,
                      CO!BookNow, CO!CanConfirm,
         PageOK, PageType, CO!Screens, CO!Buying
  <2>3. CallOK(c) /\ Taking(c)
    <3>1. CASE coPage.at = "slot"
      BY <3>1, NewCall DEF Taking
    <3>2. CASE coPage.at = "seat" /\ coPage.sid \in Discussions
      BY <3>2, NewCall DEF Taking
    <3> QED BY <2>2, <3>1, <3>2
  <2>4. PageOK(coPage') /\ coPage'.busy = coPage.busy
    BY <1>0, <2>1 DEF PageOK, PageType
  <2> HIDE DEF c
  <2>5. CO!BusyHasAReason'
    BY <1>0, <2>1, <2>3, <2>4 DEF CO!BusyHasAReason, Taking
  <2> QED BY <1>0, <2>1, <2>3, <2>4, <2>5 DEF CheckoutInv, Data, Tab, Screen, CO!ShownIsCharged,
                                              PageOK, CallOK
<1>4. CASE CO!Pay
  <2>1. PICK wants : /\ wants = CASE coPage.at = "topup" -> "topup"
                                  [] coPage.at = "slot"  -> SlotRecord
                                  [] coPage.at = "seat"  -> coPage.sid
                     /\ coPending' = IF wants = "topup" THEN coPending ELSE wants
                     /\ coCalls' = coCalls \cup
                          {[CO!Call("start", wants) EXCEPT !.cur = coPage.quoted, !.shown = coPage.quoted]}
    BY <1>4 DEF CO!Pay, CO!PayCurrency
  <2>2. /\ coPage' = [coPage EXCEPT !.busy = TRUE, !.error = FALSE]
        /\ UNCHANGED <<coServer, coAuth, coCurrency, coModals>>
    BY <1>4 DEF CO!Pay
  <2>3. coPage.at \in CO!Buying /\ coPage.quoted \in SoldIn
    BY <1>0, <1>4 DEF CO!Pay, CO!MethodsShown, CO!Shown, CO!SuccessShown, CO!Buying, PageOK,
                      PageType, CO!Screens, Money
  <2>4. wants \in CO!Wants /\ (wants = "topup" \/ wants \in CO!Records)
    <3>1. coPage.at = "seat" => coPage.sid \in Discussions
      BY <1>0 DEF PageOK, PageType
    <3> QED BY <2>1, <2>3, <3>1 DEF CO!Buying, CO!Wants, CO!Records
  <2> DEFINE c == [CO!Call("start", wants) EXCEPT !.cur = coPage.quoted, !.shown = coPage.quoted]
  <2>5. CallOK(c) /\ Paying(c)
    BY <2>3, <2>4 DEF CallOK, CallType, CO!Call, Money, Said, Paying
  <2>6. PageOK(coPage') /\ coPage'.booking = coPage.booking
    BY <1>0, <2>2 DEF PageOK, PageType
  <2>7. coCalls' = coCalls \cup {c}
    BY <2>1
  <2> HIDE DEF c
  <2>8. CO!BusyHasAReason'
    BY <1>0, <2>2, <2>5, <2>6, <2>7 DEF CO!BusyHasAReason, Paying
  <2>9. coPending' \in CO!Records \cup {None}
    BY <1>0, <2>1, <2>4 DEF Tab
  <2> QED BY <1>0, <2>2, <2>5, <2>6, <2>7, <2>8, <2>9
          DEF CheckoutInv, Data, Tab, Screen, CO!ShownIsCharged, PageOK, CallOK
<1>5. CASE CO!PollTimer
  <2> DEFINE c == [CO!Call("verify", coPage.pay) EXCEPT !.attempt = coPage.polls + 1]
  <2>1. /\ coPage' = [coPage EXCEPT !.timer = FALSE] /\ coCalls' = coCalls \cup {c}
        /\ UNCHANGED <<coServer, coAuth, coCurrency, coPending, coModals>>
    BY <1>5 DEF CO!PollTimer
  <2>2. coPage.pay \in PayIds /\ coPage.polls \in Nat
    BY <1>0, <1>5 DEF CO!PollTimer, PageOK, PageType
  <2>3. CallOK(c)
    <3>1. CallOK(CO!Call("verify", coPage.pay))
      BY <2>2, NewCall
    <3>2. coPage.polls + 1 \in Nat
      BY <2>2
    <3> QED BY <3>1, <3>2, ZenonT(40) DEF CallOK, CallType
  <2>4. PageOK(coPage') /\ coPage'.busy = coPage.busy /\ coPage'.booking = coPage.booking
    BY <1>0, <2>1 DEF PageOK, PageType
  <2> HIDE DEF c
  <2>5. CO!BusyHasAReason'
    BY <1>0, <2>1, <2>4, Excused
  <2>6. (\A d \in coCalls : CallOK(d))'
    <3>1. \A d \in coCalls \cup {c} : CallOK(d)
      BY <1>0, <2>3
    <3> QED BY <2>1, <3>1 DEF CallOK
  <2>7. PageOK(coPage)' /\ (coModals \subseteq ModalType)'
    BY <1>0, <2>1, <2>4 DEF PageOK
  <2>8. Data' /\ Tab'
    BY <1>0, <2>1 DEF Data, Tab, CO!ShownIsCharged
  <2> QED BY <2>5, <2>6, <2>7, <2>8 DEF CheckoutInv, Screen
<1> QED BY <1>1, <1>2, <1>3, <1>4, <1>5

\* The provider's window and page, and the way back.
LEMMA StepProvider ==
  ASSUME CO!CheckoutAssumption, CheckoutInv,
         CO!PayAway \/ CO!Abandon \/ CO!Reload \/ \E m \in coModals : CO!PayInWindow(m)
           \/ CO!Dismiss(m)
  PROVE  CheckoutInv'
<1>0. /\ Data /\ Tab /\ Screen /\ PageOK(coPage) /\ (\A c \in coCalls : CallOK(c))
      /\ coModals \subseteq ModalType /\ CO!BusyHasAReason
  BY DEF CheckoutInv, Screen
<1>t. ASSUME NEW p \in PayIds, NEW money \in {"captured", "clearing"}, CO!Takes(p, money)
      PROVE  Data'
  <2>1. coServer' = [coServer EXCEPT !.order[p].money = money] /\ coServer.order[p] \in OrderType
    BY <1>0, <1>t DEF CO!Takes, Data, ServerType
  <2>2. coServer' \in ServerType
    BY <1>0, <2>1 DEF Data, ServerType, OrderType
  <2>3. \A q \in PayIds : /\ coServer'.order[q].status = coServer.order[q].status
                          /\ coServer'.order[q].cur = coServer.order[q].cur
                          /\ coServer'.order[q].shown = coServer.order[q].shown
    BY <1>0, <2>1 DEF Data, ServerType, OrderType
  <2> QED BY <1>0, <2>2, <2>3 DEF Data, CO!ShownIsCharged
<1>r. CO!ReadPending \in CO!Records \cup {None}
  BY <1>0 DEF CO!ReadPending, Tab
<1>b. ASSUME coPage.pay \in PayIds, CO!Load([CO!Fresh("success", None, coPage.pay) EXCEPT !.seen = CO!ReadPending]),
             coCalls' = {CO!Refresh("load"), CO!Call("verify", coPage.pay)}
      PROVE  Screen' /\ coAuth' \in AuthType
  <2> DEFINE f == CO!Fresh("success", None, coPage.pay)
             p == [f EXCEPT !.seen = CO!ReadPending]
  <2>1. PageOK(f) /\ ~f.busy /\ ~f.booking
    BY <1>b, FreshOK DEF CO!Screens, CO!CheckoutAssumption
  <2>2. PageOK(p) /\ ~p.busy /\ ~p.booking
    <3> HIDE DEF f
    <3> QED BY <1>r, <2>1, FreshSeen
  <2>3. \A c \in coCalls' : CallOK(c)
    <3>1. CallOK(CO!Refresh("load"))
      BY NewRead DEF CO!Goals
    <3>2. CallOK(CO!Call("verify", coPage.pay))
      BY <1>b, NewCall
    <3> QED BY <1>b, <3>1, <3>2
  <2>4. coModals' \subseteq ModalType
    BY <1>b DEF CO!Load
  <2>5. CO!Load(p)
    BY <1>b
  <2> HIDE DEF p
  <2> QED BY <2>2, <2>3, <2>5, Loading
<1>1. CASE CO!PayAway
  <2>1. PICK money \in {"captured", "clearing"} : CO!Takes(coPage.pay, money)
    BY <1>1 DEF CO!PayAway
  <2>2. coPage.pay \in PayIds
    BY <1>0, <1>1 DEF CO!PayAway, PageOK, PageType
  <2>3. coCurrency' = coCurrency /\ coPending' = coPending
    BY <1>1 DEF CO!PayAway
  <2>4. Screen' /\ coAuth' \in AuthType
    BY <1>1, <1>b, <2>2 DEF CO!PayAway
  <2> QED BY <1>0, <1>t, <2>1, <2>2, <2>3, <2>4 DEF CheckoutInv, Tab
<1>2. CASE CO!Abandon
  <2> DEFINE p == CO!Fresh("elsewhere", None, None)
  <2>1. PageOK(p) /\ ~p.busy /\ ~p.booking
    BY FreshOK DEF CO!Screens
  <2>2. CO!Load(p) /\ coCalls' = {CO!Refresh("load")}
          /\ UNCHANGED <<coServer, coCurrency, coPending>>
    BY <1>2 DEF CO!Abandon
  <2>3. \A c \in coCalls' : CallOK(c)
    BY <2>2, NewRead DEF CO!Goals
  <2> HIDE DEF p
  <2>4. Screen' /\ coAuth' \in AuthType
    BY <2>1, <2>2, <2>3, Loading
  <2> QED BY <1>0, <2>2, <2>4 DEF CheckoutInv, Data, Tab, CO!ShownIsCharged
<1>3. CASE CO!Reload
  <2>1. coPage.pay \in PayIds
    BY <1>0, <1>3 DEF CO!Reload, PageOK, PageType
  <2>2. UNCHANGED <<coServer, coCurrency, coPending>>
    BY <1>3 DEF CO!Reload
  <2>3. Screen' /\ coAuth' \in AuthType
    BY <1>3, <1>b, <2>1 DEF CO!Reload
  <2> QED BY <1>0, <2>2, <2>3 DEF CheckoutInv, Data, Tab, CO!ShownIsCharged
<1>4. ASSUME NEW m \in coModals, CO!PayInWindow(m) PROVE CheckoutInv'
  <2> DEFINE c == [CO!Call("hand over", m.pay) EXCEPT !.mine = m.mine]
  <2>1. PICK money \in {"captured", "clearing"} : CO!Takes(m.pay, money)
    BY <1>4 DEF CO!PayInWindow
  <2>2. m.pay \in PayIds /\ m.mine \in BOOLEAN
    BY <1>0 DEF ModalType
  <2>3. /\ coModals' = coModals \ {m} /\ coCalls' = coCalls \cup {c}
        /\ UNCHANGED <<coAuth, coCurrency, coPending, coPage>>
    BY <1>4 DEF CO!PayInWindow
  <2>4. CallOK(c) /\ (m.mine => Paying(c))
    <3>1. CallOK(CO!Call("hand over", m.pay)) /\ CO!Call("hand over", m.pay).op = "hand over"
      BY <2>2, NewCall
    <3> QED BY <2>2, <3>1, Disown DEF Paying
  <2> HIDE DEF c
  <2>5. CO!BusyHasAReason'
    BY <1>0, <2>3, <2>4, Excused
  <2>6. Data'
    BY <1>t, <2>1, <2>2
  <2> QED BY <1>0, <2>3, <2>4, <2>5, <2>6, ZenonT(40) DEF CheckoutInv, Tab, Screen, PageOK, CallOK
<1>5. ASSUME NEW m \in coModals, CO!Dismiss(m) PROVE CheckoutInv'
  <2>1. /\ coModals' = coModals \ {m}
             /\ coPage' = IF m.mine THEN [coPage EXCEPT !.busy = FALSE] ELSE coPage
        /\ UNCHANGED <<coServer, coAuth, coCurrency, coPending, coCalls>>
    BY <1>5 DEF CO!Dismiss
  <2>2. /\ PageOK(coPage') /\ coPage'.booking = coPage.booking
        /\ coPage'.busy => coPage.busy /\ ~m.mine
    BY <1>0, <2>1 DEF PageOK, PageType
  <2>3. CO!BusyHasAReason'
    BY <1>0, <2>1, <2>2, Excused
  <2> QED BY <1>0, <2>1, <2>2, <2>3 DEF CheckoutInv, Data, Tab, Screen, CO!ShownIsCharged, PageOK,
                                        CallOK
<1> QED BY <1>1, <1>2, <1>3, <1>4, <1>5

(***************************************************************************)
(* The server                                                              *)
(***************************************************************************)

\* An answer is put in the place of its question.
LEMMA Replaced ==
  ASSUME Screen, NEW c \in coCalls, NEW d, CallOK(d), d.op = c.op, d.arg = c.arg, d.mine = c.mine,
         coCalls' = (coCalls \ {c}) \cup {d}, coPage' = coPage, coModals' = coModals
  PROVE  Screen'
<1>1. CO!BusyHasAReason'
  BY Excused DEF Screen, Paying, Taking
<1>2. \A e \in (coCalls \ {c}) \cup {d} : CallOK(e)
  BY DEF Screen
<1>3. (\A e \in coCalls : CallOK(e))'
  BY <1>2 DEF CallOK
<1>4. PageOK(coPage)' /\ (coModals \subseteq ModalType)'
  BY DEF Screen, PageOK
<1> QED BY <1>1, <1>3, <1>4 DEF Screen

\* The provider has the last word on an order's status, not on its currency.
LEMMA VerifiedOK ==
  ASSUME CO!CheckoutAssumption, Data, NEW p \in PayIds
  PROVE  /\ CO!Verified(p) \in ServerType
         /\ \A q \in PayIds : /\ CO!Verified(p).order[q].cur = coServer.order[q].cur
                              /\ CO!Verified(p).order[q].shown = coServer.order[q].shown
                              /\ (CO!Verified(p).order[q].status = "none"
                                    <=> coServer.order[q].status = "none")
         /\ CO!Settled(coServer.order[p]) \in {"none", "created", "paid", "failed"}
<1>1. coServer.order[p] \in OrderType /\ coServer \in ServerType
  BY DEF Data, ServerType
<1>2. /\ CO!Settled(coServer.order[p]) \in {"none", "created", "paid", "failed"}
      /\ CO!Settled(coServer.order[p]) = "none" <=> coServer.order[p].status = "none"
  BY <1>1 DEF OrderType, CO!Settled
<1>3. coServer.balance + PackCredits \in Nat /\ coServer.balance \in Nat
  BY <1>1 DEF CO!CheckoutAssumption, ServerType
<1> DEFINE st == CO!Settled(coServer.order[p])
           bal == IF coServer.order[p].status # "paid" /\ CO!Settled(coServer.order[p]) = "paid"
                  THEN coServer.balance + PackCredits ELSE coServer.balance
<1>4. bal \in Nat
  BY <1>3
<1>5. CO!Verified(p) = [coServer EXCEPT !.order[p].status = st, !.balance = bal]
  BY <1>1 DEF CO!Verified, ServerType
<1> HIDE DEF st, bal
<1>6. st \in {"none", "created", "paid", "failed"}
        /\ (st = "none" <=> coServer.order[p].status = "none")
  BY <1>2 DEF st
<1>7. [coServer.order[p] EXCEPT !.status = st] \in OrderType
  BY <1>1, <1>6 DEF OrderType
<1> DEFINE o == [coServer.order[p] EXCEPT !.status = st]
           os == [coServer.order EXCEPT ![p] = o]
<1>a. os \in [PayIds -> OrderType]
  BY <1>1, <1>7 DEF ServerType
<1>b. CO!Verified(p) = [coServer EXCEPT !.order = os, !.balance = bal]
  BY <1>1, <1>5 DEF ServerType
<1>8. /\ CO!Verified(p).order = [coServer.order EXCEPT ![p] = [coServer.order[p] EXCEPT !.status = st]]
      /\ CO!Verified(p) \in ServerType
  <2> HIDE DEF os
  <2>1. CO!Verified(p).order = os /\ CO!Verified(p) \in ServerType
    BY <1>1, <1>4, <1>a, <1>b DEF ServerType
  <2> QED BY <2>1 DEF os
<1>9. ASSUME NEW q \in PayIds
      PROVE  /\ CO!Verified(p).order[q].cur = coServer.order[q].cur
             /\ CO!Verified(p).order[q].shown = coServer.order[q].shown
             /\ (CO!Verified(p).order[q].status = "none" <=> coServer.order[q].status = "none")
  <2>1. CASE q = p
    BY <1>1, <1>6, <1>8, <2>1 DEF ServerType, OrderType
  <2>2. CASE q # p
    BY <1>1, <1>8, <2>2 DEF ServerType
  <2> QED BY <2>1, <2>2
<1>10. \A q \in PayIds : /\ CO!Verified(p).order[q].cur = coServer.order[q].cur
                         /\ CO!Verified(p).order[q].shown = coServer.order[q].shown
                         /\ (CO!Verified(p).order[q].status = "none" <=> coServer.order[q].status = "none")
  BY <1>9
<1> QED BY <1>2, <1>8, <1>10

LEMMA StepServer ==
  ASSUME CO!CheckoutAssumption, CheckoutInv,
         CO!Webhook \/ CO!Clears \/ CO!OthersAct \/ \E c \in coCalls : CO!Answer(c) \/ CO!Fail(c)
  PROVE  CheckoutInv'
<1>0. /\ Data /\ Tab /\ Screen /\ PageOK(coPage) /\ (\A c \in coCalls : CallOK(c))
      /\ coModals \subseteq ModalType /\ CO!BusyHasAReason /\ coServer \in ServerType
           /\ CO!ShownIsCharged
  BY DEF CheckoutInv, Screen, Data
<1>u. ASSUME UNCHANGED <<coAuth, coCurrency, coPending, coPage, coModals, coCalls>> PROVE Tab'
               /\ Screen'
  BY <1>0, <1>u DEF Tab, Screen, PageOK, CallOK, CO!BusyHasAReason
\* Of the orders nothing changes but what the provider says.
<1>d. ASSUME coServer' \in ServerType,
             \A q \in PayIds : /\ coServer'.order[q].cur = coServer.order[q].cur
                               /\ coServer'.order[q].shown = coServer.order[q].shown
                               /\ (coServer'.order[q].status = "none" <=> coServer.order[q].status = "none")
      PROVE  Data'
  BY <1>0, <1>d DEF Data, CO!ShownIsCharged
<1>v. ASSUME NEW p \in PayIds, coServer' = CO!Verified(p) PROVE Data'
  BY <1>0, <1>d, <1>v, VerifiedOK
<1>1. CASE CO!Webhook
  <2>1. PICK p \in PayIds : coServer' = CO!Verified(p)
    BY <1>1 DEF CO!Webhook
  <2> QED BY <1>1, <1>u, <1>v, <2>1 DEF CO!Webhook, CheckoutInv
<1>2. CASE CO!Clears
  <2>1. PICK p \in PayIds, money \in {"captured", "declined"} :
          coServer' = [coServer EXCEPT !.order[p].money = money]
    BY <1>2 DEF CO!Clears, CO!Takes
  <2>2. coServer.order[p] \in OrderType
    BY <1>0 DEF ServerType
  <2>3. coServer' \in ServerType
    BY <1>0, <2>1, <2>2 DEF ServerType, OrderType
  <2>4. Data'
    <3>1. coServer'.order = [coServer.order EXCEPT ![p].money = money]
      BY <1>0, <2>1 DEF ServerType
    <3>2. ASSUME NEW q \in PayIds
          PROVE  /\ coServer'.order[q].cur = coServer.order[q].cur
                 /\ coServer'.order[q].shown = coServer.order[q].shown
                 /\ coServer'.order[q].status = coServer.order[q].status
      BY <1>0, <2>2, <3>1 DEF ServerType, OrderType
    <3> QED BY <1>d, <2>3, <3>2
  <2> QED BY <1>2, <1>u, <2>4 DEF CO!Clears, CheckoutInv
<1>3. CASE CO!OthersAct
  <2>1. \/ \E s \in Discussions : coServer' = [coServer EXCEPT !.full[s] = ~@]
        \/ \E s \in Discussions : coServer' = [coServer EXCEPT !.bookable[s] = FALSE]
        \/ coServer' = [coServer EXCEPT !.slotAhead = FALSE]
    BY <1>3 DEF CO!OthersAct
  <2>2. coServer' \in ServerType /\ coServer'.order = coServer.order
    <3>1. ASSUME NEW s \in Discussions, coServer' = [coServer EXCEPT !.full[s] = ~@]
          PROVE  coServer' \in ServerType /\ coServer'.order = coServer.order
      BY <1>0, <3>1 DEF ServerType
    <3>2. ASSUME NEW s \in Discussions, coServer' = [coServer EXCEPT !.bookable[s] = FALSE]
          PROVE  coServer' \in ServerType /\ coServer'.order = coServer.order
      BY <1>0, <3>2 DEF ServerType
    <3>3. CASE coServer' = [coServer EXCEPT !.slotAhead = FALSE]
      BY <1>0, <3>3 DEF ServerType
    <3> QED BY <2>1, <3>1, <3>2, <3>3
  <2>3. Data'
    BY <1>d, <2>2
  <2> QED BY <1>3, <1>u, <2>3 DEF CO!OthersAct, CheckoutInv
<1>4. ASSUME NEW c \in coCalls, CO!Fail(c) PROVE CheckoutInv'
  <2>1. /\ coCalls' = (coCalls \ {c}) \cup {CO!Says(c, "error")}
        /\ UNCHANGED <<coServer, coAuth, coCurrency, coPending, coPage, coModals>>
    BY <1>4 DEF CO!Fail
  <2> DEFINE d == CO!Says(c, "error")
  <2>2. CallOK(d) /\ d.op = c.op /\ d.arg = c.arg /\ d.mine = c.mine
    BY <1>0, Erred
  <2> HIDE DEF d
  <2>3. Screen'
    BY <1>0, <2>1, <2>2, Replaced DEF d
  <2> QED BY <1>0, <2>1, <2>3 DEF CheckoutInv, Data, Tab, CO!ShownIsCharged
<1>5. ASSUME NEW c \in coCalls, CO!Answer(c) PROVE CheckoutInv'
  <2>c. CallOK(c)
    BY <1>0
  \* However it is answered.
  <2>a. ASSUME NEW d, CallOK(d), d.op = c.op, d.arg = c.arg, d.mine = c.mine,
               NEW s, CO!Answered(c, d, s), Data'
        PROVE  CheckoutInv'
    <3>1. /\ coCalls' = (coCalls \ {c}) \cup {d}
          /\ UNCHANGED <<coAuth, coCurrency, coPending, coPage, coModals>>
      BY <2>a DEF CO!Answered
    <3>2. Screen'
      BY <1>0, <2>a, <3>1, Replaced
    <3> QED BY <1>0, <2>a, <3>1, <3>2 DEF CheckoutInv, Tab
  <2>s. ASSUME NEW ans \in Said, c.op # "start", c.op # "packs",
               NEW s \in ServerType, s.order = coServer.order, CO!Answered(c, CO!Says(c, ans), s)
        PROVE  CheckoutInv'
    <3> DEFINE d == CO!Says(c, ans)
    <3>1. CallOK(d) /\ d.op = c.op /\ d.arg = c.arg /\ d.mine = c.mine
      BY <2>c, <2>s, Told
    <3>2. coServer' = s /\ CO!Answered(c, d, s)
      BY <2>s DEF CO!Answered
    <3>3. Data'
      BY <1>d, <2>s, <3>2
    <3> HIDE DEF d
    <3> QED BY <2>a, <3>1, <3>2, <3>3
  <2>1. CASE CO!AnswerRead(c)
    <3>1. CASE c.op = "balance"
            /\ CO!Answered(c, [CO!Says(c, "ok") EXCEPT !.balance = coServer.balance], coServer)
      <4> DEFINE d == [CO!Says(c, "ok") EXCEPT !.balance = coServer.balance]
      <4>1. "ok" \in Said /\ coServer.balance \in Nat
        BY <1>0 DEF Said, ServerType
      <4>2. CallOK(d) /\ d.op = c.op /\ d.arg = c.arg /\ d.mine = c.mine
        BY <2>c, <3>1, <4>1 DEF CallOK, CallType, CO!Says
      <4>3. coServer' = coServer /\ CO!Answered(c, d, coServer)
        BY <3>1 DEF CO!Answered
      <4>4. Data'
        BY <1>0, <4>3 DEF Data, CO!ShownIsCharged
      <4> HIDE DEF d
      <4> QED BY <2>a, <4>2, <4>3, <4>4
    <3>2. CASE /\ c.op = "session"
               /\ LET seen == IF coServer.seat[c.arg] = "none" /\ ~coServer.bookable[c.arg]
                              THEN "closed" ELSE coServer.seat[c.arg]
                  IN  CO!Answered(c, [CO!Says(c, seen) EXCEPT !.full = coServer.full[c.arg]], coServer)
      <4> DEFINE seen == IF coServer.seat[c.arg] = "none" /\ ~coServer.bookable[c.arg]
                         THEN "closed" ELSE coServer.seat[c.arg]
                 d == [CO!Says(c, seen) EXCEPT !.full = coServer.full[c.arg]]
      <4>1. seen \in Said /\ coServer.full[c.arg] \in BOOLEAN
        BY <1>0, <2>c, <3>2 DEF Said, ServerType, CallOK
      <4>2. coServer' = coServer /\ CO!Answered(c, d, coServer)
        BY <3>2 DEF CO!Answered
      <4> HIDE DEF seen
      <4>3. CallOK(d) /\ d.op = c.op /\ d.arg = c.arg /\ d.mine = c.mine
        BY <2>c, <3>2, <4>1 DEF CallOK, CallType, CO!Says
      <4>4. Data'
        BY <1>0, <4>2 DEF Data, CO!ShownIsCharged
      <4> HIDE DEF d
      <4> QED BY <2>a, <4>2, <4>3, <4>4
    <3> QED BY <2>1, <3>1, <3>2 DEF CO!AnswerRead
  <2>2. CASE CO!AnswerSeat(c)
    <3>1. c.arg \in Discussions /\ c.op # "start" /\ c.op # "packs"
      BY <2>2, <2>c DEF CO!AnswerSeat, CallOK
    <3>2. {"already", "refused", "waitlisted", "insufficient", "confirmed"} \subseteq Said
      BY DEF Said
    <3>3. \/ CO!Answered(c, CO!Says(c, "already"), coServer)
          \/ CO!Answered(c, CO!Says(c, "refused"), coServer)
          \/ CO!Answered(c, CO!Says(c, "waitlisted"), [coServer EXCEPT !.seat[c.arg] = "waitlisted"])
          \/ CO!Answered(c, CO!Says(c, "insufficient"), coServer)
          \/ /\ ~(coServer.balance < SeatPrice)
             /\ CO!Answered(c, CO!Says(c, "confirmed"),
                  [coServer EXCEPT !.seat[c.arg] = "confirmed", !.balance = @ - SeatPrice])
      BY <2>2 DEF CO!AnswerSeat
    <3>4. LET s == [coServer EXCEPT !.seat[c.arg] = "waitlisted"]
          IN  s \in ServerType /\ s.order = coServer.order
      BY <1>0, <3>1 DEF ServerType
    <3>5. ASSUME ~(coServer.balance < SeatPrice)
          PROVE  LET s == [coServer EXCEPT !.seat[c.arg] = "confirmed", !.balance = @ - SeatPrice]
                 IN  s \in ServerType /\ s.order = coServer.order
      <4>1. coServer.balance - SeatPrice \in Nat
        BY <1>0, <3>5 DEF ServerType, CO!CheckoutAssumption
      <4> QED BY <1>0, <3>1, <4>1 DEF ServerType
    <3> QED BY <1>0, <2>s, <3>1, <3>2, <3>3, <3>4, <3>5
  <2>3. CASE CO!AnswerSlot(c)
    <3>1. c.op # "start" /\ c.op # "packs"
      BY <2>3 DEF CO!AnswerSlot
    <3>2. {"refused", "confirmed"} \subseteq Said
      BY DEF Said
    <3>3. \/ CO!Answered(c, CO!Says(c, "refused"), coServer)
          \/ /\ coServer.balance >= CO!CreditsPerSession
             /\ CO!Answered(c, CO!Says(c, "confirmed"),
                  [coServer EXCEPT !.slot = "booked", !.balance = @ - CO!CreditsPerSession])
      BY <2>3 DEF CO!AnswerSlot
    <3>4. ASSUME coServer.balance >= CO!CreditsPerSession
          PROVE  LET s == [coServer EXCEPT !.slot = "booked", !.balance = @ - CO!CreditsPerSession]
                 IN  s \in ServerType /\ s.order = coServer.order
      <4>1. coServer.balance - CO!CreditsPerSession \in Nat
        BY <1>0, <3>4 DEF ServerType, CO!CreditsPerSession
      <4> QED BY <1>0, <4>1 DEF ServerType
    <3> QED BY <1>0, <2>s, <3>1, <3>2, <3>3, <3>4
  <2>4. CASE CO!AnswerStart(c)
    <3>1. PICK p \in PayIds, way \in {"stripe", "razorpay", "unusable"} :
            CO!Answered(c, [CO!Says(c, way) EXCEPT !.pay = p],
              [coServer EXCEPT !.order[p] = [status |-> "created", money |-> "none",
                                             cur |-> CO!Sold(c.cur), shown |-> c.shown, wants |-> c.arg]])
      BY <2>4 DEF CO!AnswerStart
    <3> DEFINE d == [CO!Says(c, way) EXCEPT !.pay = p]
               o == [status |-> "created", money |-> "none",
                     cur |-> CO!Sold(c.cur), shown |-> c.shown, wants |-> c.arg]
               s == [coServer EXCEPT !.order[p] = o]
    <3>2. c.op = "start" /\ way \in Said
      BY <2>4 DEF CO!AnswerStart, Said
    <3>3. CallOK(d) /\ d.op = c.op /\ d.arg = c.arg /\ d.mine = c.mine
      BY <2>c, <3>2 DEF CallOK, CallType, CO!Says
    <3>4. o \in OrderType /\ o.cur = o.shown
      BY <2>c, <3>2 DEF CallOK, OrderType, CO!Sold, Money
    <3>5. coServer' = s /\ CO!Answered(c, d, s)
      BY <3>1 DEF CO!Answered
    <3> HIDE DEF d, o
    <3>6. Data'
      BY <1>0, <3>4, <3>5 DEF Data, CO!ShownIsCharged, ServerType
    <3> QED BY <2>a, <3>3, <3>5, <3>6
  <2>5. CASE CO!AnswerVerify(c)
    <3>1. c.arg \in PayIds /\ c.op # "start" /\ c.op # "packs"
      BY <2>5, <2>c DEF CO!AnswerVerify, CallOK
    <3> DEFINE d == CO!Says(c, CO!Settled(coServer.order[c.arg]))
    <3>2. CO!Settled(coServer.order[c.arg]) \in Said
      BY <1>0, <3>1, VerifiedOK DEF Said
    <3>3. CallOK(d) /\ d.op = c.op /\ d.arg = c.arg /\ d.mine = c.mine
      BY <2>c, <3>1, <3>2, Told
    <3>4. coServer' = CO!Verified(c.arg) /\ CO!Answered(c, d, CO!Verified(c.arg))
      BY <2>5 DEF CO!AnswerVerify, CO!Answered
    <3>5. Data'
      BY <1>v, <3>1, <3>4
    <3> HIDE DEF d
    <3> QED BY <2>a, <3>3, <3>4, <3>5
  <2> QED BY <1>5, <2>1, <2>2, <2>3, <2>4, <2>5 DEF CO!Answer
<1> QED BY <1>1, <1>2, <1>3, <1>4, <1>5

(***************************************************************************)
(* The handlers                                                            *)
(***************************************************************************)

\* A handler that sets the page at most, asks for more or for nothing, and
\* whose call excused nothing, or is followed by one that does.
LEMMA Handled ==
  ASSUME Screen, NEW c \in coCalls, NEW more, \A d \in more : CallOK(d),
         coCalls' = (coCalls \ {c}) \cup more, coModals' = coModals,
         NEW new, CO!Update(c, new), PageOK(new), new.busy => coPage.busy,
         new.booking => coPage.booking,
         Paying(c) => ~new.busy \/ \E d \in more : Paying(d),
         Taking(c) => ~new.booking \/ \E d \in more : Taking(d)
  PROVE  Screen'
<1>1. PageOK(coPage') /\ (coPage'.busy => coPage.busy) /\ (coPage'.booking => coPage.booking)
  BY DEF CO!Update, Screen
<1>2. /\ coPage'.busy => \A d \in coCalls : Paying(d) => \E e \in coCalls' : Paying(e)
      /\ coPage'.booking => \A d \in coCalls : Taking(d) => \E e \in coCalls' : Taking(e)
  BY DEF CO!Update, Paying, Taking
<1>3. CO!BusyHasAReason'
  BY <1>1, <1>2, Excused DEF Screen
<1> QED BY <1>1, <1>3 DEF Screen, PageOK, CallOK

LEMMA Followed ==
  ASSUME CO!CheckoutAssumption, Tab, Screen, NEW c \in coCalls, c.op \in {"me", "balance"},
         CO!After(c, coCalls \ {c})
  PROVE  Screen'
<1>0. /\ CallOK(c) /\ c.arg \in CO!Goals /\ c.mine \in BOOLEAN /\ PageOK(coPage)
      /\ \A d \in coCalls : CallOK(d)
  BY DEF Screen, CallOK, CallType
<1>1. CASE c.arg \in {"dashboard", "session"}
  <2>1. CO!GoTo("elsewhere", None, coCalls \ {c})
    BY <1>1 DEF CO!After
  <2> QED BY <1>0, <2>1, Going DEF Screen, Tab
<1> DEFINE Rest(new) == CO!Update(c, new) /\ coCalls' = coCalls \ {c} /\ UNCHANGED coModals
<1>r. ASSUME NEW new, Rest(new), PageOK(new), new.busy = coPage.busy,
             new.booking => coPage.booking, c.arg = "retry" => ~new.booking,
             c.arg \notin {"dashboard", "session"}
      PROVE  Screen'
  <2> DEFINE more == {}
  <2>1. coCalls' = (coCalls \ {c}) \cup more /\ \A d \in more : CallOK(d)
    BY <1>r
  <2>2. ~Paying(c) /\ (Taking(c) => c.arg = "retry")
    BY <1>r DEF Paying, Taking
  <2>3. CO!Update(c, new) /\ coModals' = coModals /\ (new.busy => coPage.busy)
    BY <1>r
  <2>4. Paying(c) => ~new.busy \/ \E d \in more : Paying(d)
    BY <2>2
  <2>5. Taking(c) => ~new.booking \/ \E d \in more : Taking(d)
    BY <1>r, <2>2
  <2> HIDE DEF Rest, more
  <2> QED BY <1>r, <2>1, <2>3, <2>4, <2>5, Handled
<1>2. CASE c.arg = "retry"
  <2> DEFINE new == [coPage EXCEPT !.booking = FALSE]
  <2>1. Rest(new)
    BY <1>2 DEF CO!After
  <2>2. PageOK(new) /\ new.busy = coPage.busy /\ ~new.booking
    BY <1>0, ZenonT(40) DEF PageOK, PageType
  <2> HIDE DEF new, Rest
  <2> QED BY <1>2, <1>r, <2>1, <2>2
<1>3. CASE c.arg \in {"confirmed", "waitlisted"}
  <2> DEFINE new == [coPage EXCEPT !.seat = c.arg]
  <2>1. Rest(new)
    BY <1>3 DEF CO!After
  <2>2. PageOK(new) /\ new.busy = coPage.busy /\ new.booking = coPage.booking
    BY <1>0 DEF PageOK, PageType
  <2> HIDE DEF new, Rest
  <2> QED BY <1>3, <1>r, <2>1, <2>2
<1>4. CASE c.arg \in {"load", "paid"}
  <2>1. coCalls' = coCalls \ {c} /\ coPage' = coPage /\ coModals' = coModals
    BY <1>4 DEF CO!After
  <2>2. Rest(coPage)
    BY <2>1 DEF CO!Update
  <2> HIDE DEF Rest
  <2> QED BY <1>0, <1>4, <1>r, <2>2
<1> QED BY <1>0, <1>1, <1>2, <1>3, <1>4 DEF CO!Goals

\* What the account and the balance say.
LEMMA StepUser ==
  ASSUME CO!CheckoutAssumption, CheckoutInv, NEW c \in coCalls,
         CO!ApplyMe(c) \/ CO!ApplyBalance(c) \/ CO!SignedOut(c)
  PROVE  CheckoutInv'
<1>0. /\ Data /\ Tab /\ Screen /\ CallOK(c) /\ PageOK(coPage)
  BY DEF CheckoutInv, Screen
<1>d. ASSUME UNCHANGED <<coServer, coCurrency, coPending>>, coAuth' \in AuthType, Screen' PROVE CheckoutInv'
  BY <1>0, <1>d DEF CheckoutInv, Data, Tab, CO!ShownIsCharged
<1>1. CASE CO!ApplyMe(c)
  <2> DEFINE d == [c EXCEPT !.op = "balance", !.ans = None]
             more == {d} \cup (IF coPage.at \in CO!Buying THEN {CO!Packs(coCurrency)} ELSE {})
  <2>1. /\ c.op = "me" /\ coAuth' = [coAuth EXCEPT !.user = TRUE]
        /\ coCalls' = (coCalls \ {c}) \cup more
        /\ UNCHANGED <<coServer, coCurrency, coPending, coPage, coModals>>
    BY <1>1 DEF CO!ApplyMe
  <2>2. CallOK(d) /\ d.op = "balance" /\ d.arg = c.arg /\ d.mine = c.mine
    BY <1>0, <2>1 DEF CallOK, CallType, Said
  <2> HIDE DEF d
  <2>3. \A e \in more : CallOK(e)
    BY <1>0, <2>2, NewRead DEF Tab
  <2>4. d \in more
    OBVIOUS
  <2> HIDE DEF more
  <2>5. CO!Update(c, coPage)
    BY <2>1 DEF CO!Update
  <2>6. ~Paying(c) /\ (Taking(c) => Taking(d))
    BY <2>1, <2>2 DEF Paying, Taking
  <2>7. Screen'
    BY <1>0, <2>1, <2>3, <2>4, <2>5, <2>6, Handled
  <2>8. coAuth' \in AuthType
    BY <1>0, <2>1 DEF Tab, AuthType
  <2> QED BY <1>d, <2>1, <2>7, <2>8
<1>2. CASE CO!ApplyBalance(c)
  <2>1. Screen'
    BY <1>0, <1>2, Followed DEF CO!ApplyBalance
  <2>2. c.balance \in Nat
    BY <1>0 DEF CallOK, CallType
  <2>3. coAuth' \in AuthType
    BY <1>0, <1>2, <2>2 DEF CO!ApplyBalance, Tab, AuthType
  <2> QED BY <1>2, <1>d, <2>1, <2>3 DEF CO!ApplyBalance
<1>3. CASE CO!SignedOut(c)
  <2>1. Screen'
    <3>1. CASE CO!GoTo("login", None, coCalls \ {c})
      BY <1>0, <3>1, Going DEF Screen, Tab
    <3>2. CASE CO!After(c, coCalls \ {c})
      BY <1>0, <1>3, <3>2, Followed DEF CO!SignedOut
    <3> QED BY <1>3, <3>1, <3>2 DEF CO!SignedOut
  <2>2. coAuth' \in AuthType
    BY <1>3 DEF CO!SignedOut, AuthType
  <2> QED BY <1>3, <1>d, <2>1, <2>2 DEF CO!SignedOut
<1> QED BY <1>1, <1>2, <1>3

\* What is for sale, the session, and the booking.
LEMMA StepBuy ==
  ASSUME CO!CheckoutAssumption, CheckoutInv, NEW c \in coCalls,
         CO!ApplyPacks(c) \/ CO!ApplySession(c) \/ CO!ApplyConfirm(c)
  PROVE  CheckoutInv'
<1>0. /\ Data /\ Tab /\ Screen /\ CallOK(c) /\ PageOK(coPage) /\ c.mine \in BOOLEAN
      /\ coModals \subseteq ModalType /\ \A d \in coCalls : CallOK(d)
  BY DEF CheckoutInv, Screen, CallOK, CallType
<1>d. ASSUME UNCHANGED <<coServer, coAuth, coCurrency>>, coPending' \in {None, coPending}, Screen'
      PROVE  CheckoutInv'
  BY <1>0, <1>d DEF CheckoutInv, Data, Tab, CO!ShownIsCharged
<1>1. CASE CO!ApplyPacks(c)
  <2> DEFINE new == IF c.ans = "error"
                    THEN [coPage EXCEPT !.error = TRUE, !.loaded = @ \/ coPage.at # "seat"]
                    ELSE [coPage EXCEPT !.quoted = c.ans, !.loaded = @ \/ coPage.at # "seat"]
  <2>1. /\ c.op = "packs" /\ CO!Update(c, new) /\ coCalls' = (coCalls \ {c}) \cup {}
        /\ UNCHANGED <<coServer, coAuth, coCurrency, coPending, coModals>>
    BY <1>1 DEF CO!ApplyPacks
  <2>2. c.ans = "error" \/ c.ans \in Money
    BY <1>0, <2>1 DEF CallOK, Money
  <2> DEFINE loaded == coPage.loaded \/ coPage.at # "seat"
  <2>3. PageOK(new) /\ new.busy = coPage.busy /\ new.booking = coPage.booking
    <3>1. loaded \in BOOLEAN
      OBVIOUS
    <3>2. CASE c.ans = "error"
      <4>1. new = [coPage EXCEPT !.error = TRUE, !.loaded = loaded]
        BY <3>2, Zenon
      <4> HIDE DEF new, loaded
      <4> QED BY <1>0, <3>1, <4>1 DEF PageOK, PageType
    <3>3. CASE c.ans # "error"
      <4>1. new = [coPage EXCEPT !.quoted = c.ans, !.loaded = loaded]
        BY <3>3, Zenon
      <4> HIDE DEF new, loaded
      <4> QED BY <1>0, <2>2, <3>1, <3>3, <4>1 DEF PageOK, PageType
    <3> QED BY <3>2, <3>3
  <2>4. ~Paying(c) /\ ~Taking(c)
    BY <2>1 DEF Paying, Taking
  <2> HIDE DEF new
  <2>5. Screen'
    BY <1>0, <2>1, <2>3, <2>4, Handled
  <2> QED BY <1>d, <2>1, <2>5
<1>2. CASE CO!ApplySession(c)
  <2>1. c.op = "session" /\ UNCHANGED <<coServer, coCurrency, coPending>>
    BY <1>2 DEF CO!ApplySession
  <2>2. CASE UNCHANGED coAuth /\ CO!GoTo("elsewhere", None, coCalls \ {c})
    <3>1. Screen'
      BY <1>0, <2>2, Going DEF Tab
    <3> QED BY <1>d, <2>1, <2>2, <3>1
  <2> DEFINE new == IF c.ans = "error" THEN [coPage EXCEPT !.error = TRUE, !.loaded = TRUE]
                    ELSE [coPage EXCEPT !.loaded = TRUE, !.found = TRUE,
                                        !.open = c.ans # "closed", !.full = c.full]
  <2>3. CASE CO!Update(c, new) /\ coCalls' = coCalls \ {c} /\ UNCHANGED <<coAuth, coModals>>
    <3>1. coCalls' = (coCalls \ {c}) \cup {}
      BY <2>3
    <3>2. c.full \in BOOLEAN
      BY <1>0 DEF CallOK, CallType
    <3>3. PageOK(new) /\ new.busy = coPage.busy /\ new.booking = coPage.booking
      <4>1. CASE c.ans = "error"
        <5>1. new = [coPage EXCEPT !.error = TRUE, !.loaded = TRUE]
          BY <4>1
        <5> HIDE DEF new
        <5> QED BY <1>0, <5>1 DEF PageOK, PageType
      <4>2. CASE c.ans # "error"
        <5> DEFINE open == c.ans # "closed"
        <5>1. new = [coPage EXCEPT !.loaded = TRUE, !.found = TRUE, !.open = open, !.full = c.full]
          BY <4>2, Zenon
        <5>2. open \in BOOLEAN
          OBVIOUS
        <5> HIDE DEF new, open
        <5> QED BY <1>0, <3>2, <5>1, <5>2 DEF PageOK, PageType
      <4> QED BY <4>1, <4>2
    <3>4. ~Paying(c) /\ ~Taking(c)
      BY <2>1 DEF Paying, Taking
    <3> HIDE DEF new
    <3>5. Screen'
      BY <1>0, <2>3, <3>1, <3>3, <3>4, Handled
    <3> QED BY <1>d, <2>1, <2>3, <3>5
  <2> QED BY <1>2, <2>2, <2>3 DEF CO!ApplySession
<1>3. CASE CO!ApplyConfirm(c)
  <2> DEFINE goals == IF CO!Went(c) THEN {IF c.op = "book slot" THEN "dashboard" ELSE "session"}
                      ELSE IF c.op = "book seat" THEN {"retry"} ELSE {}
             more == {[CO!Refresh(goal) EXCEPT !.mine = c.mine] : goal \in goals}
             new == IF CO!Went(c) THEN coPage
                    ELSE [coPage EXCEPT !.error = TRUE, !.booking = c.op = "book seat"]
  <2>1. /\ c.op \in {"book slot", "book seat"} /\ coPending' = CO!Remembered(c)
        /\ CO!Update(c, new) /\ coCalls' = (coCalls \ {c}) \cup more
        /\ UNCHANGED <<coServer, coAuth, coCurrency, coModals>>
    BY <1>3 DEF CO!ApplyConfirm
  <2>2. goals \subseteq {"dashboard", "session", "retry"} /\ goals \subseteq CO!Goals
    BY DEF CO!Goals
  <2>3. ASSUME NEW d \in more
        PROVE  CallOK(d) /\ d.op = "me" /\ d.mine = c.mine
          /\ d.arg \in {"dashboard", "session", "retry"}
    <3>1. PICK goal \in goals : d = [CO!Refresh(goal) EXCEPT !.mine = c.mine]
      OBVIOUS
    <3>2. CallOK(CO!Refresh(goal)) /\ CO!Refresh(goal).op = "me" /\ CO!Refresh(goal).arg = goal
      BY <2>2, NewRead
    <3> QED BY <1>0, <2>2, <3>1, <3>2, Disown, ZenonT(40)
  <2>4. more = {} => ~CO!Went(c) /\ c.op = "book slot"
    <3>1. goals = {} => ~CO!Went(c) /\ c.op = "book slot"
      BY <2>1
    <3>2. more = {} => goals = {}
      OBVIOUS
    <3> QED BY <3>1, <3>2
  <2>5. PageOK(new) /\ new.busy = coPage.busy /\ (more = {} => ~new.booking)
    <3>1. PageOK(new) /\ new.busy = coPage.busy /\ (~CO!Went(c) /\ c.op = "book slot" => ~new.booking)
      <4> DEFINE again == c.op = "book seat"
      <4>1. /\ again \in BOOLEAN /\ (CO!Went(c) => new = coPage)
            /\ ~CO!Went(c) => new = [coPage EXCEPT !.error = TRUE, !.booking = again]
            /\ c.op = "book slot" => ~again
        OBVIOUS
      <4> HIDE DEF new, again
      <4>2. CASE CO!Went(c)
        BY <1>0, <4>1, <4>2
      <4>3. CASE ~CO!Went(c)
        BY <1>0, <4>1, <4>3 DEF PageOK, PageType
      <4> QED BY <4>2, <4>3
    <3> QED BY <2>4, <3>1
  <2> HIDE DEF new, more, goals
  <2>6. PageOK(coPage') /\ coPage'.busy = coPage.busy /\ coModals' = coModals
    BY <1>0, <2>1, <2>5 DEF CO!Update
  <2>7. coPage'.busy => \/ \E d \in coCalls' : d.op \in {"start", "hand over"} /\ d.mine
                        \/ \E m \in coModals' : m.mine
    BY <1>0, <2>1, <2>6 DEF Screen, CO!BusyHasAReason
  <2>8. coPage'.booking => \E d \in coCalls' : Taking(d)
    <3>1. CASE c.mine
      BY <2>1, <2>3, <2>5, <3>1 DEF CO!Update, Taking
    <3>2. CASE ~c.mine
      BY <1>0, <2>1, <3>2 DEF CO!Update, Taking, Screen, CO!BusyHasAReason
    <3> QED BY <3>1, <3>2
  <2>9. CO!BusyHasAReason'
    BY <2>7, <2>8 DEF CO!BusyHasAReason, Taking
  <2>10. Screen'
    BY <1>0, <2>1, <2>3, <2>6, <2>9 DEF Screen, PageOK, CallOK
  <2>11. coPending' \in {None, coPending}
    BY <2>1 DEF CO!Remembered
  <2> QED BY <1>d, <2>1, <2>10, <2>11
<1> QED BY <1>1, <1>2, <1>3

\* The order, the window, the settlement and the seat that follows it.
LEMMA StepSettle ==
  ASSUME CO!CheckoutAssumption, CheckoutInv, NEW c \in coCalls,
         CO!ApplyStart(c) \/ CO!ApplyHandOver(c) \/ CO!ApplyVerify(c) \/ CO!ApplySeat(c)
  PROVE  CheckoutInv'
<1>0. /\ Data /\ Tab /\ Screen /\ CallOK(c) /\ PageOK(coPage) /\ c.mine \in BOOLEAN
      /\ coModals \subseteq ModalType /\ CO!BusyHasAReason /\ \A d \in coCalls : CallOK(d)
  BY DEF CheckoutInv, Screen, CallOK, CallType
<1>d. ASSUME UNCHANGED <<coServer, coCurrency>>, coAuth' \in AuthType,
             coPending' \in {None, coPending}, Screen'
      PROVE  CheckoutInv'
  BY <1>0, <1>d DEF CheckoutInv, Data, Tab, CO!ShownIsCharged
<1>a. coAuth \in AuthType
  BY <1>0 DEF Tab
<1>1. CASE CO!ApplyStart(c)
  <2>1. c.op = "start" /\ c.ans # None /\ UNCHANGED <<coServer, coCurrency, coPending>>
    BY <1>1 DEF CO!ApplyStart
  <2>2. c.ans # "error" => c.pay \in PayIds
    BY <1>0, <2>1 DEF CallOK
  <2>3. CASE c.ans = "stripe" /\ CO!Load(CO!Fresh("away", None, c.pay)) /\ coCalls' = {}
    <3> DEFINE p == CO!Fresh("away", None, c.pay)
    <3>1. PageOK(p) /\ ~p.busy /\ ~p.booking
      BY <2>2, <2>3, FreshOK DEF CO!Screens, CO!CheckoutAssumption
    <3> HIDE DEF p
    <3>2. Screen' /\ coAuth' \in AuthType
      BY <2>3, <3>1, Loading DEF p
    <3> QED BY <1>d, <2>1, <3>2
  <2>4. CASE /\ c.ans = "razorpay"
             /\ coModals' = coModals \cup {[pay |-> c.pay, mine |-> c.mine]}
             /\ coCalls' = coCalls \ {c}
             /\ UNCHANGED <<coAuth, coPage>>
    <3>1. coModals' \subseteq ModalType
      BY <1>0, <2>2, <2>4 DEF ModalType
    <3>2. CO!BusyHasAReason'
      <4>1. Paying(c) => \E m \in coModals' : m.mine
        <5>1. [pay |-> c.pay, mine |-> c.mine] \in coModals'
          BY <2>4
        <5> QED BY <5>1 DEF Paying
      <4>2. ~Taking(c)
        BY <2>1 DEF Taking
      <4> QED BY <1>0, <2>4, <4>1, <4>2, Excused
    <3>3. Screen'
      BY <1>0, <2>4, <3>1, <3>2 DEF Screen, PageOK, CallOK
    <3> QED BY <1>a, <1>d, <2>1, <2>4, <3>3
  <2> DEFINE new == [coPage EXCEPT !.error = TRUE, !.busy = FALSE]
  <2>5. CASE CO!Update(c, new) /\ coCalls' = coCalls \ {c} /\ UNCHANGED <<coAuth, coModals>>
    <3>1. coCalls' = (coCalls \ {c}) \cup {}
      BY <2>5
    <3>2. PageOK(new) /\ ~new.busy /\ new.booking = coPage.booking
      BY <1>0 DEF PageOK, PageType
    <3>3. ~Taking(c)
      BY <2>1 DEF Taking
    <3> HIDE DEF new
    <3>4. Screen'
      BY <1>0, <2>5, <3>1, <3>2, <3>3, Handled
    <3> QED BY <1>a, <1>d, <2>1, <2>5, <3>4
  <2> QED BY <1>1, <2>3, <2>4, <2>5 DEF CO!ApplyStart
<1>2. CASE CO!ApplyHandOver(c)
  <2>1. /\ c.op = "hand over" /\ CO!PushSuccess(c.arg, coCalls \ {c})
        /\ UNCHANGED <<coServer, coAuth, coCurrency, coPending>>
    BY <1>2 DEF CO!ApplyHandOver
  <2>2. c.arg \in PayIds /\ CO!ReadPending \in CO!Records \cup {None}
    BY <1>0, <2>1 DEF CallOK, CO!ReadPending, Tab
  <2> DEFINE f == CO!Fresh("success", None, c.arg)
             p == [f EXCEPT !.seen = CO!ReadPending]
  <2>3. PageOK(f) /\ ~f.busy /\ ~f.booking
    BY <2>2, FreshOK DEF CO!Screens, CO!CheckoutAssumption
  <2>4. PageOK(p) /\ ~p.busy /\ ~p.booking
    <3> HIDE DEF f
    <3> QED BY <2>2, <2>3, FreshSeen
  <2>5. coPage' = p /\ coCalls' = CO!Orphaned(coCalls \ {c}) \cup {CO!Call("verify", c.arg)}
        /\ coModals' = {[m EXCEPT !.mine = FALSE] : m \in coModals}
    BY <2>1 DEF CO!PushSuccess
  <2> HIDE DEF f, p
  <2>6. ASSUME NEW d \in coCalls' PROVE CallOK(d)
    <3>1. CASE d \in CO!Orphaned(coCalls \ {c})
      <4>1. PICK e \in coCalls : d = [e EXCEPT !.mine = FALSE]
        BY <3>1 DEF CO!Orphaned
      <4>2. CallOK(e) /\ FALSE \in BOOLEAN
        BY <1>0
      <4>3. CallOK([e EXCEPT !.mine = FALSE])
        BY <4>2, Disown
      <4> QED BY <4>1, <4>3
    <3>2. CASE d = CO!Call("verify", c.arg)
      BY <2>2, <3>2, NewCall
    <3> QED BY <2>5, <2>6, <3>1, <3>2
  <2>7. coModals' \subseteq ModalType
    BY <1>0, <2>5 DEF ModalType
  <2>8. Screen'
    BY <2>4, <2>5, <2>6, <2>7, Unasked DEF Screen, PageOK, CallOK
  <2> QED BY <1>a, <1>d, <2>1, <2>8
<1>3. CASE CO!ApplyVerify(c)
  <2> DEFINE more == IF c.mine /\ c.ans = "paid"
                     THEN {CO!Refresh("paid")} \cup
                          (IF coPage.seen \in Discussions THEN {CO!Call("book paid", coPage.seen)} ELSE {})
                     ELSE {}
             new == CASE c.ans = "error" -> [coPage EXCEPT !.error = TRUE]
                      [] c.ans = "paid" ->
                           [coPage EXCEPT !.status = "paid", !.polls = c.attempt,
                                          !.seat = IF coPage.seen \in Discussions THEN "booking" ELSE @]
                      [] OTHER ->
                           [coPage EXCEPT !.status = c.ans, !.polls = c.attempt,
                                          !.timer = c.ans = "created" /\ c.attempt < MaxPolls]
  <2>1. /\ c.op = "verify" /\ CO!Update(c, new) /\ coCalls' = (coCalls \ {c}) \cup more
        /\ UNCHANGED <<coServer, coAuth, coCurrency, coPending, coModals>>
    BY <1>3 DEF CO!ApplyVerify
  <2>2. ASSUME NEW d \in more PROVE CallOK(d)
    <3>1. CallOK(CO!Refresh("paid"))
      BY NewRead DEF CO!Goals
    <3>2. coPage.seen \in Discussions => CallOK(CO!Call("book paid", coPage.seen))
      BY NewCall
    <3> QED BY <3>1, <3>2
  <2>3. c.attempt \in Nat /\ c.ans \in Said
    BY <1>0 DEF CallOK, CallType
  <2>4. PageOK(new) /\ new.busy = coPage.busy /\ new.booking = coPage.booking
    <3>1. CASE c.ans = "error"
      BY <1>0, <3>1 DEF PageOK, PageType
    <3>2. CASE c.ans = "paid"
      BY <1>0, <2>3, <3>2 DEF PageOK, PageType
    <3>3. CASE c.ans # "error" /\ c.ans # "paid"
      <4>1. new = [coPage EXCEPT !.status = c.ans, !.polls = c.attempt,
                                 !.timer = c.ans = "created" /\ c.attempt < MaxPolls]
        BY <3>3
      <4>2. (c.ans = "created" /\ c.attempt < MaxPolls) \in BOOLEAN
        OBVIOUS
      <4> HIDE DEF new
      <4> QED BY <1>0, <2>3, <4>1, <4>2, ZenonT(40) DEF PageOK, PageType
    <3> QED BY <3>1, <3>2, <3>3
  <2>5. ~Paying(c) /\ ~Taking(c)
    BY <2>1 DEF Paying, Taking
  <2> HIDE DEF new, more
  <2>6. Screen'
    BY <1>0, <2>1, <2>2, <2>4, <2>5, Handled
  <2> QED BY <1>a, <1>d, <2>1, <2>6
<1>4. CASE CO!ApplySeat(c)
  <2> DEFINE more == IF CO!Went(c) THEN {[CO!Refresh(c.ans) EXCEPT !.mine = c.mine]} ELSE {}
             new == IF c.ans = "already" THEN [coPage EXCEPT !.seat = "confirmed"]
                    ELSE IF CO!Went(c) THEN coPage ELSE [coPage EXCEPT !.seat = "failed"]
  <2>1. /\ c.op = "book paid" /\ CO!Update(c, new) /\ coCalls' = (coCalls \ {c}) \cup more
        /\ coPending' \in {None, coPending} /\ UNCHANGED <<coServer, coAuth, coCurrency, coModals>>
    BY <1>4 DEF CO!ApplySeat
  <2>2. ASSUME NEW d \in more PROVE CallOK(d)
    <3>1. d = [CO!Refresh(c.ans) EXCEPT !.mine = c.mine] /\ c.ans \in CO!Goals
      BY DEF CO!Went, CO!Goals
    <3>2. CallOK(CO!Refresh(c.ans))
      BY <3>1, NewRead
    <3> QED BY <1>0, <3>1, <3>2, Disown
  <2>3. PageOK(new) /\ new.busy = coPage.busy /\ new.booking = coPage.booking
    BY <1>0 DEF PageOK, PageType, CO!Goals
  <2>4. ~Paying(c) /\ ~Taking(c)
    BY <2>1 DEF Paying, Taking
  <2> HIDE DEF new, more
  <2>5. Screen'
    BY <1>0, <2>1, <2>2, <2>3, <2>4, Handled
  <2> QED BY <1>a, <1>d, <2>1, <2>5
<1> QED BY <1>1, <1>2, <1>3, <1>4

(***************************************************************************)
(* The pending record                                                      *)
(***************************************************************************)

\* A call that has been told of its place is right about it.
Won(c) == /\ c.op \in {"book slot", "book seat", "book paid"}
          /\ c.ans \in {"confirmed", "waitlisted", "already"}
KeptInv == \A c \in coCalls : Won(c) => CO!Took(c)
BuyerInv == CheckoutInv /\ KeptInv

LEMMA NothingWon ==
  ASSUME CO!CheckoutAssumption
  PROVE  /\ \A op, arg : ~Won(CO!Call(op, arg))
         /\ \A op, arg, x : ~Won([CO!Call(op, arg) EXCEPT !.mine = x])
         /\ \A op, arg, x, y : ~Won([CO!Call(op, arg) EXCEPT !.cur = x, !.shown = y])
         /\ \A op, arg, x : ~Won([CO!Call(op, arg) EXCEPT !.attempt = x])
         /\ \A goal : ~Won(CO!Refresh(goal))
         /\ \A goal, x : ~Won([CO!Refresh(goal) EXCEPT !.mine = x])
         /\ \A cur : ~Won(CO!Packs(cur))
<1>1. \A op, arg : ~Won(CO!Call(op, arg))
  BY DEF CO!CheckoutAssumption, Won, CO!Call
<1>2. \A op, arg, x : ~Won([CO!Call(op, arg) EXCEPT !.mine = x])
  BY DEF CO!CheckoutAssumption, Won, CO!Call
<1>3. \A op, arg, x, y : ~Won([CO!Call(op, arg) EXCEPT !.cur = x, !.shown = y])
  BY DEF CO!CheckoutAssumption, Won, CO!Call
<1>4. \A op, arg, x : ~Won([CO!Call(op, arg) EXCEPT !.attempt = x])
  BY DEF CO!CheckoutAssumption, Won, CO!Call
<1>5. \A goal : ~Won(CO!Refresh(goal))
  BY DEF Won, CO!Refresh, CO!Call
<1>6. \A goal, x : ~Won([CO!Refresh(goal) EXCEPT !.mine = x])
  BY DEF Won, CO!Refresh, CO!Call
<1>7. \A cur : ~Won(CO!Packs(cur))
  BY DEF Won, CO!Packs, CO!Call
<1> QED BY <1>1, <1>2, <1>3, <1>4, <1>5, <1>6, <1>7

LEMMA OrphansKeep ==
  ASSUME CO!CheckoutAssumption, NEW cs, \A c \in cs : CallOK(c), \A c \in cs : Won(c) => CO!Took(c)
  PROVE  \A c \in CO!Orphaned(cs) : Won(c) => CO!Took(c)
<1> SUFFICES ASSUME NEW c \in CO!Orphaned(cs), Won(c) PROVE CO!Took(c)
  OBVIOUS
<1>1. PICK d \in cs : c = [d EXCEPT !.mine = FALSE]
  BY DEF CO!Orphaned
<1>2. c.op = d.op /\ c.ans = d.ans /\ c.arg = d.arg
  BY <1>1 DEF CallOK, CallType
<1> QED BY <1>1, <1>2 DEF Won, CO!Took

\* Moving about the site tells nobody of a place.
LEMMA GoingKeeps ==
  ASSUME CO!CheckoutAssumption, NEW cs, \A c \in cs : CallOK(c), \A c \in cs : Won(c) => CO!Took(c),
         NEW at, NEW sid, CO!GoTo(at, sid, cs)
  PROVE  \A c \in coCalls' : Won(c) => CO!Took(c)
<1>1. coCalls' = CO!Orphaned(cs) \cup CO!MountCalls(at, sid, coAuth'.user)
  BY DEF CO!GoTo
<1>2. \A c \in CO!MountCalls(at, sid, coAuth'.user) : ~Won(c)
  <2>1. ~Won(CO!Packs(coCurrency)) /\ ~Won(CO!Call("session", sid))
    BY NothingWon
  <2> QED BY <2>1 DEF CO!MountCalls
<1> QED BY <1>1, <1>2, OrphansKeep

LEMMA AfterKeeps ==
  ASSUME CO!CheckoutAssumption, NEW cs, \A c \in cs : CallOK(c), \A c \in cs : Won(c) => CO!Took(c),
         NEW c, c.arg \in CO!Goals, CO!After(c, cs)
  PROVE  \A d \in coCalls' : Won(d) => CO!Took(d)
<1>1. CASE c.arg \in {"dashboard", "session"}
  <2>1. CO!GoTo("elsewhere", None, cs)
    BY <1>1 DEF CO!After
  <2> QED BY <2>1, GoingKeeps
<1>2. CASE c.arg \notin {"dashboard", "session"}
  <2>1. coCalls' = cs
    BY <1>2 DEF CO!After, CO!Goals
  <2> QED BY <2>1
<1> QED BY <1>1, <1>2

\* Places are not given up here.
LEMMA PlacesStay ==
  ASSUME UNCHANGED coServer \/ (coServer'.seat = coServer.seat /\ coServer'.slot = coServer.slot)
  PROVE  \A c : CO!Took(c) => CO!Took(c)'
BY DEF CO!Took

LEMMA KeptBySelf ==
  ASSUME \/ UNCHANGED coServer
         \/ coServer'.seat = coServer.seat /\ coServer'.slot = coServer.slot,
         \A d \in coCalls' : Won(d) => CO!Took(d)
  PROVE  KeptInv'
BY PlacesStay DEF KeptInv, Won

LEMMA InitKept == CO!CheckoutAssumption /\ CO!Init => KeptInv
BY NothingWon DEF CO!Init, KeptInv

\* The learner, the provider and the clock.
LEMMA KeptOutside ==
  ASSUME CO!CheckoutAssumption, CheckoutInv, KeptInv,
         \/ CO!Visit \/ CO!SwitchCurrency \/ CO!Confirm \/ CO!Pay \/ CO!PollTimer
         \/ CO!PayAway \/ CO!Abandon \/ CO!Reload \/ CO!Webhook \/ CO!Clears \/ CO!OthersAct
         \/ \E m \in coModals : CO!PayInWindow(m) \/ CO!Dismiss(m)
  PROVE  KeptInv' /\ (coPending' = None => coPending = None)
<1>0. coServer \in ServerType /\ PageOK(coPage) /\ \A c \in coCalls : CallOK(c)
  BY DEF CheckoutInv, Data, Screen
<1>k. \A c \in coCalls : Won(c) => CO!Took(c)
  BY DEF KeptInv
<1>t. ASSUME NEW p, NEW money, CO!Takes(p, money)
      PROVE  coServer'.seat = coServer.seat /\ coServer'.slot = coServer.slot
  BY <1>0, <1>t DEF CO!Takes, ServerType
<1>v. ASSUME NEW p, coServer' = CO!Verified(p)
      PROVE  coServer'.seat = coServer.seat /\ coServer'.slot = coServer.slot
  BY <1>0, <1>v DEF CO!Verified, ServerType
<1>1. CASE CO!Visit
  <2>1. PICK at, sid : CO!GoTo(at, sid, coCalls)
    BY <1>1 DEF CO!Visit
  <2> QED BY <1>0, <1>k, <1>1, <2>1, GoingKeeps, KeptBySelf DEF CO!Visit
<1>2. CASE CO!SwitchCurrency
  <2>1. PICK cur : coCalls' = coCalls \cup {CO!Packs(cur)}
    BY <1>2 DEF CO!SwitchCurrency
  <2> QED BY <1>k, <1>2, <2>1, NothingWon, KeptBySelf DEF CO!SwitchCurrency
<1>3. CASE CO!Confirm
  <2>1. \E op, arg : coCalls' = coCalls \cup {CO!Call(op, arg)}
    BY <1>3 DEF CO!Confirm
  <2> QED BY <1>k, <1>3, <2>1, NothingWon, KeptBySelf DEF CO!Confirm
<1>4. CASE CO!Pay
  <2>1. PICK d : coCalls' = coCalls \cup {d} /\ ~Won(d)
    <3>1. PICK wants, x, y : coCalls' = coCalls \cup {[CO!Call("start", wants) EXCEPT !.cur = x, !.shown = y]}
      BY <1>4 DEF CO!Pay
    <3>2. ~Won([CO!Call("start", wants) EXCEPT !.cur = x, !.shown = y])
      BY NothingWon
    <3> QED BY <3>1, <3>2
  <2>2. coPage.at \in CO!Buying
    <3>1. CO!Shown = "packs" /\ coPage.at \in CO!Screens
      BY <1>0, <1>4 DEF CO!Pay, CO!MethodsShown, PageOK, PageType
    <3> QED BY <3>1 DEF CO!Shown, CO!SuccessShown, CO!Buying, CO!Screens
  <2>3. coPending' = None => coPending = None
    BY <1>0, <1>4, <2>2 DEF CO!Pay, PageOK, CO!Buying, CO!CheckoutAssumption
  <2>4. UNCHANGED coServer
    BY <1>4 DEF CO!Pay
  <2> QED BY <1>k, <2>1, <2>3, <2>4, KeptBySelf
<1>5. CASE CO!PollTimer
  <2> DEFINE d == [CO!Call("verify", coPage.pay) EXCEPT !.attempt = coPage.polls + 1]
  <2>1. coCalls' = coCalls \cup {d} /\ UNCHANGED <<coServer, coPending>>
    BY <1>5 DEF CO!PollTimer
  <2>2. ~Won(d)
    BY NothingWon
  <2> HIDE DEF d
  <2> QED BY <1>k, <2>1, <2>2, KeptBySelf
<1>6. CASE CO!PayAway
  <2>1. coServer'.seat = coServer.seat /\ coServer'.slot = coServer.slot
    BY <1>6, <1>t DEF CO!PayAway
  <2>2. coCalls' = {CO!Refresh("load"), CO!Call("verify", coPage.pay)} /\ coPending' = coPending
    BY <1>6 DEF CO!PayAway
  <2>3. ~Won(CO!Refresh("load")) /\ ~Won(CO!Call("verify", coPage.pay))
    BY NothingWon
  <2> QED BY <2>1, <2>2, <2>3, KeptBySelf
<1>7. CASE CO!Abandon \/ CO!Reload
  BY <1>7, NothingWon, KeptBySelf DEF CO!Abandon, CO!Reload
<1>8. CASE CO!Webhook
  <2>1. coServer'.seat = coServer.seat /\ coServer'.slot = coServer.slot
    BY <1>8, <1>v DEF CO!Webhook
  <2> QED BY <1>k, <1>8, <2>1, KeptBySelf DEF CO!Webhook
<1>9. CASE CO!Clears
  <2>1. coServer'.seat = coServer.seat /\ coServer'.slot = coServer.slot
    BY <1>9, <1>t DEF CO!Clears
  <2> QED BY <1>k, <1>9, <2>1, KeptBySelf DEF CO!Clears
<1>10. CASE CO!OthersAct
  <2>1. coServer'.seat = coServer.seat /\ coServer'.slot = coServer.slot
    BY <1>0, <1>10 DEF CO!OthersAct, ServerType
  <2> QED BY <1>k, <1>10, <2>1, KeptBySelf DEF CO!OthersAct
<1>11. ASSUME NEW m \in coModals, CO!PayInWindow(m)
       PROVE  KeptInv' /\ (coPending' = None => coPending = None)
  <2>1. coServer'.seat = coServer.seat /\ coServer'.slot = coServer.slot
    BY <1>11, <1>t DEF CO!PayInWindow
  <2> DEFINE d == [CO!Call("hand over", m.pay) EXCEPT !.mine = m.mine]
  <2>2. coCalls' = coCalls \cup {d} /\ coPending' = coPending
    BY <1>11 DEF CO!PayInWindow
  <2>3. ~Won(d)
    BY NothingWon
  <2> HIDE DEF d
  <2> QED BY <1>k, <2>1, <2>2, <2>3, KeptBySelf
<1>12. ASSUME NEW m \in coModals, CO!Dismiss(m)
       PROVE  KeptInv' /\ (coPending' = None => coPending = None)
  BY <1>k, <1>12, KeptBySelf DEF CO!Dismiss
<1> QED BY <1>1, <1>2, <1>3, <1>4, <1>5, <1>6, <1>7, <1>8, <1>9, <1>10, <1>11, <1>12

\* The server tells of a place when it gives one, or when there is one.
LEMMA KeptAnswered ==
  ASSUME CO!CheckoutAssumption, CheckoutInv, KeptInv, NEW c \in coCalls, CO!Answer(c) \/ CO!Fail(c)
  PROVE  KeptInv' /\ (coPending' = None => coPending = None)
<1>0. coServer \in ServerType /\ CallOK(c) /\ c \in CallType
  BY DEF CheckoutInv, Data, Screen, CallOK
<1>k. \A d \in coCalls : Won(d) => CO!Took(d)
  BY DEF KeptInv
<1>e. \A e \in coCalls : e.op \in {"book seat", "book paid"} => e.arg \in Discussions
  BY DEF CheckoutInv, Screen, CallOK
<1>1. CASE CO!Fail(c)
  <2>1. ~Won(CO!Says(c, "error"))
    BY <1>0 DEF Won, CO!Says, CallType
  <2>2. coCalls' = (coCalls \ {c}) \cup {CO!Says(c, "error")} /\ UNCHANGED <<coServer, coPending>>
    BY <1>1 DEF CO!Fail
  <2> QED BY <1>k, <2>1, <2>2, KeptBySelf
<1>a. ASSUME NEW d, NEW s, CO!Answered(c, d, s), Won(d) => CO!Took(d)',
             \/ s.seat = coServer.seat /\ s.slot = coServer.slot
             \/ \A e \in coCalls : CO!Took(e) => CO!Took(e)'
      PROVE  KeptInv' /\ (coPending' = None => coPending = None)
  <2>1. coCalls' = (coCalls \ {c}) \cup {d} /\ coServer' = s /\ coPending' = coPending
    BY <1>a DEF CO!Answered
  <2>2. \A e \in coCalls : CO!Took(e) => CO!Took(e)'
    BY <1>a, <2>1, PlacesStay
  <2> QED BY <1>k, <1>a, <2>1, <2>2 DEF KeptInv, Won
<1>w. ASSUME NEW d, d.op = c.op, c.op \notin {"book slot", "book seat", "book paid"} PROVE ~Won(d)
  BY <1>w DEF Won
<1>2. CASE CO!AnswerRead(c)
  <2>1. PICK d : CO!Answered(c, d, coServer) /\ ~Won(d)
    <3>1. CASE c.op = "balance"
            /\ CO!Answered(c, [CO!Says(c, "ok") EXCEPT !.balance = coServer.balance], coServer)
      <4>1. [CO!Says(c, "ok") EXCEPT !.balance = coServer.balance].op = c.op
        BY <1>0 DEF CO!Says, CallType
      <4> QED BY <1>w, <3>1, <4>1
    <3>2. CASE /\ c.op = "session"
               /\ LET seen == IF coServer.seat[c.arg] = "none" /\ ~coServer.bookable[c.arg]
                              THEN "closed" ELSE coServer.seat[c.arg]
                  IN  CO!Answered(c, [CO!Says(c, seen) EXCEPT !.full = coServer.full[c.arg]], coServer)
      <4> DEFINE seen == IF coServer.seat[c.arg] = "none" /\ ~coServer.bookable[c.arg]
                         THEN "closed" ELSE coServer.seat[c.arg]
      <4>1. [CO!Says(c, seen) EXCEPT !.full = coServer.full[c.arg]].op = c.op
        BY <1>0 DEF CO!Says, CallType
      <4>2. CO!Answered(c, [CO!Says(c, seen) EXCEPT !.full = coServer.full[c.arg]], coServer)
        BY <3>2
      <4> HIDE DEF seen
      <4> QED BY <1>w, <3>2, <4>1, <4>2
    <3> QED BY <1>2, <3>1, <3>2 DEF CO!AnswerRead
  <2> QED BY <1>a, <2>1
<1>3. CASE CO!AnswerSeat(c)
  <2>1. c.arg \in Discussions
    BY <1>0, <1>3 DEF CO!AnswerSeat, CallOK
  <2>2. CASE coServer.seat[c.arg] # "none" /\ CO!Answered(c, CO!Says(c, "already"), coServer)
    <3>1. CO!Took(CO!Says(c, "already"))'
      BY <1>0, <1>3, <2>2 DEF CO!Took, CO!Answered, CO!AnswerSeat, CO!Says, CallType
    <3> QED BY <1>a, <2>2, <3>1
  <2>3. ASSUME NEW ans \in {"refused", "insufficient"}, CO!Answered(c, CO!Says(c, ans), coServer)
        PROVE  KeptInv' /\ (coPending' = None => coPending = None)
    <3>1. ~Won(CO!Says(c, ans))
      BY <1>0 DEF Won, CO!Says, CallType
    <3> QED BY <1>a, <2>3, <3>1
  <2>4. ASSUME NEW ans, NEW s, CO!Answered(c, CO!Says(c, ans), s), s.seat[c.arg] # "none",
               s.slot = coServer.slot,
               \A q \in Discussions : coServer.seat[q] # "none" => s.seat[q] # "none"
        PROVE  KeptInv' /\ (coPending' = None => coPending = None)
    <3>1. CO!Took(CO!Says(c, ans))'
      BY <1>0, <1>3, <2>4 DEF CO!Took, CO!Answered, CO!AnswerSeat, CO!Says, CallType
    <3>2. \A e \in coCalls : CO!Took(e) => CO!Took(e)'
      BY <1>e, <2>4 DEF CO!Took, CO!Answered
    <3> QED BY <1>a, <2>4, <3>1, <3>2
  <2>5. LET s == [coServer EXCEPT !.seat[c.arg] = "waitlisted"]
        IN  /\ s.seat[c.arg] # "none" /\ s.slot = coServer.slot
            /\ \A q \in Discussions : coServer.seat[q] # "none" => s.seat[q] # "none"
    BY <1>0, <2>1 DEF ServerType
  <2>6. LET s == [coServer EXCEPT !.seat[c.arg] = "confirmed", !.balance = @ - SeatPrice]
        IN  /\ s.seat[c.arg] # "none" /\ s.slot = coServer.slot
            /\ \A q \in Discussions : coServer.seat[q] # "none" => s.seat[q] # "none"
    BY <1>0, <2>1 DEF ServerType
  <2>7. \/ coServer.seat[c.arg] # "none" /\ CO!Answered(c, CO!Says(c, "already"), coServer)
        \/ CO!Answered(c, CO!Says(c, "refused"), coServer)
        \/ CO!Answered(c, CO!Says(c, "waitlisted"), [coServer EXCEPT !.seat[c.arg] = "waitlisted"])
        \/ CO!Answered(c, CO!Says(c, "insufficient"), coServer)
        \/ CO!Answered(c, CO!Says(c, "confirmed"),
             [coServer EXCEPT !.seat[c.arg] = "confirmed", !.balance = @ - SeatPrice])
    BY <1>3 DEF CO!AnswerSeat
  <2> QED BY <2>2, <2>3, <2>4, <2>5, <2>6, <2>7
<1>4. CASE CO!AnswerSlot(c)
  <2>1. \/ CO!Answered(c, CO!Says(c, "refused"), coServer)
        \/ CO!Answered(c, CO!Says(c, "confirmed"),
             [coServer EXCEPT !.slot = "booked", !.balance = @ - CO!CreditsPerSession])
    BY <1>4 DEF CO!AnswerSlot
  <2>2. ~Won(CO!Says(c, "refused"))
    BY <1>0 DEF Won, CO!Says, CallType
  <2>3. ASSUME NEW s, CO!Answered(c, CO!Says(c, "confirmed"), s), s.slot # "none",
               s.seat = coServer.seat
        PROVE  KeptInv' /\ (coPending' = None => coPending = None)
    <3>1. CO!Took(CO!Says(c, "confirmed"))'
      BY <1>0, <1>4, <2>3 DEF CO!Took, CO!Answered, CO!AnswerSlot, CO!Says, CallType
    <3>2. \A e \in coCalls : CO!Took(e) => CO!Took(e)'
      BY <2>3 DEF CO!Took, CO!Answered
    <3> QED BY <1>a, <2>3, <3>1, <3>2
  <2>4. LET s == [coServer EXCEPT !.slot = "booked", !.balance = @ - CO!CreditsPerSession]
        IN  s.slot # "none" /\ s.seat = coServer.seat
    BY <1>0 DEF ServerType
  <2> QED BY <1>a, <2>1, <2>2, <2>3, <2>4
<1>5. CASE CO!AnswerStart(c)
  <2>1. PICK p, way, o : CO!Answered(c, [CO!Says(c, way) EXCEPT !.pay = p], [coServer EXCEPT !.order[p] = o])
    BY <1>5 DEF CO!AnswerStart
  <2>2. ~Won([CO!Says(c, way) EXCEPT !.pay = p])
    BY <1>0, <1>5 DEF CO!AnswerStart, Won, CO!Says, CallType
  <2> DEFINE s == [coServer EXCEPT !.order[p] = o]
  <2>3. s.seat = coServer.seat /\ s.slot = coServer.slot
    BY <1>0 DEF ServerType
  <2> HIDE DEF s
  <2> QED BY <1>a, <2>1, <2>2, <2>3 DEF s
<1>6. CASE CO!AnswerVerify(c)
  <2>1. CO!Answered(c, CO!Says(c, CO!Settled(coServer.order[c.arg])), CO!Verified(c.arg))
    BY <1>6 DEF CO!AnswerVerify
  <2>2. ~Won(CO!Says(c, CO!Settled(coServer.order[c.arg])))
    BY <1>0, <1>6 DEF CO!AnswerVerify, Won, CO!Says, CallType
  <2>3. CO!Verified(c.arg).seat = coServer.seat /\ CO!Verified(c.arg).slot = coServer.slot
    BY <1>0 DEF CO!Verified, ServerType
  <2> QED BY <1>a, <2>1, <2>2, <2>3
<1> QED BY <1>1, <1>2, <1>3, <1>4, <1>5, <1>6 DEF CO!Answer

\* The record goes with a place.
LEMMA KeptApplied ==
  ASSUME CO!CheckoutAssumption, CheckoutInv, KeptInv, NEW c \in coCalls,
         \/ CO!ApplyMe(c) \/ CO!ApplyBalance(c) \/ CO!SignedOut(c)
         \/ CO!ApplyPacks(c) \/ CO!ApplySession(c) \/ CO!ApplyConfirm(c)
         \/ CO!ApplyStart(c) \/ CO!ApplyHandOver(c) \/ CO!ApplyVerify(c) \/ CO!ApplySeat(c)
  PROVE  KeptInv' /\ (coPending' = None => coPending = None \/ (CO!Took(c) /\ c \notin coCalls'))
<1>0. CallOK(c) /\ c \in CallType /\ \A d \in coCalls \ {c} : CallOK(d)
  BY DEF CheckoutInv, Screen, CallOK
<1>k. (Won(c) => CO!Took(c)) /\ \A d \in coCalls \ {c} : Won(d) => CO!Took(d)
  BY DEF KeptInv
<1>s. coServer' = coServer
  BY DEF CO!ApplyMe, CO!ApplyBalance, CO!SignedOut, CO!ApplyPacks, CO!ApplySession, CO!ApplyConfirm,
         CO!ApplyStart, CO!ApplyHandOver, CO!ApplyVerify, CO!ApplySeat
<1>d. ASSUME NEW more, \A d \in more : ~Won(d), coCalls' = (coCalls \ {c}) \cup more
      PROVE  KeptInv'
  BY <1>k, <1>s, <1>d, KeptBySelf
<1>g. ASSUME \A d \in coCalls' : Won(d) => CO!Took(d) PROVE KeptInv'
  BY <1>g, <1>s, KeptBySelf
<1>1. CASE CO!ApplyMe(c)
  <2> DEFINE d == [c EXCEPT !.op = "balance", !.ans = None]
             more == {d} \cup (IF coPage.at \in CO!Buying THEN {CO!Packs(coCurrency)} ELSE {})
  <2>1. ~Won(d)
    BY <1>0 DEF Won, CallType
  <2>2. \A e \in more : ~Won(e)
    BY <2>1, NothingWon
  <2>3. coCalls' = (coCalls \ {c}) \cup more /\ coPending' = coPending
    BY <1>1 DEF CO!ApplyMe
  <2> HIDE DEF more
  <2> QED BY <1>d, <2>2, <2>3
<1>2. CASE CO!ApplyBalance(c) \/ CO!SignedOut(c)
  <2>1. c.arg \in CO!Goals /\ coPending' = coPending
    BY <1>0, <1>2 DEF CO!ApplyBalance, CO!SignedOut, CallOK
  <2>2. \/ CO!After(c, coCalls \ {c})
        \/ CO!GoTo("login", None, coCalls \ {c})
    BY <1>2 DEF CO!ApplyBalance, CO!SignedOut
  <2>3. \A d \in coCalls' : Won(d) => CO!Took(d)
    BY <1>0, <1>k, <2>1, <2>2, AfterKeeps, GoingKeeps
  <2> QED BY <1>g, <2>1, <2>3
<1>3. CASE CO!ApplyPacks(c)
  <2>1. coCalls' = coCalls \ {c} /\ coPending' = coPending
    BY <1>3 DEF CO!ApplyPacks
  <2> QED BY <1>k, <1>g, <2>1
<1>4. CASE CO!ApplySession(c)
  <2>1. \/ CO!GoTo("elsewhere", None, coCalls \ {c})
        \/ coCalls' = coCalls \ {c}
    BY <1>4 DEF CO!ApplySession
  <2>2. \A d \in coCalls' : Won(d) => CO!Took(d)
    BY <1>0, <1>k, <2>1, GoingKeeps
  <2> QED BY <1>4, <1>g, <2>2 DEF CO!ApplySession
<1>5. CASE CO!ApplyConfirm(c)
  <2>1. PICK goals : coCalls' = (coCalls \ {c}) \cup {[CO!Refresh(goal) EXCEPT !.mine = c.mine] : goal \in goals}
    BY <1>5 DEF CO!ApplyConfirm
  <2> DEFINE more == {[CO!Refresh(goal) EXCEPT !.mine = c.mine] : goal \in goals}
  <2>2. KeptInv'
    <3>1. ASSUME NEW goal PROVE ~Won([CO!Refresh(goal) EXCEPT !.mine = c.mine])
      BY NothingWon
    <3>2. \A d \in more : ~Won(d)
      BY <3>1
    <3> HIDE DEF more
    <3> QED BY <1>d, <2>1, <3>2 DEF more
  <2>3. CO!Went(c) => CO!Took(c)
    BY <1>5, <1>k DEF CO!ApplyConfirm, CO!Went, Won
  <2>4. c \notin coCalls'
    <3>1. \A goal : [CO!Refresh(goal) EXCEPT !.mine = c.mine].op = "me"
      BY DEF CO!Refresh, CO!Call
    <3> QED BY <1>5, <2>1, <3>1 DEF CO!ApplyConfirm
  <2> QED BY <1>5, <2>2, <2>3, <2>4 DEF CO!ApplyConfirm, CO!Remembered
<1>6. CASE CO!ApplyStart(c)
  <2>1. coCalls' \subseteq coCalls \ {c} /\ coPending' = coPending
    BY <1>6 DEF CO!ApplyStart
  <2> QED BY <1>k, <1>g, <2>1
<1>7. CASE CO!ApplyHandOver(c)
  <2>1. coCalls' = CO!Orphaned(coCalls \ {c}) \cup {CO!Call("verify", c.arg)}
          /\ coPending' = coPending
    BY <1>7 DEF CO!ApplyHandOver, CO!PushSuccess
  <2>2. \A d \in coCalls' : Won(d) => CO!Took(d)
    BY <1>0, <1>k, <2>1, OrphansKeep, NothingWon
  <2> QED BY <1>g, <2>1, <2>2
<1>8. CASE CO!ApplyVerify(c)
  <2> DEFINE more == IF c.mine /\ c.ans = "paid"
                     THEN {CO!Refresh("paid")} \cup
                          (IF coPage.seen \in Discussions THEN {CO!Call("book paid", coPage.seen)} ELSE {})
                     ELSE {}
  <2>1. \A d \in more : ~Won(d)
    <3>1. ~Won(CO!Refresh("paid")) /\ ~Won(CO!Call("book paid", coPage.seen))
      BY NothingWon
    <3> QED BY <3>1
  <2>2. coCalls' = (coCalls \ {c}) \cup more /\ coPending' = coPending
    BY <1>8 DEF CO!ApplyVerify
  <2> HIDE DEF more
  <2> QED BY <1>d, <2>1, <2>2
<1>9. CASE CO!ApplySeat(c)
  <2> DEFINE more == IF CO!Went(c) THEN {[CO!Refresh(c.ans) EXCEPT !.mine = c.mine]} ELSE {}
  <2>1. \A d \in more : ~Won(d)
    <3>1. ~Won([CO!Refresh(c.ans) EXCEPT !.mine = c.mine])
      BY NothingWon
    <3> QED BY <3>1
  <2>2. coCalls' = (coCalls \ {c}) \cup more
    BY <1>9 DEF CO!ApplySeat
  <2> HIDE DEF more
  <2>3. CO!Went(c) \/ c.ans = "already" => CO!Took(c)
    BY <1>9, <1>k DEF CO!ApplySeat, CO!Went, Won
  <2>4. c \notin coCalls'
    <3>1. [CO!Refresh(c.ans) EXCEPT !.mine = c.mine].op = "me"
      BY DEF CO!Refresh, CO!Call
    <3> QED BY <1>9, <2>2, <3>1 DEF CO!ApplySeat, more
  <2> QED BY <1>9, <1>d, <2>1, <2>2, <2>3, <2>4 DEF CO!ApplySeat
<1> QED BY <1>1, <1>2, <1>3, <1>4, <1>5, <1>6, <1>7, <1>8, <1>9

(***************************************************************************)
(* Accounts                                                                *)
(***************************************************************************)

\* Boxes are numbered as they are ticked, so a box ticked later never holds a
\* token sent before; a token is held, and sent, only by a form with a box;
\* and the request that carries the token the box holds is still the page's.
\* Nobody is called "next", which says what a refresh goes on to do.
Numbers ==
  /\ acCaptcha.ticked \in Nat
  /\ acCaptcha.token \in 0..acCaptcha.ticked
  /\ acCaptcha.refused \subseteq 1..acCaptcha.ticked
  /\ {"script", "token", "ticked", "refused"} \subseteq DOMAIN acCaptcha
Carries(c) ==
  /\ {"op", "arg", "token", "mine", "ans", "who"} \subseteq DOMAIN c
  /\ c.token \in 0..acCaptcha.ticked
  /\ c.token # AC!NoToken => c.op \in AC!Boxed
  /\ c.token # AC!NoToken /\ c.token = acCaptcha.token => c.mine
  /\ c.arg = "next" => c.op = "me"
  /\ c.who # "next"
  /\ c.mine /\ c.op = "account" => acPage.at = "account"
TokenInv ==
  /\ Numbers
  /\ acPage.at \notin AC!Boxed => acCaptcha.token = AC!NoToken
  /\ {"at", "busy", "resending", "error", "done"} \subseteq DOMAIN acPage
  /\ acCookie # "next" /\ acAuth.user # "next"
  /\ \A c \in acCalls : Carries(c)
  /\ AC!TokenIsSpentOnce

\* The box once emptied, nothing is left to show.
LEMMA Emptied ==
  ASSUME Numbers, NEW f, \A c \in acCalls : Carries(c),
         acCaptcha' = [acCaptcha EXCEPT !.token = AC!NoToken]
  PROVE  /\ Numbers' /\ acCaptcha'.token = AC!NoToken /\ AC!TokenIsSpentOnce'
         /\ acCaptcha'.ticked = acCaptcha.ticked
<1>1. /\ acCaptcha'.token = 0 /\ acCaptcha'.ticked = acCaptcha.ticked
      /\ acCaptcha'.refused = acCaptcha.refused /\ DOMAIN acCaptcha' = DOMAIN acCaptcha
  BY DEF Numbers, AC!NoToken
<1>2. 0 \notin acCaptcha.refused
  BY DEF Numbers
<1> QED BY <1>1, <1>2 DEF Numbers, AC!NoToken, AC!TokenIsSpentOnce

\* A call that has no token carries it whatever the box holds.
LEMMA Bare ==
  ASSUME AC!AccountsAssumption, Numbers', NEW op, NEW arg, arg = "next" => op = "me", op # "account"
  PROVE  Carries(AC!Call(op, arg))'
BY DEF AC!AccountsAssumption, Numbers, Carries, AC!Call, AC!NoToken

\* Opening a page: an empty box, and its calls are nobody's.
LEMMA Leaving ==
  ASSUME AC!AccountsAssumption, TokenInv, NEW at, NEW cs, cs \subseteq acCalls, AC!GoTo(at, cs),
         acCookie' = acCookie, acAuth'.user # "next"
  PROVE  TokenInv'
<1>1. /\ Numbers' /\ acCaptcha'.token = AC!NoToken /\ AC!TokenIsSpentOnce'
      /\ acCaptcha'.ticked = acCaptcha.ticked
  BY Emptied DEF TokenInv, AC!GoTo
<1>2. PICK there : acPage' = AC!Fresh(there)
  BY DEF AC!GoTo
<1>3. \A c \in acCalls' : Carries(c)'
  <2> SUFFICES ASSUME NEW c \in acCalls' PROVE Carries(c)'
    OBVIOUS
  <2>1. c \in AC!Orphaned(cs) \/ c = AC!Call("verify", None)
    BY DEF AC!GoTo
  <2>2. CASE c = AC!Call("verify", None)
    <3>1. AC!Call("verify", None).op = "verify" /\ AC!Call("verify", None).arg = None
      BY DEF AC!Call
    <3> QED BY <1>1, <2>2, Bare DEF AC!AccountsAssumption
  <2>3. CASE c \in AC!Orphaned(cs)
    <3>1. PICK d \in cs : c = [d EXCEPT !.mine = FALSE]
      BY <2>3 DEF AC!Orphaned
    <3>2. Carries(d)
      BY DEF TokenInv
    <3> QED BY <1>1, <3>1, <3>2 DEF Carries
  <2> QED BY <2>1, <2>2, <2>3
<1> QED BY <1>1, <1>2, <1>3 DEF TokenInv, AC!Fresh

\* A form sent: its token is the box's, and the page's.
LEMMA Sending ==
  ASSUME TokenInv, NEW c, Carries(c), AC!Send(c)
  PROVE  TokenInv'
<1>1. /\ acCaptcha' = acCaptcha /\ acAuth' = acAuth /\ acCookie' = acCookie
      /\ acCalls' = acCalls \cup {c}
      /\ \/ acPage' = [acPage EXCEPT !.busy = TRUE, !.error = FALSE]
         \/ acPage' = [acPage EXCEPT !.resending = TRUE, !.error = FALSE]
  BY DEF AC!Send
<1>2. acPage'.at = acPage.at /\ DOMAIN acPage' = DOMAIN acPage
  BY <1>1 DEF TokenInv
<1>3. \A d \in acCalls' : Carries(d)'
  BY <1>1 DEF TokenInv, Carries
<1>4. AC!TokenIsSpentOnce'
  BY <1>1, <1>2 DEF TokenInv, AC!TokenIsSpentOnce
<1> QED BY <1>1, <1>2, <1>3, <1>4 DEF TokenInv, Numbers

\* An answer applied on a page that stays, with a box that stays as it is: the
\* call goes, and may leave another.
LEMMA Applied ==
  ASSUME AC!AccountsAssumption, TokenInv, NEW c \in acCalls, NEW ds, acCaptcha' = acCaptcha, acCookie' = acCookie,
         acCalls' = (acCalls \ {c}) \cup ds, \A d \in ds : Carries(d),
         {"at", "busy", "resending", "error", "done"} \subseteq DOMAIN acPage',
         acPage'.at = acPage.at, acAuth'.user # "next",
         \/ c.token # acCaptcha.token
         \/ c.token = AC!NoToken
         \/ \E d \in ds : d.arg = "next",
         \/ c.arg # "next"
         \/ \E d \in ds : d.arg = "next"
  PROVE  TokenInv'
<1>1. Numbers'
  BY DEF TokenInv, Numbers
<1>2. \A d \in acCalls' : Carries(d)'
  BY DEF TokenInv, Carries
<1>3. AC!TokenIsSpentOnce'
  <2>1. SUFFICES ASSUME acCaptcha.token \in acCaptcha.refused
                 PROVE  \E d \in acCalls' : d.token = acCaptcha.token \/ d.arg = "next"
    BY DEF AC!TokenIsSpentOnce
  <2>2. acCaptcha.token # AC!NoToken
    BY <2>1 DEF TokenInv, Numbers, AC!NoToken
  <2>3. PICK d \in acCalls : d.token = acCaptcha.token \/ d.arg = "next"
    BY <2>1 DEF TokenInv, AC!TokenIsSpentOnce
  <2>4. CASE d # c
    BY <2>3, <2>4
  <2>5. CASE d = c
    BY <2>1, <2>2, <2>3, <2>5
  <2> QED BY <2>4, <2>5
<1> QED BY <1>1, <1>2, <1>3 DEF TokenInv

LEMMA InitToken == AC!AccountsAssumption /\ AC!Init => TokenInv
<1> SUFFICES ASSUME AC!AccountsAssumption, AC!Init PROVE TokenInv
  OBVIOUS
<1>1. Numbers /\ acCaptcha.token = AC!NoToken
  BY DEF AC!Init, Numbers, AC!NoToken
<1>2. \A c \in acCalls : Carries(c)
  <2>1. acCalls = {AC!Call("me", "load")}
    BY DEF AC!Init, AC!Refresh
  <2>2. Carries(AC!Call("me", "load"))
    BY <1>1 DEF AC!AccountsAssumption, Carries, AC!Call, AC!NoToken, Numbers
  <2> QED BY <2>1, <2>2
<1>3. acCookie # "next" /\ acAuth.user # "next"
  BY DEF AC!AccountsAssumption, AC!Init
<1>4. AC!TokenIsSpentOnce
  BY <1>1 DEF AC!TokenIsSpentOnce, Numbers, AC!NoToken
<1>5. {"at", "busy", "resending", "error", "done"} \subseteq DOMAIN acPage
  BY DEF AC!Init, AC!Fresh
<1> QED BY <1>1, <1>2, <1>3, <1>4, <1>5 DEF TokenInv

\* What the visitor does.
LEMMA StepVisitor ==
  ASSUME AC!AccountsAssumption, TokenInv,
         AC!Open \/ AC!LoadScript \/ AC!TickBox \/ AC!DropToken \/ AC!Submit \/ AC!Resend
           \/ AC!Google \/ AC!SignOut
  PROVE  TokenInv'
<1>0. /\ Numbers /\ \A c \in acCalls : Carries(c)
      /\ acPage.at \notin AC!Boxed => acCaptcha.token = AC!NoToken
      /\ {"at", "busy", "resending", "error", "done"} \subseteq DOMAIN acPage
      /\ acCookie # "next" /\ acAuth.user # "next" /\ AC!TokenIsSpentOnce
  BY DEF TokenInv
<1>1. CASE AC!Open
  <2>1. PICK at \in AC!Pages : AC!GoTo(at, acCalls)
    BY <1>1 DEF AC!Open
  <2>2. acCookie' = acCookie /\ acAuth' = acAuth
    BY <1>1 DEF AC!Open
  <2> QED BY <1>0, <2>1, <2>2, Leaving
<1>2. CASE AC!LoadScript
  <2>1. /\ acCaptcha'.token = acCaptcha.token /\ acCaptcha'.ticked = acCaptcha.ticked
        /\ acCaptcha'.refused = acCaptcha.refused /\ DOMAIN acCaptcha' = DOMAIN acCaptcha
        /\ acCalls' = acCalls /\ acPage' = acPage /\ acAuth' = acAuth /\ acCookie' = acCookie
    BY <1>0, <1>2 DEF AC!LoadScript, Numbers
  <2> QED BY <1>0, <2>1 DEF TokenInv, Numbers, Carries, AC!TokenIsSpentOnce
<1>3. CASE AC!TickBox
  <2>1. /\ acCaptcha'.token = acCaptcha.ticked + 1 /\ acCaptcha'.ticked = acCaptcha.ticked + 1
        /\ acCaptcha'.refused = acCaptcha.refused /\ DOMAIN acCaptcha' = DOMAIN acCaptcha
        /\ acCalls' = acCalls /\ acPage' = acPage /\ acAuth' = acAuth /\ acCookie' = acCookie
        /\ acPage.at \in AC!Boxed
    BY <1>0, <1>3 DEF AC!TickBox, Numbers
  <2>2. Numbers' /\ acCaptcha'.token \notin acCaptcha'.refused
    BY <1>0, <2>1 DEF Numbers
  <2>3. \A c \in acCalls' : Carries(c)'
    BY <1>0, <2>1 DEF Carries, Numbers
  <2> QED BY <1>0, <2>1, <2>2, <2>3 DEF TokenInv, AC!TokenIsSpentOnce
<1>4. CASE AC!DropToken
  <2>1. /\ acCaptcha' = [acCaptcha EXCEPT !.token = AC!NoToken]
        /\ acCalls' = acCalls /\ acPage' = acPage /\ acAuth' = acAuth /\ acCookie' = acCookie
    BY <1>4 DEF AC!DropToken
  <2>2. /\ Numbers' /\ acCaptcha'.token = AC!NoToken /\ AC!TokenIsSpentOnce'
        /\ acCaptcha'.ticked = acCaptcha.ticked
    BY <1>0, <2>1, Emptied
  <2>3. \A c \in acCalls' : Carries(c)'
    BY <1>0, <2>1, <2>2 DEF Carries
  <2> QED BY <1>0, <2>1, <2>2, <2>3 DEF TokenInv
<1>5. CASE AC!Submit
  <2>1. PICK u \in Users : AC!Send([AC!Call(acPage.at, u) EXCEPT !.token = acCaptcha.token,
                  !.code = IF acPage.at = "register" THEN AC!SignupCode ELSE None])
    BY <1>5 DEF AC!Submit
  <2>2. u # "next" /\ None # "next"
    BY DEF AC!AccountsAssumption
  <2>3. Carries([AC!Call(acPage.at, u) EXCEPT !.token = acCaptcha.token,
                  !.code = IF acPage.at = "register" THEN AC!SignupCode ELSE None])
    BY <1>0, <2>2 DEF Carries, AC!Call, Numbers
  <2> QED BY <2>1, <2>3, Sending
<1>6. CASE AC!Resend
  <2>1. Carries(AC!Call("resend", acAuth.user)) /\ AC!Send(AC!Call("resend", acAuth.user))
    BY <1>0, <1>6 DEF AC!AccountsAssumption, Carries, AC!Call, Numbers, AC!Resend, AC!NoToken
  <2> QED BY <2>1, Sending
<1>7. CASE AC!Google
  <2>1. PICK u \in Users : \/ AC!Send(AC!Call("google", u))
                           \/ AC!Send([AC!Call("google up", u) EXCEPT !.code = AC!SignupCode])
    BY <1>7 DEF AC!Google
  <2>2. u # "next" /\ None # "next"
    BY DEF AC!AccountsAssumption
  <2>3. /\ Carries(AC!Call("google", u))
        /\ Carries([AC!Call("google up", u) EXCEPT !.code = AC!SignupCode])
    BY <1>0, <2>2 DEF Carries, AC!Call, Numbers, AC!NoToken
  <2> QED BY <2>1, <2>3, Sending
<1>8. CASE AC!SignOut
  <2>1. /\ acCalls' = acCalls \cup {AC!Call("logout", None)} /\ acCaptcha' = acCaptcha
             /\ acPage' = acPage
        /\ acAuth' = acAuth /\ acCookie' = acCookie
    BY <1>8 DEF AC!SignOut
  <2>2. Carries(AC!Call("logout", None))
    BY <1>0 DEF AC!AccountsAssumption, Carries, AC!Call, Numbers, AC!NoToken
  <2>3. \A c \in acCalls' : Carries(c)'
    BY <1>0, <2>1, <2>2 DEF Carries
  <2> QED BY <1>0, <2>1, <2>3 DEF TokenInv, Numbers, AC!TokenIsSpentOnce
<1> QED BY <1>1, <1>2, <1>3, <1>4, <1>5, <1>6, <1>7, <1>8

\* The server: a token it has seen is still carried by its request.
LEMMA StepAnswer ==
  ASSUME AC!AccountsAssumption, TokenInv, NEW c \in acCalls, AC!Answer(c)
  PROVE  TokenInv'
<1>0. /\ Numbers /\ \A d \in acCalls : Carries(d)
      /\ acCookie # "next" /\ AC!TokenIsSpentOnce
  BY DEF TokenInv
<1>1. /\ acCaptcha' = [acCaptcha EXCEPT !.refused = @ \cup ({c.token} \ {AC!NoToken})]
      /\ acPage' = acPage /\ acAuth' = acAuth
  BY DEF AC!Answer
<1>2. /\ acCaptcha'.token = acCaptcha.token /\ acCaptcha'.ticked = acCaptcha.ticked
      /\ acCaptcha'.refused = acCaptcha.refused \cup ({c.token} \ {AC!NoToken})
      /\ DOMAIN acCaptcha' = DOMAIN acCaptcha
  BY <1>0, <1>1 DEF Numbers
<1>3. Numbers'
  BY <1>0, <1>2 DEF Numbers, Carries, AC!NoToken
<1>4. PICK d : /\ acCalls' = (acCalls \ {c}) \cup {d}
               /\ d.token = c.token /\ d.op = c.op /\ d.arg = c.arg /\ d.mine = c.mine
               /\ DOMAIN d = DOMAIN c /\ (d.who = c.who \/ d.who = acCookie)
  <2>1. {"op", "arg", "token", "mine", "ans", "who"} \subseteq DOMAIN c
    BY <1>0 DEF Carries
  <2>2. ASSUME NEW ans \in {"ok", "refused"},
               acCalls' = (acCalls \ {c}) \cup {[c EXCEPT !.ans = ans, !.who = acCookie]}
        PROVE  \E d : /\ acCalls' = (acCalls \ {c}) \cup {d}
                      /\ d.token = c.token /\ d.op = c.op /\ d.arg = c.arg /\ d.mine = c.mine
                      /\ DOMAIN d = DOMAIN c /\ (d.who = c.who \/ d.who = acCookie)
    <3> DEFINE e == [c EXCEPT !.ans = ans, !.who = acCookie]
    <3>1. /\ e.token = c.token /\ e.op = c.op /\ e.arg = c.arg /\ e.mine = c.mine
          /\ DOMAIN e = DOMAIN c /\ (e.who = c.who \/ e.who = acCookie)
      BY <2>1
    <3> QED BY <2>2, <3>1
  <2>3. ASSUME acCalls' = (acCalls \ {c}) \cup {[c EXCEPT !.ans = "refused"]}
        PROVE  \E d : /\ acCalls' = (acCalls \ {c}) \cup {d}
                      /\ d.token = c.token /\ d.op = c.op /\ d.arg = c.arg /\ d.mine = c.mine
                      /\ DOMAIN d = DOMAIN c /\ (d.who = c.who \/ d.who = acCookie)
    <3> DEFINE e == [c EXCEPT !.ans = "refused"]
    <3>1. /\ e.token = c.token /\ e.op = c.op /\ e.arg = c.arg /\ e.mine = c.mine
          /\ DOMAIN e = DOMAIN c /\ (e.who = c.who \/ e.who = acCookie)
      BY <2>1
    <3> QED BY <2>3, <3>1
  <2>4. \/ \E ans \in {"ok", "refused"} :
             acCalls' = (acCalls \ {c}) \cup {[c EXCEPT !.ans = ans, !.who = acCookie]}
        \/ acCalls' = (acCalls \ {c}) \cup {[c EXCEPT !.ans = "refused"]}
    <3>1. CASE AC!TakesToken(c) /\ AC!Grants(c) /\ \E ans \in {"ok", "refused"} :
             acCalls' = (acCalls \ {c}) \cup {[c EXCEPT !.ans = ans, !.who = acCookie]}
      BY <3>1
    <3>2. CASE acCalls' = (acCalls \ {c}) \cup {[c EXCEPT !.ans = "refused"]}
      BY <3>2
    <3> QED BY <3>1, <3>2 DEF AC!Answer
  <2> QED BY <2>2, <2>3, <2>4
<1>5. \A e \in acCalls' : Carries(e)'
  BY <1>0, <1>1, <1>2, <1>4 DEF Carries
<1>6. AC!TokenIsSpentOnce'
  <2>1. SUFFICES ASSUME acCaptcha'.token \in acCaptcha'.refused
                 PROVE  \E e \in acCalls' : e.token = acCaptcha'.token \/ e.arg = "next"
    BY DEF AC!TokenIsSpentOnce
  <2>2. CASE acCaptcha.token = c.token
    BY <1>2, <1>4, <2>2
  <2>3. CASE acCaptcha.token # c.token
    <3>1. acCaptcha.token \in acCaptcha.refused
      BY <1>2, <2>1, <2>3
    <3>2. PICK e \in acCalls : e.token = acCaptcha.token \/ e.arg = "next"
      BY <1>0, <3>1 DEF AC!TokenIsSpentOnce
    <3>3. CASE e = c
      BY <1>4, <2>3, <3>2, <3>3
    <3>4. CASE e # c
      BY <1>2, <1>4, <3>2, <3>4
    <3> QED BY <3>3, <3>4
  <2> QED BY <2>2, <2>3
<1>7. acCookie' # "next"
  <2>1. c.op # "me" => c.arg # "next"
    BY <1>0 DEF Carries
  <2>2. CASE AC!Grants(c)
    <3>1. \/ acCookie' = c.arg /\ c.op # "me"
          \/ acCookie' = None
          \/ acCookie' = acCookie
      BY <2>2 DEF AC!Grants
    <3> QED BY <1>0, <2>1, <3>1 DEF AC!AccountsAssumption
  <2>3. CASE acCookie' = acCookie
    BY <1>0, <2>3
  <2> QED BY <2>2, <2>3 DEF AC!Answer
<1> QED BY <1>0, <1>1, <1>2, <1>3, <1>5, <1>6, <1>7 DEF TokenInv

\* The second halves of the handlers.
LEMMA StepApply ==
  ASSUME AC!AccountsAssumption, TokenInv, NEW c \in acCalls, AC!Apply(c)
  PROVE  TokenInv'
<1>0. /\ Numbers /\ \A d \in acCalls : Carries(d) /\ Carries(c)
      /\ acPage.at \notin AC!Boxed => acCaptcha.token = AC!NoToken
      /\ {"at", "busy", "resending", "error", "done"} \subseteq DOMAIN acPage
      /\ acCookie # "next" /\ acAuth.user # "next" /\ AC!TokenIsSpentOnce
  BY DEF TokenInv
<1>n. None # "next"
  BY DEF AC!AccountsAssumption
<1>s. acCalls \ {c} \subseteq acCalls
  OBVIOUS
<1>e. acCalls \ {c} = (acCalls \ {c}) \cup {}
  OBVIOUS
<1>m. ASSUME NEW new, {"at", "busy", "resending", "error", "done"} \subseteq DOMAIN new, new.at = acPage.at,
             AC!Update(c, new)
      PROVE  /\ {"at", "busy", "resending", "error", "done"} \subseteq DOMAIN acPage'
             /\ acPage'.at = acPage.at
  BY <1>0, <1>m DEF AC!Update
<1>r. ASSUME NEW goal
      PROVE  LET d == [AC!Refresh(goal) EXCEPT !.mine = c.mine]
             IN  Carries(AC!Refresh(goal)) /\ Carries(d) /\ d.arg = goal
  BY <1>0, <1>n DEF Carries, AC!Refresh, AC!Call, Numbers, AC!NoToken
<1>1. CASE AC!ApplyMe(c)
  <2>1. acAuth'.user # "next" /\ acCookie' = acCookie
    BY <1>0, <1>1, <1>n DEF AC!ApplyMe, Carries
  <2>2. CASE \E at : AC!GoTo(at, acCalls \ {c})
    BY <1>s, <2>1, <2>2, Leaving
  <2>3. CASE ~\E at : AC!GoTo(at, acCalls \ {c})
    <3> DEFINE new == IF c.arg = "resent" THEN [acPage EXCEPT !.resending = FALSE] ELSE acPage
    <3>1. c.arg # "next" /\ AC!Update(c, new) /\ acCalls' = acCalls \ {c} /\ acCaptcha' = acCaptcha
      BY <1>1, <2>3 DEF AC!ApplyMe
    <3>2. {"at", "busy", "resending", "error", "done"} \subseteq DOMAIN new /\ new.at = acPage.at
      BY <1>0
    <3>3. c.token = AC!NoToken
      BY <1>0, <1>1 DEF AC!ApplyMe, Carries, AC!Boxed
    <3>4. /\ {"at", "busy", "resending", "error", "done"} \subseteq DOMAIN acPage'
          /\ acPage'.at = acPage.at
      BY <1>m, <3>1, <3>2
    <3>5. acCalls' = (acCalls \ {c}) \cup {} /\ c.arg # "next" /\ acCaptcha' = acCaptcha
      BY <3>1
    <3> HIDE DEF new
    <3> QED BY <1>0, <2>1, <3>3, <3>4, <3>5, Applied
  <2> QED BY <2>2, <2>3
<1>2. CASE AC!ApplySignIn(c)
  <2> DEFINE d == [AC!Refresh("next") EXCEPT !.mine = c.mine]
  <2>1. /\ acCalls' = (acCalls \ {c}) \cup {d} /\ acCaptcha' = acCaptcha /\ acCookie' = acCookie
        /\ acAuth' = acAuth /\ acPage' = acPage
    BY <1>2 DEF AC!ApplySignIn
  <2>2. Carries(d) /\ d.arg = "next"
    BY <1>r
  <2> HIDE DEF d
  <2> QED BY <1>0, <2>1, <2>2, Applied
<1>3. CASE AC!ApplyError(c)
  <2>1. c.op # "me" /\ c.arg # "next"
    BY <1>0, <1>3 DEF AC!ApplyError, AC!Told, AC!Forms, AC!Boxed, Carries
  <2>2. /\ AC!Update(c, [AC!Freed(c) EXCEPT !.error = TRUE]) /\ acCaptcha' = AC!ResetBox(c)
        /\ acCalls' = acCalls \ {c} /\ acCookie' = acCookie /\ acAuth' = acAuth
    BY <1>3 DEF AC!ApplyError
  <2>3. /\ {"at", "busy", "resending", "error", "done"} \subseteq DOMAIN acPage'
        /\ acPage'.at = acPage.at
    <3> DEFINE new == [AC!Freed(c) EXCEPT !.error = TRUE]
    <3>1. /\ {"at", "busy", "resending", "error", "done"} \subseteq DOMAIN new
          /\ new.at = acPage.at
      BY <1>0 DEF AC!Freed
    <3>2. AC!Update(c, new)
      BY <2>2
    <3> HIDE DEF new
    <3> QED BY <1>m, <3>1, <3>2
  <2>4. CASE c.mine /\ c.op \in AC!Boxed
    <3>1. acCaptcha' = [acCaptcha EXCEPT !.token = AC!NoToken]
      BY <2>2, <2>4 DEF AC!ResetBox
    <3>2. /\ Numbers' /\ acCaptcha'.token = AC!NoToken /\ AC!TokenIsSpentOnce'
          /\ acCaptcha'.ticked = acCaptcha.ticked
      BY <1>0, <3>1, Emptied
    <3>3. \A d \in acCalls' : Carries(d)'
      BY <1>0, <2>2, <2>3, <3>2 DEF Carries
    <3> QED BY <1>0, <2>2, <2>3, <3>2, <3>3 DEF TokenInv
  <2>5. CASE ~(c.mine /\ c.op \in AC!Boxed)
    <3>1. acCaptcha' = acCaptcha
      BY <2>2, <2>5 DEF AC!ResetBox
    <3>2. c.token # acCaptcha.token \/ c.token = AC!NoToken
      BY <1>0, <2>5 DEF Carries
    <3> QED BY <1>0, <1>e, <2>1, <2>2, <2>3, <3>1, <3>2, Applied
  <2> QED BY <2>4, <2>5
<1>4. CASE AC!ApplyDone(c)
  <2>1. c.op # "me" /\ c.arg # "next"
    BY <1>0, <1>4 DEF AC!ApplyDone, Carries
  <2>2. /\ AC!Update(c, [acPage EXCEPT !.busy = FALSE, !.done = c.op # "account"])
        /\ acCalls' = acCalls \ {c} /\ acCookie' = acCookie /\ acAuth' = acAuth
             /\ acCaptcha' = AC!ResetBox(c)
    BY <1>4 DEF AC!ApplyDone
  <2>3. {"at", "busy", "resending", "error", "done"} \subseteq DOMAIN acPage'
          /\ acPage'.at = acPage.at
    BY <1>0, <2>2 DEF AC!Update
  <2>4. CASE c.mine /\ c.op \in AC!Boxed
    <3>1. acCaptcha' = [acCaptcha EXCEPT !.token = AC!NoToken]
      BY <2>2, <2>4 DEF AC!ResetBox
    <3>2. /\ Numbers' /\ acCaptcha'.token = AC!NoToken /\ AC!TokenIsSpentOnce'
          /\ acCaptcha'.ticked = acCaptcha.ticked
      BY <1>0, <3>1, Emptied
    <3>3. \A d \in acCalls' : Carries(d)'
      BY <1>0, <2>2, <2>3, <3>2 DEF Carries
    <3> QED BY <1>0, <2>2, <2>3, <3>2, <3>3 DEF TokenInv
  <2>5. CASE ~(c.mine /\ c.op \in AC!Boxed)
    <3>1. acCaptcha' = acCaptcha
      BY <2>2, <2>5 DEF AC!ResetBox
    <3>2. c.token # acCaptcha.token \/ c.token = AC!NoToken
      BY <1>0, <2>5 DEF Carries
    <3> QED BY <1>0, <1>e, <2>1, <2>2, <2>3, <3>1, <3>2, Applied
  <2> QED BY <2>4, <2>5
<1>5. CASE AC!ApplyResent(c)
  <2> DEFINE d == [AC!Refresh("resent") EXCEPT !.mine = c.mine]
  <2>1. /\ acCalls' = (acCalls \ {c}) \cup {d} /\ acCaptcha' = acCaptcha /\ acCookie' = acCookie
        /\ acAuth' = acAuth /\ acPage' = acPage /\ c.op = "resend"
    BY <1>5 DEF AC!ApplyResent
  <2>2. Carries(d)
    BY <1>r
  <2>3. c.token = AC!NoToken /\ c.arg # "next"
    BY <1>0, <2>1 DEF Carries, AC!Boxed
  <2> HIDE DEF d
  <2> QED BY <1>0, <2>1, <2>2, <2>3, Applied
<1>6. CASE AC!ApplyVerify(c)
  <2> DEFINE ds == IF c.ans = "ok" THEN {AC!Refresh("verified")} ELSE {}
  <2>1. /\ acCalls' = (acCalls \ {c}) \cup ds /\ acCaptcha' = acCaptcha /\ acCookie' = acCookie
        /\ acAuth' = acAuth /\ c.op = "verify"
        /\ acPage' = IF c.ans = "ok" THEN [acPage EXCEPT !.done = TRUE] ELSE [acPage EXCEPT !.error = TRUE]
    BY <1>6 DEF AC!ApplyVerify
  <2>2. \A d \in ds : Carries(d)
    BY <1>r
  <2>3. c.token = AC!NoToken /\ c.arg # "next"
    BY <1>0, <2>1 DEF Carries, AC!Boxed
  <2>4. /\ {"at", "busy", "resending", "error", "done"} \subseteq DOMAIN acPage'
        /\ acPage'.at = acPage.at
    BY <1>0, <2>1
  <2> HIDE DEF ds
  <2> QED BY <1>0, <2>1, <2>2, <2>3, <2>4, Applied
<1>7. CASE AC!ApplyLogout(c)
  <2>1. CASE c.ans = "ok"
    <3>1. (\E at : AC!GoTo(at, acCalls \ {c})) /\ acAuth'.user = None /\ acCookie' = acCookie
      BY <1>7, <2>1 DEF AC!ApplyLogout
    <3> QED BY <1>n, <1>s, <3>1, Leaving
  <2>2. CASE c.ans # "ok"
    <3>1. /\ acCalls' = acCalls \ {c} /\ acCookie' = acCookie /\ acAuth' = acAuth
               /\ acPage' = acPage
          /\ acCaptcha' = acCaptcha /\ c.op = "logout"
      BY <1>7, <2>2 DEF AC!ApplyLogout
    <3>2. c.token = AC!NoToken /\ c.arg # "next"
      BY <1>0, <3>1 DEF Carries, AC!Boxed
    <3> QED BY <1>0, <1>e, <3>1, <3>2, Applied
  <2> QED BY <2>1, <2>2
<1> QED BY <1>1, <1>2, <1>3, <1>4, <1>5, <1>6, <1>7 DEF AC!Apply

(***************************************************************************)
(* Each group of pages among the others                                    *)
(***************************************************************************)

\* Whatever moves, the other groups of pages stay away.
LEMMA CheckoutMoves ==
  ASSUME [FrontNext]_allVars, screen = "checkout"
  PROVE  screen' = screen /\ \/ UNCHANGED coVars
                             \/ CO!Visit \/ CO!SwitchCurrency \/ CO!Confirm \/ CO!Pay
                             \/ CO!PollTimer
                             \/ CO!PayAway \/ CO!Abandon \/ CO!Reload
                             \/ \E m \in coModals : CO!PayInWindow(m) \/ CO!Dismiss(m)
                             \/ CO!Webhook \/ CO!Clears \/ CO!OthersAct
                             \/ \E c \in coCalls : CO!Answer(c) \/ CO!Fail(c)
                             \/ \E c \in coCalls : CO!ApplyMe(c) \/ CO!ApplyBalance(c)
                                  \/ CO!SignedOut(c)
                             \/ \E c \in coCalls : CO!ApplyPacks(c) \/ CO!ApplySession(c)
                                  \/ CO!ApplyConfirm(c)
                             \/ \E c \in coCalls : CO!ApplyStart(c) \/ CO!ApplyHandOver(c)
                                  \/ CO!ApplyVerify(c) \/ CO!ApplySeat(c)
<1>1. CASE UNCHANGED allVars
  BY <1>1 DEF allVars
<1>2. CASE FrontNext
  BY <1>2 DEF FrontNext, CheckoutOnly, AccountsOnly, BookingsOnly, DeskOnly, CalendarOnly,
             SessionOnly, TrainerOnly
<1> QED BY <1>1, <1>2

LEMMA CheckoutStep ==
  ASSUME [FrontNext]_allVars, screen = "checkout" => BuyerInv
  PROVE  (screen = "checkout" => BuyerInv)'
<1>s. screen' = screen
  BY DEF FrontNext, allVars, CheckoutOnly, AccountsOnly, BookingsOnly, DeskOnly, CalendarOnly,
          SessionOnly, TrainerOnly
<1> SUFFICES ASSUME screen = "checkout", BuyerInv PROVE BuyerInv'
  BY <1>s
<1>a. CO!CheckoutAssumption
  BY FrontendAssumption DEF FrontendAssumption
<1>1. CASE UNCHANGED coVars
  BY <1>1 DEF coVars, BuyerInv, CheckoutInv, KeptInv, Won, CO!Took, Data, Tab, Screen,
              CO!ShownIsCharged, CO!BusyHasAReason
<1>0. CheckoutInv /\ KeptInv
  BY DEF BuyerInv
<1>2. ASSUME ~UNCHANGED coVars PROVE CheckoutInv'
  BY <1>0, <1>2, <1>a, CheckoutMoves, StepPress, StepProvider, StepServer, StepUser, StepBuy, StepSettle
<1>3. ASSUME ~UNCHANGED coVars PROVE KeptInv'
  BY <1>0, <1>3, <1>a, CheckoutMoves, KeptOutside, KeptAnswered, KeptApplied
<1> QED BY <1>1, <1>2, <1>3 DEF BuyerInv

LEMMA CheckoutKept == FrontSpec => [](screen = "checkout" => BuyerInv)
<1>1. FrontInit => (screen = "checkout" => BuyerInv)
  BY FrontendAssumption, InitCheckout, InitKept DEF BuyerInv, FrontendAssumption, FrontInit
<1> QED BY <1>1, CheckoutStep, PTL DEF FrontSpec

LEMMA AccountsMoves ==
  ASSUME [FrontNext]_allVars, screen = "accounts"
  PROVE  screen' = screen /\ \/ UNCHANGED acVars
                             \/ AC!Open \/ AC!LoadScript \/ AC!TickBox \/ AC!DropToken
                             \/ AC!Submit \/ AC!Resend \/ AC!Google \/ AC!SignOut
                             \/ \E c \in acCalls : AC!Answer(c)
                             \/ \E c \in acCalls : AC!Apply(c)
<1>1. CASE UNCHANGED allVars
  BY <1>1 DEF allVars
<1>2. CASE FrontNext
  BY <1>2 DEF FrontNext, AC!Apply, AccountsOnly, CheckoutOnly, BookingsOnly, DeskOnly,
             CalendarOnly, SessionOnly, TrainerOnly
<1> QED BY <1>1, <1>2

LEMMA AccountsStep ==
  ASSUME [FrontNext]_allVars, screen = "accounts" => TokenInv
  PROVE  (screen = "accounts" => TokenInv)'
<1>s. screen' = screen
  BY DEF FrontNext, allVars, CheckoutOnly, AccountsOnly, BookingsOnly, DeskOnly, CalendarOnly,
          SessionOnly, TrainerOnly
<1> SUFFICES ASSUME screen = "accounts", TokenInv PROVE TokenInv'
  BY <1>s
<1>a. AC!AccountsAssumption
  BY FrontendAssumption DEF FrontendAssumption
<1>1. CASE UNCHANGED acVars
  BY <1>1 DEF acVars, TokenInv, Numbers, Carries, AC!TokenIsSpentOnce
<1> QED BY <1>a, <1>1, AccountsMoves, StepVisitor, StepAnswer, StepApply

LEMMA AccountsKept == FrontSpec => [](screen = "accounts" => TokenInv)
<1>1. FrontInit => (screen = "accounts" => TokenInv)
  BY FrontendAssumption, InitToken DEF FrontendAssumption, FrontInit
<1> QED BY <1>1, AccountsStep, PTL DEF FrontSpec

(***************************************************************************)
(* Types: the checkout's from what is known of it, the accounts pages'     *)
(* with what their requests may be                                         *)
(***************************************************************************)

\* The checkout's invariant has its types in it.
LEMMA CheckoutTyped == CheckoutInv => CO!TypeOK
<1> SUFFICES ASSUME CheckoutInv PROVE CO!TypeOK
  OBVIOUS
<1>1. coServer \in ServerType
  BY DEF CheckoutInv, Data
<1>2. coAuth \in AuthType /\ coCurrency \in Currencies /\ coPending \in CO!Records \cup {None}
  BY DEF CheckoutInv, Tab
<1>3. /\ coPage.at \in CO!Screens /\ coPage.sid \in Discussions \cup {None}
      /\ coPage.pay \in PayIds \cup {None}
      /\ coPage.at = "seat" <=> coPage.sid # None
      /\ coPage.at \in {"away", "success"} <=> coPage.pay # None
  BY DEF CheckoutInv, Screen, PageOK, PageType
<1>4. \A c \in coCalls : c.op = "me" => c.arg \in CO!Goals
  BY DEF CheckoutInv, Screen, CallOK
<1> QED BY <1>1, <1>2, <1>3, <1>4 DEF CO!TypeOK, ServerType, OrderType, Money, AuthType

\* What a request of these pages may be; only a refresh, a logout and a
\* verification name nobody.
AcCall ==
  [op : AC!Forms \cup {"me", "google", "google up", "resend", "verify", "logout"},
   arg : Users \cup {None, "load", "next", "resent", "verified"},
   token : 0..MaxTokens, code : Codes \cup {None}, mine : BOOLEAN,
   ans : {"none", "ok", "refused"}, who : Users \cup {None}]
AcCallOK(c) == c \in AcCall /\ (c.op \in {"me", "verify", "logout"} \/ c.arg \in Users)
AcTypeInv == AC!TypeOK /\ \A c \in acCalls : AcCallOK(c)

LEMMA AcNames ==
  /\ AC!Boxed = {"login", "register", "forgot", "contact"}
  /\ AC!Forms = {"login", "register", "forgot", "contact", "reset", "account"}
  /\ AC!Pages = {"login", "register", "forgot", "contact", "reset", "account", "verify", "home"}
BY DEF AC!Boxed, AC!Forms, AC!Pages

\* What the pages send is a request of these.
LEMMA AcCalled ==
  ASSUME AC!AccountsAssumption
  PROVE  /\ \A g \in {"load", "next", "resent", "verified"}, m \in BOOLEAN :
              AcCallOK(AC!Refresh(g)) /\ AcCallOK([AC!Refresh(g) EXCEPT !.mine = m])
         /\ \A op \in {"verify", "logout"} : AcCallOK(AC!Call(op, None))
         /\ \A op \in AC!Forms \cup {"google", "google up", "resend"}, u \in Users,
              t \in 0..MaxTokens, k \in Codes \cup {None} :
              /\ AcCallOK(AC!Call(op, u))
              /\ AcCallOK([AC!Call(op, u) EXCEPT !.code = k])
              /\ AcCallOK([AC!Call(op, u) EXCEPT !.token = t, !.code = k])
<1>1. 0 \in 0..MaxTokens
  BY DEF AC!AccountsAssumption
<1>2. ASSUME NEW g \in {"load", "next", "resent", "verified"}, NEW m \in BOOLEAN
      PROVE  AcCallOK(AC!Refresh(g)) /\ AcCallOK([AC!Refresh(g) EXCEPT !.mine = m])
  BY <1>1 DEF AcCallOK, AcCall, AC!Refresh, AC!Call, AC!NoToken
<1>3. ASSUME NEW op \in {"verify", "logout"} PROVE AcCallOK(AC!Call(op, None))
  BY <1>1 DEF AcCallOK, AcCall, AC!Call, AC!NoToken
<1>4. ASSUME NEW op \in AC!Forms \cup {"google", "google up", "resend"}, NEW u \in Users,
             NEW t \in 0..MaxTokens, NEW k \in Codes \cup {None}
      PROVE  /\ AcCallOK(AC!Call(op, u))
             /\ AcCallOK([AC!Call(op, u) EXCEPT !.code = k])
             /\ AcCallOK([AC!Call(op, u) EXCEPT !.token = t, !.code = k])
  BY <1>1 DEF AcCallOK, AcCall, AC!Call, AC!NoToken
<1> QED BY <1>2, <1>3, <1>4

\* A page opened.
LEMMA AcGoes ==
  ASSUME AC!AccountsAssumption, AcTypeInv, NEW at \in AC!Pages, NEW cs, cs \subseteq acCalls,
         AC!GoTo(at, cs), UNCHANGED <<acCookie, acAccounts>>,
         acAuth' \in [user : Users \cup {None}, loading : BOOLEAN], acCode' \in Codes \cup {None}
  PROVE  AcTypeInv'
<1>0. 0 \in 0..MaxTokens
  BY DEF AC!AccountsAssumption
<1>1. PICK there \in AC!Pages : acPage' = AC!Fresh(there)
  BY AcNames DEF AC!GoTo
<1>2. acCaptcha' = [acCaptcha EXCEPT !.token = AC!NoToken]
  BY DEF AC!GoTo
<1>3. acCalls' \subseteq AC!Orphaned(cs) \cup {AC!Call("verify", None)}
  BY DEF AC!GoTo
<1>4. \A c \in AC!Orphaned(cs) : AcCallOK(c)
  <2> SUFFICES ASSUME NEW d \in cs PROVE AcCallOK([d EXCEPT !.mine = FALSE])
    BY DEF AC!Orphaned
  <2>1. AcCallOK(d)
    BY DEF AcTypeInv
  <2> QED BY <2>1 DEF AcCallOK, AcCall
<1>5. \A c \in acCalls' : AcCallOK(c)
  <2>1. AcCallOK(AC!Call("verify", None))
    BY AcCalled
  <2> QED BY <1>3, <1>4, <2>1
<1>6. AC!TypeOK'
  BY <1>0, <1>1, <1>2, <1>5 DEF AcTypeInv, AC!TypeOK, AC!Fresh, AC!NoToken, AcCallOK, AcCall
<1> QED BY <1>5, <1>6 DEF AcTypeInv, AcCallOK, AcCall

\* A form sent.
LEMMA AcSent ==
  ASSUME AcTypeInv, NEW c, AcCallOK(c), AC!Send(c)
  PROVE  AcTypeInv'
<1>1. \A d \in acCalls' : AcCallOK(d)
  BY DEF AC!Send, AcTypeInv
<1>2. acPage' \in [at : AC!Pages, busy : BOOLEAN, resending : BOOLEAN, error : BOOLEAN, done : BOOLEAN]
  BY DEF AC!Send, AcTypeInv, AC!TypeOK
<1>3. AC!TypeOK'
  BY <1>1, <1>2 DEF AcTypeInv, AC!TypeOK, AC!Send, AcCallOK, AcCall
<1> QED BY <1>1, <1>3 DEF AcTypeInv, AcCallOK, AcCall

LEMMA AcTypeInit == AC!AccountsAssumption /\ AC!Init => AcTypeInv
<1> SUFFICES ASSUME AC!AccountsAssumption, AC!Init PROVE AcTypeInv
  OBVIOUS
<1>1. \A c \in acCalls : AcCallOK(c)
  BY AcCalled DEF AC!Init
<1>2. 0 \in 0..MaxTokens
  BY DEF AC!AccountsAssumption
<1>3. AC!TypeOK
  BY <1>1, <1>2, AcNames DEF AC!Init, AC!TypeOK, AC!Fresh, AC!NoToken, AcCallOK, AcCall
<1> QED BY <1>1, <1>3 DEF AcTypeInv

\* What the visitor does keeps the types.
LEMMA AcTypeVisitor ==
  ASSUME AC!AccountsAssumption, AcTypeInv,
         AC!Open \/ AC!LoadScript \/ AC!TickBox \/ AC!DropToken \/ AC!Submit \/ AC!Resend
           \/ AC!Google \/ AC!SignOut
  PROVE  AcTypeInv'
<1>0. AC!TypeOK /\ \A c \in acCalls : AcCallOK(c)
  BY DEF AcTypeInv
<1>m. MaxTokens \in Nat
  BY DEF AC!AccountsAssumption
<1>z. 0 \in 0..MaxTokens
  BY <1>m
<1>c. acCaptcha \in [script : {"absent", "loaded"}, token : 0..MaxTokens, ticked : 0..MaxTokens,
                    refused : SUBSET (1..MaxTokens)]
  BY <1>0 DEF AC!TypeOK
<1>k. ASSUME UNCHANGED <<acCookie, acAccounts, acAuth, acCode, acPage, acCalls>>,
             acCaptcha' \in [script : {"absent", "loaded"}, token : 0..MaxTokens,
                             ticked : 0..MaxTokens, refused : SUBSET (1..MaxTokens)]
      PROVE  AcTypeInv'
  BY <1>0, <1>k DEF AcTypeInv, AC!TypeOK, AcCallOK, AcCall
<1>1. CASE AC!Open
  <2>1. PICK at \in AC!Pages, r \in Codes \cup {None} :
          acCode' = (IF r = None THEN acCode ELSE r) /\ UNCHANGED acAuth /\ AC!GoTo(at, acCalls)
    BY <1>1 DEF AC!Open
  <2> QED BY <1>0, <1>1, <2>1, AcGoes DEF AC!Open, AC!TypeOK
<1>2. CASE AC!LoadScript
  BY <1>0, <1>2 DEF AC!LoadScript, AcTypeInv, AC!TypeOK, AcCallOK, AcCall
<1>3. CASE AC!TickBox
  <2>1. acCaptcha.ticked + 1 \in 0..MaxTokens
    BY <1>c, <1>3, <1>m DEF AC!TickBox
  <2> QED BY <1>c, <1>k, <1>3, <2>1 DEF AC!TickBox
<1>4. CASE AC!DropToken
  BY <1>c, <1>k, <1>4, <1>m DEF AC!DropToken, AC!NoToken
<1>5. CASE AC!Submit
  <2> DEFINE new(u) == [AC!Call(acPage.at, u) EXCEPT !.token = acCaptcha.token,
                         !.code = IF acPage.at = "register" THEN AC!SignupCode ELSE None]
  <2>1. PICK u \in Users : AC!Send(new(u))
    BY <1>5 DEF AC!Submit
  <2>2. acPage.at \in AC!Forms
    BY <1>5, AcNames DEF AC!Submit, AC!LoginButton, AC!RegisterButton, AC!ForgotButton, AC!ContactButton,
          AC!ResetButton, AC!PasswordButton
  <2>3. acCaptcha.token \in 0..MaxTokens /\ AC!SignupCode \in Codes \cup {None}
    BY <1>0 DEF AC!TypeOK, AC!SignupCode
  <2>4. AcCallOK(new(u))
    BY <2>2, <2>3, AcCalled
  <2> HIDE DEF new
  <2> QED BY <2>1, <2>4, AcSent
<1>6. CASE AC!Resend
  <2>1. acAuth.user \in Users
    BY <1>0, <1>6 DEF AC!Resend, AC!ResendButton, AC!TypeOK
  <2>2. AcCallOK(AC!Call("resend", acAuth.user))
    BY <1>z, <2>1, AcCalled
  <2> QED BY <1>6, <2>2, AcSent DEF AC!Resend
<1>7. CASE AC!Google
  <2>1. PICK u \in Users : \/ AC!Send(AC!Call("google", u))
                           \/ AC!Send([AC!Call("google up", u) EXCEPT !.code = AC!SignupCode])
    BY <1>7 DEF AC!Google
  <2>2. AC!SignupCode \in Codes \cup {None}
    BY <1>0 DEF AC!TypeOK, AC!SignupCode
  <2>3. /\ AcCallOK(AC!Call("google", u))
        /\ AcCallOK([AC!Call("google up", u) EXCEPT !.code = AC!SignupCode])
    BY <1>z, <2>2, AcCalled
  <2> QED BY <2>1, <2>3, AcSent
<1>8. CASE AC!SignOut
  <2>1. \A d \in acCalls' : AcCallOK(d)
    BY <1>0, <1>8, AcCalled DEF AC!SignOut
  <2>2. AC!TypeOK'
    BY <1>0, <1>8, <2>1 DEF AC!SignOut, AC!TypeOK, AcCallOK, AcCall
  <2> QED BY <2>1, <2>2 DEF AcTypeInv, AcCallOK, AcCall
<1> QED BY <1>1, <1>2, <1>3, <1>4, <1>5, <1>6, <1>7, <1>8

\* So does the server, which signs in only somebody.
LEMMA AcTypeAnswer ==
  ASSUME AC!AccountsAssumption, AcTypeInv, NEW c \in acCalls, AC!Answer(c)
  PROVE  AcTypeInv'
<1>0. AC!TypeOK /\ AcCallOK(c) /\ \A d \in acCalls : AcCallOK(d)
  BY DEF AcTypeInv
<1>1. acCookie' \in Users \cup {None} /\ acAccounts' \in [Users -> {"none", "plain", "referred"}]
  <2>1. CASE AC!Grants(c)
    <3>1. CASE c.op \in {"login", "register", "google", "google up", "reset"}
      <4>1. c.arg \in Users
        BY <1>0, <3>1 DEF AcCallOK
      <4>2. acCookie' = c.arg
        BY <2>1, <3>1 DEF AC!Grants
      <4>3. \/ acAccounts' = acAccounts
            \/ \E v \in {"none", "plain", "referred"} :
                 acAccounts' = [acAccounts EXCEPT ![c.arg] = v]
        <5>1. acAccounts[c.arg] \in {"none", "plain", "referred"}
          BY <1>0, <4>1 DEF AC!TypeOK
        <5>2. CASE c.op \in {"login", "reset"}
          BY <2>1, <5>2 DEF AC!Grants
        <5>3. CASE c.op = "register"
          BY <2>1, <5>3 DEF AC!Grants
        <5>4. CASE c.op \in {"google", "google up"}
          <6> DEFINE v == IF acAccounts[c.arg] # "none" THEN acAccounts[c.arg]
                          ELSE IF c.code = None THEN "plain" ELSE "referred"
          <6>1. acAccounts' = [acAccounts EXCEPT ![c.arg] = v]
            BY <2>1, <5>4 DEF AC!Grants
          <6>2. v \in {"none", "plain", "referred"}
            BY <5>1
          <6> QED BY <6>1, <6>2
        <5> QED BY <3>1, <5>2, <5>3, <5>4
      <4>4. acAccounts \in [Users -> {"none", "plain", "referred"}]
        BY <1>0 DEF AC!TypeOK
      <4>5. acAccounts' \in [Users -> {"none", "plain", "referred"}]
        BY <4>1, <4>3, <4>4
      <4> QED BY <4>1, <4>2, <4>5
    <3>2. CASE c.op \notin {"login", "register", "google", "google up", "reset"}
      BY <1>0, <2>1, <3>2 DEF AC!Grants, AC!TypeOK
    <3> QED BY <3>1, <3>2
  <2>2. CASE UNCHANGED <<acCookie, acAccounts>>
    BY <1>0, <2>2 DEF AC!TypeOK
  <2> QED BY <2>1, <2>2 DEF AC!Answer
<1>2. \A d \in acCalls' : AcCallOK(d)
  <2>1. \A a \in {"ok", "refused"}, w \in Users \cup {None} :
          AcCallOK([c EXCEPT !.ans = a, !.who = w]) /\ AcCallOK([c EXCEPT !.ans = a])
    BY <1>0 DEF AcCallOK, AcCall
  <2>2. PICK e : AcCallOK(e) /\ acCalls' = (acCalls \ {c}) \cup {e}
    <3>1. CASE \E a \in {"ok", "refused"} :
                 acCalls' = (acCalls \ {c}) \cup {[c EXCEPT !.ans = a, !.who = acCookie]}
      BY <1>0, <2>1, <3>1 DEF AC!TypeOK
    <3>2. CASE acCalls' = (acCalls \ {c}) \cup {[c EXCEPT !.ans = "refused"]}
      BY <2>1, <3>2
    <3> QED BY <3>1, <3>2 DEF AC!Answer
  <2> QED BY <1>0, <2>2
<1>3. acCaptcha' \in [script : {"absent", "loaded"}, token : 0..MaxTokens, ticked : 0..MaxTokens,
                      refused : SUBSET (1..MaxTokens)]
  <2>1. c.token \in 0..MaxTokens
    BY <1>0 DEF AcCallOK, AcCall
  <2>2. {c.token} \ {AC!NoToken} \subseteq 1..MaxTokens
    BY <2>1 DEF AC!NoToken
  <2> QED BY <1>0, <2>2 DEF AC!Answer, AC!TypeOK
<1>4. AC!TypeOK'
  BY <1>0, <1>1, <1>2, <1>3 DEF AC!Answer, AC!TypeOK, AcCallOK, AcCall
<1> QED BY <1>2, <1>4 DEF AcTypeInv, AcCallOK, AcCall

\* So do the handlers.
LEMMA AcTypeApply ==
  ASSUME AC!AccountsAssumption, AcTypeInv, NEW c \in acCalls, AC!Apply(c)
  PROVE  AcTypeInv'
<1>0. /\ AC!TypeOK /\ AcCallOK(c) /\ \A d \in acCalls : AcCallOK(d)
      /\ c.mine \in BOOLEAN /\ c.who \in Users \cup {None}
  BY DEF AcTypeInv, AcCallOK, AcCall
<1>m. 0 \in 0..MaxTokens
  BY DEF AC!AccountsAssumption
<1>s. acCalls \ {c} \subseteq acCalls
  OBVIOUS
<1> DEFINE AcPageType == [at : AC!Pages, busy : BOOLEAN, resending : BOOLEAN, error : BOOLEAN,
                        done : BOOLEAN]
<1>p. /\ acPage \in AcPageType /\ [acPage EXCEPT !.resending = FALSE] \in AcPageType
      /\ [AC!Freed(c) EXCEPT !.error = TRUE] \in AcPageType
      /\ \A b \in BOOLEAN : [acPage EXCEPT !.busy = FALSE, !.done = b] \in AcPageType
      /\ [acPage EXCEPT !.done = TRUE] \in AcPageType /\ [acPage EXCEPT !.error = TRUE] \in AcPageType
  BY <1>0 DEF AC!TypeOK, AC!Freed
<1>u. ASSUME NEW new \in AcPageType, AC!Update(c, new) PROVE acPage' \in AcPageType
  BY <1>p, <1>u DEF AC!Update
<1>b. AC!ResetBox(c) \in [script : {"absent", "loaded"}, token : 0..MaxTokens, ticked : 0..MaxTokens,
                          refused : SUBSET (1..MaxTokens)]
  BY <1>0, <1>m DEF AC!TypeOK, AC!ResetBox, AC!NoToken
<1>k. ASSUME acCookie' = acCookie, acAccounts' = acAccounts, acAuth' = acAuth,
             acCode' \in {acCode, None}, acPage' \in AcPageType,
             acCaptcha' \in {acCaptcha, AC!ResetBox(c)}, \A d \in acCalls' : AcCallOK(d)
      PROVE  AcTypeInv'
  <2>1. AC!TypeOK'
    <3>1. acCode' \in Codes \cup {None}
      BY <1>0, <1>k DEF AC!TypeOK
    <3>2. acCaptcha' \in [script : {"absent", "loaded"}, token : 0..MaxTokens,
                          ticked : 0..MaxTokens, refused : SUBSET (1..MaxTokens)]
      <4>1. CASE acCaptcha' = acCaptcha BY <1>0, <4>1 DEF AC!TypeOK
      <4>2. CASE acCaptcha' = AC!ResetBox(c) BY <1>b, <4>2
      <4> QED BY <1>k, <4>1, <4>2
    <3>3. \A d \in acCalls' :
            d.op \in AC!Forms \cup {"me", "google", "google up", "resend", "verify", "logout"}
      BY <1>k DEF AcCallOK, AcCall
    <3> QED BY <1>0, <1>k, <3>1, <3>2, <3>3 DEF AC!TypeOK, AcPageType
  <2> QED BY <1>k, <2>1 DEF AcTypeInv, AcCallOK, AcCall
<1> HIDE DEF AcPageType
<1>1. CASE AC!ApplyMe(c)
  <2>1. acAuth' \in [user : Users \cup {None}, loading : BOOLEAN]
    BY <1>0, <1>1 DEF AC!ApplyMe
  <2>2. UNCHANGED <<acCookie, acAccounts, acCode>> /\ acCode \in Codes \cup {None}
    BY <1>0, <1>1 DEF AC!ApplyMe, AC!TypeOK
  <2>3. CASE \E at \in {"home", "login"} : AC!GoTo(at, acCalls \ {c})
    BY <1>s, <2>1, <2>2, <2>3, AcGoes, AcNames
  <2>4. CASE ~\E at \in {"home", "login"} : AC!GoTo(at, acCalls \ {c})
    <3> DEFINE new == IF c.arg = "resent" THEN [acPage EXCEPT !.resending = FALSE] ELSE acPage
    <3>1. AC!Update(c, new) /\ acCalls' = acCalls \ {c} /\ acCaptcha' = acCaptcha
      BY <1>1, <2>4 DEF AC!ApplyMe
    <3>2. new \in AcPageType
      BY <1>p
    <3> HIDE DEF new
    <3>3. acPage' \in AcPageType
      BY <1>u, <3>1, <3>2
    <3>4. AC!TypeOK'
      BY <1>0, <2>1, <2>2, <3>1, <3>3 DEF AC!TypeOK, AcPageType
    <3> QED BY <1>0, <3>1, <3>4 DEF AcTypeInv, AcCallOK, AcCall
  <2> QED BY <2>3, <2>4
<1>2. CASE AC!ApplySignIn(c)
  <2>1. \A d \in acCalls' : AcCallOK(d)
    BY <1>0, <1>2, AcCalled DEF AC!ApplySignIn
  <2> QED BY <1>2, <1>k, <1>p, <2>1 DEF AC!ApplySignIn
<1>3. CASE AC!ApplyError(c)
  <2>1. AC!Update(c, [AC!Freed(c) EXCEPT !.error = TRUE])
    BY <1>3 DEF AC!ApplyError
  <2>2. acPage' \in AcPageType
    BY <1>p, <1>u, <2>1
  <2> QED BY <1>0, <1>3, <1>k, <2>2 DEF AC!ApplyError
<1>4. CASE AC!ApplyDone(c)
  <2>1. AC!Update(c, [acPage EXCEPT !.busy = FALSE, !.done = c.op # "account"])
    BY <1>4 DEF AC!ApplyDone
  <2>2. acPage' \in AcPageType
    BY <1>p, <1>u, <2>1
  <2> QED BY <1>0, <1>4, <1>k, <2>2 DEF AC!ApplyDone
<1>5. CASE AC!ApplyResent(c)
  <2>1. \A d \in acCalls' : AcCallOK(d)
    BY <1>0, <1>5, AcCalled DEF AC!ApplyResent
  <2> QED BY <1>5, <1>k, <1>p, <2>1 DEF AC!ApplyResent
<1>6. CASE AC!ApplyVerify(c)
  <2>1. \A d \in acCalls' : AcCallOK(d)
    BY <1>0, <1>6, AcCalled DEF AC!ApplyVerify
  <2>2. acPage' \in AcPageType
    BY <1>6, <1>p DEF AC!ApplyVerify
  <2> QED BY <1>6, <1>k, <2>1, <2>2 DEF AC!ApplyVerify
<1>7. CASE AC!ApplyLogout(c)
  <2>1. CASE c.ans = "ok"
    <3>1. PICK at \in {"home", "login"} : AC!GoTo(at, acCalls \ {c})
      BY <1>7, <2>1 DEF AC!ApplyLogout
    <3>2. acAuth' \in [user : Users \cup {None}, loading : BOOLEAN]
      <4>1. acAuth.loading \in BOOLEAN /\ acAuth' = [user |-> None, loading |-> acAuth.loading]
        BY <1>0, <1>7, <2>1 DEF AC!ApplyLogout, AC!TypeOK
      <4> QED BY <4>1
    <3> QED BY <1>0, <1>7, <1>s, <3>1, <3>2, AcGoes, AcNames DEF AC!ApplyLogout, AC!TypeOK
  <2>2. CASE c.ans # "ok"
    <3>1. acCalls' = acCalls \ {c} /\ UNCHANGED <<acCookie, acAccounts, acAuth, acCode, acPage, acCaptcha>>
      BY <1>7, <2>2 DEF AC!ApplyLogout
    <3> QED BY <1>0, <1>k, <1>p, <3>1
  <2> QED BY <2>1, <2>2
<1> QED BY <1>1, <1>2, <1>3, <1>4, <1>5, <1>6, <1>7 DEF AC!Apply

\* Whatever moves.
LEMMA AcTypeStep ==
  ASSUME [FrontNext]_allVars, screen = "accounts" => AcTypeInv
  PROVE  (screen = "accounts" => AcTypeInv)'
<1>s. screen' = screen
  BY DEF FrontNext, allVars, CheckoutOnly, AccountsOnly, BookingsOnly, DeskOnly, CalendarOnly,
          SessionOnly, TrainerOnly
<1> SUFFICES ASSUME screen = "accounts", AcTypeInv PROVE AcTypeInv'
  BY <1>s
<1>a. AC!AccountsAssumption
  BY FrontendAssumption DEF FrontendAssumption
<1>1. CASE UNCHANGED acVars
  BY <1>1 DEF acVars, AcTypeInv, AcCallOK, AcCall, AC!TypeOK
<1> QED BY <1>a, <1>1, AccountsMoves, AcTypeVisitor, AcTypeAnswer, AcTypeApply

LEMMA AccountsTyped == FrontSpec => [](screen = "accounts" => AcTypeInv)
<1>1. FrontInit => (screen = "accounts" => AcTypeInv)
  BY FrontendAssumption, AcTypeInit DEF FrontendAssumption, FrontInit
<1> QED BY <1>1, AcTypeStep, PTL DEF FrontSpec

(***************************************************************************)
(* What the pages keep to                                                  *)
(***************************************************************************)

\* While the checkout is open, a button it has disabled has a payment window of
\* its own or a call of its own under way to wait for, whatever was pressed,
\* closed, left, reloaded, answered late or not at all.
THEOREM NoButtonIsStuck == FrontSpec => []BusyHasAReason
<1>1. (screen = "checkout" => BuyerInv) => BusyHasAReason
  BY DEF BusyHasAReason, BuyerInv, CheckoutInv, Screen
<1> QED BY <1>1, CheckoutKept, PTL

\* Every order the server opened is in the currency the pressed button quoted,
\* for any set of currencies and whichever of them the packs are sold in.
THEOREM OrdersAreAsShown == FrontSpec => []ShownIsCharged
<1>1. (screen = "checkout" => BuyerInv) => ShownIsCharged
  BY DEF ShownIsCharged, BuyerInv, CheckoutInv, Data
<1> QED BY <1>1, CheckoutKept, PTL

\* The record of what a buyer went to pay for is dropped only by a booking that
\* has its place, though answers come in any order or after the page has gone.
THEOREM RecordsAreKept == FrontSpec => RecordKept
<1>1. ASSUME [FrontNext]_allVars, screen = "checkout" => BuyerInv
      PROVE  [coPending # None /\ coPending' = None =>
                \E c \in coCalls : c \notin coCalls' /\ CO!Took(c)]_(CO!vars)
  <2> SUFFICES ASSUME coPending # None, coPending' = None
               PROVE  \E c \in coCalls : c \notin coCalls' /\ CO!Took(c)
    OBVIOUS
  <2>1. screen = "checkout" /\ ~UNCHANGED coVars
    <3>1. ~UNCHANGED coPending
      OBVIOUS
    <3> QED BY <1>1, <3>1 DEF coVars, allVars, FrontNext, CheckoutOnly, AccountsOnly, BookingsOnly,
                 DeskOnly, CalendarOnly, SessionOnly, TrainerOnly
  <2>2. CO!CheckoutAssumption /\ CheckoutInv /\ KeptInv
    BY <1>1, <2>1, FrontendAssumption DEF FrontendAssumption, BuyerInv
  <2> QED BY <1>1, <2>1, <2>2, CheckoutMoves, KeptOutside, KeptAnswered, KeptApplied
<1> QED BY <1>1, CheckoutKept, PTL DEF FrontSpec, RecordKept, CO!RecordKept

\* No visitor is left with a ticked box the server will not take, whatever was
\* tried at once and however the answers came.
THEOREM TokensAreSpentOnce == FrontSpec => []TokenIsSpentOnce
<1>1. (screen = "accounts" => TokenInv) => TokenIsSpentOnce
  BY DEF TokenIsSpentOnce, TokenInv
<1> QED BY <1>1, AccountsKept, PTL
=============================================================================
