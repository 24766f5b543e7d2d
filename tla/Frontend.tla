------------------------------ MODULE Frontend ------------------------------
(***************************************************************************)
(* The pages of the browser side by side: one group of pages is open,      *)
(* chosen at the start, and the others are away.  Each is an instance of   *)
(* its module over variables of its own; the trainer keeps its own names.  *)
(***************************************************************************)
EXTENDS Trainer

CONSTANTS
  Groups,                                   \* the groups of pages, of which one is open
  MaxTroubles, MaxClicks, MaxPolls,         \* shared by the pages that have them
  \* Checkout
  Discussions, PayIds, Currencies, SoldIn, Usd, SlotRecord, SeatPrice, PackCredits, MaxVisits,
  \* Accounts; MaxPages is its MaxVisits
  Users, Codes, MaxTokens, MaxPages, MaxRequests,
  \* My bookings; Moving are the discussions others change meanwhile
  Booked, Moving, Prices, Welcome,
  \* Desk
  Rows, Filters, First,
  \* Calendar
  Zones, BookingZone, Offset, DayLen, MonthLen, Now, Times, Months,
  \* Session desk
  MaxLive, Starts, MaxNow

VARIABLES
  screen,
  coServer, coAuth, coCurrency, coPending, coPage, coModals, coCalls, coLeft,
  acCookie, acAccounts, acAuth, acCode, acPage, acCaptcha, acCalls, acLeft,
  myServer, myCredits, myPage, myCalls, myLeft,
  deServer, dePage, deCalls, deLeft,
  caOpen, caPage, caCalls, caLeft,
  sdSession, sdNow, sdPage, sdCalls, sdFate, sdLeft

CO == INSTANCE Checkout WITH
  Sessions <- Discussions,
  server <- coServer, auth <- coAuth, currency <- coCurrency, pending <- coPending,
  page <- coPage, modals <- coModals, calls <- coCalls, left <- coLeft
AC == INSTANCE Accounts WITH
  MaxVisits <- MaxPages,
  cookie <- acCookie, accounts <- acAccounts, auth <- acAuth, code <- acCode,
  page <- acPage, captcha <- acCaptcha, calls <- acCalls, left <- acLeft
MY == INSTANCE MyBookings WITH
  Sessions <- Booked,
  server <- myServer, credits <- myCredits, page <- myPage, calls <- myCalls, left <- myLeft
DE == INSTANCE Desk WITH
  server <- deServer, page <- dePage, calls <- deCalls, left <- deLeft
CA == INSTANCE Calendar WITH
  open <- caOpen, page <- caPage, calls <- caCalls, left <- caLeft
SD == INSTANCE SessionDesk WITH
  session <- sdSession, now <- sdNow, page <- sdPage, calls <- sdCalls, fate <- sdFate,
  left <- sdLeft

coVars == <<coServer, coAuth, coCurrency, coPending, coPage, coModals, coCalls, coLeft>>
acVars == <<acCookie, acAccounts, acAuth, acCode, acPage, acCaptcha, acCalls, acLeft>>
myVars == <<myServer, myCredits, myPage, myCalls, myLeft>>
deVars == <<deServer, dePage, deCalls, deLeft>>
caVars == <<caOpen, caPage, caCalls, caLeft>>
sdVars == <<sdSession, sdNow, sdPage, sdCalls, sdFate, sdLeft>>
allVars == <<screen, coVars, acVars, myVars, deVars, caVars, sdVars, vars>>

ASSUME FrontendAssumption ==
  /\ Groups \subseteq {"checkout", "accounts", "bookings", "desk", "calendar", "session", "trainer"}
  /\ CO!CheckoutAssumption /\ AC!AccountsAssumption /\ MY!MyBookingsAssumption
  /\ DE!DeskAssumption /\ CA!CalendarAssumption /\ SD!SessionDeskAssumption
  /\ Moving \subseteq Booked

FrontInit ==
  /\ screen \in Groups
  /\ IF screen = "checkout" THEN CO!Init
     ELSE /\ coServer = "away" /\ coAuth = "away" /\ coCurrency = "away" /\ coPending = "away"
          /\ coPage = "away" /\ coModals = {} /\ coCalls = {} /\ coLeft = "away"
  /\ IF screen = "accounts" THEN AC!Init
     ELSE /\ acCookie = "away" /\ acAccounts = "away" /\ acAuth = "away" /\ acCode = "away"
          /\ acPage = "away" /\ acCaptcha = "away" /\ acCalls = {} /\ acLeft = "away"
  /\ IF screen = "bookings" THEN MY!Init
     ELSE /\ myServer = "away" /\ myCredits = "away" /\ myPage = "away" /\ myCalls = {}
          /\ myLeft = "away"
  /\ IF screen = "desk" THEN DE!Init
     ELSE deServer = "away" /\ dePage = "away" /\ deCalls = {} /\ deLeft = "away"
  /\ IF screen = "calendar" THEN CA!Init
     ELSE caOpen = "away" /\ caPage = "away" /\ caCalls = {} /\ caLeft = "away"
  /\ IF screen = "session" THEN SD!Init
     ELSE /\ sdSession = "away" /\ sdNow = "away" /\ sdPage = "away" /\ sdCalls = {}
          /\ sdFate = "away" /\ sdLeft = "away"
  /\ Init

\* A step of the group that is open leaves the others away.
CheckoutOnly == screen = "checkout" /\ UNCHANGED <<screen, acVars, myVars, deVars, caVars, sdVars, vars>>
AccountsOnly == screen = "accounts" /\ UNCHANGED <<screen, coVars, myVars, deVars, caVars, sdVars, vars>>
BookingsOnly == screen = "bookings" /\ UNCHANGED <<screen, coVars, acVars, deVars, caVars, sdVars, vars>>
DeskOnly == screen = "desk" /\ UNCHANGED <<screen, coVars, acVars, myVars, caVars, sdVars, vars>>
CalendarOnly == screen = "calendar" /\ UNCHANGED <<screen, coVars, acVars, myVars, deVars, sdVars, vars>>
SessionOnly == screen = "session" /\ UNCHANGED <<screen, coVars, acVars, myVars, deVars, caVars, vars>>
TrainerOnly == screen = "trainer" /\ UNCHANGED <<screen, coVars, acVars, myVars, deVars, caVars, sdVars>>

FrontNext ==
  \/ screen = "checkout" /\ CO!Visit /\ CheckoutOnly
  \/ screen = "checkout" /\ CO!SwitchCurrency /\ CheckoutOnly
  \/ screen = "checkout" /\ CO!Confirm /\ CheckoutOnly
  \/ screen = "checkout" /\ CO!Pay /\ CheckoutOnly
  \/ screen = "checkout" /\ CO!PayAway /\ CheckoutOnly
  \/ screen = "checkout" /\ CO!Abandon /\ CheckoutOnly
  \/ screen = "checkout" /\ CO!Reload /\ CheckoutOnly
  \/ screen = "checkout" /\ CO!PollTimer /\ CheckoutOnly
  \/ screen = "checkout" /\ CO!Clears /\ CheckoutOnly
  \/ screen = "checkout" /\ CO!Webhook /\ CheckoutOnly
  \/ screen = "checkout" /\ CO!OthersAct /\ CheckoutOnly
  \/ \E c \in coCalls : CO!Answer(c) /\ CheckoutOnly
  \/ \E c \in coCalls : CO!Fail(c) /\ CheckoutOnly
  \/ \E c \in coCalls : CO!ApplyMe(c) /\ CheckoutOnly
  \/ \E c \in coCalls : CO!ApplyBalance(c) /\ CheckoutOnly
  \/ \E c \in coCalls : CO!SignedOut(c) /\ CheckoutOnly
  \/ \E c \in coCalls : CO!ApplyPacks(c) /\ CheckoutOnly
  \/ \E c \in coCalls : CO!ApplySession(c) /\ CheckoutOnly
  \/ \E c \in coCalls : CO!ApplyConfirm(c) /\ CheckoutOnly
  \/ \E c \in coCalls : CO!ApplyStart(c) /\ CheckoutOnly
  \/ \E c \in coCalls : CO!ApplyHandOver(c) /\ CheckoutOnly
  \/ \E c \in coCalls : CO!ApplyVerify(c) /\ CheckoutOnly
  \/ \E c \in coCalls : CO!ApplySeat(c) /\ CheckoutOnly
  \/ \E m \in coModals : CO!PayInWindow(m) /\ CheckoutOnly
  \/ \E m \in coModals : CO!Dismiss(m) /\ CheckoutOnly
  \/ screen = "accounts" /\ AC!Open /\ AccountsOnly
  \/ screen = "accounts" /\ AC!LoadScript /\ AccountsOnly
  \/ screen = "accounts" /\ AC!TickBox /\ AccountsOnly
  \/ screen = "accounts" /\ AC!DropToken /\ AccountsOnly
  \/ screen = "accounts" /\ AC!Submit /\ AccountsOnly
  \/ screen = "accounts" /\ AC!Resend /\ AccountsOnly
  \/ screen = "accounts" /\ AC!Google /\ AccountsOnly
  \/ screen = "accounts" /\ AC!SignOut /\ AccountsOnly
  \/ \E c \in acCalls : AC!Answer(c) /\ AccountsOnly
  \/ \E c \in acCalls : AC!ApplyMe(c) /\ AccountsOnly
  \/ \E c \in acCalls : AC!ApplySignIn(c) /\ AccountsOnly
  \/ \E c \in acCalls : AC!ApplyError(c) /\ AccountsOnly
  \/ \E c \in acCalls : AC!ApplyDone(c) /\ AccountsOnly
  \/ \E c \in acCalls : AC!ApplyResent(c) /\ AccountsOnly
  \/ \E c \in acCalls : AC!ApplyVerify(c) /\ AccountsOnly
  \/ \E c \in acCalls : AC!ApplyLogout(c) /\ AccountsOnly
  \/ screen = "bookings" /\ MY!Ask /\ BookingsOnly
  \/ screen = "bookings" /\ MY!KeepIt /\ BookingsOnly
  \/ screen = "bookings" /\ MY!Cancel /\ BookingsOnly
  \/ screen = "bookings" /\ MY!Book /\ BookingsOnly
  \/ screen = "bookings" /\ MY!Refresh /\ BookingsOnly
  \/ \E c \in myCalls : MY!AnswerLoad(c) /\ BookingsOnly
  \/ \E c \in myCalls : MY!AnswerRead(c) /\ BookingsOnly
  \/ \E c \in myCalls : MY!AnswerMe(c) /\ BookingsOnly
  \/ \E c \in myCalls : MY!AnswerCancel(c) /\ BookingsOnly
  \/ \E c \in myCalls : MY!AnswerBook(c) /\ BookingsOnly
  \/ \E c \in myCalls : MY!Fail(c) /\ BookingsOnly
  \/ \E c \in myCalls : MY!ApplyLoad(c) /\ BookingsOnly
  \/ \E c \in myCalls : MY!ApplyRead(c) /\ BookingsOnly
  \/ \E c \in myCalls : MY!ApplyMe(c) /\ BookingsOnly
  \/ \E c \in myCalls : MY!ApplyBalance(c) /\ BookingsOnly
  \/ \E c \in myCalls : MY!SignedOut(c) /\ BookingsOnly
  \/ \E c \in myCalls : MY!ApplyCancel(c) /\ BookingsOnly
  \/ \E c \in myCalls : MY!ApplyBook(c) /\ BookingsOnly
  \/ \E s \in Moving : screen = "bookings" /\ MY!SeatMoves(s) /\ BookingsOnly
  \/ \E s \in Moving : screen = "bookings" /\ MY!Reprice(s) /\ BookingsOnly
  \/ \E s \in Moving : screen = "bookings" /\ MY!CallOff(s) /\ BookingsOnly
  \/ \E s \in Moving : screen = "bookings" /\ MY!Hours(s) /\ BookingsOnly
  \/ screen = "desk" /\ DE!ChooseFilter /\ DeskOnly
  \/ screen = "desk" /\ DE!HideRoster /\ DeskOnly
  \/ screen = "desk" /\ DE!Type /\ DeskOnly
  \/ screen = "desk" /\ DE!Debounced /\ DeskOnly
  \/ screen = "desk" /\ DE!Refresh /\ DeskOnly
  \/ screen = "desk" /\ DE!Finalize /\ DeskOnly
  \/ screen = "desk" /\ DE!Poll /\ DeskOnly
  \/ screen = "desk" /\ DE!OthersAct /\ DeskOnly
  \/ \E c \in deCalls : DE!AnswerRead(c) /\ DeskOnly
  \/ \E c \in deCalls : DE!AnswerAct(c) /\ DeskOnly
  \/ \E c \in deCalls : DE!Fail(c) /\ DeskOnly
  \/ \E c \in deCalls : DE!ApplyLoad(c) /\ DeskOnly
  \/ \E c \in deCalls : DE!ApplyAct(c) /\ DeskOnly
  \/ \E c \in deCalls : DE!ApplyFinalize(c) /\ DeskOnly
  \/ \E r \in Rows : screen = "desk" /\ DE!Press(r) /\ DeskOnly
  \/ screen = "calendar" /\ CA!ChooseZone /\ CalendarOnly
  \/ screen = "calendar" /\ CA!Turn /\ CalendarOnly
  \/ screen = "calendar" /\ CA!Pick /\ CalendarOnly
  \/ screen = "calendar" /\ CA!ChooseSlot /\ CalendarOnly
  \/ screen = "calendar" /\ CA!Confirm /\ CalendarOnly
  \/ screen = "calendar" /\ CA!OthersBook /\ CalendarOnly
  \/ \E c \in caCalls : CA!Answer(c) /\ CalendarOnly
  \/ \E c \in caCalls : CA!Fail(c) /\ CalendarOnly
  \/ \E c \in caCalls : CA!Apply(c) /\ CalendarOnly
  \/ screen = "session" /\ SD!Publish /\ SessionOnly
  \/ screen = "session" /\ SD!Touch /\ SessionOnly
  \/ screen = "session" /\ SD!Reschedule /\ SessionOnly
  \/ screen = "session" /\ SD!ToggleDialog /\ SessionOnly
  \/ screen = "session" /\ SD!SubmitDialog /\ SessionOnly
  \/ screen = "session" /\ SD!ToggleDelete /\ SessionOnly
  \/ screen = "session" /\ SD!Delete /\ SessionOnly
  \/ screen = "session" /\ SD!Mark /\ SessionOnly
  \/ screen = "session" /\ SD!OthersAct /\ SessionOnly
  \/ screen = "session" /\ SD!Tick /\ SessionOnly
  \/ \E c \in sdCalls : SD!Answer(c) /\ SessionOnly
  \/ \E c \in sdCalls : SD!Fail(c) /\ SessionOnly
  \/ \E c \in sdCalls : SD!ApplyLoad(c) /\ SessionOnly
  \/ \E c \in sdCalls : SD!ApplyRoster(c) /\ SessionOnly
  \/ \E c \in sdCalls : SD!ApplyButton(c) /\ SessionOnly
  \/ \E c \in sdCalls : SD!ApplyDelete(c) /\ SessionOnly
  \/ \E c \in sdCalls : SD!ApplyImpact(c) /\ SessionOnly
  \/ \E c \in sdCalls : SD!ApplyCancel(c) /\ SessionOnly
  \/ \E c \in sdCalls : SD!ApplyMark(c) /\ SessionOnly
  \/ screen = "trainer" /\ ToggleSettings /\ TrainerOnly
  \/ screen = "trainer" /\ Choose /\ TrainerOnly
  \/ screen = "trainer" /\ StageTopic /\ TrainerOnly
  \/ screen = "trainer" /\ DrawTopic /\ TrainerOnly
  \/ screen = "trainer" /\ Settle /\ TrainerOnly
  \/ screen = "trainer" /\ StartPrep /\ TrainerOnly
  \/ screen = "trainer" /\ StartSpeak /\ TrainerOnly
  \/ screen = "trainer" /\ Pass /\ TrainerOnly
  \/ screen = "trainer" /\ Tick /\ TrainerOnly
  \/ screen = "trainer" /\ Pause /\ TrainerOnly
  \/ screen = "trainer" /\ Resume /\ TrainerOnly
  \/ screen = "trainer" /\ FinishEarly /\ TrainerOnly
  \/ screen = "trainer" /\ Reset /\ TrainerOnly

\* What is under way goes on: requests are answered, handlers and timers run,
\* time passes.  (Weaker than the fairness of the modules one by one.)
Goes ==
  \/ screen = "checkout" /\ (CO!Answers \/ CO!Applies \/ CO!PollTimer) /\ CheckoutOnly
  \/ screen = "accounts" /\ (AC!Answers \/ AC!Applies) /\ AccountsOnly
  \/ screen = "bookings" /\ (MY!Answers \/ MY!Applies) /\ BookingsOnly
  \/ screen = "desk" /\ (DE!Answers \/ DE!Applies \/ DE!Timers) /\ DeskOnly
  \/ screen = "calendar" /\ (CA!Answers \/ CA!Applies) /\ CalendarOnly
  \/ screen = "session" /\ (SD!Answers \/ SD!Applies) /\ SessionOnly
  \/ screen = "trainer" /\ (Pass \/ Tick \/ Settle) /\ TrainerOnly

FrontSpec == FrontInit /\ [][FrontNext]_allVars /\ WF_allVars(Goes)

(***************************************************************************)
(* Properties                                                              *)
(***************************************************************************)

\* The type of every group's variables, while it is open.
PagesTypeOK ==
  CASE screen = "checkout" -> CO!TypeOK
    [] screen = "accounts" -> AC!TypeOK
    [] screen = "bookings" -> MY!TypeOK
    [] screen = "desk" -> DE!TypeOK
    [] screen = "calendar" -> CA!TypeOK
    [] screen = "session" -> SD!TypeOK
    [] screen = "trainer" -> TypeOK

\* No page is stuck for ever on a spinner, a disabled button, a clock or
\* "still checking": whatever calls fail, overlap or are answered late, it
\* comes back to something the visitor can act on.
Stuck ==
  CASE screen = "checkout" -> coPage.at = "success" /\ ~CO!Settling
    [] screen = "accounts" -> acPage.busy \/ acPage.resending
    [] screen = "bookings" -> MY!Waiting
    [] screen = "desk" -> DE!Waiting
    [] screen = "calendar" -> caPage.loading
    [] screen = "session" -> SD!Waiting
    [] screen = "trainer" -> phase = "spin" \/ (phase \in Timed /\ ~timer.paused)
NoPageIsStuck == Stuck ~> ~Stuck

\* Checkout: a disabled button has a window or a call to wait for.
BusyHasAReason == screen = "checkout" => CO!BusyHasAReason
\* Checkout: an order is opened in the currency its button quoted.
ShownIsCharged == screen = "checkout" => CO!ShownIsCharged
\* Checkout: what the buyer went to pay for is kept until a place is taken.
RecordKept == CO!RecordKept
\* Accounts: a captcha token is good for one attempt.
TokenIsSpentOnce == screen = "accounts" => AC!TokenIsSpentOnce
\* My bookings: no cancellation or booking turns out worse than the page said.
NeverWorseThanShown == screen = "bookings" => MY!NeverWorseThanShown
\* Desk: what the person did is what the screen shows.
ScreenIsCurrent == screen = "desk" => DE!ScreenIsCurrent
\* Calendar: the month on screen is the whole month, where the reader is.
MonthIsWhole == screen = "calendar" => CA!MonthIsWhole
\* Session desk: a deletion takes what the card said.
DeleteDoesWhatItSaid == screen = "session" => SD!DeleteDoesWhatItSaid
=============================================================================
