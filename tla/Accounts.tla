------------------------------ MODULE Accounts ------------------------------
(***************************************************************************)
(* Who is signed in, in one tab: AuthProvider and the forms around it      *)
(* (login, register, Google, forgotten and new passwords, the link that    *)
(* verifies an address, the account page, the contact form), the reCAPTCHA *)
(* box four of them carry, and the referral code kept in local storage     *)
(* until an account is made with it.                                       *)
(*                                                                         *)
(* A form is a request, the server's answer and a handler's second half,   *)
(* as in Checkout; the answers of the server are chosen freely, except     *)
(* that it takes a captcha token once.                                     *)
(***************************************************************************)
EXTENDS Integers, FiniteSets

CONSTANTS
  Users,        \* people who use this browser
  Codes,        \* referral codes
  MaxTokens,    \* bound: captcha boxes ticked
  MaxVisits,    \* bound: pages opened
  MaxRequests,  \* bound: forms sent
  None

AccountsAssumption ==
  /\ {MaxTokens, MaxVisits, MaxRequests} \subseteq Nat
  /\ None \notin Users \cup Codes /\ "next" \notin Users \cup {None}

VARIABLES
  cookie,     \* whose session the browser's cookie is, on the server
  accounts,   \* who has an account, and the code it was made with
  auth,       \* AuthProvider: user and loading
  code,       \* shevaani_ref in local storage
  page,       \* the page and its form
  captcha,    \* the widget: its script, the token it holds, tokens refused
  calls,      \* requests whose handlers have not finished
  left        \* what remains of the bounds

vars == <<cookie, accounts, auth, code, page, captcha, calls, left>>

Boxed == {"login", "register", "forgot", "contact"}
Forms == Boxed \cup {"reset", "account"}
Pages == Forms \cup {"verify", "home"}
Guarded == {"account"}

NoToken == 0

Fresh(at) == [at |-> at, busy |-> FALSE, resending |-> FALSE, error |-> FALSE, done |-> FALSE]
Call(op, arg) == [op |-> op, arg |-> arg, token |-> NoToken, code |-> None,
                  mine |-> TRUE, ans |-> "none", who |-> None]
Refresh(goal) == Call("me", goal)
Orphaned(cs) == {[c EXCEPT !.mine = FALSE] : c \in {d \in cs : d.op # "verify"}}

\* Opening a page: its form is empty and its captcha box, if any, unticked.
\* A page that wants a user sends a visitor known to be signed out to /login;
\* the link that verifies an address spends its token at once.  Pushing a route
\* is taken as the moment the old page is unmounted: the form it leaves on screen
\* until then, with its button freed, is not modelled.
GoTo(at, cs) ==
  LET there == IF at \in Guarded /\ ~auth'.loading /\ auth'.user = None THEN "login" ELSE at
  IN  /\ page' = Fresh(there)
      /\ captcha' = [captcha EXCEPT !.token = NoToken]
      /\ calls' = Orphaned(cs) \cup (IF there = "verify" THEN {Call("verify", None)} ELSE {})

Init ==
  /\ cookie \in Users \cup {None}
  /\ accounts = [u \in Users |-> IF u = cookie THEN "plain" ELSE "none"]
  /\ auth = [user |-> None, loading |-> TRUE]
  /\ code = None
  /\ page = Fresh("home")
  /\ captcha = [script |-> "absent", token |-> NoToken, ticked |-> 0, refused |-> {}]
  /\ calls = {Refresh("load")}
  /\ left = [visits |-> MaxVisits, requests |-> MaxRequests]

(***************************************************************************)
(* The visitor                                                             *)
(***************************************************************************)

\* A link; the layout's RefCapture remembers the code of any page opened with
\* one, the last code winning.
Open ==
  /\ left.visits > 0
  /\ left' = [left EXCEPT !.visits = @ - 1]
  /\ \E at \in Pages, r \in Codes \cup {None} :
       /\ code' = IF r = None THEN code ELSE r
       /\ UNCHANGED auth
       /\ GoTo(at, calls)
  /\ UNCHANGED <<cookie, accounts>>

\* The widget's script is appended once and for all by the first form; if it
\* cannot be loaded, nothing appends it again.
LoadScript ==
  /\ page.at \in Boxed /\ captcha.script = "absent"
  /\ captcha' = [captcha EXCEPT !.script = "loaded"]
  /\ UNCHANGED <<cookie, accounts, auth, code, page, calls, left>>

TickBox ==
  /\ page.at \in Boxed /\ ~page.done
  /\ captcha.script = "loaded" /\ captcha.token = NoToken /\ captcha.ticked < MaxTokens
  /\ captcha' = [captcha EXCEPT !.token = captcha.ticked + 1, !.ticked = @ + 1]
  /\ UNCHANGED <<cookie, accounts, auth, code, page, calls, left>>

\* expired-callback, and a change of theme, which renders the box anew.
DropToken ==
  /\ page.at \in Boxed /\ captcha.token # NoToken
  /\ captcha' = [captcha EXCEPT !.token = NoToken]
  /\ UNCHANGED <<cookie, accounts, auth, code, page, calls, left>>

\* The buttons of the forms: a captcha box must be ticked where there is one,
\* and the thanks of two of the forms take their place.
Ready == ~page.busy /\ ~page.done /\ captcha.token # NoToken
LoginButton == page.at = "login" /\ Ready
RegisterButton == page.at = "register" /\ Ready
ForgotButton == page.at = "forgot" /\ Ready
ContactButton == page.at = "contact" /\ Ready
ResetButton == page.at = "reset" /\ ~page.busy
PasswordButton == page.at = "account" /\ ~page.busy
ResendButton == page.at = "account" /\ auth.user # None /\ ~page.resending

\* The code a signup carries: the one in storage (a code in the address of the
\* form's own page has just been stored).
SignupCode == code

Send(c) ==
  /\ left.requests > 0
  /\ left' = [left EXCEPT !.requests = @ - 1]
  /\ page' = IF c.op = "resend" THEN [page EXCEPT !.resending = TRUE, !.error = FALSE]
                               ELSE [page EXCEPT !.busy = TRUE, !.error = FALSE]
  /\ calls' = calls \cup {c}
  /\ UNCHANGED <<cookie, accounts, auth, code, captcha>>

Submit ==
  /\ \/ LoginButton \/ RegisterButton \/ ForgotButton \/ ContactButton
     \/ ResetButton \/ PasswordButton
  /\ \E u \in Users :
       /\ page.at = "account" => u = auth.user
       /\ Send([Call(page.at, u) EXCEPT !.token = captcha.token,
                  !.code = IF page.at = "register" THEN SignupCode ELSE None])

\* "Send a confirmation link" of the account page.
Resend == ResendButton /\ Send(Call("resend", auth.user))

\* Google's button is not disabled while the form is busy.
Google ==
  /\ page.at \in {"login", "register"}
  /\ \E u \in Users :
       IF page.at = "login" THEN Send(Call("google", u))
                            ELSE Send([Call("google up", u) EXCEPT !.code = SignupCode])

\* "Sign out" of the user menu, which a signed-in visitor has on every page.
SignOut ==
  /\ auth.user # None /\ left.requests > 0
  /\ left' = [left EXCEPT !.requests = @ - 1]
  /\ calls' = calls \cup {Call("logout", None)}
  /\ UNCHANGED <<cookie, accounts, auth, code, page, captcha>>

(***************************************************************************)
(* The server                                                              *)
(***************************************************************************)

TakesToken(c) == c.token \notin captcha.refused

\* What each request does when it is granted.
Grants(c) ==
  CASE c.op = "login"    -> accounts[c.arg] # "none" /\ cookie' = c.arg /\ UNCHANGED accounts
    [] c.op = "register" -> /\ accounts[c.arg] = "none" /\ cookie' = c.arg
                            /\ accounts' = [accounts EXCEPT ![c.arg] =
                                              IF c.code = None THEN "plain" ELSE "referred"]
    [] c.op \in {"google", "google up"} ->
                            /\ cookie' = c.arg
                            /\ accounts' = [accounts EXCEPT ![c.arg] =
                                 IF @ # "none" THEN @
                                 ELSE IF c.code = None THEN "plain" ELSE "referred"]
    [] c.op = "reset"    -> accounts[c.arg] # "none" /\ cookie' = c.arg /\ UNCHANGED accounts
    [] c.op = "logout"   -> cookie' = None /\ UNCHANGED accounts
    [] OTHER             -> UNCHANGED <<cookie, accounts>>

\* A token that has been seen is refused from then on; a request may be refused
\* for reasons of its own, or get lost on either way.
Answer(c) ==
  /\ c.ans = "none"
  /\ \/ /\ TakesToken(c)
        /\ Grants(c)
        /\ \E ans \in {"ok", "refused"} :
             calls' = (calls \ {c}) \cup {[c EXCEPT !.ans = ans, !.who = cookie]}
     \/ /\ calls' = (calls \ {c}) \cup {[c EXCEPT !.ans = "refused"]}
        /\ UNCHANGED <<cookie, accounts>>
  /\ captcha' = [captcha EXCEPT !.refused = @ \cup ({c.token} \ {NoToken})]
  /\ UNCHANGED <<auth, code, page, left>>

(***************************************************************************)
(* The handlers' second halves                                             *)
(***************************************************************************)

Update(c, new) == page' = IF c.mine THEN new ELSE page

\* refresh, and what waits for it: signing in and changing a password go on to
\* the page asked for, whoever turned out to be signed in.
ApplyMe(c) ==
  /\ c.op = "me" /\ c.ans # "none"
  /\ auth' = [user |-> IF c.ans = "ok" THEN c.who ELSE None, loading |-> FALSE]
  /\ \/ c.arg = "next" /\ GoTo("home", calls \ {c})
     \/ /\ c.arg # "next"
        /\ IF page.at \in Guarded /\ auth'.user = None
             THEN GoTo("login", calls \ {c})
             ELSE /\ Update(c, IF c.arg = "resent" THEN [page EXCEPT !.resending = FALSE] ELSE page)
                  /\ calls' = calls \ {c}
                  /\ UNCHANGED captcha
  /\ UNCHANGED <<cookie, accounts, code, left>>

Signups == {"register", "google up"}
SignIns == Signups \cup {"login", "google", "reset"}

\* A signup that went through has used its code, a sign-in goes on.
ApplySignIn(c) ==
  /\ c.op \in SignIns /\ c.ans = "ok"
  /\ code' = IF c.op \in Signups THEN None ELSE code
  /\ calls' = (calls \ {c}) \cup {[Refresh("next") EXCEPT !.mine = c.mine]}
  /\ UNCHANGED <<cookie, accounts, auth, page, captcha, left>>

\* An error is shown, the button is free again and, where the form has a box,
\* it is cleared: the failed attempt has spent its token.
\* Mutant: the box keeps its token.
BoxKept(c) == captcha
ResetBox(c) ==
  IF c.mine /\ c.op \in Boxed THEN [captcha EXCEPT !.token = NoToken] ELSE captcha
\* What ends in an error message.
Told(c) == c.op \in Forms \cup {"google", "google up", "resend"} /\ c.ans = "refused"
\* The page with its button free again.
Freed(c) ==
  IF c.op = "resend" THEN [page EXCEPT !.resending = FALSE] ELSE [page EXCEPT !.busy = FALSE]
\* Mutant: the button is freed on success only.
ApplyErrorBusy(c) ==
  /\ Told(c)
  /\ Update(c, [page EXCEPT !.error = TRUE])
  /\ captcha' = ResetBox(c)
  /\ calls' = calls \ {c}
  /\ UNCHANGED <<cookie, accounts, auth, code, left>>
ApplyError(c) ==
  /\ Told(c)
  /\ Update(c, [Freed(c) EXCEPT !.error = TRUE])
  /\ captcha' = ResetBox(c)
  /\ calls' = calls \ {c}
  /\ UNCHANGED <<cookie, accounts, auth, code, left>>

\* Sent (forgot, contact): thanks take the form's place, and its box goes with
\* the form.  Changed (account).
ApplyDone(c) ==
  /\ c.op \in {"forgot", "contact", "account"} /\ c.ans = "ok"
  /\ Update(c, [page EXCEPT !.busy = FALSE, !.done = c.op # "account"])
  /\ captcha' = ResetBox(c)
  /\ calls' = calls \ {c}
  /\ UNCHANGED <<cookie, accounts, auth, code, left>>

ApplyResent(c) ==
  /\ c.op = "resend" /\ c.ans = "ok"
  /\ calls' = (calls \ {c}) \cup {[Refresh("resent") EXCEPT !.mine = c.mine]}
  /\ UNCHANGED <<cookie, accounts, auth, code, page, captcha, left>>

\* The verified address shows at once if somebody is signed in here.
ApplyVerify(c) ==
  /\ c.op = "verify" /\ c.ans # "none"
  /\ page' = IF c.ans = "ok" THEN [page EXCEPT !.done = TRUE] ELSE [page EXCEPT !.error = TRUE]
  /\ calls' = (calls \ {c}) \cup (IF c.ans = "ok" THEN {Refresh("verified")} ELSE {})
  /\ UNCHANGED <<cookie, accounts, auth, code, captcha, left>>

\* signOut goes home, unless the page left behind sends the visitor to /login
\* first.  A logout that fails changes nothing on the screen either.
ApplyLogout(c) ==
  /\ c.op = "logout" /\ c.ans # "none"
  /\ IF c.ans = "ok"
       THEN /\ auth' = [user |-> None, loading |-> auth.loading]
            /\ \E at \in {"home"} \cup (IF page.at \in Guarded THEN {"login"} ELSE {}) :
                 GoTo(at, calls \ {c})
       ELSE calls' = calls \ {c} /\ UNCHANGED <<auth, page, captcha>>
  /\ UNCHANGED <<cookie, accounts, code, left>>

Apply(c) ==
  \/ ApplyMe(c) \/ ApplySignIn(c) \/ ApplyError(c) \/ ApplyDone(c) \/ ApplyResent(c)
  \/ ApplyVerify(c) \/ ApplyLogout(c)

Next ==
  \/ Open \/ LoadScript \/ TickBox \/ DropToken \/ Submit \/ Resend \/ Google \/ SignOut
  \/ \E c \in calls : Answer(c) \/ Apply(c)

Answers == \E c \in calls : Answer(c)
Applies == \E c \in calls : Apply(c)

Spec == Init /\ [][Next]_vars

\* Requests are answered and their handlers run.
FairSpec == Spec /\ WF_vars(Answers) /\ WF_vars(Applies)

(***************************************************************************)
(* Properties                                                              *)
(***************************************************************************)

TypeOK ==
  /\ cookie \in Users \cup {None}
  /\ accounts \in [Users -> {"none", "plain", "referred"}]
  /\ auth \in [user : Users \cup {None}, loading : BOOLEAN]
  /\ code \in Codes \cup {None}
  /\ page \in [at : Pages, busy : BOOLEAN, resending : BOOLEAN, error : BOOLEAN, done : BOOLEAN]
  /\ captcha \in [script : {"absent", "loaded"}, token : 0..MaxTokens, ticked : 0..MaxTokens,
                   refused : SUBSET (1..MaxTokens)]
  /\ \A c \in calls : c.op \in Forms \cup {"me", "google", "google up", "resend", "verify", "logout"}

\* A captcha token is good for one attempt.  Once its attempt is over the box
\* is empty again, whatever else was tried meanwhile:
\* a visitor is never left with a ticked box the server will not take.
TokenIsSpentOnce ==
  captcha.token \in captcha.refused =>
    \E c \in calls : c.token = captcha.token \/ c.arg = "next"
=============================================================================
