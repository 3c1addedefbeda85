----------------------------- MODULE SiteSession -----------------------------
(***************************************************************************)
(* Who is signed in, as one tab of the site shows it (auth/AuthContext,    *)
(* auth/guards, App.tsx), and the pages that change it: login, sign-up,    *)
(* the forms that ask for a mail, the password reset and the account page. *)
(*                                                                         *)
(* A handler sends a request and goes on when its answer arrives, also     *)
(* when its page was left meanwhile; here it is a task.  A request carries *)
(* the cookies the browser had when it was sent, and an answer sets them   *)
(* when it arrives.  A login gives a session and, with "remember", a token *)
(* that stands in for it once.  What the server does with a request is an  *)
(* abstraction of module Accounts, with the count of failed logins and the *)
(* captcha, a token of which is good once.                                 *)
(***************************************************************************)
EXTENDS Integers, FiniteSets

CONSTANTS
    Route,                  \* routes there are links to
    User, Unverified,       \* accounts, those whose address is not verified
    None,
    Sid,                    \* integers: logins, by which their session id
                            \* and their remember token are named
    Task,                   \* handlers under way at once
    MaxCaptchas             \* bound: captchas solved on one page

ASSUME SiteAssumption == /\ Unverified \subseteq User /\ None \notin User
                         /\ Sid \subseteq Nat \ {0} /\ 1 \in Sid

VARIABLES
    exists,                 \* accounts that are not deleted
    owner,                  \* per login, the account, or None
    live,                   \* logins whose session is there
    good,                   \* logins whose remember token is there, not used
    failures,               \* recent failed logins, up to 2
    jar, keep,              \* the cookies, of session and of remember token:
                            \* a login or 0
    user, loading,          \* AuthContext
    csrf,                   \* its csrfToken is the csrf_token cookie's
    page,                   \* [at, failed, busy, done, token, solved, spent]
    task,
    crossed,                \* another tab signed in, or two logins overlapped
    mixed                   \* a login left the remember cookie of another user

server == <<exists, owner, live, good, failures>>
cookies == <<jar, keep>>
auth == <<user, loading, csrf>>
past == <<crossed, mixed>>
vars == <<server, cookies, auth, page, task, past>>

-----------------------------------------------------------------------------
(* Routes.                                                                 *)

Guest == {"login", "signup", "resend"}
Private == {"setup", "account"}
Open == {"home", "forgot", "reset"}
CaptchaForm == {"signup", "forgot", "resend"}

ASSUME RouteAssumption == Route \subseteq Guest \cup Private \cup Open /\ MaxCaptchas \in Nat

\* Mutant: the login and sign-up pages open for those signed in, too.
GuardedPrivate(at, u) == IF at \in Private /\ u = None THEN "login" ELSE at

\* RequireAuth and GuestOnly.
Guarded(at, u) == CASE at \in Private /\ u = None -> "login"
                    [] at \in Guest /\ u # None -> "setup"
                    [] OTHER -> at

\* A page as it is mounted; token is its captcha's, 0 without one, spent
\* those of its tokens that the server has seen (not in the code).
Mounted(at) == [at |-> at, failed |-> 0, busy |-> FALSE, done |-> FALSE,
                token |-> 0, solved |-> 0, spent |-> {}]

NoTask == [kind |-> "none", step |-> "none", sid |-> 0, keep |-> 0, csrf |-> FALSE,
           arg |-> None, token |-> 0, answer |-> "none", here |-> FALSE]

\* Tasks when the page they belong to is gone.
Left(T) == [k \in Task |-> [T[k] EXCEPT !.here = FALSE]]

\* The page of a route; the same one stays mounted.
Goes(at, T) == IF at = page.at THEN page' = page /\ task' = T
                               ELSE page' = Mounted(at) /\ task' = Left(T)

\* The guards show a progress bar instead of their page until the user is
\* known.
Shown == ~loading \/ page.at \in Open

Init ==
    /\ exists = User /\ failures = 0
    /\ \E u \in (User \ Unverified) \cup {None} :
         IF u = None
         THEN owner = [s \in Sid |-> None] /\ live = {} /\ good = {} /\ jar = 0 /\ keep = 0
         ELSE /\ owner = [s \in Sid |-> IF s = 1 THEN u ELSE None]
              /\ live = {1} /\ jar = 1 /\ keep \in {0, 1} /\ good = {keep} \ {0}
    /\ user = None /\ loading = TRUE /\ csrf = FALSE
    /\ \E at \in Route \cup {"reset"} : page = Mounted(at)   \* reset by the link of a mail
    /\ \E k \in Task : task = [j \in Task |->
         IF j = k THEN [NoTask EXCEPT !.kind = "boot", !.step = "ask", !.sid = jar, !.keep = keep]
                  ELSE NoTask]
    /\ crossed = FALSE /\ mixed = FALSE

\* The user follows a link.
Visit(at) ==
    /\ LET to == IF loading THEN at ELSE Guarded(at, user) IN
         to # page.at /\ Goes(to, task)
    /\ UNCHANGED <<server, cookies, auth, past>>

-----------------------------------------------------------------------------
(* useTurnstileWidget.                                                     *)

\* The login page shows the widget after two failures.
Captcha == \/ page.at \in CaptchaForm /\ ~(page.done /\ page.at # "forgot")
           \/ page.at = "login" /\ page.failed >= 2

Solve ==
    /\ Shown /\ Captcha /\ page.token = 0 /\ page.solved < MaxCaptchas
    /\ page' = [page EXCEPT !.token = page.solved + 1, !.solved = @ + 1]
    /\ UNCHANGED <<server, cookies, auth, task, past>>

\* expired-callback, error-callback.
CaptchaExpires ==
    /\ page.token # 0
    /\ page' = [page EXCEPT !.token = 0]
    /\ UNCHANGED <<server, cookies, auth, task, past>>

-----------------------------------------------------------------------------
(* Handlers start.                                                         *)

Free(k) == task[k].kind = "none"

\* A request with the cookies there are.
Request(kind) == [NoTask EXCEPT !.kind = kind, !.step = "post", !.sid = jar, !.keep = keep,
                                !.here = TRUE]

LoggingIn(T) == {k \in Task : T[k].kind = "login"}

\* LoginPage: with two failures only with a captcha.  arg is the account
\* that the address and the password are of, or None.  (Bound: two logins
\* overlap once, and not after another tab signed in.)
SubmitLogin ==
    /\ page.at = "login" /\ ~page.busy /\ Shown
    /\ page.failed >= 2 => page.token # 0
    /\ \E k \in Task, u \in User \cup {None} :
         /\ Free(k)
         /\ task' = [task EXCEPT ![k] =
                        [Request("login") EXCEPT !.arg = u,
                            !.token = IF page.failed >= 2 THEN page.token ELSE 0]]
    /\ page' = [page EXCEPT !.busy = TRUE]
    /\ LoggingIn(task) # {} => ~crossed
    /\ crossed' = (crossed \/ LoggingIn(task) # {})
    /\ UNCHANGED <<server, cookies, auth, mixed>>

\* SignupPage, ForgotPasswordPage, ResendVerificationPage, only with a
\* captcha; ResetPasswordPage without one, its button never disabled.
SubmitForm ==
    /\ \/ page.at \in CaptchaForm /\ Captcha /\ ~page.busy /\ page.token # 0
       \/ page.at = "reset" /\ ~page.done
    /\ Shown
    /\ \E k \in Task :
         Free(k) /\ task' = [task EXCEPT ![k] = [Request(page.at) EXCEPT !.token = page.token]]
    /\ page' = [page EXCEPT !.busy = page.at # "reset"]
    /\ UNCHANGED <<server, cookies, auth, past>>

\* The button of the header.
SubmitLogout ==
    /\ user # None
    /\ \E k \in Task : Free(k) /\ task' = [task EXCEPT ![k] = [Request("logout") EXCEPT !.csrf = csrf]]
    /\ UNCHANGED <<server, cookies, auth, page, past>>

\* AccountSettingsPage: arg is whose page it is, which is not sent.
SubmitDelete ==
    /\ page.at = "account" /\ ~page.busy /\ Shown
    /\ \E k \in Task :
         /\ Free(k)
         /\ task' = [task EXCEPT ![k] = [Request("delete") EXCEPT !.csrf = csrf, !.arg = user]]
    /\ page' = [page EXCEPT !.busy = TRUE]
    /\ UNCHANGED <<server, cookies, auth, past>>

-----------------------------------------------------------------------------
(* The server.                                                             *)

\* An answer; what the request carried is of no use any more.
Answers(k, a) == task' = [task EXCEPT ![k] =
    [NoTask EXCEPT !.kind = task[k].kind, !.step = "answered", !.answer = a, !.here = task[k].here]]

\* A captcha token is good for the first request that is verified with it.
Verified(k) == task[k].token # 0 /\ ~(task[k].here /\ task[k].token \in page.spent)
Spends(k) == page' = IF task[k].here /\ task[k].token # 0
                     THEN [page EXCEPT !.spent = @ \cup {task[k].token}] ELSE page

\* After two failures a captcha is asked for.
Accepted(k) == failures < 2 \/ Verified(k)

\* issueSession: the next login is one of u, with a remember token or not.
NewSession(s, u, remember) ==
    /\ owner[s] = None /\ \A r \in Sid : owner[r] = None => s <= r
    /\ owner' = [owner EXCEPT ![s] = u] /\ live' = live \cup {s}
    /\ good' = IF remember THEN good \cup {s} ELSE good

\* userFromSession: the user of the session or, without one, of the remember
\* token, which is used up; no session is issued for it.
Fallback(k) == task[k].sid \notin live
Named(k) ==
    LET u == IF ~Fallback(k) THEN owner[task[k].sid]
             ELSE IF task[k].keep \in good THEN owner[task[k].keep] ELSE None IN
    IF u \in exists THEN u ELSE None
Unused(k) == IF Fallback(k) THEN good \ {task[k].keep} ELSE good

\* What is left of logins when the sessions and remember tokens of a user go.
Without(logins, u) == {s \in logins : owner[s] # u}

\* handleLogin.
ServeLogin(k) ==
    /\ task[k].kind = "login" /\ task[k].step = "post"
    /\ IF failures >= 2 THEN Spends(k) ELSE page' = page
    /\ LET u == task[k].arg IN
         \/ ~Accepted(k) /\ Answers(k, "captcha") /\ UNCHANGED server
         \/ /\ Accepted(k) /\ u \notin exists
            /\ Answers(k, "refused")
            /\ failures' = IF failures < 2 THEN failures + 1 ELSE 2
            /\ UNCHANGED <<exists, owner, live, good>>
         \/ /\ Accepted(k) /\ u \in exists \cap Unverified
            /\ Answers(k, "unverified") /\ UNCHANGED server
         \/ /\ Accepted(k) /\ u \in exists \ Unverified
            /\ \E s \in Sid, remember \in BOOLEAN :
                 /\ NewSession(s, u, remember)
                 /\ task' = [task EXCEPT ![k] = [NoTask EXCEPT !.kind = "login", !.step = "answered",
                                 !.answer = "ok", !.sid = s, !.keep = IF remember THEN s ELSE 0,
                                 !.here = task[k].here]]
            /\ failures' = 0 /\ UNCHANGED exists
    /\ UNCHANGED <<cookies, auth, past>>

\* The other forms: done, or refused for any of their reasons.  A new password
\* ends the sessions of its user, and the remember tokens.
ServeForm(k) ==
    /\ task[k].kind \in CaptchaForm \cup {"reset"} /\ task[k].step = "post"
    /\ Spends(k)
    /\ \/ Answers(k, "refused") /\ UNCHANGED <<live, good>>
       \/ task[k].kind # "reset" /\ Verified(k) /\ Answers(k, "ok") /\ UNCHANGED <<live, good>>
       \/ /\ task[k].kind = "reset" /\ Answers(k, "ok")
          /\ \E u \in exists : live' = Without(live, u) /\ good' = Without(good, u)
    /\ UNCHANGED <<exists, owner, failures, cookies, auth, past>>

\* handleLogout.
ServeLogout(k) ==
    /\ task[k].kind = "logout" /\ task[k].step = "post"
    /\ IF task[k].csrf THEN Answers(k, "ok") /\ live' = live \ {task[k].sid}
                       ELSE Answers(k, "refused") /\ UNCHANGED live
    /\ UNCHANGED <<exists, owner, good, failures, cookies, auth, page, past>>

\* handleDeleteAccount.
ServeDelete(k) ==
    /\ task[k].kind = "delete" /\ task[k].step = "post"
    /\ IF ~task[k].csrf THEN Answers(k, "refused") /\ UNCHANGED <<exists, live, good>>
       ELSE LET u == Named(k) IN
            /\ Answers(k, IF u = None THEN "refused" ELSE "ok")
            /\ exists' = exists \ {u} /\ live' = Without(live, u)
            /\ good' = Without(Unused(k), u)
    /\ UNCHANGED <<owner, failures, cookies, auth, page, past>>

\* The answer of authMe.
Told(k, u) == [task[k] EXCEPT !.step = "told", !.sid = 0, !.keep = 0, !.arg = u]

\* handleAuthMe.
ServeMe(k) ==
    /\ task[k].step = "ask"
    /\ task' = [task EXCEPT ![k] = Told(k, Named(k))]
    /\ good' = Unused(k)
    /\ UNCHANGED <<exists, owner, live, failures, cookies, auth, page, past>>

\* A request or its answer is lost.
Lose(k) ==
    /\ \/ task[k].step \in {"post", "answered"} /\ task[k].answer # "refused" /\ Answers(k, "refused")
       \/ task[k].step \in {"ask", "told"} /\ task' = [task EXCEPT ![k] = Told(k, None)]
    /\ UNCHANGED <<server, cookies, auth, page, past>>

-----------------------------------------------------------------------------
(* Answers arrive.                                                         *)

Ended(k) == [task EXCEPT ![k] = NoTask]
\* refresh, as it sends authMe with the cookies s and r.
Refreshes(k, s, r) ==
    [task EXCEPT ![k] = [@ EXCEPT !.step = "ask", !.sid = s, !.keep = r, !.answer = "none"]]

\* What a page does with an error; nothing when it is gone.
Refused(k, p) ==
    IF task[k].here THEN page' = [p EXCEPT !.busy = FALSE] ELSE page' = page

\* The server accepted the login: its cookies are set and refresh is called.
\* A login without "remember" leaves the remember cookie of an earlier one.
LoginArrives(k) ==
    /\ task[k].kind = "login" /\ task[k].step = "answered"
    /\ IF task[k].answer = "ok"
       THEN /\ jar' = task[k].sid /\ keep' = IF task[k].keep = 0 THEN keep ELSE task[k].keep
            /\ task' = Refreshes(k, jar', keep') /\ page' = page
            /\ mixed' = (mixed \/ (keep' # 0 /\ owner[keep'] # owner[jar']))
       ELSE /\ task' = Ended(k) /\ UNCHANGED <<cookies, mixed>>
            /\ Refused(k, CASE task[k].answer = "captcha" -> [page EXCEPT !.failed = 2]
                            [] task[k].answer = "refused" /\ page.failed < 2 -> [page EXCEPT !.failed = @ + 1]
                            [] OTHER -> page)
    /\ UNCHANGED <<server, auth, crossed>>

\* Mutant: the widget keeps its token after an error.
FormArrivesKeepsToken(k) ==
    /\ task[k].kind \in CaptchaForm \cup {"reset"} /\ task[k].step = "answered"
    /\ task' = Ended(k)
    /\ IF task[k].answer = "ok" THEN Refused(k, [page EXCEPT !.done = TRUE])
                                ELSE Refused(k, page)
    /\ UNCHANGED <<server, cookies, auth, past>>

FormArrives(k) ==
    /\ task[k].kind \in CaptchaForm \cup {"reset"} /\ task[k].step = "answered"
    /\ task' = Ended(k)
    /\ IF task[k].answer = "ok" THEN Refused(k, [page EXCEPT !.done = TRUE])
                                ELSE Refused(k, [page EXCEPT !.token = 0])
    /\ UNCHANGED <<server, cookies, auth, past>>

\* logout: the cookies are cleared, and nobody is signed in.
LogoutArrives(k) ==
    /\ task[k].kind = "logout" /\ task[k].step = "answered"
    /\ IF task[k].answer = "ok"
       THEN jar' = 0 /\ keep' = 0 /\ user' = None /\ Goes(Guarded(page.at, None), Ended(k))
       ELSE task' = Ended(k) /\ UNCHANGED <<cookies, user, page>>
    /\ UNCHANGED <<server, loading, csrf, past>>

\* Mutant: an error leaves the button disabled.
DeleteArrivesStaysBusy(k) ==
    /\ task[k].kind = "delete" /\ task[k].step = "answered"
    /\ IF task[k].answer = "ok"
       THEN jar' = 0 /\ keep' = 0 /\ task' = Refreshes(k, 0, 0) /\ page' = page
       ELSE task' = Ended(k) /\ UNCHANGED <<cookies, page>>
    /\ UNCHANGED <<server, auth, past>>

DeleteArrives(k) ==
    /\ task[k].kind = "delete" /\ task[k].step = "answered"
    /\ IF task[k].answer = "ok"
       THEN jar' = 0 /\ keep' = 0 /\ task' = Refreshes(k, 0, 0) /\ page' = page
       ELSE task' = Ended(k) /\ Refused(k, page) /\ UNCHANGED cookies
    /\ UNCHANGED <<server, auth, past>>

\* Where the tab is when refresh ends: a login goes on to the bookmarklet,
\* whatever page is open by then.
Destination(k) == IF task[k].kind = "login" THEN "setup" ELSE page.at

\* The end of refresh; the page that waited for it is no longer busy.
MeArrives(k) ==
    /\ task[k].step = "told"
    /\ user' = task[k].arg
    /\ csrf' = (task[k].arg # None)
    /\ loading' = FALSE
    /\ LET at == Guarded(Destination(k), task[k].arg) IN
         IF at = page.at
         THEN /\ page' = IF task[k].here THEN [page EXCEPT !.busy = FALSE] ELSE page
              /\ task' = Ended(k)
         ELSE page' = Mounted(at) /\ task' = Left(Ended(k))
    /\ UNCHANGED <<server, cookies, past>>

-----------------------------------------------------------------------------
(* The rest of the world.                                                  *)

\* In another tab somebody signs out, or in, maybe as someone else (bound:
\* once, before two logins overlap).
Elsewhere ==
    /\ ~crossed /\ crossed' = TRUE
    /\ \/ jar' = 0 /\ keep' = 0 /\ live' = live \ {jar} /\ UNCHANGED <<owner, good>>
       \/ \E s \in Sid, u \in exists \ Unverified, remember \in BOOLEAN :
            /\ NewSession(s, u, remember)
            /\ jar' = s /\ keep' = IF remember THEN s ELSE keep
    /\ UNCHANGED <<exists, failures, auth, page, task, mixed>>

\* The session of the cookie reaches its time to live (or its user sets a new
\* password elsewhere); failures are counted for a while; the csrf_token
\* cookie lives for an hour after authMe, and the next authMe of a tab draws
\* another value.
Lapse ==
    /\ \/ jar \in live /\ live' = live \ {jar} /\ UNCHANGED <<failures, csrf>>
       \/ failures' = 0 /\ failures # 0 /\ UNCHANGED <<live, csrf>>
       \/ csrf /\ csrf' = FALSE /\ UNCHANGED <<live, failures>>
    /\ UNCHANGED <<exists, owner, good, cookies, user, loading, page, task, past>>

Next ==
    \/ \E at \in Route : Visit(at)
    \/ Solve \/ CaptchaExpires
    \/ SubmitLogin \/ SubmitForm \/ SubmitLogout \/ SubmitDelete
    \/ \E k \in Task :
         \/ ServeLogin(k) \/ ServeForm(k) \/ ServeLogout(k) \/ ServeDelete(k) \/ ServeMe(k)
         \/ Lose(k)
         \/ LoginArrives(k) \/ FormArrives(k) \/ LogoutArrives(k)
         \/ DeleteArrives(k) \/ MeArrives(k)
    \/ Elsewhere \/ Lapse

Spec == Init /\ [][Next]_vars

-----------------------------------------------------------------------------
(* Properties.                                                             *)

\* The tab shows the user its cookies are of, and the deletion of an account
\* carries cookies of the user the page shows: until another tab signs in, two
\* logins overlap (the answers of authMe may come in another order than they
\* were sent, and the csrf_token stays the same from user to user) or a login
\* without "remember" finds the remember cookie of somebody else.
ActsAsShown ==
    ~crossed /\ ~mixed =>
        /\ user # None => \A s \in {jar, keep} \ {0} : owner[s] = user
        /\ \A k \in Task : task[k].kind = "delete" /\ task[k].step = "post" =>
              \A s \in {task[k].sid, task[k].keep} \ {0} : owner[s] = task[k].arg

\* The same with the remember cookie of somebody else: an account that the
\* server deletes is the one whose page asked for it.
DeletesWhatIsShown ==
    \A k \in Task : ~crossed /\ task[k].kind = "delete" /\ task[k].step = "post" /\ task[k].csrf =>
        Named(k) \in {None, task[k].arg}

\* To ask who is signed in ends no sign-in: the browser that has a session, or
\* a remember token that is good, still has one after authMe.
SignedIn == jar \in live \/ keep \in good
AskingKeepsSignIn == [][\A k \in Task : ServeMe(k) /\ SignedIn => SignedIn']_vars

\* A button that is disabled while a request is under way is enabled again:
\* no page is busy without a task of its own (setBusy in finally).
BusyWhileWorking == page.busy => \E k \in Task : task[k].here

\* Sign-up and the request for another verification mail never send a
\* captcha token that the server has seen (resetTurnstile).
FreshCaptcha ==
    \A k \in Task :
        task[k].kind \in {"signup", "resend"} /\ task[k].step = "post" /\ task[k].here =>
            task[k].token \notin page.spent
=============================================================================
