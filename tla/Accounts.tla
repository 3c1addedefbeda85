------------------------------ MODULE Accounts ------------------------------
(***************************************************************************)
(* One account, from sign-up to deletion, and the requests that act on it  *)
(* at the same time (backend/cmd/server/auth.go, the tokens of             *)
(* backend/internal/store/auth.go and the sessions of                      *)
(* backend/internal/session/redis_store.go).                               *)
(*                                                                         *)
(* The server keeps nothing in memory: the account and its one-time tokens *)
(* are rows of SQLite, behind a single connection, so that a statement or  *)
(* a transaction is one step; its sessions are keys of Redis.  A handler   *)
(* makes several such steps and holds nothing between them.  Any of them   *)
(* may fail: most handlers then give up, and resetting the password or     *)
(* deleting the account ignores the errors of its clean-up.                *)
(*                                                                         *)
(* Passwords, mail addresses, captchas, rate limits and cookies are inputs *)
(* here: a login is one with the right password, and a request may carry   *)
(* any session or remember token there is, or the account's ingest token,  *)
(* which it has from sign-up on and which nothing takes away.              *)
(***************************************************************************)
CONSTANTS
    Request,        \* the goroutines that serve a request
    Sid,            \* the session ids, reset, verification and remember
    ResetToken,     \* tokens that crypto/rand can draw; none is drawn twice
    VerifyToken,
    RememberToken,
    NoToken

ASSUME AccountsAssumption ==
    /\ NoToken \notin ResetToken
    /\ Sid \cap ResetToken = {}
    /\ Sid \cap RememberToken = {}
    /\ ResetToken \cap RememberToken = {}

VARIABLES
    registered,     \* the row of the account exists
    verified,       \* email_verified_at is set
    deleted,        \* deleted_at is set
    resetToken,     \* per token, its row in password_reset_tokens
    verifyToken,    \* ... in email_verification_tokens
    rememberToken,  \* ... in remember_tokens
    session,        \* per sid, its key in Redis
    request,        \* per goroutine, what it is about to do
    resetBy         \* tokens that a change of the password was made with,
                    \* and those that more than one was (history)

vars == <<registered, verified, deleted, resetToken, verifyToken, rememberToken,
          session, request, resetBy>>

account == <<registered, verified, deleted>>
tokens == <<resetToken, verifyToken, rememberToken>>

\* "used": used_at is set; "revoked": revoked_at is; "expired": neither is,
\* and expires_at has passed.  "gone": deleted, or past its time to live.
MailTokenState == {"none", "live", "used", "expired"}
RememberState == {"none", "live", "used", "revoked", "expired"}
SessionState == {"none", "live", "gone"}

LiveSessions == {s \in Sid : session[s] = "live"}
LiveRemember == {t \in RememberToken : rememberToken[t] = "live"}
LiveReset == {t \in ResetToken : resetToken[t] = "live"}

Handle == Sid \cup RememberToken \cup ResetToken

Live == LiveSessions \cup LiveRemember \cup LiveReset

AnyToken == ResetToken \cup {NoToken}

\* at names the step that comes next.
Step == {"idle", "markVerify", "addVerify", "markReset", "addReset",
         "session", "remember", "update", "revokeReset", "revokeRemember",
         "scan", "answer", "user", "serve", "delete", "ingest"}

\* keep: the login asked to be remembered; closing: the request deletes the
\* account; token: the reset token in hand; todo: the keys that the scan under
\* way will still return.  History: before is what was live when the password
\* changed or the account was deleted, clean says that nothing has failed
\* since, and late that the account was deleted when the request came.
RequestState ==
    [at : Step, keep : BOOLEAN, closing : BOOLEAN, token : AnyToken,
     todo : SUBSET Sid, before : SUBSET Handle, clean : BOOLEAN, late : BOOLEAN]

Idle == [at |-> "idle", keep |-> FALSE, closing |-> FALSE, token |-> NoToken,
         todo |-> {}, before |-> {}, clean |-> TRUE, late |-> FALSE]

TypeOK ==
    /\ registered \in BOOLEAN /\ verified \in BOOLEAN /\ deleted \in BOOLEAN
    /\ resetToken \in [ResetToken -> MailTokenState]
    /\ verifyToken \in [VerifyToken -> MailTokenState]
    /\ rememberToken \in [RememberToken -> RememberState]
    /\ session \in [Sid -> SessionState]
    /\ request \in [Request -> RequestState]
    /\ resetBy \in [once : SUBSET AnyToken, again : SUBSET AnyToken]

Init ==
    /\ registered = FALSE /\ verified = FALSE /\ deleted = FALSE
    /\ resetToken = [t \in ResetToken |-> "none"]
    /\ verifyToken = [t \in VerifyToken |-> "none"]
    /\ rememberToken = [t \in RememberToken |-> "none"]
    /\ session = [s \in Sid |-> "none"]
    /\ request = [r \in Request |-> Idle]
    /\ resetBy = [once |-> {}, again |-> {}]

Becomes(r, q) == request' = [request EXCEPT ![r] = q]

Begin(r, q) == request[r].at = "idle" /\ Becomes(r, q)

GoTo(r, step) == Becomes(r, [request[r] EXCEPT !.at = step])

Finish(r) == Becomes(r, Idle)

-----------------------------------------------------------------------------
(* Sign-up and the verification mail. *)

\* UPDATE ... SET used_at WHERE used_at IS NULL, expired tokens included.
AllUsed(token) ==
    [t \in DOMAIN token |-> IF token[t] \in {"live", "expired"} THEN "used" ELSE token[t]]

\* CreateAuthUser; the unique index on the mail address refuses a second one.
SignUp(r) ==
    /\ ~registered
    /\ registered' = TRUE
    /\ Begin(r, [Idle EXCEPT !.at = "markVerify"])
    /\ UNCHANGED <<verified, deleted, tokens, session, resetBy>>

ResendVerification(r) ==
    /\ registered /\ ~deleted /\ ~verified
    /\ Begin(r, [Idle EXCEPT !.at = "markVerify"])
    /\ UNCHANGED <<account, tokens, session, resetBy>>

\* CreateEmailVerificationToken: two statements, no transaction.
MarkVerifyTokens(r) ==
    /\ request[r].at = "markVerify"
    /\ verifyToken' = AllUsed(verifyToken)
    /\ GoTo(r, "addVerify")
    /\ UNCHANGED <<account, resetToken, rememberToken, session, resetBy>>

AddVerifyToken(r, t) ==
    /\ request[r].at = "addVerify"
    /\ verifyToken[t] = "none"
    /\ verifyToken' = [verifyToken EXCEPT ![t] = "live"]
    /\ Finish(r)
    /\ UNCHANGED <<account, resetToken, rememberToken, session, resetBy>>

\* CompleteEmailVerification, one transaction; it answers the user of the token
\* even when there was no undeleted row to verify.
VerifyEmail(r, t) ==
    /\ verifyToken[t] = "live"
    /\ verifyToken' = [verifyToken EXCEPT ![t] = "used"]
    /\ verified' = (verified \/ ~deleted)
    /\ Begin(r, [Idle EXCEPT !.at = "session"])
    /\ UNCHANGED <<registered, deleted, resetToken, rememberToken, session, resetBy>>

-----------------------------------------------------------------------------
(* Login and issueSession. *)

\* Mutant: nobody looks whether the mail address is verified.
LoginUnverified(r, keep) ==
    /\ registered /\ ~deleted
    /\ Begin(r, [Idle EXCEPT !.at = "session", !.keep = keep])
    /\ UNCHANGED <<account, tokens, session, resetBy>>

\* UserByEmail and the comparisons with the row that it read.
Login(r, keep) ==
    /\ registered /\ ~deleted /\ verified
    /\ Begin(r, [Idle EXCEPT !.at = "session", !.keep = keep])
    /\ UNCHANGED <<account, tokens, session, resetBy>>

SetSession(r, s) ==
    /\ request[r].at = "session"
    /\ session[s] = "none"
    /\ session' = [session EXCEPT ![s] = "live"]
    /\ IF request[r].keep THEN GoTo(r, "remember") ELSE Finish(r)
    /\ UNCHANGED <<account, tokens, resetBy>>

CreateRememberToken(r, t) ==
    /\ request[r].at = "remember"
    /\ rememberToken[t] = "none"
    /\ rememberToken' = [rememberToken EXCEPT ![t] = "live"]
    /\ Finish(r)
    /\ UNCHANGED <<account, resetToken, verifyToken, session, resetBy>>

\* Logout deletes the session of its cookie; the remember token stays.
Logout(r, s) ==
    /\ session[s] = "live"
    /\ session' = [session EXCEPT ![s] = "gone"]
    /\ Begin(r, Idle)
    /\ UNCHANGED <<account, tokens, resetBy>>

-----------------------------------------------------------------------------
(* userFromSession, for a request that closes the account or any other. *)

Arrive(closing) == [Idle EXCEPT !.at = "user", !.closing = closing, !.late = deleted]

AuthBySession(r, s, closing) ==
    /\ session[s] = "live"
    /\ Begin(r, Arrive(closing))
    /\ UNCHANGED <<account, tokens, session, resetBy>>

\* The session is unknown or Redis does not answer: ConsumeRememberToken.
AuthByRemember(r, t, closing) ==
    /\ rememberToken[t] = "live"
    /\ rememberToken' = [rememberToken EXCEPT ![t] = "used"]
    /\ Begin(r, Arrive(closing))
    /\ UNCHANGED <<account, resetToken, verifyToken, session, resetBy>>

\* Mutant: the row is not asked whether it was deleted.
LoadUserUnchecked(r) ==
    /\ request[r].at = "user"
    /\ GoTo(r, IF request[r].closing THEN "delete" ELSE "serve")
    /\ UNCHANGED <<account, tokens, session, resetBy>>

\* UserByID, and the check of deleted_at.
LoadUser(r) ==
    /\ request[r].at = "user"
    /\ IF deleted THEN Finish(r)
       ELSE GoTo(r, IF request[r].closing THEN "delete" ELSE "serve")
    /\ UNCHANGED <<account, tokens, session, resetBy>>

\* The bookmarklet's requests carry the ingest token: UserByIngestToken looks
\* for its row only, and what follows (saving scores, /me, rating targets, a
\* bookmarklet session) serves the row's user.
AuthByIngestToken(r) ==
    /\ registered
    /\ Begin(r, [Idle EXCEPT !.at = "ingest", !.late = deleted])
    /\ UNCHANGED <<account, tokens, session, resetBy>>

Serve(r) ==
    /\ request[r].at \in {"serve", "ingest"}
    /\ Finish(r)
    /\ UNCHANGED <<account, tokens, session, resetBy>>

-----------------------------------------------------------------------------
(* The forgotten password. *)

ForgotPassword(r) ==
    /\ registered /\ ~deleted
    /\ Begin(r, [Idle EXCEPT !.at = "markReset"])
    /\ UNCHANGED <<account, tokens, session, resetBy>>

\* CreatePasswordResetToken: two statements, no transaction.
MarkResetTokens(r) ==
    /\ request[r].at = "markReset"
    /\ resetToken' = AllUsed(resetToken)
    /\ GoTo(r, "addReset")
    /\ UNCHANGED <<account, verifyToken, rememberToken, session, resetBy>>

AddResetToken(r, t) ==
    /\ request[r].at = "addReset"
    /\ resetToken[t] = "none"
    /\ resetToken' = [resetToken EXCEPT ![t] = "live"]
    /\ Finish(r)
    /\ UNCHANGED <<account, verifyToken, rememberToken, session, resetBy>>

\* Mutant: the token is marked with the other clean-up, after the change.
ConsumeResetTokenLater(r, t) ==
    /\ resetToken[t] = "live"
    /\ Begin(r, [Idle EXCEPT !.at = "update", !.token = t])
    /\ UNCHANGED <<account, tokens, session, resetBy>>

\* ConsumePasswordResetToken, one transaction.
ConsumeResetToken(r, t) ==
    /\ resetToken[t] = "live"
    /\ resetToken' = [resetToken EXCEPT ![t] = "used"]
    /\ Begin(r, [Idle EXCEPT !.at = "update", !.token = t])
    /\ UNCHANGED <<account, verifyToken, rememberToken, session, resetBy>>

\* HashPassword and UpdatePassword, whatever has become of the account.
UpdatePassword(r) ==
    /\ request[r].at = "update"
    /\ Becomes(r, [request[r] EXCEPT !.at = "revokeReset", !.before = Live])
    /\ LET t == request[r].token IN
       resetBy' = [once |-> resetBy.once \cup {t},
                   again |-> resetBy.again \cup (resetBy.once \cap {t})]
    /\ UNCHANGED <<account, tokens, session>>

RevokeResetTokens(r) ==
    /\ request[r].at = "revokeReset"
    /\ resetToken' = AllUsed(resetToken)
    /\ GoTo(r, "revokeRemember")
    /\ UNCHANGED <<account, verifyToken, rememberToken, session, resetBy>>

-----------------------------------------------------------------------------
(* Deleting the account, and what it and the reset clean up. *)

SoftDeleteUser(r) ==
    /\ request[r].at = "delete"
    /\ deleted' = TRUE
    /\ Becomes(r, [request[r] EXCEPT !.at = "revokeRemember",
                                     !.before = LiveSessions \cup LiveRemember])
    /\ UNCHANGED <<registered, verified, tokens, session, resetBy>>

\* RevokeRememberTokensByUser; the scan that follows returns at least the keys
\* that are there now and still there when their turn comes.
RevokeRememberTokens(r) ==
    /\ request[r].at = "revokeRemember"
    /\ rememberToken' = [t \in RememberToken |->
            IF rememberToken[t] \in {"live", "used", "expired"} THEN "revoked"
            ELSE rememberToken[t]]
    /\ Becomes(r, [request[r] EXCEPT !.at = "scan", !.todo = LiveSessions])
    /\ UNCHANGED <<account, resetToken, verifyToken, session, resetBy>>

\* DeleteUserSessions, one key; keys that were set meanwhile may turn up too.
ScanDeletes(r, s) ==
    /\ request[r].at = "scan"
    /\ session[s] = "live"
    /\ session' = [session EXCEPT ![s] = "gone"]
    /\ Becomes(r, [request[r] EXCEPT !.todo = @ \ {s}])
    /\ UNCHANGED <<account, tokens, resetBy>>

\* Mutant: one page of the scan is taken for all of it.
ScanEndsEarly(r) ==
    /\ request[r].at = "scan"
    /\ GoTo(r, "answer")
    /\ UNCHANGED <<account, tokens, session, resetBy>>

ScanEnds(r) ==
    /\ request[r].at = "scan"
    /\ request[r].todo \cap LiveSessions = {}
    /\ GoTo(r, "answer")
    /\ UNCHANGED <<account, tokens, session, resetBy>>

AnswerOk(r) ==
    /\ request[r].at = "answer"
    /\ Finish(r)
    /\ UNCHANGED <<account, tokens, session, resetBy>>

-----------------------------------------------------------------------------
(* Failures. *)

\* A statement or a Redis command fails and the handler gives up; what it has
\* done so far stays.
GivesUp(r) ==
    /\ request[r].at \in {"markVerify", "addVerify", "markReset", "addReset",
                          "session", "remember", "update", "delete", "user"}
    /\ Finish(r)
    /\ UNCHANGED <<account, tokens, session, resetBy>>

\* The clean-up ignores its errors: an UPDATE fails, a key cannot be read or
\* deleted, or the scan stops because Redis does or the client has gone.
CleanUpFailed(q) ==
    CASE q.at = "revokeReset" -> {[q EXCEPT !.at = "revokeRemember", !.clean = FALSE]}
      [] q.at = "revokeRemember" -> {[q EXCEPT !.at = "scan", !.todo = LiveSessions, !.clean = FALSE]}
      [] q.at = "scan" -> {[q EXCEPT !.at = "answer", !.clean = FALSE]}
                            \cup {[q EXCEPT !.todo = @ \ {s}, !.clean = FALSE] : s \in q.todo}
      [] OTHER -> {}

CleanUpFails(r) ==
    /\ \E q \in CleanUpFailed(request[r]) : Becomes(r, q)
    /\ UNCHANGED <<account, tokens, session, resetBy>>

\* The server is restarted: every request is gone, the two stores are not.
Crash ==
    /\ request' = [r \in Request |-> Idle]
    /\ UNCHANGED <<account, tokens, session, resetBy>>

\* Time passes.
Expire ==
    /\ \/ /\ \E t \in ResetToken : resetToken[t] = "live"
                 /\ resetToken' = [resetToken EXCEPT ![t] = "expired"]
          /\ UNCHANGED <<verifyToken, rememberToken, session>>
       \/ /\ \E t \in VerifyToken : verifyToken[t] = "live"
                 /\ verifyToken' = [verifyToken EXCEPT ![t] = "expired"]
          /\ UNCHANGED <<resetToken, rememberToken, session>>
       \/ /\ \E t \in RememberToken : rememberToken[t] = "live"
                 /\ rememberToken' = [rememberToken EXCEPT ![t] = "expired"]
          /\ UNCHANGED <<resetToken, verifyToken, session>>
       \/ /\ \E s \in Sid : session[s] = "live"
                 /\ session' = [session EXCEPT ![s] = "gone"]
          /\ UNCHANGED tokens
    /\ UNCHANGED <<account, request, resetBy>>

Next ==
    \/ \E r \in Request :
          \/ SignUp(r) \/ ResendVerification(r) \/ MarkVerifyTokens(r)
          \/ \E t \in VerifyToken : AddVerifyToken(r, t) \/ VerifyEmail(r, t)
          \/ \E keep \in BOOLEAN : Login(r, keep)
          \/ \E t \in RememberToken : CreateRememberToken(r, t)
          \/ \E s \in Sid : SetSession(r, s) \/ Logout(r, s) \/ ScanDeletes(r, s)
          \/ \E s \in Sid, closing \in BOOLEAN : AuthBySession(r, s, closing)
          \/ \E t \in RememberToken, closing \in BOOLEAN : AuthByRemember(r, t, closing)
          \/ LoadUser(r) \/ AuthByIngestToken(r) \/ Serve(r)
          \/ ForgotPassword(r) \/ MarkResetTokens(r)
          \/ \E t \in ResetToken : AddResetToken(r, t) \/ ConsumeResetToken(r, t)
          \/ UpdatePassword(r) \/ RevokeResetTokens(r)
          \/ SoftDeleteUser(r) \/ RevokeRememberTokens(r) \/ ScanEnds(r) \/ AnswerOk(r)
          \/ GivesUp(r) \/ CleanUpFails(r)
    \/ Crash
    \/ Expire

Spec == Init /\ [][Next]_vars

-----------------------------------------------------------------------------
(* What the account promises. *)

\* When a reset or a deletion whose clean-up met no error answers, nothing that
\* was live when the password changed, or the account was deleted, still is:
\* no session, no remember token and, after a reset, no older reset link; other
\* requests may log in, log out, ask for links and reset at the same time.
NothingOutlivesReset ==
    \A r \in Request :
        request[r].at = "answer" /\ request[r].clean => request[r].before \cap Live = {}

\* A password reset link changes the password at most once, however many
\* requests carry it and wherever they fail.
OneChangePerToken == resetBy.again = {}

\* Nobody is signed in, or remembered, to an account whose mail address was
\* never verified: a deletion between sending and opening the link included.
OnlyVerifiedSignIn == Live \ ResetToken # {} => verified

\* No request that comes after the account was deleted is served as its user
\* for a session or a remember token, although a login or verification under
\* way may still set a session then (userFromSession).  Requests that carry the
\* ingest token are another matter, see the next property.
NoSignInAfterDeletion ==
    \A r \in Request : request[r].at \in {"serve", "delete"} => ~request[r].late

\* "Retention: deleted on withdrawal or by the data deletion policy"
\* (frontend/src/pages/PolicyPage.tsx:34): nothing is stored or served any more
\* for an account that was deleted.  The code violates this: UserByIngestToken
\* does not ask for deleted_at.
DeletionEndsIngest ==
    \A r \in Request : request[r].at = "ingest" => ~request[r].late

\* "To keep an older token of the same user from staying valid by accident"
\* (backend/internal/store/auth.go:173): one reset link at a time works.  The
\* code does not keep this, and no run asks for it: of two requests at once
\* each marks the old tokens before the other inserts its own.
OneLiveResetToken == \A t, u \in LiveReset : t = u

\* "Stay signed in (30 days)" (frontend/src/pages/LoginPage.tsx:62): being used
\* does not end a remembered login, unless it yields a session or a new token.
\* The code does not keep this, and no run asks for it: AuthByRemember spends
\* the token on one request.
StaysRemembered ==
    [][\A t \in RememberToken :
          rememberToken[t] = "live" /\ rememberToken'[t] = "used"
              => \/ \E u \in RememberToken : rememberToken[u] = "none" /\ rememberToken'[u] = "live"
                 \/ \E s \in Sid : session[s] = "none" /\ session'[s] = "live"]_vars
=============================================================================
