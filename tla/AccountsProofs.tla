--------------------------- MODULE AccountsProofs ---------------------------
(***************************************************************************)
(* Proofs about module Accounts, for any number of requests, sessions and  *)
(* tokens.  The argument rests on one fact about the two stores: what was  *)
(* drawn never becomes fresh again, and only what is fresh becomes live.   *)
(***************************************************************************)
EXTENDS Accounts, TLAPS

\* Request r, in the middle of an operation or not, takes a step.
RequestStep(r) ==
    \/ SignUp(r) \/ ResendVerification(r) \/ MarkVerifyTokens(r)
    \/ \E t \in VerifyToken : AddVerifyToken(r, t) \/ VerifyEmail(r, t)
    \/ \E keep \in BOOLEAN : Login(r, keep)
    \/ \E t \in RememberToken : CreateRememberToken(r, t)
    \/ \E s \in Sid : SetSession(r, s) \/ Logout(r, s) \/ ScanDeletes(r, s)
    \/ \E s \in Sid, closing \in BOOLEAN : AuthBySession(r, s, closing)
    \/ \E t \in RememberToken, closing \in BOOLEAN : AuthByRemember(r, t, closing)
    \/ LoadUser(r) \/ AuthByIngestToken(r) \/ Serve(r)
    \/ ForgotPassword(r) \/ MarkResetTokens(r)
    \/ \E t \in ResetToken : AddResetToken(r, t) \/ ConsumeResetToken(r, t)
    \/ UpdatePassword(r) \/ RevokeResetTokens(r)
    \/ SoftDeleteUser(r) \/ RevokeRememberTokens(r) \/ ScanEnds(r) \/ AnswerOk(r)
    \/ GivesUp(r) \/ CleanUpFails(r)

\* A step is a request's, a crash, the passing of time, or none at all.
LEMMA StepCases == [Next]_vars => (\E r \in Request : RequestStep(r)) \/ Crash \/ Expire \/ UNCHANGED vars
BY DEF Next, RequestStep

-----------------------------------------------------------------------------
(* Types. *)

LEMMA IdleTyped == Idle \in RequestState
BY DEF Idle, RequestState, AnyToken, Step

LEMMA BecomesTyped ==
    ASSUME request \in [Request -> RequestState], NEW r \in Request,
           NEW q \in RequestState, Becomes(r, q)
    PROVE  request' \in [Request -> RequestState]
BY DEF Becomes

LEMMA GoToTyped ==
    ASSUME request \in [Request -> RequestState], NEW r \in Request,
           NEW step \in Step, GoTo(r, step)
    PROVE  request' \in [Request -> RequestState]
<1>1. [request[r] EXCEPT !.at = step] \in RequestState
  BY DEF RequestState
<1>. QED  BY <1>1, BecomesTyped DEF GoTo

LEMMA FinishTyped ==
    ASSUME request \in [Request -> RequestState], NEW r \in Request, Finish(r)
    PROVE  request' \in [Request -> RequestState]
BY IdleTyped, BecomesTyped DEF Finish

\* Marking mail tokens as used leaves a table of mail tokens.
LEMMA AllUsedTyped ==
    ASSUME NEW T, NEW token \in [T -> MailTokenState]
    PROVE  AllUsed(token) \in [T -> MailTokenState]
BY DEF AllUsed, MailTokenState

\* The account has just been signed up for, or has not yet: all is empty.
LEMMA InitTyped == Init => TypeOK
<1>. SUFFICES ASSUME Init PROVE TypeOK
  OBVIOUS
<1>1. request \in [Request -> RequestState]
  BY IdleTyped DEF Init
<1>2. resetBy \in [once : SUBSET AnyToken, again : SUBSET AnyToken]
  BY DEF Init
<1>. QED  BY <1>1, <1>2 DEF Init, TypeOK, MailTokenState, RememberState, SessionState

\* One step of a request keeps the types.
LEMMA RequestStepTyped ==
    ASSUME TypeOK, NEW r \in Request, RequestStep(r)
    PROVE  TypeOK'
<1>. USE DEF TypeOK, account, tokens
<1>0. /\ request[r] \in RequestState
      /\ LiveSessions \in SUBSET Sid
      /\ LiveSessions \cup LiveRemember \in SUBSET Handle
      /\ Live \in SUBSET Handle
  BY DEF Live, LiveSessions, LiveRemember, LiveReset, Handle
<1>1. CASE SignUp(r)
  BY <1>1, BecomesTyped DEF SignUp, Begin, RequestState, Step, Idle, Arrive, AnyToken, MailTokenState, RememberState, SessionState
<1>2. CASE ResendVerification(r)
  BY <1>2, BecomesTyped DEF ResendVerification, Begin, RequestState, Step, Idle, Arrive, AnyToken, MailTokenState, RememberState, SessionState
<1>3. CASE MarkVerifyTokens(r)
  BY <1>3, GoToTyped, AllUsedTyped DEF MarkVerifyTokens, RequestState, Step, Idle, Arrive, AnyToken, MailTokenState, RememberState, SessionState
<1>4. ASSUME NEW t \in VerifyToken, AddVerifyToken(r, t)
      PROVE  TypeOK'
  BY <1>4, FinishTyped DEF AddVerifyToken, RequestState, Step, Idle, Arrive, AnyToken, MailTokenState, RememberState, SessionState
<1>5. ASSUME NEW t \in VerifyToken, VerifyEmail(r, t)
      PROVE  TypeOK'
  BY <1>5, BecomesTyped DEF VerifyEmail, Begin, RequestState, Step, Idle, Arrive, AnyToken, MailTokenState, RememberState, SessionState
<1>6. ASSUME NEW keep \in BOOLEAN, Login(r, keep)
      PROVE  TypeOK'
  BY <1>6, BecomesTyped DEF Login, Begin, RequestState, Step, Idle, Arrive, AnyToken, MailTokenState, RememberState, SessionState
<1>7. ASSUME NEW t \in RememberToken, CreateRememberToken(r, t)
      PROVE  TypeOK'
  BY <1>7, FinishTyped DEF CreateRememberToken, RequestState, Step, Idle, Arrive, AnyToken, MailTokenState, RememberState, SessionState
<1>8. ASSUME NEW s \in Sid, SetSession(r, s)
      PROVE  TypeOK'
  BY <1>8, GoToTyped, FinishTyped DEF SetSession, RequestState, Step, Idle, Arrive, AnyToken, MailTokenState, RememberState, SessionState
<1>9. ASSUME NEW s \in Sid, Logout(r, s)
      PROVE  TypeOK'
  BY <1>9, BecomesTyped DEF Logout, Begin, RequestState, Step, Idle, Arrive, AnyToken, MailTokenState, RememberState, SessionState
<1>10. ASSUME NEW s \in Sid, ScanDeletes(r, s)
      PROVE  TypeOK'
  <2>1. [request[r] EXCEPT !.todo = @ \ {s}] \in RequestState
    BY <1>0 DEF RequestState, Step
  <2>. QED  BY <1>10, <2>1, BecomesTyped DEF ScanDeletes, MailTokenState, RememberState, SessionState
<1>11. ASSUME NEW s \in Sid, NEW closing \in BOOLEAN, AuthBySession(r, s, closing)
      PROVE  TypeOK'
  BY <1>11, BecomesTyped DEF AuthBySession, Begin, RequestState, Step, Idle, Arrive, AnyToken, MailTokenState, RememberState, SessionState
<1>12. ASSUME NEW t \in RememberToken, NEW closing \in BOOLEAN, AuthByRemember(r, t, closing)
      PROVE  TypeOK'
  BY <1>12, BecomesTyped DEF AuthByRemember, Begin, RequestState, Step, Idle, Arrive, AnyToken, MailTokenState, RememberState, SessionState
<1>13. CASE LoadUser(r)
  BY <1>13, GoToTyped, FinishTyped DEF LoadUser, RequestState, Step, Idle, Arrive, AnyToken, MailTokenState, RememberState, SessionState
<1>14. CASE Serve(r)
  BY <1>14, FinishTyped DEF Serve, RequestState, Step, Idle, Arrive, AnyToken, MailTokenState, RememberState, SessionState
<1>15. CASE ForgotPassword(r)
  BY <1>15, BecomesTyped DEF ForgotPassword, Begin, RequestState, Step, Idle, Arrive, AnyToken, MailTokenState, RememberState, SessionState
<1>16. CASE MarkResetTokens(r)
  BY <1>16, GoToTyped, AllUsedTyped DEF MarkResetTokens, RequestState, Step, Idle, Arrive, AnyToken, MailTokenState, RememberState, SessionState
<1>17. ASSUME NEW t \in ResetToken, AddResetToken(r, t)
      PROVE  TypeOK'
  BY <1>17, FinishTyped DEF AddResetToken, RequestState, Step, Idle, Arrive, AnyToken, MailTokenState, RememberState, SessionState
<1>18. ASSUME NEW t \in ResetToken, ConsumeResetToken(r, t)
      PROVE  TypeOK'
  BY <1>18, BecomesTyped DEF ConsumeResetToken, Begin, RequestState, Step, Idle, Arrive, AnyToken, MailTokenState, RememberState, SessionState
<1>19. CASE UpdatePassword(r)
  <2>1. [request[r] EXCEPT !.at = "revokeReset", !.before = Live] \in RequestState
    BY <1>0 DEF RequestState, Step
  <2>2. request[r].token \in AnyToken
    BY <1>0 DEF RequestState
  <2>. QED  BY <1>19, <2>1, <2>2, BecomesTyped DEF UpdatePassword, MailTokenState, RememberState, SessionState
<1>20. CASE RevokeResetTokens(r)
  BY <1>20, GoToTyped, AllUsedTyped DEF RevokeResetTokens, RequestState, Step, Idle, Arrive, AnyToken, MailTokenState, RememberState, SessionState
<1>21. CASE SoftDeleteUser(r)
  <2>1. [request[r] EXCEPT !.at = "revokeRemember",
                            !.before = LiveSessions \cup LiveRemember] \in RequestState
    BY <1>0 DEF RequestState, Step
  <2>. QED  BY <1>21, <2>1, BecomesTyped DEF SoftDeleteUser, MailTokenState, RememberState, SessionState
<1>22. CASE RevokeRememberTokens(r)
  <2>1. [request[r] EXCEPT !.at = "scan", !.todo = LiveSessions] \in RequestState
    BY <1>0 DEF RequestState, Step
  <2>. QED  BY <1>22, <2>1, BecomesTyped DEF RevokeRememberTokens, MailTokenState, RememberState, SessionState
<1>23. CASE ScanEnds(r)
  BY <1>23, GoToTyped DEF ScanEnds, RequestState, Step, Idle, Arrive, AnyToken, MailTokenState, RememberState, SessionState
<1>24. CASE AnswerOk(r)
  BY <1>24, FinishTyped DEF AnswerOk, RequestState, Step, Idle, Arrive, AnyToken, MailTokenState, RememberState, SessionState
<1>25. CASE GivesUp(r)
  BY <1>25, FinishTyped DEF GivesUp, RequestState, Step, Idle, Arrive, AnyToken, MailTokenState, RememberState, SessionState
<1>26. CASE CleanUpFails(r)
  <2>1. PICK q \in CleanUpFailed(request[r]) : Becomes(r, q)
    BY <1>26 DEF CleanUpFails
  <2>2. /\ [request[r] EXCEPT !.at = "revokeRemember", !.clean = FALSE] \in RequestState
        /\ [request[r] EXCEPT !.at = "scan", !.todo = LiveSessions, !.clean = FALSE] \in RequestState
        /\ [request[r] EXCEPT !.at = "answer", !.clean = FALSE] \in RequestState
        /\ \A s : [request[r] EXCEPT !.todo = @ \ {s}, !.clean = FALSE] \in RequestState
    BY <1>0 DEF RequestState, Step
  <2>3. q \in RequestState
    BY ZenonT(30), <2>1, <2>2 DEF CleanUpFailed
  <2>. QED  BY <1>26, <2>1, <2>3, BecomesTyped DEF CleanUpFails
<1>27. CASE AuthByIngestToken(r)
  BY <1>27, BecomesTyped DEF AuthByIngestToken, Begin, RequestState, Step, Idle, AnyToken, MailTokenState, RememberState, SessionState
<1>. QED  BY <1>1, <1>2, <1>3, <1>4, <1>5, <1>6, <1>7, <1>8, <1>9, <1>10, <1>11, <1>12, <1>13, <1>14, <1>15, <1>16, <1>17, <1>18, <1>19, <1>20, <1>21, <1>22, <1>23, <1>24, <1>25, <1>26, <1>27 DEF RequestStep

LEMMA CrashTyped == TypeOK /\ Crash => TypeOK'
BY IdleTyped DEF TypeOK, Crash, account, tokens

LEMMA ExpireTyped == TypeOK /\ Expire => TypeOK'
BY DEF TypeOK, Expire, account, tokens, MailTokenState, RememberState, SessionState

LEMMA StepTyped == TypeOK /\ [Next]_vars => TypeOK'
<1>. SUFFICES ASSUME TypeOK, [Next]_vars PROVE TypeOK'
  OBVIOUS
<1>1. CASE \E r \in Request : RequestStep(r)
  BY <1>1, RequestStepTyped
<1>2. CASE UNCHANGED vars
  BY <1>2 DEF TypeOK, vars
<1>. QED  BY <1>1, <1>2, StepCases, CrashTyped, ExpireTyped

\* Every variable keeps its type: a token never gets a state that its table
\* cannot hold, and a request never a step that its handler does not have.
THEOREM AccountTypes == Spec => []TypeOK
<1>. QED  BY InitTyped, StepTyped, PTL DEF Spec

-----------------------------------------------------------------------------
(* The two stores only age. *)

\* What was drawn stays drawn, and what is live was live or is freshly drawn.
Ages ==
    /\ \A s \in Sid : session[s] # "none" =>
            session'[s] # "none" /\ (session'[s] = "live" => session[s] = "live")
    /\ \A t \in ResetToken : resetToken[t] # "none" =>
            resetToken'[t] # "none" /\ (resetToken'[t] = "live" => resetToken[t] = "live")
    /\ \A t \in RememberToken : rememberToken[t] # "none" =>
            rememberToken'[t] # "none" /\ (rememberToken'[t] = "live" => rememberToken[t] = "live")

LEMMA StepAges == TypeOK /\ [Next]_vars => Ages
<1>. SUFFICES ASSUME TypeOK, [Next]_vars PROVE Ages
  OBVIOUS
<1>. USE DEF Ages, TypeOK, account, tokens
<1>1. ASSUME NEW r \in Request, RequestStep(r)
      PROVE  Ages
  <2>1. CASE SignUp(r)
    BY <2>1 DEF SignUp
  <2>2. CASE ResendVerification(r)
    BY <2>2 DEF ResendVerification
  <2>3. CASE MarkVerifyTokens(r)
    BY <2>3 DEF MarkVerifyTokens
  <2>4. ASSUME NEW t \in VerifyToken, AddVerifyToken(r, t)
        PROVE  Ages
    BY <2>4 DEF AddVerifyToken
  <2>5. ASSUME NEW t \in VerifyToken, VerifyEmail(r, t)
        PROVE  Ages
    BY <2>5 DEF VerifyEmail
  <2>6. ASSUME NEW keep \in BOOLEAN, Login(r, keep)
        PROVE  Ages
    BY <2>6 DEF Login
  <2>7. ASSUME NEW t \in RememberToken, CreateRememberToken(r, t)
        PROVE  Ages
    BY <2>7 DEF CreateRememberToken
  <2>8. ASSUME NEW s \in Sid, SetSession(r, s)
        PROVE  Ages
    BY <2>8 DEF SetSession
  <2>9. ASSUME NEW s \in Sid, Logout(r, s)
        PROVE  Ages
    BY <2>9 DEF Logout
  <2>10. ASSUME NEW s \in Sid, ScanDeletes(r, s)
        PROVE  Ages
    BY <2>10 DEF ScanDeletes
  <2>11. ASSUME NEW s \in Sid, NEW closing \in BOOLEAN, AuthBySession(r, s, closing)
        PROVE  Ages
    BY <2>11 DEF AuthBySession
  <2>12. ASSUME NEW t \in RememberToken, NEW closing \in BOOLEAN, AuthByRemember(r, t, closing)
        PROVE  Ages
    BY <2>12 DEF AuthByRemember
  <2>13. CASE LoadUser(r)
    BY <2>13 DEF LoadUser
  <2>14. CASE Serve(r)
    BY <2>14 DEF Serve
  <2>15. CASE ForgotPassword(r)
    BY <2>15 DEF ForgotPassword
  <2>16. CASE MarkResetTokens(r)
    BY <2>16 DEF MarkResetTokens, AllUsed
  <2>17. ASSUME NEW t \in ResetToken, AddResetToken(r, t)
        PROVE  Ages
    BY <2>17 DEF AddResetToken
  <2>18. ASSUME NEW t \in ResetToken, ConsumeResetToken(r, t)
        PROVE  Ages
    BY <2>18 DEF ConsumeResetToken
  <2>19. CASE UpdatePassword(r)
    BY <2>19 DEF UpdatePassword
  <2>20. CASE RevokeResetTokens(r)
    BY <2>20 DEF RevokeResetTokens, AllUsed
  <2>21. CASE SoftDeleteUser(r)
    BY <2>21 DEF SoftDeleteUser
  <2>22. CASE RevokeRememberTokens(r)
    BY <2>22 DEF RevokeRememberTokens
  <2>23. CASE ScanEnds(r)
    BY <2>23 DEF ScanEnds
  <2>24. CASE AnswerOk(r)
    BY <2>24 DEF AnswerOk
  <2>25. CASE GivesUp(r)
    BY <2>25 DEF GivesUp
  <2>26. CASE CleanUpFails(r)
    BY <2>26 DEF CleanUpFails
  <2>27. CASE AuthByIngestToken(r)
    BY <2>27 DEF AuthByIngestToken
  <2>. QED  BY <1>1, <2>1, <2>2, <2>3, <2>4, <2>5, <2>6, <2>7, <2>8, <2>9,
         <2>10, <2>11, <2>12, <2>13, <2>14, <2>15, <2>16, <2>17, <2>18, <2>19,
         <2>20, <2>21, <2>22, <2>23, <2>24, <2>25, <2>26, <2>27 DEF RequestStep
<1>2. CASE Crash
  BY <1>2 DEF Crash
<1>3. CASE Expire
  BY <1>3 DEF Expire
<1>4. CASE UNCHANGED vars
  BY <1>4 DEF vars
<1>. QED  BY <1>1, <1>2, <1>3, <1>4, StepCases

\* A step of request r gives r another thing to do and leaves the others alone.
LEMMA OthersUntouched ==
    ASSUME TypeOK, NEW r \in Request, RequestStep(r), NEW p \in Request, p # r
    PROVE  request'[p] = request[p]
<1>1. PICK q : Becomes(r, q)
  BY DEF RequestStep, Begin, GoTo, Finish, SignUp, ResendVerification,
         MarkVerifyTokens, AddVerifyToken, VerifyEmail, Login,
         CreateRememberToken, SetSession, Logout, ScanDeletes, AuthBySession,
         AuthByRemember, LoadUser, AuthByIngestToken, Serve, ForgotPassword,
         MarkResetTokens,
         AddResetToken, ConsumeResetToken, UpdatePassword, RevokeResetTokens,
         SoftDeleteUser, RevokeRememberTokens, ScanEnds, AnswerOk, GivesUp,
         CleanUpFails
<1>. QED  BY <1>1 DEF Becomes, TypeOK

LEMMA Becoming ==
    ASSUME TypeOK, NEW r \in Request, NEW q, Becomes(r, q)
    PROVE  request'[r] = q
BY DEF Becomes, TypeOK

LEMMA CleanUpFailedFacts ==
    ASSUME NEW q \in RequestState, NEW n \in CleanUpFailed(q)
    PROVE  /\ n.at \in {"revokeRemember", "scan", "answer"} /\ n.clean = FALSE
           /\ n.before = q.before /\ n.late = q.late
<1>1. CASE q.at = "revokeReset"
  BY <1>1 DEF CleanUpFailed, RequestState
<1>2. CASE q.at = "revokeRemember"
  BY <1>2 DEF CleanUpFailed, RequestState
<1>3. CASE q.at = "scan"
  <2>1. \/ n = [q EXCEPT !.at = "answer", !.clean = FALSE]
        \/ \E s \in q.todo : n = [q EXCEPT !.todo = @ \ {s}, !.clean = FALSE]
    BY <1>3 DEF CleanUpFailed
  <2>2. QED
    BY <1>3, <2>1 DEF RequestState
<1>4. QED
  BY <1>1, <1>2, <1>3 DEF CleanUpFailed

-----------------------------------------------------------------------------
(* Nothing outlives a reset or a deletion. *)

Drawn == {s \in Sid : session[s] # "none"}
            \cup {t \in RememberToken : rememberToken[t] # "none"}
            \cup {t \in ResetToken : resetToken[t] # "none"}

\* How far a clean-up without errors has come, when D has been drawn and the
\* sessions S, remember tokens M and reset tokens T are live: what of "before"
\* is dead by now, and which sessions the scan has still to return.
Progress(q, D, S, M, T) ==
    /\ q.before \subseteq D
    /\ q.clean /\ q.at \in {"revokeRemember", "scan", "answer"} => q.before \cap T = {}
    /\ q.clean /\ q.at \in {"scan", "answer"} => q.before \cap M = {}
    /\ q.clean /\ q.at = "scan" => q.before \cap S \subseteq q.todo
    /\ q.clean /\ q.at = "answer" => q.before \cap S = {}

CleanUpInv ==
    \A r \in Request : Progress(request[r], Drawn, LiveSessions, LiveRemember, LiveReset)

\* The ageing of the stores, in terms of these sets.
LEMMA SetsAge ==
    ASSUME AccountsAssumption, Ages
    PROVE  /\ Drawn \subseteq Drawn'
           /\ LiveSessions' \cap Drawn \subseteq LiveSessions
           /\ LiveRemember' \cap Drawn \subseteq LiveRemember
           /\ LiveReset' \cap Drawn \subseteq LiveReset
BY DEF AccountsAssumption, Ages, Drawn, LiveReset, LiveRemember, LiveSessions

\* Nothing that others do undoes the progress of a clean-up.
LEMMA ProgressStays ==
    ASSUME NEW q, NEW D, NEW S, NEW M, NEW T, Progress(q, D, S, M, T),
           NEW D1, D \subseteq D1, NEW S1, S1 \cap D \subseteq S,
           NEW M1, M1 \cap D \subseteq M, NEW T1, T1 \cap D \subseteq T
    PROVE  Progress(q, D1, S1, M1, T1)
BY DEF Progress

\* A request outside the clean-up has nothing to show.
LEMMA ProgressElsewhere ==
    ASSUME NEW q, q.before = {}, NEW D, NEW S, NEW M, NEW T
    PROVE  Progress(q, D, S, M, T)
BY DEF Progress

LEMMA ProgressBefore ==
    ASSUME NEW q, NEW D, NEW S, NEW M, NEW T, q.before \subseteq D,
           q.at \notin {"revokeRemember", "scan", "answer"}
    PROVE  Progress(q, D, S, M, T)
BY DEF Progress

\* After an error there is only the shape to keep.
LEMMA ProgressUnclean ==
    ASSUME NEW q, NEW D, NEW S, NEW M, NEW T, q.before \subseteq D, q.clean = FALSE
    PROVE  Progress(q, D, S, M, T)
BY DEF Progress

\* A step of the request itself.
LEMMA ProgressActing ==
    ASSUME AccountsAssumption, TypeOK, CleanUpInv, NEW r \in Request, RequestStep(r)
    PROVE  Progress(request'[r], Drawn', LiveSessions', LiveRemember', LiveReset')
<1>. DEFINE q == request[r]
<1>a. Ages
  BY StepAges DEF RequestStep, Next
<1>b. /\ q \in RequestState
      /\ Progress(q, Drawn, LiveSessions, LiveRemember, LiveReset)
      /\ q.before \subseteq Drawn'
  BY <1>a, SetsAge DEF TypeOK, CleanUpInv, Progress
<1>c. Idle.before = {}
  BY DEF Idle
<1>d. \A step : /\ [q EXCEPT !.at = step].before \subseteq Drawn'
                /\ [q EXCEPT !.at = step].at = step
  BY <1>b DEF RequestState
<1>1. CASE SignUp(r)
  <2>1. request'[r] = [Idle EXCEPT !.at = "markVerify"]
    BY <1>1, Becoming DEF SignUp, Begin
  <2>2. request'[r].before = {}
    BY <2>1 DEF Idle, Arrive
  <2>. QED  BY <2>2, ProgressElsewhere
<1>2. CASE ResendVerification(r)
  <2>1. request'[r] = [Idle EXCEPT !.at = "markVerify"]
    BY <1>2, Becoming DEF ResendVerification, Begin
  <2>2. request'[r].before = {}
    BY <2>1 DEF Idle, Arrive
  <2>. QED  BY <2>2, ProgressElsewhere
<1>3. CASE MarkVerifyTokens(r)
  BY <1>3, <1>d, Becoming, ProgressBefore DEF MarkVerifyTokens, GoTo
<1>4. ASSUME NEW t \in VerifyToken, AddVerifyToken(r, t)
      PROVE  Progress(request'[r], Drawn', LiveSessions', LiveRemember', LiveReset')
  BY <1>4, <1>c, Becoming, ProgressElsewhere DEF AddVerifyToken, Finish
<1>5. ASSUME NEW t \in VerifyToken, VerifyEmail(r, t)
      PROVE  Progress(request'[r], Drawn', LiveSessions', LiveRemember', LiveReset')
  <2>1. request'[r] = [Idle EXCEPT !.at = "session"]
    BY <1>5, Becoming DEF VerifyEmail, Begin
  <2>2. request'[r].before = {}
    BY <2>1 DEF Idle, Arrive
  <2>. QED  BY <2>2, ProgressElsewhere
<1>6. ASSUME NEW keep \in BOOLEAN, Login(r, keep)
      PROVE  Progress(request'[r], Drawn', LiveSessions', LiveRemember', LiveReset')
  <2>1. request'[r] = [Idle EXCEPT !.at = "session", !.keep = keep]
    BY <1>6, Becoming DEF Login, Begin
  <2>2. request'[r].before = {}
    BY <2>1 DEF Idle, Arrive
  <2>. QED  BY <2>2, ProgressElsewhere
<1>7. ASSUME NEW t \in RememberToken, CreateRememberToken(r, t)
      PROVE  Progress(request'[r], Drawn', LiveSessions', LiveRemember', LiveReset')
  BY <1>7, <1>c, Becoming, ProgressElsewhere DEF CreateRememberToken, Finish
<1>8. ASSUME NEW s \in Sid, SetSession(r, s)
      PROVE  Progress(request'[r], Drawn', LiveSessions', LiveRemember', LiveReset')
  <2>1. CASE request[r].keep
    <3>1. request'[r] = [q EXCEPT !.at = "remember"]
      BY <1>8, <2>1, Becoming DEF SetSession, GoTo
    <3>. QED  BY <1>d, <3>1, ProgressBefore
  <2>2. CASE ~request[r].keep
    BY <1>8, <2>2, <1>c, Becoming, ProgressElsewhere DEF SetSession, Finish
  <2>. QED  BY <2>1, <2>2
<1>9. ASSUME NEW s \in Sid, Logout(r, s)
      PROVE  Progress(request'[r], Drawn', LiveSessions', LiveRemember', LiveReset')
  BY <1>9, <1>c, Becoming, ProgressElsewhere DEF Logout, Begin
<1>10. ASSUME NEW s \in Sid, ScanDeletes(r, s)
      PROVE  Progress(request'[r], Drawn', LiveSessions', LiveRemember', LiveReset')
  <2>. DEFINE n == [q EXCEPT !.todo = @ \ {s}]
  <2>1. request'[r] = n
    BY <1>10, Becoming DEF ScanDeletes
  <2>2. n.at = "scan" /\ n.before = q.before /\ n.clean = q.clean /\ n.todo = q.todo \ {s}
    BY <1>10, <1>b DEF RequestState, ScanDeletes
  <2>3. LiveSessions' \subseteq LiveSessions \ {s}
    BY <1>10 DEF ScanDeletes, LiveSessions, TypeOK
  <2>4. LiveRemember' = LiveRemember /\ LiveReset' = LiveReset
    BY <1>10 DEF ScanDeletes, tokens, LiveRemember, LiveReset
  <2>5. q.at = "scan"
    BY <1>10 DEF ScanDeletes
  <2>6. n.clean => /\ n.before \cap LiveReset' = {}
                   /\ n.before \cap LiveRemember' = {}
                   /\ n.before \cap LiveSessions' \subseteq n.todo
    BY <1>b, <2>2, <2>3, <2>4, <2>5 DEF Progress
  <2>. HIDE DEF n
  <2>. QED  BY <1>b, <2>1, <2>2, <2>6 DEF Progress
<1>11. ASSUME NEW s \in Sid, NEW closing \in BOOLEAN, AuthBySession(r, s, closing)
      PROVE  Progress(request'[r], Drawn', LiveSessions', LiveRemember', LiveReset')
  <2>1. request'[r] = Arrive(closing)
    BY <1>11, Becoming DEF AuthBySession, Begin
  <2>2. request'[r].before = {}
    BY <2>1 DEF Idle, Arrive
  <2>. QED  BY <2>2, ProgressElsewhere
<1>12. ASSUME NEW t \in RememberToken, NEW closing \in BOOLEAN, AuthByRemember(r, t, closing)
      PROVE  Progress(request'[r], Drawn', LiveSessions', LiveRemember', LiveReset')
  <2>1. request'[r] = Arrive(closing)
    BY <1>12, Becoming DEF AuthByRemember, Begin
  <2>2. request'[r].before = {}
    BY <2>1 DEF Idle, Arrive
  <2>. QED  BY <2>2, ProgressElsewhere
<1>13. CASE LoadUser(r)
  <2>1. CASE deleted
    BY <1>13, <2>1, <1>c, Becoming, ProgressElsewhere DEF LoadUser, Finish
  <2>2. CASE ~deleted
    <3>1. PICK step \in {"delete", "serve"} : request'[r] = [q EXCEPT !.at = step]
      BY <1>13, <2>2, Becoming DEF LoadUser, GoTo
    <3>. QED  BY <1>d, <3>1, ProgressBefore
  <2>. QED  BY <2>1, <2>2
<1>14. CASE Serve(r)
  BY <1>14, <1>c, Becoming, ProgressElsewhere DEF Serve, Finish
<1>15. CASE ForgotPassword(r)
  <2>1. request'[r] = [Idle EXCEPT !.at = "markReset"]
    BY <1>15, Becoming DEF ForgotPassword, Begin
  <2>2. request'[r].before = {}
    BY <2>1 DEF Idle, Arrive
  <2>. QED  BY <2>2, ProgressElsewhere
<1>16. CASE MarkResetTokens(r)
  BY <1>16, <1>d, Becoming, ProgressBefore DEF MarkResetTokens, GoTo
<1>17. ASSUME NEW t \in ResetToken, AddResetToken(r, t)
      PROVE  Progress(request'[r], Drawn', LiveSessions', LiveRemember', LiveReset')
  BY <1>17, <1>c, Becoming, ProgressElsewhere DEF AddResetToken, Finish
<1>18. ASSUME NEW t \in ResetToken, ConsumeResetToken(r, t)
      PROVE  Progress(request'[r], Drawn', LiveSessions', LiveRemember', LiveReset')
  <2>1. request'[r] = [Idle EXCEPT !.at = "update", !.token = t]
    BY <1>18, Becoming DEF ConsumeResetToken, Begin
  <2>2. request'[r].before = {}
    BY <2>1 DEF Idle, Arrive
  <2>. QED  BY <2>2, ProgressElsewhere
<1>19. CASE UpdatePassword(r)
  <2>. DEFINE n == [q EXCEPT !.at = "revokeReset", !.before = Live]
  <2>1. request'[r] = n
    BY <1>19, Becoming DEF UpdatePassword
  <2>2. n.at = "revokeReset" /\ n.before = Live
    BY <1>b DEF RequestState
  <2>3. Live \subseteq Drawn
    BY DEF Drawn, Live, LiveSessions, LiveRemember, LiveReset
  <2>5. n.before \subseteq Drawn'
    BY <1>a, <2>2, <2>3, SetsAge
  <2>. HIDE DEF n
  <2>. QED  BY <2>1, <2>2, <2>5, ProgressBefore
<1>20. CASE RevokeResetTokens(r)
  <2>. DEFINE n == [q EXCEPT !.at = "revokeRemember"]
  <2>1. request'[r] = n
    BY <1>20, Becoming DEF RevokeResetTokens, GoTo
  <2>2. n.at = "revokeRemember" /\ n.before = q.before
    BY <1>b DEF RequestState
  <2>3. LiveReset' = {}
    BY <1>20 DEF RevokeResetTokens, AllUsed, LiveReset, TypeOK, MailTokenState
  <2>. HIDE DEF n
  <2>. QED  BY <1>b, <2>1, <2>2, <2>3 DEF Progress
<1>21. CASE SoftDeleteUser(r)
  <2>. DEFINE B == LiveSessions \cup LiveRemember
              n == [q EXCEPT !.at = "revokeRemember", !.before = B]
  <2>1. request'[r] = n
    BY <1>21, Becoming DEF SoftDeleteUser
  <2>2. n.at = "revokeRemember" /\ n.before = B
    BY <1>b DEF RequestState
  <2>3. B \subseteq Drawn
    BY DEF Drawn, LiveSessions, LiveRemember
  <2>4. B \cap LiveReset' = {}
    BY DEF AccountsAssumption, LiveSessions, LiveRemember, LiveReset
  <2>. HIDE DEF B, n
  <2>5. n.before \subseteq Drawn'
    BY <1>a, <2>2, <2>3, SetsAge
  <2>. QED  BY <2>1, <2>2, <2>4, <2>5 DEF Progress
<1>22. CASE RevokeRememberTokens(r)
  <2>. DEFINE n == [q EXCEPT !.at = "scan", !.todo = LiveSessions]
  <2>1. request'[r] = n
    BY <1>22, Becoming DEF RevokeRememberTokens
  <2>2. n.at = "scan" /\ n.before = q.before /\ n.clean = q.clean /\ n.todo = LiveSessions
    BY <1>b DEF RequestState
  <2>3. LiveRemember' = {}
    BY <1>22 DEF RevokeRememberTokens, LiveRemember, TypeOK, RememberState
  <2>4. LiveSessions' = LiveSessions /\ LiveReset' = LiveReset
    BY <1>22 DEF RevokeRememberTokens, LiveSessions, LiveReset
  <2>5. q.at = "revokeRemember"
    BY <1>22 DEF RevokeRememberTokens
  <2>6. n.clean => n.before \cap LiveReset' = {}
    BY <1>b, <2>2, <2>4, <2>5 DEF Progress
  <2>. HIDE DEF n
  <2>. QED  BY <1>b, <2>1, <2>2, <2>3, <2>4, <2>6 DEF Progress
<1>23. CASE ScanEnds(r)
  <2>. DEFINE n == [q EXCEPT !.at = "answer"]
  <2>1. request'[r] = n
    BY <1>23, Becoming DEF ScanEnds, GoTo
  <2>2. n.at = "answer" /\ n.before = q.before /\ n.clean = q.clean
    BY <1>b DEF RequestState
  <2>3. LiveSessions' = LiveSessions /\ LiveRemember' = LiveRemember /\ LiveReset' = LiveReset
    BY <1>23 DEF ScanEnds, tokens, LiveSessions, LiveRemember, LiveReset
  <2>4. q.at = "scan" /\ q.todo \cap LiveSessions = {}
    BY <1>23 DEF ScanEnds
  <2>5. n.clean => /\ n.before \cap LiveReset' = {}
                   /\ n.before \cap LiveRemember' = {}
                   /\ n.before \cap LiveSessions' = {}
    BY <1>b, <2>2, <2>3, <2>4 DEF Progress
  <2>. HIDE DEF n
  <2>. QED  BY <1>b, <2>1, <2>2, <2>5 DEF Progress
<1>24. CASE AnswerOk(r)
  BY <1>24, <1>c, Becoming, ProgressElsewhere DEF AnswerOk, Finish
<1>25. CASE GivesUp(r)
  BY <1>25, <1>c, Becoming, ProgressElsewhere DEF GivesUp, Finish
<1>26. CASE CleanUpFails(r)
  <2>1. PICK n \in CleanUpFailed(q) : Becomes(r, n)
    BY <1>26 DEF CleanUpFails
  <2>2. n.before = q.before /\ n.clean = FALSE
    BY <1>b, <2>1, CleanUpFailedFacts
  <2>. QED  BY <1>b, <2>1, <2>2, Becoming, ProgressUnclean
<1>27. CASE AuthByIngestToken(r)
  <2>1. request'[r] = [Idle EXCEPT !.at = "ingest", !.late = deleted]
    BY <1>27, Becoming DEF AuthByIngestToken, Begin
  <2>2. request'[r].before = {}
    BY <2>1 DEF Idle
  <2>. QED  BY <2>2, ProgressElsewhere
<1>. QED  BY <1>1, <1>2, <1>3, <1>4, <1>5, <1>6, <1>7, <1>8, <1>9, <1>10,
       <1>11, <1>12, <1>13, <1>14, <1>15, <1>16, <1>17, <1>18, <1>19, <1>20,
       <1>21, <1>22, <1>23, <1>24, <1>25, <1>26, <1>27 DEF RequestStep

LEMMA CleanUpStep ==
    ASSUME AccountsAssumption, TypeOK, CleanUpInv, [Next]_vars
    PROVE  CleanUpInv'
<1>. DEFINE Holds(q) == Progress(q, Drawn', LiveSessions', LiveRemember', LiveReset')
<1>. SUFFICES ASSUME NEW p \in Request PROVE Holds(request'[p])
  BY DEF CleanUpInv
<1>1. Holds(request[p])
  BY StepAges, SetsAge, ProgressStays DEF CleanUpInv
<1>2. ASSUME NEW r \in Request, RequestStep(r)
      PROVE  Holds(request'[p])
  BY <1>1, <1>2, OthersUntouched, ProgressActing
<1>3. CASE Crash
  <2>1. request'[p].before = {}
    BY <1>3 DEF Crash, Idle
  <2>. QED  BY <2>1, ProgressElsewhere
<1>4. CASE Expire \/ UNCHANGED vars
  <2>1. request' = request
    BY <1>4 DEF Expire, vars
  <2>. QED  BY <1>1, <2>1
<1>. QED  BY <1>2, <1>3, <1>4, StepCases

\* A clean-up that met no error leaves nothing alive of what was live when the
\* password changed or the account was deleted (handleResetPassword,
\* handleDeleteAccount), whatever other requests do meanwhile.
THEOREM CleanUpIsComplete == Spec => []NothingOutlivesReset
<1>1. Init => CleanUpInv
  <2>. SUFFICES ASSUME Init, NEW r \in Request
                PROVE  Progress(request[r], Drawn, LiveSessions, LiveRemember, LiveReset)
    BY DEF CleanUpInv
  <2>1. request[r].before = {}
    BY DEF Init, Idle
  <2>. QED  BY <2>1, ProgressElsewhere
<1>2. CleanUpInv => NothingOutlivesReset
  BY DEF CleanUpInv, NothingOutlivesReset, Progress, Live
<1>3. TypeOK /\ CleanUpInv /\ [Next]_vars => CleanUpInv'
  BY AccountsAssumption, CleanUpStep
<1>. QED  BY <1>1, <1>2, <1>3, AccountTypes, PTL DEF Spec

-----------------------------------------------------------------------------
(* Every reset link changes the password at most once. *)

\* The tokens that can never be consumed again.
SpentTokens == {t \in ResetToken : resetToken[t] \notin {"none", "live"}}

TokenInv ==
    /\ resetBy.again = {}
    /\ resetBy.once \subseteq SpentTokens
    /\ \A r \in Request : request[r].at = "update" =>
            /\ request[r].token \in SpentTokens \ resetBy.once
            /\ \A p \in Request \ {r} :
                  request[p].at = "update" => request[p].token # request[r].token

LEMMA SpentStays ==
    ASSUME Ages
    PROVE  SpentTokens \subseteq SpentTokens'
BY DEF Ages, SpentTokens

\* A step that brings no token into anybody's hand and changes no password.
LEMMA TokenIdle ==
    ASSUME TokenInv, Ages, resetBy' = resetBy,
           \A r \in Request : request'[r].at = "update" => request'[r] = request[r]
    PROVE  TokenInv'
BY SpentStays DEF TokenInv

\* Of the steps of a request only two do otherwise.
LEMMA TokenStep ==
    ASSUME TypeOK, TokenInv, [Next]_vars
    PROVE  TokenInv'
<1>a. Ages
  BY StepAges
<1>b. ASSUME NEW r \in Request, RequestStep(r), resetBy' = resetBy, request'[r].at # "update"
      PROVE  TokenInv'
  <2>1. \A p \in Request : request'[p].at = "update" => request'[p] = request[p]
    BY <1>b, OthersUntouched
  <2>. QED  BY <1>a, <1>b, <2>1, TokenIdle
<1>c. Idle.at # "update"
  BY DEF Idle
<1>1. ASSUME NEW r \in Request, RequestStep(r)
      PROVE  TokenInv'
  <2>a. request[r] \in RequestState
    BY DEF TypeOK
  <2>b. \A step : [request[r] EXCEPT !.at = step].at = step
    BY <2>a DEF RequestState
  <2>1. CASE SignUp(r)
    <3>1. resetBy' = resetBy /\ request'[r].at # "update"
      BY <2>1, Becoming DEF SignUp, Begin, Idle, Arrive
    <3>. QED  BY <1>1, <1>b, <3>1
  <2>2. CASE ResendVerification(r)
    <3>1. resetBy' = resetBy /\ request'[r].at # "update"
      BY <2>2, Becoming DEF ResendVerification, Begin, Idle, Arrive
    <3>. QED  BY <1>1, <1>b, <3>1
  <2>3. CASE MarkVerifyTokens(r)
    <3>1. resetBy' = resetBy /\ request'[r].at # "update"
      BY <2>b, <2>3, Becoming DEF MarkVerifyTokens, GoTo
    <3>. QED  BY <1>1, <1>b, <3>1
  <2>4. ASSUME NEW t \in VerifyToken, AddVerifyToken(r, t)
        PROVE  TokenInv'
    <3>1. resetBy' = resetBy /\ request'[r].at # "update"
      BY <1>c, <2>4, Becoming DEF AddVerifyToken, Finish
    <3>. QED  BY <1>1, <1>b, <3>1
  <2>5. ASSUME NEW t \in VerifyToken, VerifyEmail(r, t)
        PROVE  TokenInv'
    <3>1. resetBy' = resetBy /\ request'[r].at # "update"
      BY <2>5, Becoming DEF VerifyEmail, Begin, Idle, Arrive
    <3>. QED  BY <1>1, <1>b, <3>1
  <2>6. ASSUME NEW keep \in BOOLEAN, Login(r, keep)
        PROVE  TokenInv'
    <3>1. resetBy' = resetBy /\ request'[r].at # "update"
      BY <2>6, Becoming DEF Login, Begin, Idle, Arrive
    <3>. QED  BY <1>1, <1>b, <3>1
  <2>7. ASSUME NEW t \in RememberToken, CreateRememberToken(r, t)
        PROVE  TokenInv'
    <3>1. resetBy' = resetBy /\ request'[r].at # "update"
      BY <1>c, <2>7, Becoming DEF CreateRememberToken, Finish
    <3>. QED  BY <1>1, <1>b, <3>1
  <2>8. ASSUME NEW s \in Sid, SetSession(r, s)
        PROVE  TokenInv'
    <3>1. resetBy' = resetBy /\ request'[r].at # "update"
      BY ZenonT(30), <1>c, <2>b, <2>8, Becoming DEF SetSession, GoTo, Finish
    <3>. QED  BY <1>1, <1>b, <3>1
  <2>9. ASSUME NEW s \in Sid, Logout(r, s)
        PROVE  TokenInv'
    <3>1. resetBy' = resetBy /\ request'[r].at # "update"
      BY <2>9, Becoming DEF Logout, Begin, Idle, Arrive
    <3>. QED  BY <1>1, <1>b, <3>1
  <2>10. ASSUME NEW s \in Sid, ScanDeletes(r, s)
        PROVE  TokenInv'
    <3>1. resetBy' = resetBy /\ request'[r].at # "update"
      BY <2>10, <2>a, Becoming DEF ScanDeletes, RequestState
    <3>. QED  BY <1>1, <1>b, <3>1
  <2>11. ASSUME NEW s \in Sid, NEW closing \in BOOLEAN, AuthBySession(r, s, closing)
        PROVE  TokenInv'
    <3>1. resetBy' = resetBy /\ request'[r].at # "update"
      BY <2>11, Becoming DEF AuthBySession, Begin, Idle, Arrive
    <3>. QED  BY <1>1, <1>b, <3>1
  <2>12. ASSUME NEW t \in RememberToken, NEW closing \in BOOLEAN, AuthByRemember(r, t, closing)
        PROVE  TokenInv'
    <3>1. resetBy' = resetBy /\ request'[r].at # "update"
      BY <2>12, Becoming DEF AuthByRemember, Begin, Idle, Arrive
    <3>. QED  BY <1>1, <1>b, <3>1
  <2>13. CASE LoadUser(r)
    <3>1. resetBy' = resetBy /\ request'[r].at # "update"
      BY <1>c, <2>b, <2>13, Becoming DEF LoadUser, GoTo, Finish
    <3>. QED  BY <1>1, <1>b, <3>1
  <2>14. CASE Serve(r)
    <3>1. resetBy' = resetBy /\ request'[r].at # "update"
      BY <1>c, <2>14, Becoming DEF Serve, Finish
    <3>. QED  BY <1>1, <1>b, <3>1
  <2>15. CASE ForgotPassword(r)
    <3>1. resetBy' = resetBy /\ request'[r].at # "update"
      BY <2>15, Becoming DEF ForgotPassword, Begin, Idle, Arrive
    <3>. QED  BY <1>1, <1>b, <3>1
  <2>16. CASE MarkResetTokens(r)
    <3>1. resetBy' = resetBy /\ request'[r].at # "update"
      BY <2>b, <2>16, Becoming DEF MarkResetTokens, GoTo
    <3>. QED  BY <1>1, <1>b, <3>1
  <2>17. ASSUME NEW t \in ResetToken, AddResetToken(r, t)
        PROVE  TokenInv'
    <3>1. resetBy' = resetBy /\ request'[r].at # "update"
      BY <1>c, <2>17, Becoming DEF AddResetToken, Finish
    <3>. QED  BY <1>1, <1>b, <3>1
  <2>18. ASSUME NEW t \in ResetToken, ConsumeResetToken(r, t)
        PROVE  TokenInv'
    <3>. DEFINE n == [Idle EXCEPT !.at = "update", !.token = t]
    <3>1. request'[r] = n
      BY <2>18, Becoming DEF ConsumeResetToken, Begin
    <3>2. n.token = t
      BY DEF Idle
    <3>3. t \in SpentTokens' /\ t \notin SpentTokens
      BY <2>18 DEF ConsumeResetToken, SpentTokens, TypeOK
    <3>4. resetBy' = resetBy
      BY <2>18 DEF ConsumeResetToken
    <3>. HIDE DEF n
    <3>5. \A p \in Request \ {r} : request'[p] = request[p]
      BY <1>1, OthersUntouched
    <3>. QED  BY <1>a, <3>1, <3>2, <3>3, <3>4, <3>5, SpentStays DEF TokenInv
  <2>19. CASE UpdatePassword(r)
    <3>. DEFINE t == request[r].token
    <3>1. request[r].at = "update" /\ request'[r].at = "revokeReset"
      <4>1. request'[r] = [request[r] EXCEPT !.at = "revokeReset", !.before = Live]
        BY <2>19, Becoming DEF UpdatePassword
      <4>2. QED
        BY <2>19, <2>a, <4>1 DEF UpdatePassword, RequestState
    <3>2. /\ resetBy'.once = resetBy.once \cup {t}
          /\ resetBy'.again = resetBy.again \cup (resetBy.once \cap {t})
      BY <2>19 DEF UpdatePassword
    <3>3. t \in SpentTokens \ resetBy.once
      BY <3>1 DEF TokenInv
    <3>4. \A p \in Request \ {r} :
             /\ request'[p] = request[p]
             /\ request[p].at = "update" => request[p].token # t
      BY <1>1, <3>1, OthersUntouched DEF TokenInv
    <3>. HIDE DEF t
    <3>5. resetBy'.again = {}
      BY <3>2, <3>3 DEF TokenInv
    <3>6. resetBy'.once \subseteq SpentTokens'
      BY <1>a, <3>2, <3>3, SpentStays DEF TokenInv
    <3>7. \A p \in Request : request'[p].at = "update" =>
              /\ request'[p].token \in SpentTokens' \ resetBy'.once
              /\ \A o \in Request \ {p} :
                    request'[o].at = "update" => request'[o].token # request'[p].token
      <4>. SUFFICES ASSUME NEW p \in Request, request'[p].at = "update"
                    PROVE  /\ request'[p].token \in SpentTokens' \ resetBy'.once
                           /\ \A o \in Request \ {p} :
                                 request'[o].at = "update" => request'[o].token # request'[p].token
        OBVIOUS
      <4>1. p # r /\ request'[p] = request[p]
        BY <3>1, <3>4
      <4>2. request[p].token \in SpentTokens \ resetBy.once /\ request[p].token # t
        BY <3>4, <4>1 DEF TokenInv
      <4>3. request'[p].token \in SpentTokens' \ resetBy'.once
        BY <1>a, <3>2, <4>1, <4>2, SpentStays
      <4>4. \A o \in Request \ {p} :
               request[o].at = "update" => request[o].token # request[p].token
        BY <4>1 DEF TokenInv
      <4>5. \A o \in Request \ {p} : request'[o].at = "update" => request'[o] = request[o]
        BY <3>1, <3>4
      <4>. QED  BY <4>1, <4>3, <4>4, <4>5
    <3>. QED  BY <3>5, <3>6, <3>7 DEF TokenInv
  <2>20. CASE RevokeResetTokens(r)
    <3>1. resetBy' = resetBy /\ request'[r].at # "update"
      BY <2>b, <2>20, Becoming DEF RevokeResetTokens, GoTo
    <3>. QED  BY <1>1, <1>b, <3>1
  <2>21. CASE SoftDeleteUser(r)
    <3>1. resetBy' = resetBy /\ request'[r].at # "update"
      BY <2>21, <2>a, Becoming DEF SoftDeleteUser, RequestState
    <3>. QED  BY <1>1, <1>b, <3>1
  <2>22. CASE RevokeRememberTokens(r)
    <3>1. resetBy' = resetBy /\ request'[r].at # "update"
      BY <2>22, <2>a, Becoming DEF RevokeRememberTokens, RequestState
    <3>. QED  BY <1>1, <1>b, <3>1
  <2>23. CASE ScanEnds(r)
    <3>1. resetBy' = resetBy /\ request'[r].at # "update"
      BY <2>b, <2>23, Becoming DEF ScanEnds, GoTo
    <3>. QED  BY <1>1, <1>b, <3>1
  <2>24. CASE AnswerOk(r)
    <3>1. resetBy' = resetBy /\ request'[r].at # "update"
      BY <1>c, <2>24, Becoming DEF AnswerOk, Finish
    <3>. QED  BY <1>1, <1>b, <3>1
  <2>25. CASE GivesUp(r)
    <3>1. resetBy' = resetBy /\ request'[r].at # "update"
      BY <1>c, <2>25, Becoming DEF GivesUp, Finish
    <3>. QED  BY <1>1, <1>b, <3>1
  <2>26. CASE CleanUpFails(r)
    <3>1. PICK n \in CleanUpFailed(request[r]) : Becomes(r, n)
      BY <2>26 DEF CleanUpFails
    <3>2. n.at # "update"
      BY <2>a, <3>1 DEF CleanUpFailed, RequestState
    <3>3. resetBy' = resetBy /\ request'[r].at # "update"
      BY <2>26, <3>1, <3>2, Becoming DEF CleanUpFails
    <3>. QED  BY <1>1, <1>b, <3>3
  <2>27. CASE AuthByIngestToken(r)
    <3>1. resetBy' = resetBy /\ request'[r].at # "update"
      BY <2>27, Becoming DEF AuthByIngestToken, Begin, Idle
    <3>. QED  BY <1>1, <1>b, <3>1
  <2>. QED  BY <1>1, <2>1, <2>2, <2>3, <2>4, <2>5, <2>6, <2>7, <2>8, <2>9,
         <2>10, <2>11, <2>12, <2>13, <2>14, <2>15, <2>16, <2>17, <2>18, <2>19,
         <2>20, <2>21, <2>22, <2>23, <2>24, <2>25, <2>26, <2>27 DEF RequestStep
<1>2. CASE Crash
  <2>1. resetBy' = resetBy /\ \A p \in Request : request'[p].at # "update"
    BY <1>2, <1>c DEF Crash
  <2>. QED  BY <1>a, <2>1, TokenIdle
<1>3. CASE Expire \/ UNCHANGED vars
  <2>1. resetBy' = resetBy /\ request' = request
    BY <1>3 DEF Expire, vars
  <2>. QED  BY <1>a, <2>1, TokenIdle
<1>. QED  BY <1>1, <1>2, <1>3, StepCases

\* ConsumePasswordResetToken lets one request through per token, and that
\* request changes the password once, or never when its hash fails.
THEOREM LinksWorkOnce == Spec => []OneChangePerToken
<1>1. Init => TokenInv
  BY DEF Init, Idle, TokenInv
<1>2. TokenInv => OneChangePerToken
  BY DEF TokenInv, OneChangePerToken
<1>. QED  BY <1>1, <1>2, TokenStep, AccountTypes, PTL DEF Spec

-----------------------------------------------------------------------------
(* Verified, and not deleted. *)

\* What a request is about to do presupposes a verified address, and what it
\* does for its user an account that was there when it came.
Entitled(q, v, d) ==
    /\ q.at \in {"session", "remember", "user", "serve", "delete"} => v
    /\ q.late => d
    /\ q.at \in {"serve", "delete"} => ~q.late

SignInInv ==
    /\ deleted => verified
    /\ LiveSessions \cup LiveRemember # {} => verified
    /\ \A r \in Request : Entitled(request[r], verified, deleted)

\* Verification and deletion are for good.
LEMMA AccountGrows ==
    ASSUME TypeOK, [Next]_vars
    PROVE  (verified => verified') /\ (deleted => deleted')
<1>. USE DEF TypeOK, account
<1>1. ASSUME NEW r \in Request, RequestStep(r)
      PROVE  (verified => verified') /\ (deleted => deleted')
  BY <1>1 DEF RequestStep, SignUp, ResendVerification, MarkVerifyTokens,
     AddVerifyToken, VerifyEmail, Login, CreateRememberToken, SetSession,
     Logout, ScanDeletes, AuthBySession, AuthByRemember, LoadUser, AuthByIngestToken, Serve,
     ForgotPassword, MarkResetTokens, AddResetToken, ConsumeResetToken,
     UpdatePassword, RevokeResetTokens, SoftDeleteUser, RevokeRememberTokens,
     ScanEnds, AnswerOk, GivesUp, CleanUpFails
<1>2. CASE Crash \/ Expire \/ UNCHANGED vars
  BY <1>2 DEF Crash, Expire, vars
<1>. QED  BY <1>1, <1>2, StepCases

LEMMA EntitledStays ==
    ASSUME NEW q, NEW v \in BOOLEAN, NEW d \in BOOLEAN, NEW v1 \in BOOLEAN, NEW d1 \in BOOLEAN,
           Entitled(q, v, d), v => v1, d => d1
    PROVE  Entitled(q, v1, d1)
BY DEF Entitled

LEMMA EntitledActing ==
    ASSUME TypeOK, SignInInv, NEW r \in Request, RequestStep(r)
    PROVE  /\ Entitled(request'[r], verified', deleted')
           /\ deleted' => verified'
           /\ LiveSessions' \cup LiveRemember' # {} => verified'
<1>. DEFINE Goal == /\ Entitled(request'[r], verified', deleted')
                    /\ deleted' => verified'
                    /\ LiveSessions' \cup LiveRemember' # {} => verified'
<1>a. /\ request[r] \in RequestState
      /\ Entitled(request[r], verified, deleted)
      /\ verified \in BOOLEAN /\ deleted \in BOOLEAN
      /\ verified' \in BOOLEAN /\ deleted' \in BOOLEAN
      /\ verified => verified'
      /\ deleted => deleted'
  BY StepTyped, AccountGrows DEF TypeOK, SignInInv, RequestStep, Next
\* Nobody gets a session or is remembered who was not entitled to it.
<1>b. ASSUME LiveSessions' \cup LiveRemember' # {} => LiveSessions \cup LiveRemember # {} \/ verified',
             deleted' => deleted \/ verified',
             Entitled(request'[r], verified', deleted')
      PROVE  Goal
  BY <1>a, <1>b DEF SignInInv
<1>c. Idle.at = "idle" /\ Idle.late = FALSE
  BY DEF Idle
<1>d. /\ UpdatePassword(r) => request'[r].at = "revokeReset" /\ request'[r].late = request[r].late
      /\ SoftDeleteUser(r) => request'[r].at = "revokeRemember" /\ request'[r].late = request[r].late
      /\ RevokeRememberTokens(r) => request'[r].at = "scan" /\ request'[r].late = request[r].late
  <2>1. CASE UpdatePassword(r)
    <3>1. request'[r] = [request[r] EXCEPT !.at = "revokeReset", !.before = Live]
      BY <2>1, Becoming DEF UpdatePassword
    <3>. QED  BY <3>1, <1>a, <2>1 DEF RequestState, UpdatePassword, SoftDeleteUser, RevokeRememberTokens
  <2>2. CASE SoftDeleteUser(r)
    <3>1. request'[r] = [request[r] EXCEPT !.at = "revokeRemember", !.before = LiveSessions \cup LiveRemember]
      BY <2>2, Becoming DEF SoftDeleteUser
    <3>. QED  BY <3>1, <1>a, <2>2 DEF RequestState, UpdatePassword, SoftDeleteUser, RevokeRememberTokens
  <2>3. CASE RevokeRememberTokens(r)
    <3>1. request'[r] = [request[r] EXCEPT !.at = "scan", !.todo = LiveSessions]
      BY <2>3, Becoming DEF RevokeRememberTokens
    <3>. QED  BY <3>1, <1>a, <2>3 DEF RequestState, UpdatePassword, SoftDeleteUser, RevokeRememberTokens
  <2>. QED  BY <2>1, <2>2, <2>3
<1>. USE DEF LiveSessions, LiveRemember, account, tokens
<1>1. CASE SignUp(r)
  <2>1. request'[r].at = "markVerify" /\ request'[r].late = FALSE
    BY <1>1, <1>a, Becoming DEF SignUp, Begin, Idle
  <2>2. Entitled(request'[r], verified', deleted')
    BY <1>a, <2>1 DEF Entitled
  <2>. QED  BY <1>1, <1>a, <1>b, <2>2 DEF SignUp, SignInInv, Entitled, TypeOK
<1>2. CASE ResendVerification(r)
  <2>1. request'[r].at = "markVerify" /\ request'[r].late = FALSE
    BY <1>2, <1>a, Becoming DEF ResendVerification, Begin, Idle
  <2>2. Entitled(request'[r], verified', deleted')
    BY <1>a, <2>1 DEF Entitled
  <2>. QED  BY <1>2, <1>a, <1>b, <2>2 DEF ResendVerification, SignInInv, Entitled, TypeOK
<1>3. CASE MarkVerifyTokens(r)
  <2>1. request'[r].at = "addVerify" /\ request'[r].late = request[r].late
    BY <1>3, <1>a, Becoming DEF MarkVerifyTokens, GoTo, RequestState
  <2>2. Entitled(request'[r], verified', deleted')
    BY <1>a, <2>1 DEF Entitled
  <2>. QED  BY <1>3, <1>a, <1>b, <2>2 DEF MarkVerifyTokens, SignInInv, Entitled, TypeOK
<1>4. ASSUME NEW t \in VerifyToken, AddVerifyToken(r, t)
      PROVE  Goal
  <2>1. Entitled(request'[r], verified', deleted')
    BY <1>4, <1>c, Becoming DEF AddVerifyToken, Finish, Entitled
  <2>. QED  BY <1>4, <1>a, <1>b, <2>1 DEF AddVerifyToken, SignInInv, Entitled, TypeOK
<1>5. ASSUME NEW t \in VerifyToken, VerifyEmail(r, t)
      PROVE  Goal
  <2>1. request'[r].at = "session" /\ request'[r].late = FALSE
    BY <1>5, Becoming DEF VerifyEmail, Begin, Idle
  <2>2. verified'
    BY <1>5, <1>a DEF VerifyEmail, SignInInv
  <2>3. Entitled(request'[r], verified', deleted')
    BY <2>1, <2>2 DEF Entitled
  <2>. QED  BY <1>5, <1>a, <1>b, <2>2, <2>3 DEF VerifyEmail
<1>6. ASSUME NEW keep \in BOOLEAN, Login(r, keep)
      PROVE  Goal
  <2>1. request'[r].at = "session" /\ request'[r].late = FALSE
    BY <1>6, Becoming DEF Login, Begin, Idle
  <2>2. verified'
    BY <1>6, <1>a DEF Login, SignInInv
  <2>3. Entitled(request'[r], verified', deleted')
    BY <2>1, <2>2 DEF Entitled
  <2>. QED  BY <1>6, <1>a, <1>b, <2>2, <2>3 DEF Login
<1>7. ASSUME NEW t \in RememberToken, CreateRememberToken(r, t)
      PROVE  Goal
  <2>1. Entitled(request'[r], verified', deleted')
    BY <1>7, <1>c, Becoming DEF CreateRememberToken, Finish, Entitled
  <2>. QED  BY <1>7, <1>a, <1>b, <2>1 DEF CreateRememberToken, SignInInv, Entitled, TypeOK
<1>8. ASSUME NEW s \in Sid, SetSession(r, s)
      PROVE  Goal
  <2>1. verified'
    BY <1>8, <1>a DEF SetSession, Entitled
  <2>2. CASE request[r].keep
    <3>1. request'[r].at = "remember" /\ request'[r].late = request[r].late
      BY <1>8, <1>a, <2>2, Becoming DEF SetSession, GoTo, RequestState
    <3>2. Entitled(request'[r], verified', deleted')
      BY <1>a, <2>1, <3>1 DEF Entitled
    <3>. QED  BY <1>8, <1>a, <1>b, <2>1, <3>2 DEF SetSession
  <2>3. CASE ~request[r].keep
    <3>1. Entitled(request'[r], verified', deleted')
      BY <1>8, <2>3, <1>c, Becoming DEF SetSession, Finish, Entitled
    <3>. QED  BY <1>8, <1>a, <1>b, <2>1, <3>1 DEF SetSession
  <2>. QED  BY <2>2, <2>3
<1>9. ASSUME NEW s \in Sid, Logout(r, s)
      PROVE  Goal
  <2>1. Entitled(request'[r], verified', deleted')
    BY <1>9, <1>c, Becoming DEF Logout, Begin, Idle, Entitled
  <2>. QED  BY <1>9, <1>a, <1>b, <2>1 DEF Logout, SignInInv, Entitled, TypeOK
<1>10. ASSUME NEW s \in Sid, ScanDeletes(r, s)
      PROVE  Goal
  <2>1. request'[r].at = "scan" /\ request'[r].late = request[r].late
    BY <1>10, <1>a, Becoming DEF ScanDeletes, RequestState
  <2>2. Entitled(request'[r], verified', deleted')
    BY <1>a, <2>1 DEF Entitled
  <2>. QED  BY <1>10, <1>a, <1>b, <2>2 DEF ScanDeletes, SignInInv, Entitled, TypeOK
<1>11. ASSUME NEW s \in Sid, NEW closing \in BOOLEAN, AuthBySession(r, s, closing)
      PROVE  Goal
  <2>1. request'[r].at = "user" /\ request'[r].late = deleted
    BY <1>11, Becoming DEF AuthBySession, Begin, Arrive, Idle
  <2>2. verified'
    BY <1>11, <1>a DEF AuthBySession, SignInInv
  <2>3. Entitled(request'[r], verified', deleted')
    BY <1>a, <2>1, <2>2 DEF Entitled
  <2>. QED  BY <1>11, <1>a, <1>b, <2>2, <2>3 DEF AuthBySession
<1>12. ASSUME NEW t \in RememberToken, NEW closing \in BOOLEAN, AuthByRemember(r, t, closing)
      PROVE  Goal
  <2>1. request'[r].at = "user" /\ request'[r].late = deleted
    BY ZenonT(30), <1>12, Becoming DEF AuthByRemember, Begin, Arrive, Idle
  <2>2. verified'
    BY <1>12, <1>a DEF AuthByRemember, SignInInv
  <2>3. Entitled(request'[r], verified', deleted')
    BY <1>a, <2>1, <2>2 DEF Entitled
  <2>. QED  BY <1>12, <1>a, <1>b, <2>2, <2>3 DEF AuthByRemember
<1>13. CASE LoadUser(r)
  <2>1. CASE deleted
    <3>1. Entitled(request'[r], verified', deleted')
      BY <1>13, <2>1, <1>c, Becoming DEF LoadUser, Finish, Entitled
    <3>. QED  BY <1>13, <1>a, <1>b, <3>1 DEF LoadUser
  <2>2. CASE ~deleted
    <3>1. request'[r].at \in {"serve", "delete"} /\ request'[r].late = request[r].late
      BY <1>13, <1>a, <2>2, Becoming DEF LoadUser, GoTo, RequestState
    <3>2. verified' /\ ~request[r].late
      BY <1>13, <1>a, <2>2 DEF LoadUser, Entitled
    <3>3. Entitled(request'[r], verified', deleted')
      BY <3>1, <3>2 DEF Entitled
    <3>. QED  BY <1>13, <1>a, <1>b, <3>3 DEF LoadUser
  <2>. QED  BY <2>1, <2>2
<1>14. CASE Serve(r)
  <2>1. Entitled(request'[r], verified', deleted')
    BY <1>14, <1>c, Becoming DEF Serve, Finish, Entitled
  <2>. QED  BY <1>14, <1>a, <1>b, <2>1 DEF Serve, SignInInv, Entitled, TypeOK
<1>15. CASE ForgotPassword(r)
  <2>1. request'[r].at = "markReset" /\ request'[r].late = FALSE
    BY <1>15, <1>a, Becoming DEF ForgotPassword, Begin, Idle
  <2>2. Entitled(request'[r], verified', deleted')
    BY <1>a, <2>1 DEF Entitled
  <2>. QED  BY <1>15, <1>a, <1>b, <2>2 DEF ForgotPassword, SignInInv, Entitled, TypeOK
<1>16. CASE MarkResetTokens(r)
  <2>1. request'[r].at = "addReset" /\ request'[r].late = request[r].late
    BY <1>16, <1>a, Becoming DEF MarkResetTokens, GoTo, RequestState
  <2>2. Entitled(request'[r], verified', deleted')
    BY <1>a, <2>1 DEF Entitled
  <2>. QED  BY <1>16, <1>a, <1>b, <2>2 DEF MarkResetTokens, SignInInv, Entitled, TypeOK
<1>17. ASSUME NEW t \in ResetToken, AddResetToken(r, t)
      PROVE  Goal
  <2>1. Entitled(request'[r], verified', deleted')
    BY <1>17, <1>c, Becoming DEF AddResetToken, Finish, Entitled
  <2>. QED  BY <1>17, <1>a, <1>b, <2>1 DEF AddResetToken, SignInInv, Entitled, TypeOK
<1>18. ASSUME NEW t \in ResetToken, ConsumeResetToken(r, t)
      PROVE  Goal
  <2>1. request'[r].at = "update" /\ request'[r].late = FALSE
    BY <1>18, Becoming DEF ConsumeResetToken, Begin, Idle
  <2>2. Entitled(request'[r], verified', deleted')
    BY <2>1 DEF Entitled
  <2>. QED  BY <1>18, <1>a, <1>b, <2>2 DEF ConsumeResetToken, SignInInv, Entitled, TypeOK
<1>19. CASE UpdatePassword(r)
  <2>1. request'[r].at = "revokeReset" /\ request'[r].late = request[r].late
    BY <1>19, <1>d
  <2>2. Entitled(request'[r], verified', deleted')
    BY <1>a, <2>1 DEF Entitled
  <2>. QED  BY <1>19, <1>a, <1>b, <2>2 DEF UpdatePassword, SignInInv, Entitled, TypeOK
<1>20. CASE RevokeResetTokens(r)
  <2>1. request'[r].at = "revokeRemember" /\ request'[r].late = request[r].late
    BY <1>20, <1>a, Becoming DEF RevokeResetTokens, GoTo, RequestState
  <2>2. Entitled(request'[r], verified', deleted')
    BY <1>a, <2>1 DEF Entitled
  <2>. QED  BY <1>20, <1>a, <1>b, <2>2 DEF RevokeResetTokens, SignInInv, Entitled, TypeOK
<1>21. CASE SoftDeleteUser(r)
  <2>1. request'[r].at = "revokeRemember" /\ request'[r].late = request[r].late
    BY <1>21, <1>d
  <2>2. Entitled(request'[r], verified', deleted')
    BY <1>a, <2>1 DEF Entitled
  <2>. QED  BY <1>21, <1>a, <1>b, <2>2 DEF SoftDeleteUser, SignInInv, Entitled, TypeOK
<1>22. CASE RevokeRememberTokens(r)
  <2>1. request'[r].at = "scan" /\ request'[r].late = request[r].late
    BY <1>22, <1>d
  <2>2. Entitled(request'[r], verified', deleted')
    BY <1>a, <2>1 DEF Entitled
  <2>. QED  BY <1>22, <1>a, <1>b, <2>2 DEF RevokeRememberTokens, SignInInv, Entitled, TypeOK
<1>23. CASE ScanEnds(r)
  <2>1. request'[r].at = "answer" /\ request'[r].late = request[r].late
    BY <1>23, <1>a, Becoming DEF ScanEnds, GoTo, RequestState
  <2>2. Entitled(request'[r], verified', deleted')
    BY <1>a, <2>1 DEF Entitled
  <2>. QED  BY <1>23, <1>a, <1>b, <2>2 DEF ScanEnds, SignInInv, Entitled, TypeOK
<1>24. CASE AnswerOk(r)
  <2>1. Entitled(request'[r], verified', deleted')
    BY <1>24, <1>c, Becoming DEF AnswerOk, Finish, Entitled
  <2>. QED  BY <1>24, <1>a, <1>b, <2>1 DEF AnswerOk, SignInInv, Entitled, TypeOK
<1>25. CASE GivesUp(r)
  <2>1. Entitled(request'[r], verified', deleted')
    BY <1>25, <1>c, Becoming DEF GivesUp, Finish, Entitled
  <2>. QED  BY <1>25, <1>a, <1>b, <2>1 DEF GivesUp, SignInInv, Entitled, TypeOK
<1>26. CASE CleanUpFails(r)
  <2>1. PICK n \in CleanUpFailed(request[r]) : Becomes(r, n)
    BY <1>26 DEF CleanUpFails
  <2>2. n.at \in {"revokeRemember", "scan", "answer"} /\ n.late = request[r].late
    BY <1>a, <2>1, CleanUpFailedFacts
  <2>3. Entitled(request'[r], verified', deleted')
    BY <1>a, <2>1, <2>2, Becoming DEF Entitled
  <2>. QED  BY <1>26, <1>b, <2>3 DEF CleanUpFails
<1>27. CASE AuthByIngestToken(r)
  <2>1. request'[r].at = "ingest" /\ request'[r].late = deleted /\ deleted' = deleted
    BY <1>27, <1>a, Becoming DEF AuthByIngestToken, Begin, Idle
  <2>2. Entitled(request'[r], verified', deleted')
    BY <1>a, <2>1 DEF Entitled
  <2>. QED  BY <1>27, <1>a, <1>b, <2>2 DEF AuthByIngestToken, SignInInv, Entitled, TypeOK
<1>. QED  BY <1>1, <1>2, <1>3, <1>4, <1>5, <1>6, <1>7, <1>8, <1>9, <1>10,
       <1>11, <1>12, <1>13, <1>14, <1>15, <1>16, <1>17, <1>18, <1>19, <1>20,
       <1>21, <1>22, <1>23, <1>24, <1>25, <1>26, <1>27 DEF RequestStep

LEMMA SignInStep ==
    ASSUME TypeOK, SignInInv, [Next]_vars
    PROVE  SignInInv'
<1>a. /\ verified \in BOOLEAN /\ deleted \in BOOLEAN
      /\ verified' \in BOOLEAN /\ deleted' \in BOOLEAN
      /\ \A p \in Request : Entitled(request[p], verified', deleted')
  BY StepTyped, AccountGrows, EntitledStays DEF TypeOK, SignInInv
<1>1. ASSUME NEW r \in Request, RequestStep(r)
      PROVE  SignInInv'
  <2>1. \A p \in Request : Entitled(request'[p], verified', deleted')
    BY <1>a, <1>1, OthersUntouched, EntitledActing
  <2>. QED  BY <1>1, <2>1, EntitledActing DEF SignInInv
<1>2. CASE Crash
  <2>1. \A p \in Request : Entitled(request'[p], verified', deleted')
    BY <1>2 DEF Crash, Idle, Entitled
  <2>2. UNCHANGED <<verified, deleted, session, rememberToken>>
    BY <1>2 DEF Crash, account, tokens
  <2>. QED  BY <2>1, <2>2 DEF SignInInv, LiveSessions, LiveRemember
<1>3. CASE Expire \/ UNCHANGED vars
  <2>1. request' = request /\ verified' = verified /\ deleted' = deleted
    BY <1>3 DEF Expire, vars, account
  <2>2. LiveSessions' \subseteq LiveSessions /\ LiveRemember' \subseteq LiveRemember
    BY <1>3 DEF Expire, vars, tokens, LiveSessions, LiveRemember, TypeOK
  <2>. QED  BY <1>a, <2>1, <2>2 DEF SignInInv
<1>. QED  BY <1>1, <1>2, <1>3, StepCases

LEMMA SignInInvariant == Spec => []SignInInv
<1>1. Init => SignInInv
  BY DEF Init, Idle, SignInInv, Entitled, LiveSessions, LiveRemember
<1>. QED  BY <1>1, SignInStep, AccountTypes, PTL DEF Spec

\* handleLogin and handleVerifyEmail sign nobody in to an account that was not
\* verified, although CompleteEmailVerification answers for a deleted one too.
THEOREM SignInNeedsVerification == Spec => []OnlyVerifiedSignIn
<1>1. SignInInv => OnlyVerifiedSignIn
  <2>1. Live \ ResetToken \subseteq LiveSessions \cup LiveRemember
    BY DEF Live, LiveReset
  <2>. QED  BY <2>1 DEF SignInInv, OnlyVerifiedSignIn
<1>. QED  BY <1>1, SignInInvariant, PTL

\* userFromSession refuses every request that comes after the deletion, with
\* whatever session or remember token outlived it.
THEOREM DeletedIsNotSignedIn == Spec => []NoSignInAfterDeletion
<1>1. SignInInv => NoSignInAfterDeletion
  BY DEF SignInInv, Entitled, NoSignInAfterDeletion
<1>. QED  BY <1>1, SignInInvariant, PTL
=============================================================================
