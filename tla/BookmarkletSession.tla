-------------------------- MODULE BookmarkletSession --------------------------
(***************************************************************************)
(* The short-lived sessions behind a bookmarklet URL                       *)
(* (backend/internal/bmshort/bmshort.go and the handlers of                *)
(* backend/cmd/server/bookmarklet.go).  A user asks for a URL; whoever     *)
(* opens it is given, once and within the time to live, a script with the  *)
(* user's ingest token in it.                                              *)
(*                                                                         *)
(* Two tables under one mutex hold the sessions: by id, and the id of the  *)
(* session of each token.  Every operation first prunes them.  An          *)
(* operation reads the clock more than once, and CreateSession reads it    *)
(* the first time BEFORE it waits for the mutex, so what it knows of the   *)
(* time may be arbitrarily old when its turn comes.                        *)
(*                                                                         *)
(* The template of the script is read from disk once per process, after    *)
(* the session has been consumed and outside the mutex; whatever that      *)
(* first read finds, a failure included, is what every later request gets. *)
(***************************************************************************)
EXTENDS Naturals

CONSTANTS
    Token,      \* the ingest tokens of the users
    Id,         \* the ids that crypto/rand can draw; none is drawn twice
    Request,    \* the goroutines that serve a request
    NoId,
    NoSession,
    TTL,        \* the time to live of a session
    ClockStep,  \* how much time.Now() advances at least between two reads
    MaxClock    \* bound: the last instant of a run

ASSUME BookmarkletAssumption ==
    /\ NoId \notin Id \cup Token
    /\ NoSession \notin [token : Token, expires : Nat, reissueAt : Nat,
                         used : BOOLEAN]
    /\ TTL \in Nat \ {0}
    /\ ClockStep \in {0, 1}
    /\ MaxClock \in Nat

VARIABLES
    clock,          \* the last instant that time.Now() returned
    sessions,       \* by id, the session or NoSession
    byToken,        \* by token, the id of its session or NoId
    request,        \* per goroutine, what it has in hand and its last answer
    template,       \* tplOnce, tplBytes, tplErr
    templateFile,   \* the built template is on disk
    minted,         \* ids drawn so far (history)
    scripts         \* per id, how many times it was consumed (history)

vars == <<clock, sessions, byToken, request, template, templateFile, minted, scripts>>

Session == [token : Token, expires : Nat, reissueAt : Nat, used : BOOLEAN]

\* "create": has read the clock and waits for the mutex; "load": has consumed
\* the session id and is about to load the template.
NoRequest(a) == [at |-> "idle", answer |-> a]

Answer == {"none", "issued", "reused", "cooldown", "notFound", "noTemplate", "script"}

RequestState ==
    [at : {"idle"}, answer : Answer]
        \cup [at : {"create"}, token : Token, now : Nat]
        \cup [at : {"load"}, id : Id]

TypeOK ==
    /\ clock \in 0 .. MaxClock
    /\ sessions \in [Id -> Session \cup {NoSession}]
    /\ byToken \in [Token -> Id \cup {NoId}]
    /\ request \in [Request -> RequestState]
    /\ template \in {"unread", "read", "missing"}
    /\ templateFile \in BOOLEAN
    /\ minted \subseteq Id
    /\ scripts \in [Id -> Nat]

Init ==
    /\ clock = 0
    /\ sessions = [i \in Id |-> NoSession]
    /\ byToken = [k \in Token |-> NoId]
    /\ request = [r \in Request |-> NoRequest("none")]
    /\ template = "unread"
    /\ templateFile \in BOOLEAN
    /\ minted = {}
    /\ scripts = [i \in Id |-> 0]

\* What a read of the clock can return after the instant t.
Later(t) == t + ClockStep .. MaxClock

-----------------------------------------------------------------------------
(* pruneLocked at the instant t: the sessions past their reissueAt go, and *)
(* with each of them whatever its token has in byToken.                    *)

\* Mutant: the sessions go one tick early.
LapsedEarly(i, t) == sessions[i] # NoSession /\ t + 1 > sessions[i].reissueAt

Lapsed(i, t) == sessions[i] # NoSession /\ t > sessions[i].reissueAt

\* Mutant: byToken is left as it is.
PrunedTokensNone(t) == byToken

PrunedSessions(t) == [i \in Id |-> IF Lapsed(i, t) THEN NoSession ELSE sessions[i]]

PrunedTokens(t) ==
    [k \in Token |-> IF \E i \in Id : Lapsed(i, t) /\ sessions[i].token = k
                     THEN NoId ELSE byToken[k]]

-----------------------------------------------------------------------------
(* CreateSession *)

\* The clock is read; then the goroutine waits for the mutex.
CreateStart(r, k) ==
    /\ request[r].at = "idle"
    /\ \E t \in Later(clock) :
          /\ clock' = t
          /\ request' = [request EXCEPT ![r] =
                            [at |-> "create", token |-> k, now |-> t]]
    /\ UNCHANGED <<sessions, byToken, template, templateFile, minted, scripts>>

NewSession(q) ==
    [token |-> q.token, expires |-> q.now + TTL,
     reissueAt |-> q.now + TTL, used |-> FALSE]

\* Mutant: a stored session is not looked for.
VerdictIssues(q, s, b) == "issued"

\* The answer to the create request q once the tables are pruned to s and b.
Verdict(q, s, b) ==
    LET i == b[q.token] IN
    IF i = NoId THEN "issued"
    ELSE IF s[i] = NoSession THEN "issued"
    ELSE IF ~s[i].used /\ q.now < s[i].expires THEN "reused"
    ELSE IF q.now < s[i].reissueAt THEN "cooldown"
    ELSE "issued"

\* The critical section.  A session that is still good is answered again.
CreateSession(r) ==
    /\ request[r].at = "create"
    /\ \E t \in Later(clock) :
          LET q == request[r]
              s == PrunedSessions(t)
              b == PrunedTokens(t)
              a == Verdict(q, s, b)
          IN  /\ clock' = t
              /\ request' = [request EXCEPT ![r] = NoRequest(a)]
              /\ IF a = "issued"
                 THEN \E i \in Id \ minted :
                         /\ sessions' = [s EXCEPT ![i] = NewSession(q)]
                         /\ byToken' = [b EXCEPT ![q.token] = i]
                         /\ minted' = minted \cup {i}
                 ELSE /\ sessions' = s
                      /\ byToken' = b
                      /\ UNCHANGED minted
    /\ UNCHANGED <<template, templateFile, scripts>>

-----------------------------------------------------------------------------
(* ConsumeSession and the script that is then delivered. *)

\* The id is unknown, or was pruned a moment ago.
ConsumeUnknown(r, i) ==
    /\ request[r].at = "idle"
    /\ \E t \in Later(clock) :
          /\ PrunedSessions(t)[i] = NoSession
          /\ clock' = t
          /\ sessions' = PrunedSessions(t)
          /\ byToken' = PrunedTokens(t)
    /\ request' = [request EXCEPT ![r] = NoRequest("notFound")]
    /\ UNCHANGED <<template, templateFile, minted, scripts>>

\* The session expires between the two reads of the clock: it is marked.
ConsumeExpired(r, i) ==
    /\ request[r].at = "idle"
    /\ \E t \in Later(clock) : \E u \in Later(t) :
          LET p == PrunedSessions(t)[i] IN
          /\ p # NoSession
          /\ u > p.expires \/ p.used
          /\ clock' = u
          /\ sessions' = [PrunedSessions(t) EXCEPT ![i].used = TRUE]
          /\ byToken' = PrunedTokens(t)
    /\ request' = [request EXCEPT ![r] = NoRequest("notFound")]
    /\ UNCHANGED <<template, templateFile, minted, scripts>>

\* The session is good: it leaves both tables before anything is delivered.
ConsumeSession(r, i) ==
    /\ request[r].at = "idle"
    /\ \E t \in Later(clock) : \E u \in Later(t) :
          LET p == PrunedSessions(t)[i]
              b == PrunedTokens(t)
          IN  /\ p # NoSession
              /\ u <= p.expires /\ ~p.used
              /\ clock' = u
              /\ sessions' = [PrunedSessions(t) EXCEPT ![i] = NoSession]
              /\ byToken' = IF b[p.token] = i THEN [b EXCEPT ![p.token] = NoId] ELSE b
    /\ request' = [request EXCEPT ![r] = [at |-> "load", id |-> i]]
    /\ scripts' = [scripts EXCEPT ![i] = @ + 1]
    /\ UNCHANGED <<template, templateFile, minted>>

\* LoadTemplate and the answer.
LoadTemplate(r) ==
    /\ request[r].at = "load"
    /\ template' = IF template # "unread" THEN template
                   ELSE IF templateFile THEN "read" ELSE "missing"
    /\ request' = [request EXCEPT ![r] =
                      NoRequest(IF template' = "read" THEN "script" ELSE "noTemplate")]
    /\ UNCHANGED <<clock, sessions, byToken, templateFile, minted, scripts>>

-----------------------------------------------------------------------------
\* SessionStatus prunes, and reads.
SessionStatus ==
    /\ \E t \in Later(clock) :
          /\ clock' = t
          /\ sessions' = PrunedSessions(t)
          /\ byToken' = PrunedTokens(t)
    /\ UNCHANGED <<request, template, templateFile, minted, scripts>>

\* The operator builds the bookmarklet.
BuildTemplate ==
    /\ ~templateFile
    /\ templateFile' = TRUE
    /\ UNCHANGED <<clock, sessions, byToken, request, template, minted, scripts>>

\* The process is restarted: all of it was memory.
Restart ==
    /\ sessions' = [i \in Id |-> NoSession]
    /\ byToken' = [k \in Token |-> NoId]
    /\ request' = [r \in Request |-> NoRequest("none")]
    /\ template' = "unread"
    /\ UNCHANGED <<clock, templateFile, minted, scripts>>

Next ==
    \/ \E r \in Request :
          \/ \E k \in Token : CreateStart(r, k)
          \/ CreateSession(r)
          \/ \E i \in Id : ConsumeUnknown(r, i) \/ ConsumeExpired(r, i) \/ ConsumeSession(r, i)
          \/ LoadTemplate(r)
    \/ SessionStatus
    \/ BuildTemplate
    \/ Restart

Spec == Init /\ [][Next]_vars

-----------------------------------------------------------------------------
(* What the sessions promise. *)

\* The two tables agree: the session of a token is the one filed under it, and
\* so a token never has two sessions, however late its create requests come to
\* the mutex.  When it had two, pruning the first would unfile the second,
\* which nobody could find again and which stayed good beside the next one.
OneSessionPerToken ==
    \A i \in Id, k \in Token :
        (sessions[i] # NoSession /\ sessions[i].token = k) <=> byToken[k] = i

\* A create request is never refused: after a session was used, expired or was
\* lost, the next one is issued at once ("right after a normal use the user
\* must be able to get a new bookmark URL", bmshort.go:72).
NeverInCooldown == \A r \in Request : request[r].at = "idle" => request[r].answer # "cooldown"

\* A running process drops a session only when it was consumed or its time to
\* live is over: no pruning, no other user's request and no second request for
\* the same token takes a good URL away.
GoodSessionsStay ==
    [][Restart \/ \A i \in Id :
          sessions[i] # NoSession /\ sessions'[i] = NoSession
              => scripts'[i] = scripts[i] + 1 \/ clock' > sessions[i].expires]_vars

\* The sessions are one-time tickets: a session that is in the tables is held by
\* its token, one that was consumed is redeemed, and any other id that was ever
\* drawn has lapsed.
TicketState ==
    [i \in Id |-> IF i \notin minted THEN "new"
                  ELSE IF sessions[i] # NoSession THEN "held"
                  ELSE IF scripts[i] > 0 THEN "redeemed"
                  ELSE "lapsed"]

TicketHolder == [i \in Id |-> IF sessions[i] = NoSession THEN NoId ELSE sessions[i].token]

Ticket == INSTANCE OneTimeTicket WITH
    Holder <- Token, NoHolder <- NoId, ticket <- TicketState, holder <- TicketHolder

ImplementsTickets == Ticket!TicketSpec

\* A session is consumed at most once, however many requests open its URL.
ConsumedOnce == \A i \in Id : scripts[i] <= 1

=============================================================================
