----------------------- MODULE BookmarkletSessionProofs -----------------------
(***************************************************************************)
(* Proofs about module BookmarkletSession, for any number of users,        *)
(* requests and ids: under a clock that advances between any two reads the *)
(* two tables agree, no create request is refused, and the sessions        *)
(* implement one-time tickets.                                             *)
(***************************************************************************)
EXTENDS BookmarkletSession, TLAPS

StrictClock == ClockStep = 1

\* What pruning relies on: only ids that were drawn are stored, a session is
\* pruned at the instant at which it expires, a session that is still stored
\* though marked has expired, and it has not been consumed; and no request
\* knows a time to come.
StoredOK ==
    /\ \A i \in Id : sessions[i] # NoSession =>
          /\ i \in minted
          /\ sessions[i].reissueAt = sessions[i].expires
          /\ sessions[i].used => sessions[i].expires < clock
          /\ scripts[i] = 0
    /\ \A i \in Id : i \notin minted => scripts[i] = 0
    /\ \A r \in Request : request[r].at = "create" => request[r].now <= clock

SessionInv ==
    /\ TypeOK
    /\ StoredOK
    /\ OneSessionPerToken
    /\ ConsumedOnce
    /\ NeverInCooldown

\* A session and the lack of one are told apart.
LEMMA SessionFacts ==
    /\ NoSession \notin Session
    /\ NoId \notin Id
    /\ \A a : NoRequest(a).at = "idle" /\ NoRequest(a).answer = a
    /\ \A a \in Answer : NoRequest(a) \in RequestState
BY BookmarkletAssumption DEF Session, NoRequest, RequestState, Answer

LEMMA ClockFacts ==
    ASSUME NEW t \in 0 .. MaxClock, NEW u \in Later(t)
    PROVE  /\ u \in 0 .. MaxClock
           /\ t <= u
           /\ StrictClock => t < u
BY BookmarkletAssumption DEF Later, StrictClock

-----------------------------------------------------------------------------
(* Pruning. *)

\* The tables that pruning leaves agree when the tables it starts from do.
LEMMA PrunedFacts ==
    ASSUME TypeOK, OneSessionPerToken, NEW t \in Nat
    PROVE  /\ PrunedSessions(t) \in [Id -> Session \cup {NoSession}]
           /\ PrunedTokens(t) \in [Token -> Id \cup {NoId}]
           /\ \A i \in Id : PrunedSessions(t)[i] # NoSession =>
                 PrunedSessions(t)[i] = sessions[i] /\ t <= sessions[i].reissueAt
           /\ \A i \in Id, k \in Token :
                 (PrunedSessions(t)[i] # NoSession /\ PrunedSessions(t)[i].token = k)
                     <=> PrunedTokens(t)[k] = i
<1> DEFINE s == PrunedSessions(t)
           b == PrunedTokens(t)
<1>1. s \in [Id -> Session \cup {NoSession}] /\ b \in [Token -> Id \cup {NoId}]
  BY DEF TypeOK, PrunedSessions, PrunedTokens
<1>2. ASSUME NEW i \in Id
      PROVE  /\ s[i] = IF Lapsed(i, t) THEN NoSession ELSE sessions[i]
             /\ sessions[i] # NoSession => sessions[i].token \in Token /\ sessions[i].reissueAt \in Nat
  BY DEF TypeOK, PrunedSessions, Session
<1>3. ASSUME NEW i \in Id, s[i] # NoSession
      PROVE  s[i] = sessions[i] /\ t <= sessions[i].reissueAt
  BY <1>2, <1>3 DEF Lapsed
<1>4. ASSUME NEW i \in Id, NEW k \in Token
      PROVE  (s[i] # NoSession /\ s[i].token = k) <=> b[k] = i
  <2>1. b[k] = IF \E j \in Id : Lapsed(j, t) /\ sessions[j].token = k THEN NoId ELSE byToken[k]
    BY DEF PrunedTokens
  <2>2. CASE s[i] # NoSession /\ s[i].token = k
    <3>1. sessions[i] = s[i] /\ ~Lapsed(i, t) /\ byToken[k] = i
      BY <1>2, <2>2 DEF OneSessionPerToken
    <3>2. \A j \in Id : Lapsed(j, t) /\ sessions[j].token = k => j = i
      BY <3>1 DEF Lapsed, OneSessionPerToken
    <3>3. QED
      BY <2>1, <2>2, <3>1, <3>2
  <2>3. CASE b[k] = i
    <3>1. byToken[k] = i /\ ~\E j \in Id : Lapsed(j, t) /\ sessions[j].token = k
      BY <2>1, <2>3, SessionFacts
    <3>2. sessions[i] # NoSession /\ sessions[i].token = k
      BY <3>1 DEF OneSessionPerToken
    <3>3. s[i] = sessions[i]
      BY <1>2, <3>1, <3>2
    <3>4. QED
      BY <2>3, <3>2, <3>3
  <2>4. QED
    BY <2>2, <2>3
<1>5. QED
  BY <1>1, <1>3, <1>4

\* What is still stored after pruning is unused, unconsumed and not expired.
LEMMA PrunedAreGood ==
    ASSUME StrictClock, SessionInv, NEW t \in Later(clock), NEW i \in Id,
           PrunedSessions(t)[i] # NoSession
    PROVE  /\ sessions[i] # NoSession
           /\ PrunedSessions(t)[i] = sessions[i]
           /\ sessions[i] \in Session
           /\ i \in minted /\ scripts[i] = 0
           /\ sessions[i].reissueAt = sessions[i].expires
           /\ ~sessions[i].used
           /\ clock < t /\ t <= sessions[i].expires
<1>1. clock \in 0 .. MaxClock /\ t \in 0 .. MaxClock /\ clock < t
  BY ClockFacts DEF SessionInv, TypeOK
<1>2. PrunedSessions(t)[i] = sessions[i] /\ t <= sessions[i].reissueAt
  BY <1>1, PrunedFacts DEF SessionInv
<1>3. sessions[i] # NoSession /\ sessions[i] \in Session
  BY <1>2 DEF SessionInv, TypeOK
<1>4. /\ i \in minted /\ scripts[i] = 0
      /\ sessions[i].reissueAt = sessions[i].expires
      /\ sessions[i].used => sessions[i].expires < clock
  BY <1>3 DEF SessionInv, StoredOK
<1>5. ~sessions[i].used
  BY <1>1, <1>2, <1>3, <1>4 DEF Session
<1>6. QED
  BY <1>1, <1>2, <1>3, <1>4, <1>5

\* A request that is answered, or takes a time no later than the clock.
RequestsOK ==
    /\ request \in [Request -> RequestState]
    /\ \A r \in Request : request[r].at = "create" => request[r].now <= clock
    /\ NeverInCooldown

LEMMA RequestsStayOK ==
    ASSUME SessionInv, NEW r \in Request, NEW q \in RequestState,
           clock <= clock', clock' \in 0 .. MaxClock,
           request' = [request EXCEPT ![r] = q],
           q.at = "create" => q.now <= clock',
           q.at = "idle" => q.answer # "cooldown"
    PROVE  RequestsOK'
<1>1. /\ request \in [Request -> RequestState]
      /\ \A p \in Request : request[p].at = "create" => request[p].now <= clock
      /\ clock \in 0 .. MaxClock
  BY DEF SessionInv, TypeOK, StoredOK
<1>2. request' \in [Request -> RequestState]
  BY <1>1
<1>3. ASSUME NEW p \in Request, request'[p].at = "create"
      PROVE  request'[p].now <= clock'
  <2>1. CASE p = r
    BY <1>1, <1>3, <2>1
  <2>2. CASE p # r
    <3>1. request'[p] = request[p]
      BY <1>1, <2>2
    <3>2. request[p].now \in Nat
      BY <1>1, <1>3, <3>1 DEF RequestState
    <3>3. QED
      BY <1>1, <1>3, <3>1, <3>2
  <2>3. QED
    BY <2>1, <2>2
<1>4. NeverInCooldown'
  BY <1>1 DEF SessionInv, NeverInCooldown
<1>5. QED
  BY <1>2, <1>3, <1>4 DEF RequestsOK

\* The tables after a step: what is stored in them, and that they agree.
LEMMA TablesOK ==
    ASSUME clock' \in 0 .. MaxClock,
           sessions' \in [Id -> Session \cup {NoSession}],
           byToken' \in [Token -> Id \cup {NoId}],
           template' \in {"unread", "read", "missing"},
           templateFile' \in BOOLEAN,
           minted' \subseteq Id,
           scripts' \in [Id -> Nat],
           RequestsOK', OneSessionPerToken', ConsumedOnce',
           \A i \in Id : i \notin minted' => scripts'[i] = 0,
           \A i \in Id : sessions'[i] # NoSession =>
              /\ i \in minted'
              /\ sessions'[i].reissueAt = sessions'[i].expires
              /\ sessions'[i].used => sessions'[i].expires < clock'
              /\ scripts'[i] = 0
    PROVE  SessionInv'
BY DEF SessionInv, TypeOK, StoredOK, RequestsOK

-----------------------------------------------------------------------------
(* The steps. *)

\* A step that prunes and leaves the tables at that.
LEMMA PruningKeeps ==
    ASSUME StrictClock, SessionInv, NEW t \in Later(clock),
           clock' = t,
           sessions' = PrunedSessions(t),
           byToken' = PrunedTokens(t),
           UNCHANGED <<template, templateFile, minted, scripts>>,
           RequestsOK'
    PROVE  SessionInv'
<1>1. t \in 0 .. MaxClock /\ TypeOK /\ OneSessionPerToken
  BY ClockFacts DEF SessionInv, TypeOK
<1>2. /\ sessions' \in [Id -> Session \cup {NoSession}]
      /\ byToken' \in [Token -> Id \cup {NoId}]
      /\ OneSessionPerToken'
  BY <1>1, PrunedFacts DEF OneSessionPerToken
<1>3. ASSUME NEW i \in Id, sessions'[i] # NoSession
      PROVE  /\ i \in minted'
             /\ sessions'[i].reissueAt = sessions'[i].expires
             /\ ~sessions'[i].used
             /\ scripts'[i] = 0
  BY <1>3, PrunedAreGood
<1>4. /\ ConsumedOnce'
      /\ \A i \in Id : i \notin minted' => scripts'[i] = 0
  BY DEF SessionInv, ConsumedOnce, StoredOK
<1>5. QED
  BY <1>1, <1>2, <1>3, <1>4, TablesOK DEF TypeOK

LEMMA CreateStartKeeps ==
    ASSUME StrictClock, SessionInv, NEW r \in Request, NEW k \in Token, CreateStart(r, k)
    PROVE  SessionInv'
<1>1. PICK t \in Later(clock) :
         /\ clock' = t
         /\ request' = [request EXCEPT ![r] = [at |-> "create", token |-> k, now |-> t]]
  BY DEF CreateStart
<1>2. t \in 0 .. MaxClock /\ clock < t /\ clock \in 0 .. MaxClock
  BY ClockFacts DEF SessionInv, TypeOK
<1>3. [at |-> "create", token |-> k, now |-> t] \in RequestState
  BY <1>2 DEF RequestState
<1>4. RequestsOK'
  <2> DEFINE q == [at |-> "create", token |-> k, now |-> t]
  <2>1. q \in RequestState /\ q.at = "create" /\ q.now = t
    BY <1>3
  <2>2. /\ clock <= clock' /\ clock' \in 0 .. MaxClock
        /\ request' = [request EXCEPT ![r] = q]
        /\ q.at = "create" => q.now <= clock'
        /\ q.at = "idle" => q.answer # "cooldown"
    BY <1>1, <1>2, <2>1
  <2> HIDE DEF q
  <2>3. QED
    BY <2>1, <2>2, RequestsStayOK
<1>5. \A i \in Id : sessions[i] # NoSession /\ sessions[i].used => sessions[i].expires < clock'
  BY <1>1, <1>2 DEF SessionInv, StoredOK, TypeOK, Session
<1>6. UNCHANGED <<sessions, byToken, template, templateFile, minted, scripts>>
  BY DEF CreateStart
<1>7. OneSessionPerToken' /\ ConsumedOnce'
  BY <1>6 DEF SessionInv, OneSessionPerToken, ConsumedOnce
<1>8. QED
  BY <1>1, <1>2, <1>4, <1>5, <1>6, <1>7, TablesOK DEF SessionInv, TypeOK, StoredOK

LEMMA CreateSessionKeeps ==
    ASSUME StrictClock, SessionInv, NEW r \in Request, CreateSession(r)
    PROVE  SessionInv'
<1> DEFINE q == request[r]
<1>1. PICK t \in Later(clock) :
         LET a == Verdict(q, PrunedSessions(t), PrunedTokens(t))
         IN  /\ clock' = t
             /\ request' = [request EXCEPT ![r] = NoRequest(a)]
             /\ IF a = "issued"
                THEN \E i \in Id \ minted :
                        /\ sessions' = [PrunedSessions(t) EXCEPT ![i] = NewSession(q)]
                        /\ byToken' = [PrunedTokens(t) EXCEPT ![q.token] = i]
                        /\ minted' = minted \cup {i}
                ELSE /\ sessions' = PrunedSessions(t)
                     /\ byToken' = PrunedTokens(t)
                     /\ UNCHANGED minted
  BY DEF CreateSession
<1> DEFINE s == PrunedSessions(t)
           b == PrunedTokens(t)
           a == Verdict(q, s, b)
<1>2. t \in 0 .. MaxClock /\ clock < t /\ clock \in 0 .. MaxClock
  BY ClockFacts DEF SessionInv, TypeOK
<1>3. q \in RequestState /\ q.at = "create" /\ q.token \in Token /\ q.now \in Nat /\ q.now <= clock
  BY DEF CreateSession, SessionInv, TypeOK, StoredOK, RequestState
<1>4. /\ s \in [Id -> Session \cup {NoSession}]
      /\ b \in [Token -> Id \cup {NoId}]
      /\ \A i \in Id, k \in Token : (s[i] # NoSession /\ s[i].token = k) <=> b[k] = i
  BY <1>2, PrunedFacts DEF SessionInv
<1>5. a \in {"issued", "reused"} /\ (a = "issued" => b[q.token] = NoId)
  <2>1. CASE b[q.token] = NoId
    BY <2>1 DEF Verdict
  <2>2. CASE b[q.token] # NoId
    <3>1. b[q.token] \in Id /\ s[b[q.token]] # NoSession
      BY <1>3, <1>4, <2>2
    <3>2. ~s[b[q.token]].used /\ q.now < s[b[q.token]].expires
      <4>1. ~s[b[q.token]].used /\ clock < t /\ t <= s[b[q.token]].expires
        BY <3>1, PrunedAreGood
      <4>2. s[b[q.token]].expires \in Nat
        BY <3>1, <1>4 DEF Session
      <4>3. QED
        BY <1>2, <1>3, <4>1, <4>2
    <3>3. a = "reused"
      BY <2>2, <3>1, <3>2 DEF Verdict
    <3>4. QED
      BY <3>3
  <2>3. QED
    BY <2>1, <2>2
<1>6. RequestsOK'
  <2> DEFINE n == NoRequest(a)
  <2>1. n \in RequestState /\ n.at = "idle" /\ n.answer = a
    BY <1>5, SessionFacts DEF Answer
  <2>2. /\ clock <= clock' /\ clock' \in 0 .. MaxClock
        /\ request' = [request EXCEPT ![r] = n]
        /\ n.at = "create" => n.now <= clock'
        /\ n.at = "idle" => n.answer # "cooldown"
    BY <1>1, <1>2, <1>5, <2>1
  <2> HIDE DEF n
  <2>3. QED
    BY <2>1, <2>2, RequestsStayOK
<1>7. UNCHANGED <<template, templateFile, scripts>>
  BY DEF CreateSession
<1>8. CASE a # "issued"
  BY <1>1, <1>6, <1>7, <1>8, PruningKeeps
<1>9. CASE a = "issued"
  <2>1. PICK i \in Id \ minted :
           /\ sessions' = [s EXCEPT ![i] = NewSession(q)]
           /\ byToken' = [b EXCEPT ![q.token] = i]
           /\ minted' = minted \cup {i}
    BY <1>1, <1>9
  <2>2. NewSession(q) \in Session /\ NewSession(q).token = q.token
        /\ NewSession(q).reissueAt = NewSession(q).expires /\ ~NewSession(q).used
    BY <1>3, BookmarkletAssumption DEF NewSession, Session
  <2>3. NewSession(q) # NoSession
    BY <2>2, SessionFacts
  <2>4. s[i] = NoSession /\ scripts[i] = 0
    BY PrunedAreGood DEF SessionInv, StoredOK
  <2>5. \A k \in Token : b[k] # i
    BY <1>4, <2>4
  <2>6. /\ sessions' \in [Id -> Session \cup {NoSession}]
        /\ byToken' \in [Token -> Id \cup {NoId}]
        /\ \A j \in Id : sessions'[j] = IF j = i THEN NewSession(q) ELSE s[j]
        /\ \A k \in Token : byToken'[k] = IF k = q.token THEN i ELSE b[k]
    BY <1>3, <1>4, <2>1, <2>2
  <2>7. OneSessionPerToken'
    <3>1. ASSUME NEW j \in Id, NEW k \in Token
          PROVE  (sessions'[j] # NoSession /\ sessions'[j].token = k) <=> byToken'[k] = j
      <4>1. CASE j = i
        BY <2>2, <2>3, <2>5, <2>6, <4>1
      <4>2. CASE j # i /\ k = q.token
        <5>1. ~(s[j] # NoSession /\ s[j].token = k)
          BY <1>4, <1>5, <1>9, <4>2, SessionFacts
        <5>2. QED
          BY <2>6, <4>2, <5>1
      <4>3. CASE j # i /\ k # q.token
        BY <1>4, <2>6, <4>3
      <4>4. QED
        BY <4>1, <4>2, <4>3
    <3>2. QED
      BY <3>1 DEF OneSessionPerToken
  <2>8. ASSUME NEW j \in Id, sessions'[j] # NoSession
        PROVE  /\ j \in minted'
               /\ sessions'[j].reissueAt = sessions'[j].expires
               /\ ~sessions'[j].used
               /\ scripts'[j] = 0
    <3>1. CASE j = i
      BY <1>7, <2>1, <2>2, <2>4, <2>6, <3>1
    <3>2. CASE j # i
      BY <1>7, <2>1, <2>6, <2>8, <3>2, PrunedAreGood
    <3>3. QED
      BY <3>1, <3>2
  <2>9. /\ ConsumedOnce'
        /\ \A j \in Id : j \notin minted' => scripts'[j] = 0
        /\ minted' \subseteq Id
    BY <1>7, <2>1 DEF SessionInv, ConsumedOnce, StoredOK, TypeOK
  <2>10. QED
    BY <1>1, <1>2, <1>6, <1>7, <2>6, <2>7, <2>8, <2>9, TablesOK DEF SessionInv, TypeOK
<1>10. QED
  BY <1>8, <1>9

LEMMA ConsumeUnknownKeeps ==
    ASSUME StrictClock, SessionInv, NEW r \in Request, NEW i \in Id, ConsumeUnknown(r, i)
    PROVE  SessionInv'
<1>1. PICK t \in Later(clock) :
         clock' = t /\ sessions' = PrunedSessions(t) /\ byToken' = PrunedTokens(t)
  BY DEF ConsumeUnknown
<1>2. t \in 0 .. MaxClock /\ clock <= t
  BY ClockFacts DEF SessionInv, TypeOK
<1>3. /\ request' = [request EXCEPT ![r] = NoRequest("notFound")]
      /\ UNCHANGED <<template, templateFile, minted, scripts>>
  BY DEF ConsumeUnknown
<1>4. RequestsOK'
  BY <1>1, <1>2, <1>3, SessionFacts, RequestsStayOK DEF Answer
<1>5. QED
  BY <1>1, <1>3, <1>4, PruningKeeps

LEMMA ConsumeExpiredKeeps ==
    ASSUME StrictClock, SessionInv, NEW r \in Request, NEW i \in Id, ConsumeExpired(r, i)
    PROVE  SessionInv'
<1>0. PICK t \in Later(clock) : \E u \in Later(t) :
         /\ PrunedSessions(t)[i] # NoSession
         /\ u > PrunedSessions(t)[i].expires \/ PrunedSessions(t)[i].used
         /\ clock' = u
         /\ sessions' = [PrunedSessions(t) EXCEPT ![i].used = TRUE]
         /\ byToken' = PrunedTokens(t)
  BY DEF ConsumeExpired
<1>1. PICK u \in Later(t) :
         /\ PrunedSessions(t)[i] # NoSession
         /\ u > PrunedSessions(t)[i].expires \/ PrunedSessions(t)[i].used
         /\ clock' = u
         /\ sessions' = [PrunedSessions(t) EXCEPT ![i].used = TRUE]
         /\ byToken' = PrunedTokens(t)
  BY <1>0
<1> DEFINE s == PrunedSessions(t)
           b == PrunedTokens(t)
<1>2. t \in 0 .. MaxClock /\ clock <= t /\ u \in 0 .. MaxClock /\ clock <= u
  BY ClockFacts DEF SessionInv, TypeOK
<1>3. /\ request' = [request EXCEPT ![r] = NoRequest("notFound")]
      /\ UNCHANGED <<template, templateFile, minted, scripts>>
  BY DEF ConsumeExpired
<1>4. RequestsOK'
  BY <1>1, <1>2, <1>3, SessionFacts, RequestsStayOK DEF Answer
<1>5. /\ s \in [Id -> Session \cup {NoSession}]
      /\ b \in [Token -> Id \cup {NoId}]
      /\ \A j \in Id, k \in Token : (s[j] # NoSession /\ s[j].token = k) <=> b[k] = j
  BY <1>2, PrunedFacts DEF SessionInv
<1>6. s[i] \in Session /\ u > s[i].expires
  BY <1>1, PrunedAreGood
<1> DEFINE marked == [s[i] EXCEPT !.used = TRUE]
<1>7. /\ marked \in Session /\ marked # NoSession
      /\ marked.token = s[i].token /\ marked.expires = s[i].expires
      /\ marked.reissueAt = s[i].reissueAt
  <2>1. marked \in Session
    BY <1>6 DEF Session
  <2>2. marked.token = s[i].token /\ marked.expires = s[i].expires
        /\ marked.reissueAt = s[i].reissueAt
    BY <1>6 DEF Session
  <2>3. QED
    BY <2>1, <2>2, SessionFacts
<1>8. /\ sessions' \in [Id -> Session \cup {NoSession}]
      /\ \A j \in Id : sessions'[j] = IF j = i THEN marked ELSE s[j]
  BY <1>1, <1>5, <1>7
<1>9. OneSessionPerToken'
  <2>1. ASSUME NEW j \in Id, NEW k \in Token
        PROVE  (sessions'[j] # NoSession /\ sessions'[j].token = k) <=> byToken'[k] = j
    BY <1>1, <1>5, <1>7, <1>8
  <2>2. QED
    BY <2>1 DEF OneSessionPerToken
<1>10. ASSUME NEW j \in Id, sessions'[j] # NoSession
       PROVE  /\ j \in minted'
              /\ sessions'[j].reissueAt = sessions'[j].expires
              /\ sessions'[j].used => sessions'[j].expires < clock'
              /\ scripts'[j] = 0
  <2>1. s[j] # NoSession
    BY <1>1, <1>8, <1>10
  <2>2. /\ s[j] = sessions[j]
        /\ j \in minted /\ scripts[j] = 0 /\ ~s[j].used /\ s[j].reissueAt = s[j].expires
    BY <2>1, PrunedAreGood
  <2>3. QED
    BY <1>1, <1>2, <1>3, <1>6, <1>7, <1>8, <2>2 DEF Session
<1>11. /\ ConsumedOnce'
       /\ \A j \in Id : j \notin minted' => scripts'[j] = 0
  BY <1>3 DEF SessionInv, ConsumedOnce, StoredOK
<1>12. QED
  BY <1>1, <1>2, <1>3, <1>4, <1>5, <1>8, <1>9, <1>10, <1>11, TablesOK DEF SessionInv, TypeOK

LEMMA ConsumeSessionKeeps ==
    ASSUME StrictClock, SessionInv, NEW r \in Request, NEW i \in Id, ConsumeSession(r, i)
    PROVE  SessionInv'
<1>0. PICK t \in Later(clock) : \E u \in Later(t) :
         /\ PrunedSessions(t)[i] # NoSession
         /\ clock' = u
         /\ sessions' = [PrunedSessions(t) EXCEPT ![i] = NoSession]
         /\ byToken' = IF PrunedTokens(t)[PrunedSessions(t)[i].token] = i
                       THEN [PrunedTokens(t) EXCEPT ![PrunedSessions(t)[i].token] = NoId]
                       ELSE PrunedTokens(t)
  BY DEF ConsumeSession
<1>1. PICK u \in Later(t) :
         /\ PrunedSessions(t)[i] # NoSession
         /\ clock' = u
         /\ sessions' = [PrunedSessions(t) EXCEPT ![i] = NoSession]
         /\ byToken' = IF PrunedTokens(t)[PrunedSessions(t)[i].token] = i
                       THEN [PrunedTokens(t) EXCEPT ![PrunedSessions(t)[i].token] = NoId]
                       ELSE PrunedTokens(t)
  BY <1>0
<1> DEFINE s == PrunedSessions(t)
           b == PrunedTokens(t)
<1>2. t \in 0 .. MaxClock /\ clock <= t /\ u \in 0 .. MaxClock /\ clock <= u
  BY ClockFacts DEF SessionInv, TypeOK
<1>3. /\ request' = [request EXCEPT ![r] = [at |-> "load", id |-> i]]
      /\ UNCHANGED <<template, templateFile, minted>>
      /\ scripts' = [scripts EXCEPT ![i] = @ + 1]
  BY DEF ConsumeSession
<1>4. RequestsOK'
  <2>1. [at |-> "load", id |-> i] \in RequestState
    BY DEF RequestState
  <2>2. QED
    BY <1>1, <1>2, <1>3, <2>1, RequestsStayOK
<1>5. /\ s \in [Id -> Session \cup {NoSession}]
      /\ b \in [Token -> Id \cup {NoId}]
      /\ \A j \in Id, k \in Token : (s[j] # NoSession /\ s[j].token = k) <=> b[k] = j
  BY <1>2, PrunedFacts DEF SessionInv
<1>6. s[i] \in Session /\ s[i].token \in Token /\ i \in minted /\ scripts[i] = 0
  BY <1>1, PrunedAreGood DEF Session
<1>7. b[s[i].token] = i
  BY <1>1, <1>5, <1>6
<1>8. /\ sessions' \in [Id -> Session \cup {NoSession}]
      /\ byToken' \in [Token -> Id \cup {NoId}]
      /\ \A j \in Id : sessions'[j] = IF j = i THEN NoSession ELSE s[j]
      /\ \A k \in Token : byToken'[k] = IF k = s[i].token THEN NoId ELSE b[k]
  BY <1>1, <1>5, <1>6, <1>7
<1>9. OneSessionPerToken'
  <2>1. ASSUME NEW j \in Id, NEW k \in Token
        PROVE  (sessions'[j] # NoSession /\ sessions'[j].token = k) <=> byToken'[k] = j
    <3>1. CASE j = i
      BY <1>1, <1>5, <1>7, <1>8, <3>1, SessionFacts
    <3>2. CASE j # i
      BY <1>5, <1>7, <1>8, <3>2, SessionFacts
    <3>3. QED
      BY <3>1, <3>2
  <2>2. QED
    BY <2>1 DEF OneSessionPerToken
<1>10. /\ scripts' \in [Id -> Nat]
       /\ \A j \in Id : scripts'[j] = IF j = i THEN 1 ELSE scripts[j]
  BY <1>3, <1>6 DEF SessionInv, TypeOK
<1>11. ASSUME NEW j \in Id, sessions'[j] # NoSession
       PROVE  /\ j \in minted'
              /\ sessions'[j].reissueAt = sessions'[j].expires
              /\ ~sessions'[j].used
              /\ scripts'[j] = 0
  <2>1. j # i /\ s[j] # NoSession /\ sessions'[j] = s[j]
    BY <1>8, <1>11
  <2>2. QED
    BY <1>3, <1>10, <2>1, PrunedAreGood
<1>12. /\ ConsumedOnce'
       /\ \A j \in Id : j \notin minted' => scripts'[j] = 0
  BY <1>3, <1>6, <1>10 DEF SessionInv, ConsumedOnce, StoredOK, TypeOK
<1>13. QED
  BY <1>1, <1>2, <1>3, <1>4, <1>8, <1>9, <1>10, <1>11, <1>12, TablesOK DEF SessionInv, TypeOK

\* The steps that leave the tables and the clock alone, or empty them.
LEMMA OtherStepsKeep ==
    ASSUME StrictClock, SessionInv,
           \/ \E r \in Request : LoadTemplate(r)
           \/ SessionStatus \/ BuildTemplate \/ Restart
           \/ UNCHANGED vars
    PROVE  SessionInv'
<1>1. ASSUME NEW r \in Request, LoadTemplate(r)
      PROVE  SessionInv'
  <2>1. template' \in {"unread", "read", "missing"}
    BY <1>1 DEF LoadTemplate, SessionInv, TypeOK
  <2>2. UNCHANGED <<clock, sessions, byToken, templateFile, minted, scripts>>
    BY <1>1 DEF LoadTemplate
  <2>3. PICK a \in {"script", "noTemplate"} : request' = [request EXCEPT ![r] = NoRequest(a)]
    BY <1>1 DEF LoadTemplate
  <2>4. clock' \in 0 .. MaxClock /\ clock <= clock'
    BY <2>2 DEF SessionInv, TypeOK
  <2>5. NoRequest(a) \in RequestState /\ NoRequest(a).at = "idle" /\ NoRequest(a).answer # "cooldown"
    BY SessionFacts DEF Answer
  <2>6. RequestsOK'
    BY <2>3, <2>4, <2>5, RequestsStayOK
  <2>7. OneSessionPerToken' /\ ConsumedOnce'
    BY <2>2 DEF SessionInv, OneSessionPerToken, ConsumedOnce
  <2>8. QED
    BY <2>1, <2>2, <2>6, <2>7, TablesOK DEF SessionInv, TypeOK, StoredOK
<1>2. CASE SessionStatus
  <2>1. PICK t \in Later(clock) :
           clock' = t /\ sessions' = PrunedSessions(t) /\ byToken' = PrunedTokens(t)
    BY <1>2 DEF SessionStatus
  <2>2. t \in 0 .. MaxClock /\ clock <= t /\ clock \in 0 .. MaxClock
    BY ClockFacts DEF SessionInv, TypeOK
  <2>3. UNCHANGED <<request, template, templateFile, minted, scripts>>
    BY <1>2 DEF SessionStatus
  <2>4. \A r \in Request : request[r].at = "create" => request[r].now \in Nat
    BY DEF SessionInv, TypeOK, RequestState
  <2>5. RequestsOK'
    BY <2>1, <2>2, <2>3, <2>4
       DEF RequestsOK, SessionInv, TypeOK, StoredOK, NeverInCooldown
  <2>6. QED
    BY <2>1, <2>3, <2>5, PruningKeeps
<1>3. CASE BuildTemplate
  BY <1>3 DEF BuildTemplate, SessionInv, TypeOK, StoredOK, OneSessionPerToken, ConsumedOnce,
              NeverInCooldown
<1>4. CASE Restart
  <2>1. RequestsOK'
    BY <1>4, SessionFacts DEF Restart, RequestsOK, Answer, NeverInCooldown
  <2>2. OneSessionPerToken'
    BY <1>4, SessionFacts DEF Restart, OneSessionPerToken
  <2>3. ConsumedOnce'
    BY <1>4 DEF Restart, SessionInv, ConsumedOnce
  <2>4. QED
    BY <1>4, <2>1, <2>2, <2>3, TablesOK DEF Restart, SessionInv, TypeOK, StoredOK
<1>5. CASE UNCHANGED vars
  BY <1>5 DEF vars, SessionInv, TypeOK, StoredOK, OneSessionPerToken, ConsumedOnce,
              NeverInCooldown
<1>6. QED
  BY <1>1, <1>2, <1>3, <1>4, <1>5

LEMMA InitHasSessionInv == Init => SessionInv
<1> SUFFICES ASSUME Init PROVE SessionInv
  OBVIOUS
<1>1. TypeOK
  BY BookmarkletAssumption, SessionFacts DEF Init, TypeOK, Answer
<1>2. StoredOK /\ NeverInCooldown
  BY SessionFacts DEF Init, StoredOK, NeverInCooldown
<1>3. OneSessionPerToken /\ ConsumedOnce
  BY SessionFacts DEF Init, OneSessionPerToken, ConsumedOnce
<1>4. QED
  BY <1>1, <1>2, <1>3 DEF SessionInv

LEMMA NextKeepsSessionInv ==
    ASSUME StrictClock, SessionInv, [Next]_vars
    PROVE  SessionInv'
BY CreateStartKeeps, CreateSessionKeeps, ConsumeUnknownKeeps, ConsumeExpiredKeeps,
   ConsumeSessionKeeps, OtherStepsKeep DEF Next

LEMMA SessionInvariant ==
    ASSUME StrictClock
    PROVE  Spec => []SessionInv
<1>1. SessionInv /\ [Next]_vars => SessionInv'
  BY NextKeepsSessionInv
<1>2. QED
  BY <1>1, InitHasSessionInv, PTL DEF Spec

-----------------------------------------------------------------------------
(* The theorems. *)

\* Every variable keeps its type.
THEOREM SessionTypes ==
    ASSUME StrictClock
    PROVE  Spec => []TypeOK
<1>1. SessionInv => TypeOK
  BY DEF SessionInv
<1>2. QED
  BY <1>1, SessionInvariant, PTL

\* The two tables agree, and no token ever has two sessions.
THEOREM TablesAgree ==
    ASSUME StrictClock
    PROVE  Spec => []OneSessionPerToken
<1>1. SessionInv => OneSessionPerToken
  BY DEF SessionInv
<1>2. QED
  BY <1>1, SessionInvariant, PTL

\* No create request is refused: the cooldown of CreateSession is dead code.
THEOREM CreateIsNeverRefused ==
    ASSUME StrictClock
    PROVE  Spec => []NeverInCooldown
<1>1. SessionInv => NeverInCooldown
  BY DEF SessionInv
<1>2. QED
  BY <1>1, SessionInvariant, PTL

\* No session is consumed twice.
THEOREM SessionsAreConsumedOnce ==
    ASSUME StrictClock
    PROVE  Spec => []ConsumedOnce
<1>1. SessionInv => ConsumedOnce
  BY DEF SessionInv
<1>2. QED
  BY <1>1, SessionInvariant, PTL

-----------------------------------------------------------------------------
(* The sessions implement one-time tickets. *)

\* The sessions that a step takes out of the table, apart from the id i.
Gone(i) == {j \in Id : j # i /\ sessions[j] # NoSession /\ sessions'[j] = NoSession}

\* No session but i's appears, changes hands, is drawn or is consumed.
OnlyLosses(i) ==
    \A j \in Id : j # i =>
        /\ sessions'[j] # NoSession =>
              sessions[j] # NoSession /\ sessions'[j].token = sessions[j].token
        /\ j \in minted' <=> j \in minted
        /\ scripts'[j] = scripts[j]

LEMMA TicketFacts ==
    ASSUME SessionInv, NEW i \in Id
    PROVE  /\ sessions[i] # NoSession => i \in minted /\ scripts[i] = 0
           /\ sessions[i] # NoSession => sessions[i].token \in Token
           /\ scripts[i] \in Nat
           /\ i \notin minted => scripts[i] = 0
BY DEF SessionInv, TypeOK, StoredOK, Session

LEMMA OthersLapse ==
    ASSUME SessionInv, SessionInv', NEW i, OnlyLosses(i), NEW j \in Id, j # i
    PROVE  /\ TicketState'[j] = IF j \in Gone(i) THEN "lapsed" ELSE TicketState[j]
           /\ TicketHolder'[j] = IF j \in Gone(i) THEN NoId ELSE TicketHolder[j]
<1>1. /\ TicketState[j] = IF j \notin minted THEN "new"
                          ELSE IF sessions[j] # NoSession THEN "held"
                          ELSE IF scripts[j] > 0 THEN "redeemed" ELSE "lapsed"
      /\ TicketState'[j] = IF j \notin minted' THEN "new"
                           ELSE IF sessions'[j] # NoSession THEN "held"
                           ELSE IF scripts'[j] > 0 THEN "redeemed" ELSE "lapsed"
      /\ TicketHolder[j] = IF sessions[j] = NoSession THEN NoId ELSE sessions[j].token
      /\ TicketHolder'[j] = IF sessions'[j] = NoSession THEN NoId ELSE sessions'[j].token
  BY DEF TicketState, TicketHolder
<1>2. /\ sessions'[j] # NoSession =>
            sessions[j] # NoSession /\ sessions'[j].token = sessions[j].token
      /\ j \in minted' <=> j \in minted
      /\ scripts'[j] = scripts[j]
  BY DEF OnlyLosses
<1>3. sessions[j] # NoSession => j \in minted /\ scripts[j] = 0
  BY TicketFacts
<1>4. j \in Gone(i) <=> sessions[j] # NoSession /\ sessions'[j] = NoSession
  BY DEF Gone
<1>5. QED
  BY <1>1, <1>2, <1>3, <1>4

LEMMA GoneAreHeld ==
    ASSUME SessionInv, NEW i
    PROVE  Gone(i) \in SUBSET {j \in Id : TicketState[j] = "held"}
BY TicketFacts DEF Gone, TicketState

\* A step that only takes sessions out of the table is a lapse.
LEMMA LossIsLapse ==
    ASSUME SessionInv, SessionInv', OnlyLosses(NoId)
    PROVE  Ticket!TicketNext
<1> DEFINE S == Gone(NoId)
<1>1. \A j \in Id : j # NoId
  BY SessionFacts
<1>2. /\ TicketState' = [j \in Id |-> IF j \in S THEN "lapsed" ELSE TicketState[j]]
      /\ TicketHolder' = [j \in Id |-> IF j \in S THEN NoId ELSE TicketHolder[j]]
  <2>1. \A j \in Id :
           /\ TicketState'[j] = IF j \in S THEN "lapsed" ELSE TicketState[j]
           /\ TicketHolder'[j] = IF j \in S THEN NoId ELSE TicketHolder[j]
    BY <1>1, OthersLapse
  <2> HIDE DEF S
  <2>2. QED
    BY <2>1 DEF TicketState, TicketHolder
<1>3. Ticket!Lapse(S)
  BY <1>2 DEF Ticket!Lapse, Ticket!Without
<1>4. QED
  BY <1>3, GoneAreHeld DEF Ticket!TicketNext

\* A step that stores the new id i for the token k issues a ticket.
LEMMA StoringIsIssue ==
    ASSUME SessionInv, SessionInv', NEW i \in Id, NEW k \in Token, OnlyLosses(i),
           i \notin minted, i \in minted',
           sessions'[i] # NoSession, sessions'[i].token = k
    PROVE  Ticket!TicketNext
<1> DEFINE S == Gone(i)
<1>1. TicketState[i] = "new" /\ TicketState'[i] = "held" /\ TicketHolder'[i] = k
  BY DEF TicketState, TicketHolder
<1>2. \A j \in Id \ S : TicketHolder[j] # k
  <2>1. SUFFICES ASSUME NEW j \in Id \ S, TicketHolder[j] = k
                 PROVE  FALSE
    OBVIOUS
  <2>2. sessions[j] # NoSession /\ sessions[j].token = k /\ j # i
    BY <2>1, TicketFacts, BookmarkletAssumption DEF TicketHolder
  <2>3. sessions'[j] # NoSession
    BY <2>2 DEF Gone
  <2>4. sessions'[j].token = k
    BY <2>2, <2>3 DEF OnlyLosses
  <2>5. byToken'[k] = j /\ byToken'[k] = i
    BY <2>3, <2>4 DEF SessionInv, OneSessionPerToken
  <2>6. QED
    BY <2>2, <2>5
<1>3. \A j \in Id : j # i =>
         /\ TicketState'[j] = IF j \in S THEN "lapsed" ELSE TicketState[j]
         /\ TicketHolder'[j] = IF j \in S THEN NoId ELSE TicketHolder[j]
  BY OthersLapse
<1>4. S \in SUBSET {j \in Id : TicketState[j] = "held"} /\ i \notin S
  BY GoneAreHeld DEF Gone
<1> HIDE DEF S
<1>5. TicketState' = [[j \in Id |-> IF j \in S THEN "lapsed" ELSE TicketState[j]]
                          EXCEPT ![i] = "held"]
  BY <1>1, <1>3 DEF TicketState
<1>6. TicketHolder' = [j \in Id |-> IF j = i THEN k ELSE IF j \in S THEN NoId ELSE TicketHolder[j]]
  BY <1>1, <1>3 DEF TicketHolder
<1>7. Ticket!Issue(S, i, k)
  BY <1>1, <1>2, <1>5, <1>6 DEF Ticket!Issue, Ticket!Without
<1>8. QED
  BY <1>4, <1>7 DEF Ticket!TicketNext

\* A step that consumes the stored id i redeems a ticket.
LEMMA ConsumingIsRedeem ==
    ASSUME SessionInv, SessionInv', NEW i \in Id, OnlyLosses(i),
           sessions[i] # NoSession, sessions'[i] = NoSession, i \in minted',
           scripts'[i] = scripts[i] + 1
    PROVE  Ticket!TicketNext
<1> DEFINE S == Gone(i)
<1>1. TicketState[i] = "held" /\ TicketState'[i] = "redeemed" /\ TicketHolder'[i] = NoId
  BY TicketFacts DEF TicketState, TicketHolder
<1>2. \A j \in Id : j # i =>
         /\ TicketState'[j] = IF j \in S THEN "lapsed" ELSE TicketState[j]
         /\ TicketHolder'[j] = IF j \in S THEN NoId ELSE TicketHolder[j]
  BY OthersLapse
<1>3. S \in SUBSET {j \in Id : TicketState[j] = "held"} /\ i \notin S
  BY GoneAreHeld DEF Gone
<1> HIDE DEF S
<1>4. TicketState' = [[j \in Id |-> IF j \in S THEN "lapsed" ELSE TicketState[j]]
                          EXCEPT ![i] = "redeemed"]
  BY <1>1, <1>2 DEF TicketState
<1>5. TicketHolder' = [j \in Id |-> IF j \in S \cup {i} THEN NoId ELSE TicketHolder[j]]
  BY <1>1, <1>2 DEF TicketHolder
<1>6. Ticket!Redeem(S, i)
  BY <1>1, <1>3, <1>4, <1>5 DEF Ticket!Redeem, Ticket!Without
<1>7. QED
  BY <1>3, <1>6 DEF Ticket!TicketNext

LEMMA PruningOnlyLoses ==
    ASSUME StrictClock, SessionInv, NEW t \in Later(clock), NEW i,
           \A j \in Id : j # i => sessions'[j] = PrunedSessions(t)[j]
                                  \/ (/\ PrunedSessions(t)[j] # NoSession
                                      /\ sessions'[j].token = PrunedSessions(t)[j].token),
           \A j \in Id : j # i => (j \in minted' <=> j \in minted) /\ scripts'[j] = scripts[j]
    PROVE  OnlyLosses(i)
BY PrunedAreGood DEF OnlyLosses

LEMMA StepIsTicketStep ==
    ASSUME StrictClock, SessionInv, SessionInv', [Next]_vars
    PROVE  [Ticket!TicketNext]_(Ticket!ticketVars)
<1>1. \A j \in Id : j # NoId
  BY SessionFacts
<1>2. ASSUME NEW r \in Request, CreateSession(r)
      PROVE  Ticket!TicketNext
  <2>1. PICK t \in Later(clock) :
           LET a == Verdict(request[r], PrunedSessions(t), PrunedTokens(t))
           IN  IF a = "issued"
               THEN \E i \in Id \ minted :
                       /\ sessions' = [PrunedSessions(t) EXCEPT ![i] = NewSession(request[r])]
                       /\ minted' = minted \cup {i}
               ELSE /\ sessions' = PrunedSessions(t)
                    /\ UNCHANGED minted
    BY <1>2 DEF CreateSession
  <2>2. UNCHANGED scripts
    BY <1>2 DEF CreateSession
  <2>3. CASE sessions' = PrunedSessions(t) /\ UNCHANGED minted
    <3>1. OnlyLosses(NoId)
      BY <2>2, <2>3, PruningOnlyLoses
    <3>2. QED
      BY <3>1, LossIsLapse
  <2>4. CASE \E i \in Id \ minted :
                /\ sessions' = [PrunedSessions(t) EXCEPT ![i] = NewSession(request[r])]
                /\ minted' = minted \cup {i}
    <3>1. PICK i \in Id \ minted :
             /\ sessions' = [PrunedSessions(t) EXCEPT ![i] = NewSession(request[r])]
             /\ minted' = minted \cup {i}
      BY <2>4
    <3>2. \A j \in Id : sessions'[j] = IF j = i THEN NewSession(request[r])
                                       ELSE PrunedSessions(t)[j]
      BY <3>1 DEF PrunedSessions
    <3>3. OnlyLosses(i)
      BY <2>2, <3>1, <3>2, PruningOnlyLoses
    <3>4. request[r].token \in Token /\ request[r].now \in Nat
      BY <1>2 DEF CreateSession, SessionInv, TypeOK, RequestState
    <3>5. NewSession(request[r]) \in Session /\ NewSession(request[r]).token = request[r].token
      BY <3>4, BookmarkletAssumption DEF NewSession, Session
    <3>6. QED
      BY <3>1, <3>2, <3>3, <3>4, <3>5, SessionFacts, StoringIsIssue
  <2>5. QED
    BY <2>1, <2>3, <2>4
<1>3. ASSUME NEW r \in Request, NEW i \in Id, ConsumeSession(r, i)
      PROVE  Ticket!TicketNext
  <2>1. PICK t \in Later(clock) :
           /\ PrunedSessions(t)[i] # NoSession
           /\ sessions' = [PrunedSessions(t) EXCEPT ![i] = NoSession]
    BY <1>3 DEF ConsumeSession
  <2>2. UNCHANGED minted /\ scripts' = [scripts EXCEPT ![i] = @ + 1]
    BY <1>3 DEF ConsumeSession
  <2>3. \A j \in Id : /\ sessions'[j] = IF j = i THEN NoSession ELSE PrunedSessions(t)[j]
                      /\ scripts'[j] = IF j = i THEN scripts[j] + 1 ELSE scripts[j]
    BY <2>1, <2>2 DEF PrunedSessions, SessionInv, TypeOK
  <2>4. OnlyLosses(i)
    BY <2>2, <2>3, PruningOnlyLoses
  <2>5. sessions[i] # NoSession /\ i \in minted
    BY <2>1, PrunedAreGood
  <2>6. QED
    BY <2>2, <2>3, <2>4, <2>5, ConsumingIsRedeem
<1>4. ASSUME NEW r \in Request, NEW i \in Id, ConsumeExpired(r, i)
      PROVE  Ticket!TicketNext
  <2>1. PICK t \in Later(clock) :
           /\ PrunedSessions(t)[i] # NoSession
           /\ sessions' = [PrunedSessions(t) EXCEPT ![i].used = TRUE]
    BY <1>4 DEF ConsumeExpired
  <2>2. PrunedSessions(t)[i] \in Session
    BY <2>1, PrunedAreGood
  <2>3. sessions' = [PrunedSessions(t) EXCEPT ![i] = [PrunedSessions(t)[i] EXCEPT !.used = TRUE]]
    BY <2>1
  <2>4. [PrunedSessions(t)[i] EXCEPT !.used = TRUE].token = PrunedSessions(t)[i].token
    BY <2>2 DEF Session
  <2>5. \A j \in Id : sessions'[j] = IF j = i THEN [PrunedSessions(t)[i] EXCEPT !.used = TRUE]
                                     ELSE PrunedSessions(t)[j]
    BY <2>3 DEF PrunedSessions
  <2>6. UNCHANGED <<minted, scripts>>
    BY <1>4 DEF ConsumeExpired
  <2>7. OnlyLosses(NoId)
    BY <2>1, <2>4, <2>5, <2>6, PruningOnlyLoses
  <2>8. QED
    BY <2>7, LossIsLapse
<1>5. ASSUME SessionStatus \/ (\E r \in Request, i \in Id : ConsumeUnknown(r, i))
      PROVE  Ticket!TicketNext
  <2>1. PICK t \in Later(clock) : sessions' = PrunedSessions(t)
    BY <1>5 DEF SessionStatus, ConsumeUnknown
  <2>2. UNCHANGED <<minted, scripts>>
    BY <1>5 DEF SessionStatus, ConsumeUnknown
  <2>3. OnlyLosses(NoId)
    BY <2>1, <2>2, PruningOnlyLoses
  <2>4. QED
    BY <2>3, LossIsLapse
<1>6. ASSUME Restart
      PROVE  Ticket!TicketNext
  <2>1. OnlyLosses(NoId)
    BY <1>6 DEF Restart, OnlyLosses
  <2>2. QED
    BY <2>1, LossIsLapse
<1>7. ASSUME UNCHANGED <<sessions, minted, scripts>>
      PROVE  UNCHANGED Ticket!ticketVars
  BY <1>7 DEF Ticket!ticketVars, TicketState, TicketHolder
<1>8. \/ UNCHANGED <<sessions, minted, scripts>>
      \/ \E r \in Request : CreateSession(r)
      \/ \E r \in Request, i \in Id : ConsumeUnknown(r, i)
      \/ \E r \in Request, i \in Id : ConsumeExpired(r, i)
      \/ \E r \in Request, i \in Id : ConsumeSession(r, i)
      \/ SessionStatus
      \/ Restart
  BY DEF Next, vars, CreateStart, LoadTemplate, BuildTemplate
<1>9. QED
  BY <1>2, <1>3, <1>4, <1>5, <1>6, <1>7, <1>8

LEMMA InitIsTicketInit == Init => Ticket!TicketInit
BY DEF Init, Ticket!TicketInit, TicketState, TicketHolder

\* Every behaviour of the sessions is one of one-time tickets.
THEOREM SessionsAreTickets ==
    ASSUME StrictClock
    PROVE  Spec => ImplementsTickets
<1>1. SessionInv /\ SessionInv' /\ [Next]_vars => [Ticket!TicketNext]_(Ticket!ticketVars)
  BY StepIsTicketStep
<1>2. QED
  BY <1>1, InitIsTicketInit, SessionInvariant, PTL DEF Spec, ImplementsTickets, Ticket!TicketSpec
-----------------------------------------------------------------------------
(* Good sessions stay. *)

\* What pruning drops has expired.
LEMMA PrunedHaveExpired ==
    ASSUME SessionInv, NEW t \in Later(clock), NEW i \in Id,
           sessions[i] # NoSession, PrunedSessions(t)[i] = NoSession
    PROVE  t > sessions[i].expires
BY DEF PrunedSessions, Lapsed, SessionInv, StoredOK

\* A step of a running process drops no session but one that it consumes and
\* those that it prunes at an instant that the clock has reached.
LEMMA StepKeepsGoodSessions ==
    ASSUME SessionInv, [Next]_vars, ~Restart, NEW i \in Id,
           sessions[i] # NoSession, sessions'[i] = NoSession
    PROVE  scripts'[i] = scripts[i] + 1 \/ clock' > sessions[i].expires
<1> DEFINE Goal == scripts'[i] = scripts[i] + 1 \/ clock' > sessions[i].expires
<1>a. clock \in 0 .. MaxClock /\ sessions[i] \in Session /\ sessions[i].expires \in Nat
  BY DEF SessionInv, TypeOK, Session
<1>b. ASSUME NEW t \in Later(clock), t <= clock', PrunedSessions(t)[i] = NoSession,
             clock' \in 0 .. MaxClock
      PROVE  Goal
  <2>1. t \in 0 .. MaxClock
    BY <1>a, ClockFacts
  <2>2. t > sessions[i].expires
    BY <1>b, PrunedHaveExpired
  <2>. QED  BY <1>a, <1>b, <2>1, <2>2
<1>1. ASSUME NEW r \in Request, CreateSession(r)
      PROVE  Goal
  <2>1. PICK t \in Later(clock) :
           /\ clock' = t
           /\ \/ sessions' = PrunedSessions(t)
              \/ \E j \in Id \ minted :
                    sessions' = [PrunedSessions(t) EXCEPT ![j] = NewSession(request[r])]
    BY <1>1 DEF CreateSession
  <2>2. t \in 0 .. MaxClock
    BY <1>a, ClockFacts
  <2>3. request[r].token \in Token /\ request[r].now \in Nat
    BY <1>1 DEF CreateSession, SessionInv, TypeOK, RequestState
  <2>4. NewSession(request[r]) \in Session
    BY <2>3, BookmarkletAssumption DEF NewSession, Session
  <2>5. PrunedSessions(t)[i] = NoSession
    BY <2>1, <2>4, SessionFacts DEF PrunedSessions
  <2>. QED  BY <1>b, <2>1, <2>2, <2>5
<1>2. ASSUME NEW r \in Request, NEW j \in Id, ConsumeSession(r, j)
      PROVE  Goal
  <2>1. CASE i = j
    BY <1>2, <2>1 DEF ConsumeSession, SessionInv, TypeOK
  <2>2. CASE i # j
    <3>0. PICK t \in Later(clock) : \E u \in Later(t) :
             /\ clock' = u
             /\ sessions' = [PrunedSessions(t) EXCEPT ![j] = NoSession]
      BY <1>2 DEF ConsumeSession
    <3>1. PICK u \in Later(t) :
             /\ clock' = u
             /\ sessions' = [PrunedSessions(t) EXCEPT ![j] = NoSession]
      BY <3>0
    <3>2. PrunedSessions(t)[i] = NoSession
      BY <2>2, <3>1 DEF PrunedSessions
    <3>3. t \in 0 .. MaxClock /\ u \in 0 .. MaxClock /\ t <= u
      BY <1>a, <3>1, ClockFacts
    <3>. QED  BY <1>b, <3>1, <3>2, <3>3
  <2>. QED  BY <2>1, <2>2
<1>3. ASSUME NEW r \in Request, NEW j \in Id, ConsumeExpired(r, j)
      PROVE  Goal
  <2>0. PICK t \in Later(clock) : \E u \in Later(t) :
           /\ clock' = u
           /\ PrunedSessions(t)[j] # NoSession
           /\ sessions' = [PrunedSessions(t) EXCEPT ![j].used = TRUE]
    BY <1>3 DEF ConsumeExpired
  <2>1. PICK u \in Later(t) :
           /\ clock' = u
           /\ PrunedSessions(t)[j] # NoSession
           /\ sessions' = [PrunedSessions(t) EXCEPT ![j].used = TRUE]
    BY <2>0
  <2>2. t \in 0 .. MaxClock /\ u \in 0 .. MaxClock /\ t <= u
    BY <1>a, <2>1, ClockFacts
  <2>3. PrunedSessions(t)[j] = sessions[j] /\ sessions[j] \in Session
    BY <2>1 DEF PrunedSessions, SessionInv, TypeOK
  <2>4. sessions'[j] \in Session
    <3>1. sessions' = [PrunedSessions(t) EXCEPT ![j] = [PrunedSessions(t)[j] EXCEPT !.used = TRUE]]
      BY <2>1
    <3>2. sessions'[j] = [sessions[j] EXCEPT !.used = TRUE]
      BY <2>3, <3>1 DEF PrunedSessions
    <3>. QED  BY <2>3, <3>2 DEF Session
  <2>5. i # j
    BY <2>4, SessionFacts
  <2>6. PrunedSessions(t)[i] = NoSession
    BY <2>1, <2>5 DEF PrunedSessions
  <2>. QED  BY <1>b, <2>1, <2>2, <2>6
<1>4. ASSUME SessionStatus \/ (\E r \in Request, j \in Id : ConsumeUnknown(r, j))
      PROVE  Goal
  <2>1. PICK t \in Later(clock) : clock' = t /\ sessions' = PrunedSessions(t)
    BY <1>4 DEF SessionStatus, ConsumeUnknown
  <2>2. t \in 0 .. MaxClock
    BY <1>a, ClockFacts
  <2>. QED  BY <1>b, <2>1, <2>2
<1>5. sessions' # sessions
  OBVIOUS
<1>6. \/ \E r \in Request : CreateSession(r)
      \/ \E r \in Request, j \in Id : ConsumeUnknown(r, j)
      \/ \E r \in Request, j \in Id : ConsumeExpired(r, j)
      \/ \E r \in Request, j \in Id : ConsumeSession(r, j)
      \/ SessionStatus
  BY <1>5 DEF Next, vars, CreateStart, LoadTemplate, BuildTemplate
<1>. QED  BY <1>1, <1>2, <1>3, <1>4, <1>6

\* No running process drops a session that is good and was not consumed.
THEOREM GoodSessionsAreKept ==
    ASSUME StrictClock
    PROVE  Spec => GoodSessionsStay
<1> DEFINE Kept == Restart \/ \A i \in Id :
                      sessions[i] # NoSession /\ sessions'[i] = NoSession
                          => scripts'[i] = scripts[i] + 1 \/ clock' > sessions[i].expires
<1>1. SessionInv /\ [Next]_vars => [Kept]_vars
  BY StepKeepsGoodSessions
<1>2. QED
  BY <1>1, SessionInvariant, PTL DEF Spec, GoodSessionsStay
=============================================================================
