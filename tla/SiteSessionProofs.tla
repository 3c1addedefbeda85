-------------------------- MODULE SiteSessionProofs --------------------------
(***************************************************************************)
(* Proofs about module SiteSession, for any number of accounts, sessions,  *)
(* handlers and captchas.                                                  *)
(***************************************************************************)
EXTENDS SiteSession, TLAPS

Kind == {"none", "boot", "login", "logout", "delete", "reset"} \cup CaptchaForm
Answer == {"none", "ok", "refused", "captcha", "unverified"}
PageType == [at : Guest \cup Private \cup Open, failed : 0..2, busy : BOOLEAN, done : BOOLEAN,
             token : Nat, solved : Nat, spent : SUBSET Nat]
TaskType == [kind : Kind, step : {"none", "post", "answered", "ask", "told"},
             sid : Sid \cup {0}, keep : Sid \cup {0}, csrf : BOOLEAN, arg : User \cup {None},
             token : Nat, answer : Answer, here : BOOLEAN]

Types ==
    /\ exists \subseteq User /\ owner \in [Sid -> User \cup {None}] /\ live \subseteq Sid
    /\ good \subseteq Sid /\ failures \in 0..2 /\ jar \in Sid \cup {0} /\ keep \in Sid \cup {0}
    /\ user \in User \cup {None} /\ loading \in BOOLEAN /\ csrf \in BOOLEAN
    /\ page \in PageType /\ task \in [Task -> TaskType]
    /\ crossed \in BOOLEAN /\ mixed \in BOOLEAN

\* A page is busy with a task that will end that: not with a logout.
BusyInv == page.busy => \E k \in Task : task[k].here /\ task[k].kind \notin {"none", "logout"}

\* Routes: where the guards lead.
LEMMA GuardedFacts ==
    ASSUME NEW at \in Guest \cup Private \cup Open, NEW u
    PROVE  /\ Guarded(at, u) \in Guest \cup Private \cup Open
           /\ Guarded(Guarded(at, u), u) = Guarded(at, u)
           /\ Mounted(Guarded(at, u)) \in PageType
BY DEF Guarded, Guest, Private, Open, Mounted, PageType

LEMMA NoTaskFacts == NoTask \in TaskType
BY SiteAssumption DEF NoTask, TaskType, Kind, Answer

LEMMA LeftFacts ==
    ASSUME NEW T \in [Task -> TaskType]
    PROVE  /\ Left(T) \in [Task -> TaskType]
           /\ \A k \in Task : Left(T)[k] = [T[k] EXCEPT !.here = FALSE]
BY DEF Left, TaskType

LEMMA TypesInit == Init => Types
<1> SUFFICES ASSUME Init PROVE Types
  OBVIOUS
<1>1. /\ owner \in [Sid -> User \cup {None}] /\ live \subseteq Sid /\ good \subseteq Sid
      /\ jar \in Sid \cup {0} /\ keep \in Sid \cup {0}
  <2>1. PICK u \in User \cup {None} :
           IF u = None
           THEN owner = [s \in Sid |-> None] /\ live = {} /\ good = {} /\ jar = 0 /\ keep = 0
           ELSE /\ owner = [s \in Sid |-> IF s = 1 THEN u ELSE None]
                /\ live = {1} /\ jar = 1 /\ keep \in {0, 1} /\ good = {keep} \ {0}
    BY DEF Init
  <2>2. QED
    BY <2>1, SiteAssumption
<1>2. page \in PageType
  <2>1. PICK at \in Route \cup {"reset"} : page = Mounted(at)
    BY DEF Init
  <2>2. QED
    BY <2>1, RouteAssumption DEF Mounted, PageType, Open
<1>3. task \in [Task -> TaskType]
  <2> DEFINE t == [NoTask EXCEPT !.kind = "boot", !.step = "ask", !.sid = jar, !.keep = keep]
  <2>1. t \in TaskType
    BY <1>1, SiteAssumption DEF NoTask, TaskType, Kind, Answer
  <2>2. PICK k \in Task : task = [j \in Task |-> IF j = k THEN t ELSE NoTask]
    BY DEF Init
  <2> HIDE DEF t
  <2>3. QED
    BY <2>1, <2>2, NoTaskFacts
<1>4. failures \in 0..2 /\ exists \subseteq User /\ user \in User \cup {None}
      /\ loading \in BOOLEAN /\ csrf \in BOOLEAN /\ crossed \in BOOLEAN /\ mixed \in BOOLEAN
  <2>1. failures = 0 /\ exists = User /\ user = None
    BY DEF Init
  <2>2. loading = TRUE /\ csrf = FALSE /\ crossed = FALSE /\ mixed = FALSE
    BY Zenon DEF Init
  <2>3. loading \in BOOLEAN /\ csrf \in BOOLEAN /\ crossed \in BOOLEAN /\ mixed \in BOOLEAN
    BY <2>2, Zenon
  <2>4. failures \in 0..2 /\ exists \subseteq User /\ user \in User \cup {None}
    BY <2>1
  <2>5. QED
    BY <2>3, <2>4
<1>5. QED
  BY <1>1, <1>2, <1>3, <1>4 DEF Types

\* What a handler that starts makes of its task.
LEMMA RequestFacts ==
    ASSUME Types, NEW kind \in Kind
    PROVE  /\ Request(kind) \in TaskType
           /\ Request(kind).kind = kind /\ Request(kind).step = "post" /\ Request(kind).here
           /\ Request(kind).sid = jar /\ Request(kind).keep = keep
           /\ Request(kind).answer = "none"
           /\ Request(kind).token = 0
BY SiteAssumption DEF Request, NoTask, TaskType, Answer, Types

LEMMA AnswersFacts ==
    ASSUME Types, NEW k \in Task, NEW a \in Answer, Answers(k, a)
    PROVE  /\ task' \in [Task -> TaskType]
           /\ \A j \in Task \ {k} : task'[j] = task[j]
           /\ task'[k].kind = task[k].kind /\ task'[k].here = task[k].here
           /\ task'[k].step = "answered" /\ task'[k].answer = a /\ task'[k].token = 0
           /\ task'[k].sid = 0 /\ task'[k].keep = 0
<1> DEFINE t == [NoTask EXCEPT !.kind = task[k].kind, !.step = "answered", !.answer = a,
                               !.here = task[k].here]
<1>1. t \in TaskType /\ t.kind = task[k].kind /\ t.here = task[k].here /\ t.step = "answered"
      /\ t.answer = a /\ t.token = 0 /\ t.sid = 0 /\ t.keep = 0
  BY SiteAssumption DEF NoTask, TaskType, Answer, Types
<1>2. task' = [task EXCEPT ![k] = t]
  BY DEF Answers
<1> HIDE DEF t
<1>3. QED
  BY <1>1, <1>2 DEF Types

LEMMA EndedFacts ==
    ASSUME Types, NEW k \in Task
    PROVE  /\ Ended(k) \in [Task -> TaskType]
           /\ \A j \in Task \ {k} : Ended(k)[j] = task[j]
           /\ Ended(k)[k] = NoTask
BY NoTaskFacts DEF Ended, Types

LEMMA RefreshesFacts ==
    ASSUME Types, NEW k \in Task, NEW s \in Sid \cup {0}, NEW r \in Sid \cup {0}
    PROVE  /\ Refreshes(k, s, r) \in [Task -> TaskType]
           /\ \A j \in Task \ {k} : Refreshes(k, s, r)[j] = task[j]
           /\ Refreshes(k, s, r)[k].kind = task[k].kind
           /\ Refreshes(k, s, r)[k].here = task[k].here
           /\ Refreshes(k, s, r)[k].step = "ask"
           /\ Refreshes(k, s, r)[k].sid = s
           /\ Refreshes(k, s, r)[k].keep = r
           /\ Refreshes(k, s, r)[k].token = task[k].token
<1> DEFINE t == [task[k] EXCEPT !.step = "ask", !.sid = s, !.keep = r, !.answer = "none"]
<1>1. t \in TaskType /\ t.kind = task[k].kind /\ t.here = task[k].here /\ t.step = "ask"
      /\ t.sid = s /\ t.keep = r /\ t.token = task[k].token
  BY DEF TaskType, Answer, Types
<1>2. Refreshes(k, s, r) = [task EXCEPT ![k] = t]
  BY DEF Refreshes
<1> HIDE DEF t
<1>3. Refreshes(k, s, r)[k] = t
  BY <1>2 DEF Types
<1>4. QED
  BY <1>1, <1>2, <1>3 DEF Types, t

\* What the answer of authMe makes of the task.
LEMMA ToldFacts ==
    ASSUME Types, NEW k \in Task, NEW u \in User \cup {None}
    PROVE  /\ Told(k, u) \in TaskType /\ Told(k, u).kind = task[k].kind
           /\ Told(k, u).here = task[k].here /\ Told(k, u).token = task[k].token
           /\ Told(k, u).step = "told" /\ Told(k, u).arg = u
           /\ Told(k, u).sid = 0 /\ Told(k, u).keep = 0
BY DEF Told, TaskType, Types

\* The server names the user of one of the cookies of the request.
LEMMA NamedFacts ==
    ASSUME Types, NEW k \in Task
    PROVE  /\ Named(k) \in User \cup {None} /\ Unused(k) \subseteq Sid
           /\ Named(k) # None =>
                 \E s \in {task[k].sid, task[k].keep} \ {0} : owner[s] = Named(k)
<1>1. live \subseteq Sid /\ good \subseteq Sid /\ 0 \notin Sid /\ exists \subseteq User
  BY SiteAssumption DEF Types
<1>2. Named(k) \in User \cup {None} /\ Unused(k) \subseteq Sid
  BY <1>1 DEF Named, Unused
<1>3. ASSUME Named(k) # None
      PROVE  \E s \in {task[k].sid, task[k].keep} \ {0} : owner[s] = Named(k)
  <2>1. CASE task[k].sid \in live
    BY <1>1, <1>3, <2>1 DEF Named, Fallback
  <2>2. CASE task[k].sid \notin live
    BY <1>1, <1>3, <2>2 DEF Named, Fallback
  <2>3. QED
    BY <2>1, <2>2
<1>4. QED
  BY <1>2, <1>3

\* Going to a route keeps the page, or mounts another that is not busy.
LEMMA GoesFacts ==
    ASSUME Types, NEW at \in Guest \cup Private \cup Open, Mounted(at) \in PageType,
           NEW T \in [Task -> TaskType], Goes(at, T)
    PROVE  /\ page' \in PageType /\ task' \in [Task -> TaskType] /\ page'.at = at
           /\ \/ page' = page /\ task' = T
              \/ page' = Mounted(at) /\ ~page'.busy /\ task' = Left(T)
<1>1. Mounted(at).at = at /\ ~Mounted(at).busy
  BY DEF Mounted
<1>2. QED
  BY <1>1, LeftFacts DEF Goes, Types

\* A request that is served leaves its page as it is but for spent tokens.
LEMMA SpendsFacts ==
    ASSUME Types, NEW k \in Task, Spends(k) \/ page' = page
    PROVE  /\ page' \in PageType /\ page'.at = page.at /\ page'.busy = page.busy
           /\ page'.done = page.done /\ page'.token = page.token /\ page'.solved = page.solved
           /\ \/ page'.spent = page.spent
              \/ /\ task[k].here /\ task[k].token # 0
                 /\ page'.spent = page.spent \cup {task[k].token}
<1>1. page \in PageType /\ task[k] \in TaskType
  BY DEF Types
<1>2. CASE task[k].here /\ task[k].token # 0 /\ Spends(k)
  <2>1. page' = [page EXCEPT !.spent = page.spent \cup {task[k].token}]
    BY <1>2 DEF Spends
  <2>2. QED
    BY <1>1, <1>2, <2>1 DEF PageType, TaskType
<1>3. CASE page' = page
  BY <1>1, <1>3
<1>4. QED
  BY <1>2, <1>3 DEF Spends

\* What the answer of handleLogin makes of the task.
LEMMA ServeLoginFacts ==
    ASSUME Types, NEW k \in Task, ServeLogin(k)
    PROVE  /\ exists' = exists /\ failures' \in 0..2
           /\ owner' \in [Sid -> User \cup {None}] /\ live' \subseteq Sid /\ good' \subseteq Sid
           /\ task' \in [Task -> TaskType]
           /\ \A j \in Task \ {k} : task'[j] = task[j]
           /\ task'[k].kind = "login" /\ task'[k].here = task[k].here
           /\ task'[k].step = "answered" /\ task'[k].token = 0
           /\ \A s \in Sid : owner[s] # None => owner'[s] = owner[s]
           /\ \A s \in {task'[k].sid, task'[k].keep} \ {0} : owner'[s] # None
           /\ Spends(k) \/ page' = page
<1>1. task[k] \in TaskType /\ task[k].kind = "login"
  BY DEF Types, ServeLogin
<1>0. Spends(k) \/ page' = page
  BY DEF ServeLogin
<1> DEFINE u == task[k].arg
<1>2. CASE \E a \in {"captcha", "refused", "unverified"} : Answers(k, a) /\ failures' \in 0..2
                                     /\ UNCHANGED <<exists, owner, live, good>>
  <2>1. PICK a \in {"captcha", "refused", "unverified"} : Answers(k, a)
    BY <1>2
  <2>2. a \in Answer
    BY DEF Answer
  <2>3. QED
    BY <1>0, <1>1, <1>2, <2>1, <2>2, AnswersFacts DEF Types
<1>3. ASSUME NEW s \in Sid, NEW remember \in BOOLEAN, NewSession(s, u, remember),
             u \in exists, failures' = 0, UNCHANGED exists,
             task' = [task EXCEPT ![k] = [NoTask EXCEPT !.kind = "login", !.step = "answered",
                         !.answer = "ok", !.sid = s, !.keep = IF remember THEN s ELSE 0,
                         !.here = task[k].here]]
      PROVE  /\ exists' = exists /\ failures' \in 0..2
             /\ owner' \in [Sid -> User \cup {None}] /\ live' \subseteq Sid /\ good' \subseteq Sid
             /\ task' \in [Task -> TaskType]
             /\ \A j \in Task \ {k} : task'[j] = task[j]
             /\ task'[k].kind = "login" /\ task'[k].here = task[k].here
             /\ task'[k].step = "answered" /\ task'[k].token = 0
             /\ \A r \in Sid : owner[r] # None => owner'[r] = owner[r]
             /\ \A r \in {task'[k].sid, task'[k].keep} \ {0} : owner'[r] # None
  <2> DEFINE c == IF remember THEN s ELSE 0
             t == [NoTask EXCEPT !.kind = "login", !.step = "answered",
                                 !.answer = "ok", !.sid = s, !.keep = c, !.here = task[k].here]
  <2>0. c \in {0, s}
    OBVIOUS
  <2>2. task' = [task EXCEPT ![k] = t]
    BY <1>3
  <2> HIDE DEF c
  <2>1. t \in TaskType /\ t.kind = "login" /\ t.step = "answered" /\ t.token = 0
        /\ t.here = task[k].here /\ t.sid = s /\ t.keep \in {0, s}
    BY <1>1, <2>0, SiteAssumption DEF NoTask, TaskType, Kind, Answer
  <2> HIDE DEF t
  <2>3. /\ task' \in [Task -> TaskType]
        /\ \A j \in Task \ {k} : task'[j] = task[j]
        /\ task'[k] = t
    BY <2>1, <2>2 DEF Types
  <2>4. u \in User /\ u # None
    BY <1>3, SiteAssumption DEF Types
  <2>5. /\ owner' \in [Sid -> User \cup {None}] /\ live' \subseteq Sid /\ good' \subseteq Sid
        /\ owner'[s] = u
        /\ \A r \in Sid : owner[r] # None => owner'[r] = owner[r]
    BY <1>3, <2>4 DEF Types, NewSession
  <2>6. exists' = exists /\ failures' \in 0..2
    BY <1>3
  <2>7. \A r \in {task'[k].sid, task'[k].keep} \ {0} : owner'[r] # None
    BY <2>1, <2>3, <2>4, <2>5
  <2>8. QED
    BY <2>1, <2>3, <2>5, <2>6, <2>7
<1>4. CASE ~Accepted(k) /\ Answers(k, "captcha") /\ UNCHANGED server
  BY <1>2, <1>4 DEF server, Types
<1>5. CASE Answers(k, "refused") /\ UNCHANGED <<exists, owner, live, good>>
           /\ failures' = IF failures < 2 THEN failures + 1 ELSE 2
  BY <1>2, <1>5 DEF Types
<1>6. CASE Answers(k, "unverified") /\ UNCHANGED server
  BY <1>2, <1>6 DEF server, Types
<1>7. QED
  BY <1>0, <1>3, <1>4, <1>5, <1>6 DEF ServeLogin

-----------------------------------------------------------------------------
(* Types and busy pages. *)

\* Only one task and the page change, and the task stays on the page.
LEMMA BusyKept ==
    ASSUME BusyInv, NEW k \in Task, \A j \in Task \ {k} : task'[j] = task[j],
           task'[k].kind = task[k].kind, task'[k].here = task[k].here,
           page'.busy => page.busy
    PROVE  BusyInv'
BY DEF BusyInv

LEMMA BusyAsks ==
    ASSUME Types, BusyInv, NEW k \in Task, NEW s \in Sid \cup {0}, NEW r \in Sid \cup {0},
           task' = Refreshes(k, s, r), page' = page
    PROVE  BusyInv'
<1>1. /\ \A j \in Task \ {k} : task'[j] = task[j]
      /\ task'[k].kind = task[k].kind /\ task'[k].here = task[k].here
  BY RefreshesFacts
<1>2. QED
  BY <1>1, BusyKept

\* The new task of a handler that starts on a page that is free.
LEMMA StartFacts ==
    ASSUME Types, NEW k \in Task, NEW t \in TaskType, task' = [task EXCEPT ![k] = t]
    PROVE  /\ task' \in [Task -> TaskType] /\ task'[k] = t
           /\ \A j \in Task \ {k} : task'[j] = task[j]
BY DEF Types

LEMMA TypesStep == ASSUME Types, BusyInv, [Next]_vars PROVE Types' /\ BusyInv'
<1> USE DEF server, auth, cookies, past
<1>0. CASE UNCHANGED vars
  BY <1>0 DEF vars, Types, BusyInv
<1>1. ASSUME NEW at \in Route, Visit(at) PROVE Types' /\ BusyInv'
  <2> DEFINE to == IF loading THEN at ELSE Guarded(at, user)
  <2>1. to \in Guest \cup Private \cup Open /\ Mounted(to) \in PageType
    BY RouteAssumption, GuardedFacts, at \in Guest \cup Private \cup Open
        DEF Mounted, PageType
  <2>2. Goes(to, task)
    BY <1>1 DEF Visit
  <2> HIDE DEF to
  <2>3. QED
    BY <1>1, <2>1, <2>2, GoesFacts DEF Visit, Types, BusyInv
<1>2. CASE Solve
  <2>1. page' \in PageType /\ page'.busy = page.busy
    <3>1. page.solved + 1 \in Nat
      BY DEF Types, PageType
    <3>2. page' = [page EXCEPT !.token = page.solved + 1, !.solved = page.solved + 1]
      BY <1>2 DEF Solve, Types, PageType
    <3>3. QED
      BY <3>1, <3>2 DEF Types, PageType
  <2>2. QED
    BY <1>2, <2>1 DEF Solve, Types, BusyInv
<1>3. CASE CaptchaExpires
  <2>1. page' \in PageType /\ page'.busy = page.busy
    BY <1>3 DEF CaptchaExpires, Types, PageType
  <2>2. QED
    BY <1>3, <2>1 DEF CaptchaExpires, Types, BusyInv
<1>4. CASE SubmitLogin
  <2>1. PICK k \in Task, u \in User \cup {None} :
           task' = [task EXCEPT ![k] = [Request("login") EXCEPT !.arg = u,
                       !.token = IF page.failed >= 2 THEN page.token ELSE 0]]
    BY <1>4 DEF SubmitLogin
  <2> DEFINE t == [Request("login") EXCEPT !.arg = u,
                       !.token = IF page.failed >= 2 THEN page.token ELSE 0]
  <2>2. t \in TaskType /\ t.here /\ t.kind = "login"
    <3>1. "login" \in Kind /\ (IF page.failed >= 2 THEN page.token ELSE 0) \in Nat
      BY DEF Kind, Types, PageType
    <3>2. Request("login") \in TaskType /\ Request("login").here /\ Request("login").kind = "login"
      BY <3>1, RequestFacts
    <3>3. QED
      BY <3>1, <3>2 DEF TaskType
  <2>3. task' = [task EXCEPT ![k] = t]
    BY <2>1
  <2> HIDE DEF t
  <2>4. page' \in PageType
    BY <1>4 DEF SubmitLogin, Types, PageType
  <2>5. task' \in [Task -> TaskType] /\ task'[k] = t
    BY <2>2, <2>3, StartFacts
  <2>6. BusyInv'
    BY <2>2, <2>5 DEF BusyInv
  <2>7. crossed' \in BOOLEAN
    BY <1>4 DEF SubmitLogin, Types
  <2>8. QED
    BY <1>4, <2>4, <2>5, <2>6, <2>7 DEF SubmitLogin, Types
<1>5. CASE SubmitForm
  <2>1. PICK k \in Task : task' = [task EXCEPT ![k] = [Request(page.at) EXCEPT !.token = page.token]]
    BY <1>5 DEF SubmitForm
  <2>2. page.at \in CaptchaForm \cup {"reset"}
    BY <1>5 DEF SubmitForm
  <2> DEFINE t == [Request(page.at) EXCEPT !.token = page.token]
  <2>3. t \in TaskType /\ t.here /\ t.kind = page.at
    BY <2>2, RequestFacts, page.at \in Kind DEF TaskType, Types, PageType, Kind
  <2>4. task' = [task EXCEPT ![k] = t]
    BY <2>1
  <2> HIDE DEF t
  <2>5. page' \in PageType
    BY <1>5 DEF SubmitForm, Types, PageType
  <2>6. task' \in [Task -> TaskType] /\ task'[k] = t
    BY <2>3, <2>4, StartFacts
  <2>7. BusyInv'
    BY <2>2, <2>3, <2>6 DEF BusyInv, CaptchaForm
  <2>8. QED
    BY <1>5, <2>5, <2>6, <2>7 DEF SubmitForm, Types
<1>6. CASE SubmitLogout
  <2>1. PICK k \in Task : Free(k) /\ task' = [task EXCEPT ![k] = [Request("logout") EXCEPT !.csrf = csrf]]
    BY <1>6 DEF SubmitLogout
  <2> DEFINE t == [Request("logout") EXCEPT !.csrf = csrf]
  <2>2. t \in TaskType
    BY RequestFacts, "logout" \in Kind DEF TaskType, Types, Kind
  <2>3. task' = [task EXCEPT ![k] = t]
    BY <2>1
  <2> HIDE DEF t
  <2>4. /\ task' \in [Task -> TaskType] /\ task'[k] = t
        /\ \A j \in Task \ {k} : task'[j] = task[j]
    BY <2>2, <2>3, StartFacts
  <2>5. BusyInv'
    BY <1>6, <2>1, <2>4 DEF BusyInv, SubmitLogout, Free
  <2>6. QED
    BY <1>6, <2>4, <2>5 DEF SubmitLogout, Types
<1>7. CASE SubmitDelete
  <2>1. PICK k \in Task :
           task' = [task EXCEPT ![k] = [Request("delete") EXCEPT !.csrf = csrf, !.arg = user]]
    BY <1>7 DEF SubmitDelete
  <2> DEFINE t == [Request("delete") EXCEPT !.csrf = csrf, !.arg = user]
  <2>2. t \in TaskType /\ t.here /\ t.kind = "delete"
    <3>1. "delete" \in Kind /\ user \in User \cup {None} /\ csrf \in BOOLEAN
      BY DEF Kind, Types
    <3>2. Request("delete") \in TaskType /\ Request("delete").here
          /\ Request("delete").kind = "delete"
      BY <3>1, RequestFacts
    <3>3. QED
      BY <3>1, <3>2 DEF TaskType
  <2>3. task' = [task EXCEPT ![k] = t]
    BY <2>1
  <2> HIDE DEF t
  <2>4. page' \in PageType
    BY <1>7 DEF SubmitDelete, Types, PageType
  <2>5. task' \in [Task -> TaskType] /\ task'[k] = t
    BY <2>2, <2>3, StartFacts
  <2>6. BusyInv'
    BY <2>2, <2>5 DEF BusyInv
  <2>7. QED
    BY <1>7, <2>4, <2>5, <2>6 DEF SubmitDelete, Types
<1>8. ASSUME NEW k \in Task, ServeLogin(k) PROVE Types' /\ BusyInv'
  <2>1. /\ exists' = exists /\ failures' \in 0..2
        /\ owner' \in [Sid -> User \cup {None}] /\ live' \subseteq Sid /\ good' \subseteq Sid
        /\ task' \in [Task -> TaskType]
        /\ \A j \in Task \ {k} : task'[j] = task[j]
        /\ task'[k].kind = task[k].kind /\ task'[k].here = task[k].here
        /\ Spends(k) \/ page' = page
    BY <1>8, ServeLoginFacts DEF ServeLogin
  <2>2. page' \in PageType /\ page'.busy = page.busy
    BY <2>1, SpendsFacts
  <2>3. BusyInv'
    BY <2>1, <2>2, BusyKept
  <2>4. QED
    BY <1>8, <2>1, <2>2, <2>3 DEF ServeLogin, Types
<1>9. ASSUME NEW k \in Task, ServeForm(k) PROVE Types' /\ BusyInv'
  <2>1. PICK a \in {"refused", "ok"} : Answers(k, a)
    BY <1>9 DEF ServeForm
  <2>2. a \in Answer
    BY DEF Answer
  <2>3. page' \in PageType /\ page'.busy = page.busy
    BY <1>9, SpendsFacts DEF ServeForm
  <2>4. live' \subseteq Sid /\ good' \subseteq Sid
    BY <1>9 DEF ServeForm, Without, Types
  <2>5. QED
    BY <1>9, <2>1, <2>2, <2>3, <2>4, AnswersFacts, BusyKept DEF ServeForm, Types
<1>10. ASSUME NEW k \in Task, ServeLogout(k) PROVE Types' /\ BusyInv'
  <2>1. PICK a \in {"refused", "ok"} : Answers(k, a)
    BY <1>10 DEF ServeLogout
  <2>2. a \in Answer
    BY DEF Answer
  <2>3. live' \subseteq Sid /\ page' = page
    BY <1>10 DEF ServeLogout, Types
  <2>4. QED
    BY <1>10, <2>1, <2>2, <2>3, AnswersFacts, BusyKept DEF ServeLogout, Types
<1>11. ASSUME NEW k \in Task, ServeDelete(k) PROVE Types' /\ BusyInv'
  <2>1. PICK a \in {"refused", "ok"} : Answers(k, a)
    BY <1>11 DEF ServeDelete
  <2>2. a \in Answer
    BY DEF Answer
  <2>3. live' \subseteq Sid /\ good' \subseteq Sid /\ exists' \subseteq User /\ page' = page
    BY <1>11, NamedFacts DEF ServeDelete, Without, Types
  <2>4. QED
    BY <1>11, <2>1, <2>2, <2>3, AnswersFacts, BusyKept DEF ServeDelete, Types
<1>12. ASSUME NEW k \in Task, ServeMe(k) PROVE Types' /\ BusyInv'
  <2>1. task' = [task EXCEPT ![k] = Told(k, Named(k))] /\ good' = Unused(k)
    BY <1>12 DEF ServeMe
  <2>2. /\ Told(k, Named(k)) \in TaskType /\ Told(k, Named(k)).kind = task[k].kind
        /\ Told(k, Named(k)).here = task[k].here
    BY NamedFacts, ToldFacts
  <2>3. good' \subseteq Sid
    BY <2>1, NamedFacts
  <2>4. QED
    BY <1>12, <2>1, <2>2, <2>3, StartFacts, BusyKept DEF ServeMe, Types
<1>13. ASSUME NEW k \in Task, Lose(k) PROVE Types' /\ BusyInv'
  <2>1. CASE Answers(k, "refused")
    BY <1>13, <2>1, AnswersFacts, BusyKept, "refused" \in Answer DEF Lose, Types, Answer
  <2>2. CASE task' = [task EXCEPT ![k] = Told(k, None)]
    <3>1. /\ Told(k, None) \in TaskType /\ Told(k, None).kind = task[k].kind
          /\ Told(k, None).here = task[k].here
      BY ToldFacts
    <3>2. QED
      BY <1>13, <2>2, <3>1, StartFacts, BusyKept DEF Lose, Types
  <2>3. QED
    BY <1>13, <2>1, <2>2 DEF Lose
<1>14. ASSUME NEW k \in Task, LoginArrives(k) PROVE Types' /\ BusyInv'
  <2>1. CASE task[k].answer = "ok"
    <3>1. jar' \in Sid \cup {0} /\ keep' \in Sid \cup {0}
      BY <1>14, <2>1 DEF LoginArrives, Types, TaskType
    <3>2. task' = Refreshes(k, jar', keep') /\ page' = page /\ mixed' \in BOOLEAN
      BY <1>14, <2>1 DEF LoginArrives, Types
    <3>3. BusyInv'
      BY <3>1, <3>2, BusyAsks
    <3>4. QED
      BY <1>14, <3>1, <3>2, <3>3, RefreshesFacts DEF LoginArrives, Types
  <2>2. CASE task[k].answer # "ok"
    <3> DEFINE p == CASE task[k].answer = "captcha" -> [page EXCEPT !.failed = 2]
                      [] task[k].answer = "refused" /\ page.failed < 2 ->
                            [page EXCEPT !.failed = @ + 1]
                      [] OTHER -> page
    <3>1. p \in PageType
      BY DEF Types, PageType
    <3>2. task' = Ended(k) /\ Refused(k, p)
      BY <1>14, <2>2 DEF LoginArrives
    <3> HIDE DEF p
    <3>3. page' \in PageType /\ IF task[k].here THEN ~page'.busy ELSE page' = page
      BY <3>1, <3>2 DEF Refused, Types, PageType
    <3>4. BusyInv'
      BY <3>2, <3>3, EndedFacts DEF BusyInv
    <3>5. QED
      BY <1>14, <2>2, <3>2, <3>3, <3>4, EndedFacts DEF LoginArrives, Types
  <2>3. QED
    BY <2>1, <2>2
<1>15. ASSUME NEW k \in Task, FormArrives(k) PROVE Types' /\ BusyInv'
  <2>0. [page EXCEPT !.done = TRUE] \in PageType /\ [page EXCEPT !.token = 0] \in PageType
    BY DEF Types, PageType
  <2>1. PICK p \in {[page EXCEPT !.done = TRUE], [page EXCEPT !.token = 0]} : Refused(k, p)
    BY <1>15 DEF FormArrives
  <2>2. p \in PageType
    BY <2>0
  <2>3. page' \in PageType /\ IF task[k].here THEN ~page'.busy ELSE page' = page
    BY ZenonT(30), <2>1, <2>2 DEF Refused, Types, PageType
  <2>4. BusyInv'
    BY <1>15, <2>3, EndedFacts DEF BusyInv, FormArrives
  <2>5. QED
    BY <1>15, <2>3, <2>4, EndedFacts DEF FormArrives, Types
<1>16. ASSUME NEW k \in Task, LogoutArrives(k) PROVE Types' /\ BusyInv'
  <2>1. CASE task[k].answer = "ok"
    <3>1. page.at \in Guest \cup Private \cup Open
      BY DEF Types, PageType
    <3> DEFINE to == Guarded(page.at, None)
    <3>2. to \in Guest \cup Private \cup Open /\ Mounted(to) \in PageType
      BY <3>1, GuardedFacts
    <3>3. Goes(to, Ended(k))
      BY <1>16, <2>1 DEF LogoutArrives
    <3> HIDE DEF to
    <3>4. /\ page' \in PageType /\ task' \in [Task -> TaskType]
          /\ page'.busy => page' = page /\ task' = Ended(k)
      BY <3>2, <3>3, EndedFacts, GoesFacts
    <3>5. BusyInv'
      BY <1>16, <3>4, EndedFacts DEF BusyInv, LogoutArrives
    <3>6. QED
      BY <1>16, <2>1, <3>4, <3>5 DEF LogoutArrives, Types
  <2>2. CASE task[k].answer # "ok"
    <3>1. task' = Ended(k) /\ page' = page
      BY <1>16, <2>2 DEF LogoutArrives
    <3>2. BusyInv'
      BY <1>16, <3>1, EndedFacts DEF BusyInv, LogoutArrives
    <3>3. QED
      BY <1>16, <2>2, <3>1, <3>2, EndedFacts DEF LogoutArrives, Types
  <2>3. QED
    BY <2>1, <2>2
<1>17. ASSUME NEW k \in Task, DeleteArrives(k) PROVE Types' /\ BusyInv'
  <2>1. CASE task[k].answer = "ok"
    <3>1. task' = Refreshes(k, 0, 0) /\ page' = page /\ jar' = 0 /\ keep' = 0
      BY <1>17, <2>1 DEF DeleteArrives
    <3>2. BusyInv'
      BY <3>1, BusyAsks
    <3>3. QED
      BY <1>17, <3>1, <3>2, RefreshesFacts DEF DeleteArrives, Types
  <2>2. CASE task[k].answer # "ok"
    <3>1. task' = Ended(k) /\ Refused(k, page)
      BY <1>17, <2>2 DEF DeleteArrives
    <3>2. page' \in PageType /\ IF task[k].here THEN ~page'.busy ELSE page' = page
      BY <3>1 DEF Refused, Types, PageType
    <3>3. BusyInv'
      BY <3>1, <3>2, EndedFacts DEF BusyInv
    <3>4. QED
      BY <1>17, <2>2, <3>1, <3>2, <3>3, EndedFacts DEF DeleteArrives, Types
  <2>3. QED
    BY <2>1, <2>2
<1>18. ASSUME NEW k \in Task, MeArrives(k) PROVE Types' /\ BusyInv'
  <2>1. Destination(k) \in Guest \cup Private \cup Open /\ task[k].arg \in User \cup {None}
    BY DEF Destination, Types, PageType, TaskType, Private
  <2> DEFINE to == Guarded(Destination(k), task[k].arg)
  <2>2. Mounted(to) \in PageType
    BY <2>1, GuardedFacts
  <2>3. CASE to = page.at
    <3>1. task' = Ended(k) /\ page' = IF task[k].here THEN [page EXCEPT !.busy = FALSE] ELSE page
      BY <1>18, <2>3 DEF MeArrives
    <3>2. page' \in PageType /\ IF task[k].here THEN ~page'.busy ELSE page' = page
      BY <3>1 DEF Types, PageType
    <3>3. BusyInv'
      BY <3>1, <3>2, EndedFacts DEF BusyInv
    <3>4. user' \in User \cup {None} /\ loading' \in BOOLEAN /\ csrf' \in BOOLEAN
      BY <1>18, <2>1 DEF MeArrives
    <3>5. QED
      BY <1>18, <3>1, <3>2, <3>3, <3>4, EndedFacts DEF MeArrives, Types
  <2>4. CASE to # page.at
    <3>1. page' = Mounted(to) /\ task' = Left(Ended(k))
      BY <1>18, <2>4 DEF MeArrives
    <3>2. ~page'.busy
      BY <3>1 DEF Mounted
    <3>3. user' \in User \cup {None} /\ loading' \in BOOLEAN /\ csrf' \in BOOLEAN
      BY <1>18, <2>1 DEF MeArrives
    <3> HIDE DEF to
    <3>4. QED
      BY <1>18, <2>2, <3>1, <3>2, <3>3, EndedFacts, LeftFacts DEF MeArrives, Types, BusyInv
  <2>5. QED
    BY <2>3, <2>4
<1>19. CASE Elsewhere
  <2>1. CASE jar' = 0 /\ keep' = 0 /\ live' = live \ {jar} /\ UNCHANGED <<owner, good>>
    BY <1>19, <2>1 DEF Elsewhere, Types, BusyInv
  <2>2. CASE \E s \in Sid, u \in exists \ Unverified, remember \in BOOLEAN :
               NewSession(s, u, remember) /\ jar' = s /\ keep' = IF remember THEN s ELSE keep
    BY <1>19, <2>2 DEF Elsewhere, NewSession, Types, BusyInv
  <2>3. QED
    BY <1>19, <2>1, <2>2 DEF Elsewhere
<1>20. CASE Lapse
  <2>1. live' \subseteq Sid /\ failures' \in 0..2
    BY <1>20 DEF Lapse, Types
  <2>2. csrf' \in BOOLEAN
    BY <1>20 DEF Lapse, Types
  <2>3. QED
    BY <1>20, <2>1, <2>2 DEF Lapse, Types, BusyInv
<1>21. QED
  BY <1>0, <1>1, <1>2, <1>3, <1>4, <1>5, <1>6, <1>7, <1>8, <1>9, <1>10, <1>11, <1>12, <1>13,
     <1>14, <1>15, <1>16, <1>17, <1>18, <1>19, <1>20 DEF Next

-----------------------------------------------------------------------------
(* Captchas. *)

SpentOK == page.spent \subseteq 1..page.solved /\ page.token \in 0..page.solved

\* A task of the page is one that the page can start.
HereOK ==
    \A k \in Task : task[k].here =>
        /\ task[k].token \in 0..page.solved
        /\ \/ task[k].kind \in {"none", "logout"}
           \/ task[k].kind = page.at
           \/ task[k].kind = "delete" /\ page.at = "account"

AskOK == \A k \in Task : task[k].step \in {"ask", "told"} => task[k].kind \in {"boot", "login", "delete"}

\* The form is busy while its one request is under way, and its token is
\* spent only then or when it is done.
FormOK ==
    page.at \in {"signup", "resend"} =>
        /\ \A k \in Task : task[k].here /\ task[k].kind = page.at => page.busy
        /\ \A j, k \in Task : /\ task[j].here /\ task[j].kind = page.at
                             /\ task[k].here /\ task[k].kind = page.at => j = k
        /\ page.token \in page.spent => page.busy \/ page.done

CaptchaInv == SpentOK /\ HereOK /\ AskOK /\ FormOK /\ FreshCaptcha

\* A step that leaves the page alone and goes on with one task, or ends it.
LEMMA CaptchaKept ==
    ASSUME Types, CaptchaInv, page' = page, NEW k \in Task,
           \A j \in Task \ {k} : task'[j] = task[j],
           task'[k].here => /\ task[k].here /\ task'[k].kind = task[k].kind
                            /\ task'[k].token \in {0, task[k].token},
           task'[k].step # "post",
           task'[k].step \in {"ask", "told"} => task'[k].kind \in {"boot", "login", "delete"}
    PROVE  CaptchaInv'
<1>1. 0 \in 0..page.solved
  BY DEF Types, PageType
<1>2. SpentOK' /\ HereOK' /\ AskOK'
  BY <1>1 DEF CaptchaInv, SpentOK, HereOK, AskOK
<1>3. FormOK'
  BY DEF CaptchaInv, FormOK
<1>4. FreshCaptcha'
  BY DEF CaptchaInv, FreshCaptcha
<1>5. QED
  BY <1>2, <1>3, <1>4 DEF CaptchaInv

\* A page that is mounted starts anew.
LEMMA CaptchaMounted ==
    ASSUME Types, CaptchaInv, NEW at, page' = Mounted(at),
           NEW T \in [Task -> TaskType], task' = Left(T),
           \A j \in Task : T[j].step \in {"ask", "told"} => T[j].kind \in {"boot", "login", "delete"}
    PROVE  CaptchaInv'
<1>1. ASSUME NEW j \in Task
      PROVE  /\ ~task'[j].here /\ task'[j].step = T[j].step
             /\ task'[j].kind = T[j].kind
  <2>1. T[j] \in TaskType /\ task'[j] = [T[j] EXCEPT !.here = FALSE]
    BY LeftFacts
  <2>2. QED
    BY <2>1 DEF TaskType
<1>2. page'.spent = {} /\ page'.token = 0 /\ page'.solved = 0
  BY DEF Mounted
<1>3. QED
  BY <1>1, <1>2 DEF CaptchaInv, SpentOK, HereOK, AskOK, FormOK, FreshCaptcha

\* A step to a route, with one task ended.
LEMMA CaptchaGoes ==
    ASSUME Types, CaptchaInv, NEW k \in Task, NEW at, Goes(at, Ended(k))
    PROVE  CaptchaInv'
<1>1. \A j \in Task : Ended(k)[j].step \in {"ask", "told"} => Ended(k)[j].kind \in {"boot", "login", "delete"}
  BY EndedFacts DEF CaptchaInv, AskOK, NoTask
<1>2. CASE page' = page /\ task' = Ended(k)
  <2>1. ~task'[k].here /\ task'[k].step = "none"
    BY <1>2, EndedFacts DEF NoTask
  <2>2. QED
    BY <1>2, <2>1, EndedFacts, CaptchaKept
<1>3. CASE page' = Mounted(at) /\ task' = Left(Ended(k))
  BY <1>1, <1>3, EndedFacts, CaptchaMounted
<1>4. QED
  BY <1>2, <1>3 DEF Goes

\* A request that is served, and may spend its token.
LEMMA CaptchaServed ==
    ASSUME Types, CaptchaInv, NEW k \in Task, task[k].kind \in CaptchaForm \cup {"reset", "login"},
           Spends(k) \/ page' = page,
           \A j \in Task \ {k} : task'[j] = task[j],
           task'[k].kind = task[k].kind, task'[k].here = task[k].here,
           task'[k].step = "answered", task'[k].token = 0
    PROVE  CaptchaInv'
<1>1. /\ page' \in PageType /\ page'.at = page.at /\ page'.busy = page.busy
      /\ page'.done = page.done /\ page'.token = page.token /\ page'.solved = page.solved
      /\ \/ page'.spent = page.spent
         \/ task[k].here /\ task[k].token # 0 /\ page'.spent = page.spent \cup {task[k].token}
  BY SpendsFacts
<1>2. page \in PageType /\ page.solved \in Nat /\ 0 \in 0..page.solved
  BY DEF Types, PageType
<1>3. page'.spent \subseteq 1..page.solved
  BY <1>1, <1>2 DEF CaptchaInv, SpentOK, HereOK
<1>4. SpentOK' /\ HereOK' /\ AskOK'
  BY <1>1, <1>2, <1>3 DEF CaptchaInv, SpentOK, HereOK, AskOK
<1>5. page.at \in {"signup", "resend"} /\ task[k].here => task[k].kind = page.at
  BY DEF CaptchaInv, HereOK, CaptchaForm
<1>6. FormOK'
  BY <1>1, <1>5 DEF CaptchaInv, FormOK
<1>7. FreshCaptcha'
  <2> SUFFICES ASSUME NEW j \in Task, j # k, task[j].kind \in {"signup", "resend"},
                      task[j].step = "post", task[j].here
               PROVE  task[j].token \notin page'.spent
    BY DEF FreshCaptcha
  <2>1. task[j].kind = page.at /\ page.at \in {"signup", "resend"}
    BY DEF CaptchaInv, HereOK
  <2>2. ~task[k].here
    BY <1>5, <2>1 DEF CaptchaInv, FormOK
  <2>3. QED
    BY <1>1, <2>2 DEF CaptchaInv, FreshCaptcha
<1>8. QED
  BY <1>4, <1>6, <1>7 DEF CaptchaInv

\* The answer of a task of the page, with which it ends, enables the form.
LEMMA CaptchaRefused ==
    ASSUME Types, CaptchaInv, NEW k \in Task, task' = Ended(k),
           task[k].here, task[k].kind \notin {"none", "logout"},
           page'.at = page.at, page'.solved = page.solved, page'.spent = page.spent,
           page'.token \in {0, page.token},
           task[k].kind \in {"signup", "resend"} => page'.done \/ page'.token = 0
    PROVE  CaptchaInv'
<1>1. /\ \A j \in Task \ {k} : task'[j] = task[j]
      /\ ~task'[k].here /\ task'[k].step = "none"
  BY EndedFacts DEF NoTask
<1>2. page.solved \in Nat /\ 0 \in 0..page.solved /\ 0 \notin page.spent
  BY DEF Types, PageType, CaptchaInv, SpentOK
<1>3. SpentOK' /\ HereOK' /\ AskOK' /\ FreshCaptcha'
  BY <1>1, <1>2 DEF CaptchaInv, SpentOK, HereOK, AskOK, FreshCaptcha
<1>4. page.at \in {"signup", "resend"} => task[k].kind = page.at
  BY DEF CaptchaInv, HereOK
<1>5. FormOK'
  BY <1>1, <1>2, <1>4 DEF CaptchaInv, FormOK
<1>6. QED
  BY <1>3, <1>5 DEF CaptchaInv

\* A handler starts, not that of sign-up or of a verification mail.
LEMMA CaptchaStarts ==
    ASSUME Types, CaptchaInv, NEW k \in Task, NEW t \in TaskType, task' = [task EXCEPT ![k] = t],
           t.step = "post", t.kind \notin {"signup", "resend"}, t.token \in {0, page.token},
           \/ t.kind \in {"none", "logout"} \/ t.kind = page.at
           \/ t.kind = "delete" /\ page.at = "account",
           page'.at = page.at, page'.solved = page.solved, page'.spent = page.spent,
           page'.token = page.token, page'.done = page.done,
           page.busy => page'.busy
    PROVE  CaptchaInv'
<1>1. /\ \A j \in Task \ {k} : task'[j] = task[j]
      /\ task'[k] = t
  BY StartFacts
<1>2. page.solved \in Nat /\ 0 \in 0..page.solved
  BY DEF Types, PageType
<1>3. SpentOK' /\ HereOK' /\ AskOK' /\ FreshCaptcha'
  BY <1>1, <1>2 DEF CaptchaInv, SpentOK, HereOK, AskOK, FreshCaptcha
<1>4. FormOK'
  BY <1>1 DEF CaptchaInv, FormOK
<1>5. QED
  BY <1>3, <1>4 DEF CaptchaInv

LEMMA CaptchaStep == ASSUME Types, CaptchaInv, [Next]_vars PROVE CaptchaInv'
<1> USE DEF server, auth, cookies, past
<1>0. CASE UNCHANGED vars
  BY <1>0 DEF vars, CaptchaInv, SpentOK, HereOK, AskOK, FormOK, FreshCaptcha
<1>1. ASSUME NEW at \in Route, Visit(at) PROVE CaptchaInv'
  <2> DEFINE to == IF loading THEN at ELSE Guarded(at, user)
  <2>1. page' = Mounted(to) /\ task' = Left(task)
    BY <1>1 DEF Visit, Goes
  <2>2. task \in [Task -> TaskType] /\ AskOK
    BY DEF Types, CaptchaInv
  <2>3. QED
    BY <2>1, <2>2, CaptchaMounted DEF AskOK
<1>2. CASE Solve
  <2>1. page.solved \in Nat /\ page.token = 0 /\ task' = task
    BY <1>2 DEF Solve, Types, PageType
  <2>2. page' = [page EXCEPT !.token = page.solved + 1, !.solved = page.solved + 1]
    BY <1>2 DEF Solve, Types, PageType
  <2>3. /\ page'.token = page.solved + 1 /\ page'.solved = page.solved + 1
        /\ page'.at = page.at /\ page'.spent = page.spent /\ page'.busy = page.busy
        /\ page'.done = page.done
    BY <2>2 DEF Types, PageType
  <2> HIDE <2>2
  <2>4. SpentOK' /\ HereOK' /\ AskOK' /\ FreshCaptcha'
    BY <2>1, <2>3 DEF CaptchaInv, SpentOK, HereOK, AskOK, FreshCaptcha
  <2>5. page'.token \notin page'.spent
    BY <2>1, <2>3 DEF CaptchaInv, SpentOK
  <2>6. FormOK'
    BY <2>1, <2>3, <2>5 DEF CaptchaInv, FormOK
  <2>7. QED
    BY <2>4, <2>6 DEF CaptchaInv
<1>3. CASE CaptchaExpires
  <2>1. /\ page'.token = 0 /\ page'.solved = page.solved /\ page.solved \in Nat
        /\ page'.at = page.at /\ page'.spent = page.spent /\ page'.busy = page.busy
        /\ page'.done = page.done /\ task' = task
    BY <1>3 DEF CaptchaExpires, Types, PageType
  <2>2. SpentOK' /\ HereOK' /\ AskOK' /\ FreshCaptcha'
    BY <2>1 DEF CaptchaInv, SpentOK, HereOK, AskOK, FreshCaptcha
  <2>3. FormOK'
    BY <2>1 DEF CaptchaInv, SpentOK, FormOK
  <2>4. QED
    BY <2>2, <2>3 DEF CaptchaInv
<1>4. CASE SubmitLogin
  <2>1. PICK k \in Task, u \in User \cup {None} :
           task' = [task EXCEPT ![k] = [Request("login") EXCEPT !.arg = u,
                       !.token = IF page.failed >= 2 THEN page.token ELSE 0]]
    BY <1>4 DEF SubmitLogin
  <2> DEFINE n == IF page.failed >= 2 THEN page.token ELSE 0
             t == [Request("login") EXCEPT !.arg = u, !.token = n]
  <2>2. "login" \in Kind /\ n \in Nat /\ n \in {0, page.token}
    BY DEF Kind, Types, PageType
  <2>3. Request("login") \in TaskType /\ Request("login").kind = "login"
        /\ Request("login").step = "post"
    BY <2>2, RequestFacts
  <2>4. task' = [task EXCEPT ![k] = t]
    BY <2>1
  <2> HIDE DEF n
  <2>5. t \in TaskType /\ t.kind = "login" /\ t.step = "post" /\ t.token = n
    BY <2>2, <2>3 DEF TaskType
  <2> HIDE DEF t
  <2>6. /\ page.at = "login" /\ page'.at = page.at /\ page'.solved = page.solved
        /\ page'.spent = page.spent /\ page'.token = page.token /\ page'.done = page.done
        /\ page'.busy
    BY <1>4 DEF SubmitLogin, Types, PageType
  <2>7. QED
    BY <2>2, <2>4, <2>5, <2>6, CaptchaStarts
<1>5. CASE SubmitForm
  <2>1. PICK k \in Task : task' = [task EXCEPT ![k] = [Request(page.at) EXCEPT !.token = page.token]]
    BY <1>5 DEF SubmitForm
  <2> DEFINE t == [Request(page.at) EXCEPT !.token = page.token]
  <2>2. page.at \in Kind /\ page.at \in CaptchaForm \cup {"reset"} /\ page.token \in Nat
    BY <1>5 DEF SubmitForm, Types, PageType, Kind
  <2>3. t \in TaskType /\ t.kind = page.at /\ t.step = "post" /\ t.token = page.token
    BY <2>2, RequestFacts DEF TaskType
  <2>4. task' = [task EXCEPT ![k] = t]
    BY <2>1
  <2> HIDE DEF t
  <2>5. /\ page'.at = page.at /\ page'.solved = page.solved /\ page'.spent = page.spent
        /\ page'.token = page.token /\ page'.done = page.done
        /\ page.at # "reset" => page'.busy
    BY <1>5 DEF SubmitForm, Types, PageType
  <2>6. CASE page.at \notin {"signup", "resend"}
    <3>1. page.at # "reset" => ~page.busy
      BY <1>5 DEF SubmitForm
    <3>2. \A j \in Task \ {k} : task'[j] = task[j]
      BY <2>3, <2>4, StartFacts
    <3>3. task'[k] = t
      BY <2>3, <2>4, StartFacts
    <3>4. page.solved \in Nat
      BY DEF Types, PageType
    <3>5. SpentOK' /\ HereOK' /\ AskOK' /\ FreshCaptcha'
      BY <2>3, <2>5, <2>6, <3>2, <3>3, <3>4
         DEF CaptchaInv, SpentOK, HereOK, AskOK, FreshCaptcha
    <3>6. FormOK'
      BY <2>5, <2>6 DEF FormOK
    <3>7. QED
      BY <3>5, <3>6 DEF CaptchaInv
  <2>7. CASE page.at \in {"signup", "resend"}
    <3>1. ~page.busy /\ ~page.done
      BY <1>5, <2>7 DEF SubmitForm, Captcha
    <3>2. page.token \notin page.spent
      BY <2>7, <3>1 DEF CaptchaInv, FormOK
    <3>3. \A j \in Task : ~(task[j].here /\ task[j].kind = page.at)
      BY <2>7, <3>1 DEF CaptchaInv, FormOK
    <3>4. /\ \A j \in Task \ {k} : task'[j] = task[j]
          /\ task'[k] = t
      BY <2>3, <2>4, StartFacts
    <3>5. SpentOK' /\ HereOK' /\ AskOK'
      BY <2>3, <2>5, <3>4 DEF CaptchaInv, SpentOK, HereOK, AskOK
    <3>6. FreshCaptcha'
      BY <2>3, <2>5, <3>2, <3>4 DEF CaptchaInv, FreshCaptcha
    <3>7. FormOK'
      BY <2>5, <2>7, <3>3, <3>4 DEF FormOK
    <3>8. QED
      BY <3>5, <3>6, <3>7 DEF CaptchaInv
  <2>8. QED
    BY <2>6, <2>7
<1>6. CASE SubmitLogout
  <2>1. PICK k \in Task : task' = [task EXCEPT ![k] = [Request("logout") EXCEPT !.csrf = csrf]]
    BY <1>6 DEF SubmitLogout
  <2> DEFINE t == [Request("logout") EXCEPT !.csrf = csrf]
  <2>2. t \in TaskType /\ t.kind = "logout" /\ t.step = "post" /\ t.token = 0
    BY RequestFacts, "logout" \in Kind DEF TaskType, Types, Kind
  <2>3. task' = [task EXCEPT ![k] = t]
    BY <2>1
  <2> HIDE DEF t
  <2>4. page' = page
    BY <1>6 DEF SubmitLogout
  <2>5. QED
    BY <2>2, <2>3, <2>4, CaptchaStarts
<1>7. CASE SubmitDelete
  <2>1. PICK k \in Task :
           task' = [task EXCEPT ![k] = [Request("delete") EXCEPT !.csrf = csrf, !.arg = user]]
    BY <1>7 DEF SubmitDelete
  <2> DEFINE t == [Request("delete") EXCEPT !.csrf = csrf, !.arg = user]
  <2>2. t \in TaskType /\ t.kind = "delete" /\ t.step = "post" /\ t.token = 0
    <3>1. "delete" \in Kind /\ user \in User \cup {None} /\ csrf \in BOOLEAN
      BY DEF Kind, Types
    <3>2. Request("delete") \in TaskType /\ Request("delete").step = "post"
          /\ Request("delete").kind = "delete" /\ Request("delete").token = 0
      BY <3>1, RequestFacts
    <3>3. QED
      BY <3>1, <3>2 DEF TaskType
  <2>3. task' = [task EXCEPT ![k] = t]
    BY <2>1
  <2> HIDE DEF t
  <2>4. /\ page.at = "account" /\ page'.at = page.at /\ page'.solved = page.solved
        /\ page'.spent = page.spent /\ page'.token = page.token /\ page'.done = page.done
        /\ page'.busy
    BY <1>7 DEF SubmitDelete, Types, PageType
  <2>5. QED
    BY <2>2, <2>3, <2>4, CaptchaStarts
<1>8. ASSUME NEW k \in Task, ServeLogin(k) PROVE CaptchaInv'
  <2>1. task[k].kind = "login"
    BY <1>8 DEF ServeLogin
  <2>2. QED
    BY <1>8, <2>1, ServeLoginFacts, CaptchaServed
<1>9. ASSUME NEW k \in Task, ServeForm(k) PROVE CaptchaInv'
  <2>1. PICK a \in {"refused", "ok"} : Answers(k, a)
    BY <1>9 DEF ServeForm
  <2>2. a \in Answer
    BY DEF Answer
  <2>3. Spends(k) /\ task[k].kind \in CaptchaForm \cup {"reset"}
    BY <1>9 DEF ServeForm
  <2>4. QED
    BY <2>1, <2>2, <2>3, AnswersFacts, CaptchaServed
<1>10. ASSUME NEW k \in Task, NEW a \in Answer, Answers(k, a), page' = page PROVE CaptchaInv'
  <2>1. /\ \A j \in Task \ {k} : task'[j] = task[j]
        /\ task'[k].kind = task[k].kind /\ task'[k].here = task[k].here
        /\ task'[k].step = "answered" /\ task'[k].token = 0
    BY <1>10, AnswersFacts
  <2>2. QED
    BY <1>10, <2>1, CaptchaKept
<1>11. ASSUME NEW k \in Task, ServeLogout(k) \/ ServeDelete(k) PROVE CaptchaInv'
  <2>1. PICK a \in {"refused", "ok"} : Answers(k, a)
    BY <1>11 DEF ServeLogout, ServeDelete
  <2>2. a \in Answer /\ page' = page
    BY <1>11 DEF Answer, ServeLogout, ServeDelete
  <2>3. QED
    BY <1>10, <2>1, <2>2
<1>12. ASSUME NEW k \in Task, NEW a \in User \cup {None}, page' = page,
              task[k].step \in {"ask", "told"}, task' = [task EXCEPT ![k] = Told(k, a)]
       PROVE  CaptchaInv'
  <2>1. /\ Told(k, a).kind = task[k].kind /\ Told(k, a).here = task[k].here
        /\ Told(k, a).token = task[k].token /\ Told(k, a).step = "told"
    BY ToldFacts
  <2>3. /\ \A j \in Task \ {k} : task'[j] = task[j]
        /\ task'[k] = Told(k, a)
    BY <1>12 DEF Types
  <2>4. task[k].kind \in {"boot", "login", "delete"}
    BY <1>12 DEF CaptchaInv, AskOK
  <2>5. QED
    BY <1>12, <2>1, <2>3, <2>4, CaptchaKept
<1>13. ASSUME NEW k \in Task, ServeMe(k) PROVE CaptchaInv'
  BY <1>12, <1>13, NamedFacts DEF ServeMe
<1>14. ASSUME NEW k \in Task, Lose(k) PROVE CaptchaInv'
  BY <1>10, <1>12, <1>14, "refused" \in Answer DEF Lose, Answer
<1>15. ASSUME NEW k \in Task, NEW s \in Sid \cup {0}, NEW r \in Sid \cup {0},
              task' = Refreshes(k, s, r), page' = page,
              task[k].kind \in {"boot", "login", "delete"}
       PROVE  CaptchaInv'
  <2>1. /\ \A j \in Task \ {k} : task'[j] = task[j]
        /\ task'[k].kind = task[k].kind /\ task'[k].here = task[k].here
        /\ task'[k].step = "ask" /\ task'[k].token = task[k].token
    BY <1>15, RefreshesFacts
  <2>2. QED
    BY <1>15, <2>1, CaptchaKept
<1>16. ASSUME NEW k \in Task, task' = Ended(k), page' = page PROVE CaptchaInv'
  <2>1. /\ \A j \in Task \ {k} : task'[j] = task[j]
        /\ ~task'[k].here /\ task'[k].step = "none"
    BY <1>16, EndedFacts DEF NoTask
  <2>2. QED
    BY <1>16, <2>1, CaptchaKept
<1>17. ASSUME NEW k \in Task, LoginArrives(k) PROVE CaptchaInv'
  <2>1. CASE task[k].answer = "ok"
    <3>1. jar' \in Sid \cup {0} /\ keep' \in Sid \cup {0}
      BY <1>17, <2>1 DEF LoginArrives, Types, TaskType
    <3>2. task' = Refreshes(k, jar', keep') /\ page' = page /\ task[k].kind = "login"
      BY <1>17, <2>1 DEF LoginArrives
    <3>3. QED
      BY <1>15, <3>1, <3>2
  <2>2. CASE task[k].answer # "ok" /\ task[k].here
    <3>1. /\ task' = Ended(k) /\ page'.at = page.at /\ page'.solved = page.solved
          /\ page'.spent = page.spent /\ page'.token = page.token /\ task[k].kind = "login"
      BY <1>17, <2>2 DEF LoginArrives, Refused, Types, PageType
    <3>2. QED
      BY <2>2, <3>1, CaptchaRefused
  <2>3. CASE task[k].answer # "ok" /\ ~task[k].here
    BY <1>16, <1>17, <2>3 DEF LoginArrives, Refused
  <2>4. QED
    BY <2>1, <2>2, <2>3
<1>18. ASSUME NEW k \in Task, FormArrives(k) PROVE CaptchaInv'
  <2>1. CASE task[k].here
    <3>1. /\ task' = Ended(k) /\ page'.at = page.at /\ page'.solved = page.solved
          /\ page'.spent = page.spent /\ page'.token \in {0, page.token}
          /\ page'.done \/ page'.token = 0
          /\ task[k].kind \in CaptchaForm \cup {"reset"}
      BY <1>18, <2>1 DEF FormArrives, Refused, Types, PageType
    <3>2. QED
      BY <2>1, <3>1, CaptchaRefused DEF CaptchaForm
  <2>2. CASE ~task[k].here
    BY <1>16, <1>18, <2>2 DEF FormArrives, Refused
  <2>3. QED
    BY <2>1, <2>2
<1>19. ASSUME NEW k \in Task, LogoutArrives(k) PROVE CaptchaInv'
  BY <1>16, <1>19, CaptchaGoes DEF LogoutArrives
<1>20. ASSUME NEW k \in Task, DeleteArrives(k) PROVE CaptchaInv'
  <2>1. CASE task[k].answer = "ok"
    BY <1>15, <1>20, <2>1 DEF DeleteArrives
  <2>2. CASE task[k].answer # "ok" /\ task[k].here
    <3>1. /\ task' = Ended(k) /\ page'.at = page.at /\ page'.solved = page.solved
          /\ page'.spent = page.spent /\ page'.token = page.token /\ task[k].kind = "delete"
      BY <1>20, <2>2 DEF DeleteArrives, Refused, Types, PageType
    <3>2. QED
      BY <2>2, <3>1, CaptchaRefused
  <2>3. CASE task[k].answer # "ok" /\ ~task[k].here
    BY <1>16, <1>20, <2>3 DEF DeleteArrives, Refused
  <2>4. QED
    BY <2>1, <2>2, <2>3
<1>21. ASSUME NEW k \in Task, MeArrives(k) PROVE CaptchaInv'
  <2> DEFINE to == Guarded(Destination(k), task[k].arg)
  <2>1. CASE to # page.at
    <3>1. page' = Mounted(to) /\ task' = Left(Ended(k))
      BY <1>21, <2>1 DEF MeArrives
    <3>2. Goes(to, Ended(k))
      BY <2>1, <3>1 DEF Goes
    <3> HIDE DEF to
    <3>3. QED
      BY <3>2, CaptchaGoes
  <2>2. CASE to = page.at /\ ~task[k].here
    BY <1>16, <1>21, <2>2 DEF MeArrives
  <2>3. CASE to = page.at /\ task[k].here
    <3>1. /\ task' = Ended(k) /\ page'.at = page.at /\ page'.solved = page.solved
          /\ page'.spent = page.spent /\ page'.token = page.token
      BY <1>21, <2>3 DEF MeArrives, Types, PageType
    <3>2. task[k].kind \in {"boot", "login", "delete"}
      BY <1>21 DEF MeArrives, CaptchaInv, AskOK
    <3>3. QED
      BY <2>3, <3>1, <3>2, CaptchaRefused
  <2>4. QED
    BY <2>1, <2>2, <2>3
<1>22. CASE Elsewhere \/ Lapse
  <2>1. page' = page /\ task' = task
    BY <1>22 DEF Elsewhere, Lapse
  <2>2. QED
    BY <2>1 DEF CaptchaInv, SpentOK, HereOK, AskOK, FormOK, FreshCaptcha
<1>23. QED
  BY <1>0, <1>1, <1>2, <1>3, <1>4, <1>5, <1>6, <1>7, <1>8, <1>9, <1>11, <1>13, <1>14, <1>17,
     <1>18, <1>19, <1>20, <1>21, <1>22 DEF Next

-----------------------------------------------------------------------------
(* Who is signed in. *)

\* The page is one the guards let through, and until the first answer of
\* authMe nobody can sign in.
LoadOK ==
    /\ loading => user = None /\ \A k \in Task : task[k].kind \notin {"login", "delete"}
    /\ \A k \in Task : task[k].kind = "boot" => loading
    /\ \A j, k \in Task : task[j].kind = "boot" /\ task[k].kind = "boot" => j = k
    /\ ~loading => Guarded(page.at, user) = page.at

\* The logins of the cookies, and of those of a request.
Held == {jar, keep} \ {0}
Sent(t) == {t.sid, t.keep} \ {0}

\* Cookies are of logins that took place.
OwnedOK ==
    /\ \A s \in Held : owner[s] # None
    /\ \A k \in Task : \A s \in Sent(task[k]) : owner[s] # None

\* What the answers under way say agrees with the cookies there are.
AnswersOK ==
    /\ user # None => \A s \in Held : owner[s] = user
    /\ \A j, k \in Task : task[j].kind = "login" /\ task[k].kind = "login" => j = k
    /\ \A k \in Task : task[k].kind = "login" => user = None
    /\ \A k \in Task : task[k].step = "ask" =>
          \A s \in Held, r \in Sent(task[k]) : owner[s] = owner[r]
    /\ \A k \in Task : task[k].step = "told" /\ task[k].arg # None =>
          \A s \in Held : owner[s] = task[k].arg
    /\ \A k \in Task : task[k].kind = "delete" =>
          /\ task[k].step = "ask" => Sent(task[k]) = {}
          /\ task[k].step = "told" => task[k].arg = None
          /\ task[k].step = "post" =>
                task[k].arg # None /\ \A r \in Sent(task[k]) : owner[r] = task[k].arg

ActsInv == LoadOK /\ OwnedOK /\ (~crossed /\ ~mixed => AnswersOK)

LEMMA SentFacts ==
    ASSUME Types
    PROVE  /\ Held \subseteq Sid
           /\ \A k \in Task : Sent(task[k]) \subseteq Sid
BY DEF Types, TaskType, Held, Sent

\* One task is answered or ends; no account changes hands.
LEMMA ActsKept ==
    ASSUME Types, ActsInv, NEW k \in Task,
           UNCHANGED <<jar, keep, user, loading, crossed, mixed>>, page'.at = page.at,
           \A s \in Sid : owner[s] # None => owner'[s] = owner[s],
           \A j \in Task \ {k} : task'[j] = task[j],
           \A s \in Sent(task'[k]) : owner'[s] # None,
           task'[k].kind \in {task[k].kind, "none"}, task'[k].step \in {"answered", "none"}
    PROVE  ActsInv'
<1>1. LoadOK'
  <2>1. Guarded(page.at, user)' = Guarded(page.at, user)
    BY DEF Guarded
  <2>2. QED
    BY <2>1 DEF ActsInv, LoadOK
<1>2. Held' = Held /\ \A j \in Task \ {k} : Sent(task'[j]) = Sent(task[j])
  BY DEF Held, Sent
<1>3. /\ \A s \in Held : owner'[s] = owner[s] /\ owner[s] # None
      /\ \A j \in Task \ {k} : \A s \in Sent(task[j]) : owner'[s] = owner[s] /\ owner[s] # None
  BY SentFacts DEF ActsInv, OwnedOK
<1>4. OwnedOK'
  BY <1>2, <1>3 DEF OwnedOK
<1>5. ASSUME ~crossed', ~mixed' PROVE AnswersOK'
  <2>1. AnswersOK
    BY <1>5 DEF ActsInv
  <2>2. QED
    BY <1>2, <1>3, <2>1 DEF AnswersOK
<1>6. QED
  BY <1>1, <1>4, <1>5 DEF ActsInv

\* A task asks authMe; nothing else changes but the cookies, to those it asks
\* with, which are of one user or leave that of another one.
LEMMA ActsAsk ==
    ASSUME Types, CaptchaInv, ActsInv, NEW k \in Task, NEW s \in Sid \cup {0}, NEW r \in Sid \cup {0},
           task[k].kind = "login" \/ (task[k].kind = "delete" /\ s = 0 /\ r = 0),
           task' = Refreshes(k, s, r), jar' = s, keep' = r,
           \A t \in {s, r} \ {0} : owner[t] # None,
           mixed \/ (r # 0 /\ s # 0 /\ owner[r] # owner[s]) => mixed',
           UNCHANGED <<owner, user, loading, crossed, page>>
    PROVE  ActsInv'
<1>1. /\ \A j \in Task \ {k} : task'[j] = task[j]
      /\ task'[k].kind = task[k].kind /\ task'[k].step = "ask"
      /\ task'[k].sid = s /\ task'[k].keep = r
  BY RefreshesFacts
<1>2. LoadOK'
  <2>1. Guarded(page.at, user)' = Guarded(page.at, user)
    BY DEF Guarded
  <2>2. QED
    BY <1>1, <2>1 DEF ActsInv, LoadOK
<1>3. /\ Held' = {s, r} \ {0} /\ Sent(task'[k]) = {s, r} \ {0}
      /\ \A j \in Task \ {k} : Sent(task'[j]) = Sent(task[j])
  BY <1>1 DEF Held, Sent
<1>4. OwnedOK'
  BY <1>3 DEF ActsInv, OwnedOK
<1>5. ASSUME ~crossed', ~mixed', task[k].kind = "login" PROVE AnswersOK'
  <2>1. AnswersOK /\ user = None /\ \A j \in Task \ {k} : task[j].kind # "login"
    BY <1>5 DEF ActsInv, AnswersOK
  <2>2. \A j \in Task : task[j].kind # "boot"
    BY <1>5 DEF ActsInv, LoadOK
  <2>3. \A t, q \in {s, r} \ {0} : owner[t] = owner[q]
    BY <1>5
  <2>4. \A j \in Task \ {k} : task[j].step \in {"ask", "told"} => task[j].kind = "delete"
    BY <2>1, <2>2 DEF CaptchaInv, AskOK
  <2>5. QED
    BY <1>1, <1>3, <1>5, <2>1, <2>3, <2>4 DEF AnswersOK
<1>6. ASSUME ~crossed', ~mixed', task[k].kind = "delete", s = 0, r = 0 PROVE AnswersOK'
  <2>1. AnswersOK
    BY <1>6 DEF ActsInv
  <2>2. Held' = {} /\ Sent(task'[k]) = {}
    BY <1>3, <1>6
  <2>3. QED
    BY <1>1, <1>3, <1>6, <2>1, <2>2 DEF AnswersOK
<1>7. QED
  BY <1>2, <1>4, <1>5, <1>6 DEF ActsInv

\* A handler starts, with the cookies there are.
LEMMA OwnedStarts ==
    ASSUME Types, ActsInv, NEW k \in Task, NEW t \in TaskType, task' = [task EXCEPT ![k] = t],
           t.sid = jar, t.keep = keep, UNCHANGED <<owner, jar, keep>>
    PROVE  /\ OwnedOK' /\ Held' = Held /\ Sent(t) = Held
           /\ \A j \in Task \ {k} : Sent(task'[j]) = Sent(task[j])
<1>1. /\ \A j \in Task \ {k} : task'[j] = task[j]
      /\ task'[k] = t
  BY StartFacts
<1>2. /\ Held' = Held /\ Sent(t) = Held
      /\ \A j \in Task \ {k} : Sent(task'[j]) = Sent(task[j])
  BY <1>1 DEF Held, Sent
<1>3. OwnedOK'
  BY <1>1, <1>2 DEF ActsInv, OwnedOK
<1>4. QED
  BY <1>2, <1>3

\* A handler starts that is not a login's or a deletion's.
LEMMA ActsStarts ==
    ASSUME Types, ActsInv, NEW k \in Task, NEW t \in TaskType, task' = [task EXCEPT ![k] = t],
           t.step = "post", t.kind \notin {"boot", "login", "delete"},
           t.sid = jar, t.keep = keep,
           page'.at = page.at, UNCHANGED <<owner, jar, keep, user, loading, crossed, mixed>>
    PROVE  ActsInv'
<1>1. /\ \A j \in Task \ {k} : task'[j] = task[j]
      /\ task'[k] = t
  BY StartFacts
<1>2. LoadOK'
  <2>1. Guarded(page.at, user)' = Guarded(page.at, user)
    BY DEF Guarded
  <2>2. QED
    BY <1>1, <2>1 DEF ActsInv, LoadOK
<1>3. OwnedOK' /\ Held' = Held /\ \A j \in Task \ {k} : Sent(task'[j]) = Sent(task[j])
  BY OwnedStarts
<1>4. ASSUME ~crossed', ~mixed' PROVE AnswersOK'
  BY <1>1, <1>3, <1>4 DEF ActsInv, AnswersOK
<1>5. QED
  BY <1>2, <1>3, <1>4 DEF ActsInv

LEMMA ActsStep == ASSUME Types, CaptchaInv, ActsInv, [Next]_vars PROVE ActsInv'
<1> USE DEF server, auth, cookies, past
<1>0. ASSUME page'.at = page.at, UNCHANGED <<owner, jar, keep, user, loading, crossed, mixed, task>> PROVE ActsInv'
  <2>1. Guarded(page.at, user)' = Guarded(page.at, user)
    BY <1>0 DEF Guarded
  <2>2. QED
    BY <1>0, <2>1 DEF ActsInv, LoadOK, OwnedOK, AnswersOK, Held
<1>1. CASE UNCHANGED vars
  BY <1>0, <1>1 DEF vars
<1>2. ASSUME NEW at \in Route, Visit(at) PROVE ActsInv'
  <2> DEFINE to == IF loading THEN at ELSE Guarded(at, user)
  <2>1. page' = Mounted(to) /\ task' = Left(task) /\ UNCHANGED <<owner, jar, keep, user, loading, crossed, mixed>>
    BY <1>2 DEF Visit, Goes
  <2>2. ASSUME NEW j \in Task
        PROVE  /\ task'[j].kind = task[j].kind /\ task'[j].step = task[j].step
               /\ Sent(task'[j]) = Sent(task[j]) /\ task'[j].arg = task[j].arg
    <3>1. task[j] \in TaskType /\ task'[j] = [task[j] EXCEPT !.here = FALSE]
      BY <2>1, LeftFacts DEF Types
    <3>2. QED
      BY <3>1 DEF TaskType, Sent
  <2>3. page'.at = to
    BY <2>1 DEF Mounted
  <2>4. ~loading => Guarded(to, user) = to
    BY RouteAssumption, GuardedFacts
  <2>5. (Guarded(page.at, user) = page.at)' <=> Guarded(to, user) = to
    BY <2>1, <2>3 DEF Guarded
  <2> HIDE DEF to
  <2>6. LoadOK'
    BY <2>1, <2>2, <2>4, <2>5 DEF ActsInv, LoadOK
  <2>7. Held' = Held
    BY <2>1 DEF Held
  <2>8. OwnedOK'
    BY <2>1, <2>2, <2>7 DEF ActsInv, OwnedOK
  <2>9. ASSUME ~crossed', ~mixed' PROVE AnswersOK'
    BY <2>1, <2>2, <2>7, <2>9 DEF ActsInv, AnswersOK
  <2>10. QED
    BY <2>6, <2>8, <2>9 DEF ActsInv
<1>3. CASE Solve \/ CaptchaExpires
  <2>1. page'.at = page.at
    BY <1>3 DEF Solve, CaptchaExpires, Types, PageType
  <2>2. QED
    BY <1>0, <1>3, <2>1 DEF Solve, CaptchaExpires
<1>4. CASE SubmitLogin
  <2>1. PICK k \in Task, u \in User \cup {None} :
           task' = [task EXCEPT ![k] = [Request("login") EXCEPT !.arg = u,
                       !.token = IF page.failed >= 2 THEN page.token ELSE 0]]
    BY <1>4 DEF SubmitLogin
  <2> DEFINE n == IF page.failed >= 2 THEN page.token ELSE 0
             t == [Request("login") EXCEPT !.arg = u, !.token = n]
  <2>2. "login" \in Kind /\ n \in Nat
    BY DEF Kind, Types, PageType
  <2>3. Request("login") \in TaskType /\ Request("login").kind = "login"
        /\ Request("login").step = "post" /\ Request("login").sid = jar
        /\ Request("login").keep = keep
    BY <2>2, RequestFacts
  <2>4. task' = [task EXCEPT ![k] = t]
    BY <2>1
  <2> HIDE DEF n
  <2>5. t \in TaskType /\ t.kind = "login" /\ t.step = "post" /\ t.sid = jar /\ t.keep = keep
    BY <2>2, <2>3 DEF TaskType
  <2> HIDE DEF t
  <2>6. /\ \A j \in Task \ {k} : task'[j] = task[j]
        /\ task'[k] = t
    BY <2>4, <2>5, StartFacts
  <2>7. page.at = "login" /\ page'.at = "login" /\ ~loading
    BY <1>4 DEF SubmitLogin, Shown, Open, Types, PageType
  <2>8. user = None
    BY <2>7 DEF ActsInv, LoadOK, Guarded, Private, Guest
  <2>9. LoadOK'
    <3>1. Guarded(page.at, user)' = Guarded(page.at, user)
      BY <1>4, <2>7 DEF SubmitLogin, Guarded
    <3>2. QED
      BY <1>4, <2>5, <2>6, <2>7, <3>1 DEF SubmitLogin, ActsInv, LoadOK
  <2>10. OwnedOK' /\ Held' = Held /\ \A j \in Task \ {k} : Sent(task'[j]) = Sent(task[j])
    BY <1>4, <2>4, <2>5, OwnedStarts DEF SubmitLogin
  <2>11. ASSUME ~crossed', ~mixed' PROVE AnswersOK'
    <3>1. ~crossed /\ ~mixed /\ LoggingIn(task) = {}
      BY <1>4, <2>11 DEF SubmitLogin
    <3>2. \A j \in Task : task[j].kind # "login"
      BY <3>1 DEF LoggingIn
    <3>3. UNCHANGED <<owner, jar, user>>
      BY <1>4 DEF SubmitLogin
    <3>4. QED
      BY <2>5, <2>6, <2>8, <2>10, <3>1, <3>2, <3>3 DEF ActsInv, AnswersOK
  <2>12. QED
    BY <2>9, <2>10, <2>11 DEF ActsInv
<1>5. CASE SubmitForm
  <2>1. PICK k \in Task : task' = [task EXCEPT ![k] = [Request(page.at) EXCEPT !.token = page.token]]
    BY <1>5 DEF SubmitForm
  <2> DEFINE t == [Request(page.at) EXCEPT !.token = page.token]
  <2>2. page.at \in Kind /\ page.at \in CaptchaForm \cup {"reset"} /\ page.token \in Nat
    BY <1>5 DEF SubmitForm, Types, PageType, Kind
  <2>3. t \in TaskType /\ t.kind = page.at /\ t.step = "post" /\ t.sid = jar /\ t.keep = keep
    BY <2>2, RequestFacts DEF TaskType
  <2>4. task' = [task EXCEPT ![k] = t]
    BY <2>1
  <2> HIDE DEF t
  <2>5. page'.at = page.at /\ UNCHANGED <<owner, jar, keep, user, loading, crossed, mixed>>
    BY <1>5 DEF SubmitForm, Types, PageType
  <2>6. t.kind \notin {"boot", "login", "delete"}
    BY <2>2, <2>3 DEF CaptchaForm
  <2>7. QED
    BY <2>3, <2>4, <2>5, <2>6, ActsStarts
<1>6. CASE SubmitLogout
  <2>1. PICK k \in Task : task' = [task EXCEPT ![k] = [Request("logout") EXCEPT !.csrf = csrf]]
    BY <1>6 DEF SubmitLogout
  <2> DEFINE t == [Request("logout") EXCEPT !.csrf = csrf]
  <2>2. t \in TaskType /\ t.kind = "logout" /\ t.step = "post" /\ t.sid = jar /\ t.keep = keep
    BY RequestFacts, "logout" \in Kind DEF TaskType, Types, Kind
  <2>3. task' = [task EXCEPT ![k] = t]
    BY <2>1
  <2> HIDE DEF t
  <2>4. page'.at = page.at /\ UNCHANGED <<owner, jar, keep, user, loading, crossed, mixed>>
    BY <1>6 DEF SubmitLogout
  <2>5. QED
    BY <2>2, <2>3, <2>4, ActsStarts
<1>7. CASE SubmitDelete
  <2>1. PICK k \in Task :
           task' = [task EXCEPT ![k] = [Request("delete") EXCEPT !.csrf = csrf, !.arg = user]]
    BY <1>7 DEF SubmitDelete
  <2> DEFINE t == [Request("delete") EXCEPT !.csrf = csrf, !.arg = user]
  <2>2. t \in TaskType /\ t.kind = "delete" /\ t.step = "post" /\ t.sid = jar /\ t.keep = keep
        /\ t.arg = user
    <3>1. "delete" \in Kind /\ user \in User \cup {None} /\ csrf \in BOOLEAN
      BY DEF Kind, Types
    <3>2. Request("delete") \in TaskType /\ Request("delete").step = "post"
          /\ Request("delete").kind = "delete" /\ Request("delete").sid = jar
          /\ Request("delete").keep = keep
      BY <3>1, RequestFacts
    <3>3. QED
      BY <3>1, <3>2 DEF TaskType
  <2>3. task' = [task EXCEPT ![k] = t]
    BY <2>1
  <2> HIDE DEF t
  <2>4. /\ \A j \in Task \ {k} : task'[j] = task[j]
        /\ task'[k] = t
    BY <2>2, <2>3, StartFacts
  <2>5. page.at = "account" /\ page'.at = "account" /\ ~loading
    BY <1>7 DEF SubmitDelete, Shown, Open, Types, PageType
  <2>6. user # None
    BY <2>5 DEF ActsInv, LoadOK, Guarded, Private
  <2>7. UNCHANGED <<owner, jar, keep, user, loading, crossed, mixed>>
    BY <1>7 DEF SubmitDelete
  <2>8. LoadOK'
    <3>1. Guarded(page.at, user)' = Guarded(page.at, user)
      BY <2>5, <2>7 DEF Guarded
    <3>2. QED
      BY <2>2, <2>4, <2>5, <2>7, <3>1 DEF ActsInv, LoadOK
  <2>9. /\ OwnedOK' /\ Held' = Held /\ Sent(t) = Held
        /\ \A j \in Task \ {k} : Sent(task'[j]) = Sent(task[j])
    BY <2>2, <2>3, <2>7, OwnedStarts
  <2>10. ASSUME ~crossed', ~mixed' PROVE AnswersOK'
    BY <2>2, <2>4, <2>6, <2>7, <2>9, <2>10 DEF ActsInv, AnswersOK
  <2>11. QED
    BY <2>8, <2>9, <2>10 DEF ActsInv
<1>8. ASSUME NEW k \in Task, ServeLogin(k) PROVE ActsInv'
  <2>1. /\ \A j \in Task \ {k} : task'[j] = task[j]
        /\ task'[k].kind = task[k].kind /\ task'[k].step = "answered"
        /\ \A s \in Sid : owner[s] # None => owner'[s] = owner[s]
        /\ \A s \in Sent(task'[k]) : owner'[s] # None
        /\ Spends(k) \/ page' = page
    BY <1>8, ServeLoginFacts DEF ServeLogin, Sent
  <2>2. page'.at = page.at
    BY <2>1, SpendsFacts
  <2>3. UNCHANGED <<jar, keep, user, loading, crossed, mixed>>
    BY <1>8 DEF ServeLogin
  <2>4. QED
    BY <2>1, <2>2, <2>3, ActsKept
<1>9. ASSUME NEW k \in Task, NEW a \in Answer, Answers(k, a), page'.at = page.at,
             UNCHANGED <<owner, jar, keep, user, loading, crossed, mixed>>
      PROVE  ActsInv'
  <2>1. /\ \A j \in Task \ {k} : task'[j] = task[j]
        /\ task'[k].kind = task[k].kind /\ task'[k].step = "answered" /\ Sent(task'[k]) = {}
    BY <1>9, AnswersFacts DEF Sent
  <2>2. QED
    BY <1>9, <2>1, ActsKept
<1>10. ASSUME NEW k \in Task, ServeForm(k) PROVE ActsInv'
  <2>1. PICK a \in {"refused", "ok"} : Answers(k, a)
    BY <1>10 DEF ServeForm
  <2>2. a \in Answer
    BY DEF Answer
  <2>3. page'.at = page.at /\ UNCHANGED <<owner, jar, keep, user, loading, crossed, mixed>>
    BY <1>10, SpendsFacts DEF ServeForm
  <2>4. QED
    BY <1>9, <2>1, <2>2, <2>3
<1>11. ASSUME NEW k \in Task, ServeLogout(k) \/ ServeDelete(k) PROVE ActsInv'
  <2>1. PICK a \in {"refused", "ok"} : Answers(k, a)
    BY <1>11 DEF ServeLogout, ServeDelete
  <2>2. a \in Answer
    BY DEF Answer
  <2>3. page' = page /\ UNCHANGED <<owner, jar, keep, user, loading, crossed, mixed>>
    BY <1>11 DEF ServeLogout, ServeDelete
  <2>4. QED
    BY <1>9, <2>1, <2>2, <2>3
<1>12. ASSUME NEW k \in Task, NEW a \in User \cup {None}, task' = [task EXCEPT ![k] = Told(k, a)],
              a # None => /\ task[k].step = "ask"
                          /\ \E s \in Sent(task[k]) : owner[s] = a,
              UNCHANGED <<owner, jar, keep, user, loading, crossed, mixed, page>>
       PROVE  ActsInv'
  <2>1. /\ Told(k, a).kind = task[k].kind /\ Told(k, a).step = "told" /\ Told(k, a).arg = a
        /\ Sent(Told(k, a)) = {}
    BY ToldFacts DEF Sent
  <2>2. /\ \A j \in Task \ {k} : task'[j] = task[j]
        /\ task'[k] = Told(k, a)
    BY <1>12 DEF Types
  <2>3. Held' = Held /\ \A j \in Task \ {k} : Sent(task'[j]) = Sent(task[j])
    BY <1>12, <2>2 DEF Held
  <2>4. LoadOK'
    <3>1. Guarded(page.at, user)' = Guarded(page.at, user)
      BY <1>12 DEF Guarded
    <3>2. QED
      BY <1>12, <2>1, <2>2, <3>1 DEF ActsInv, LoadOK
  <2>5. OwnedOK'
    BY <1>12, <2>1, <2>2, <2>3 DEF ActsInv, OwnedOK
  <2>6. ASSUME ~crossed', ~mixed' PROVE AnswersOK'
    <3>1. AnswersOK
      BY <1>12, <2>6 DEF ActsInv
    <3>2. a # None => \A s \in Held : owner[s] = a
      BY <1>12, <3>1 DEF AnswersOK
    <3>3. task[k].kind = "delete" => a = None
      BY <1>12, <3>1 DEF AnswersOK
    <3>4. QED
      BY <1>12, <2>1, <2>2, <2>3, <3>1, <3>2, <3>3 DEF AnswersOK
  <2>7. QED
    BY <2>4, <2>5, <2>6 DEF ActsInv
<1>13. ASSUME NEW k \in Task, ServeMe(k) PROVE ActsInv'
  <2>1. /\ task[k].step = "ask" /\ task' = [task EXCEPT ![k] = Told(k, Named(k))]
        /\ UNCHANGED <<owner, jar, keep, user, loading, crossed, mixed, page>>
    BY <1>13 DEF ServeMe
  <2>2. /\ Named(k) \in User \cup {None}
        /\ Named(k) # None => \E s \in Sent(task[k]) : owner[s] = Named(k)
    BY NamedFacts DEF Sent
  <2>3. QED
    BY <1>12, <2>1, <2>2
<1>14. ASSUME NEW k \in Task, Lose(k) PROVE ActsInv'
  <2>1. UNCHANGED <<owner, jar, keep, user, loading, crossed, mixed, page>>
    BY <1>14 DEF Lose
  <2>2. CASE Answers(k, "refused")
    BY <1>9, <2>1, <2>2, "refused" \in Answer DEF Answer
  <2>3. CASE task' = [task EXCEPT ![k] = Told(k, None)]
    BY <1>12, <2>1, <2>3
  <2>4. QED
    BY <1>14, <2>2, <2>3 DEF Lose
<1>15. ASSUME NEW k \in Task, task' = Ended(k), page'.at = page.at,
              UNCHANGED <<owner, jar, keep, user, loading, crossed, mixed>>
       PROVE  ActsInv'
  <2>1. /\ \A j \in Task \ {k} : task'[j] = task[j]
        /\ task'[k].kind = "none" /\ task'[k].step = "none" /\ Sent(task'[k]) = {}
    BY <1>15, EndedFacts DEF NoTask, Sent
  <2>2. QED
    BY <1>15, <2>1, ActsKept
<1>16. ASSUME NEW k \in Task, NEW p \in PageType, p.at = page.at, Refused(k, p)
       PROVE  page'.at = page.at
  BY <1>16 DEF Refused, PageType
<1>17. ASSUME NEW k \in Task, LoginArrives(k) PROVE ActsInv'
  <2>1. CASE task[k].answer = "ok"
    <3>1. jar' \in Sid \cup {0} /\ keep' \in Sid \cup {0}
      BY <1>17, <2>1 DEF LoginArrives, Types, TaskType
    <3>2. /\ task[k].kind = "login" /\ task' = Refreshes(k, jar', keep')
          /\ jar' = task[k].sid /\ keep' \in {keep, task[k].keep}
          /\ mixed \/ (keep' # 0 /\ jar' # 0 /\ owner[keep'] # owner[jar']) => mixed'
          /\ UNCHANGED <<owner, user, loading, crossed, page>>
      BY <1>17, <2>1 DEF LoginArrives
    <3>3. \A t \in {jar', keep'} \ {0} : owner[t] # None
      BY <3>2 DEF ActsInv, OwnedOK, Held, Sent
    <3>4. QED
      BY <3>1, <3>2, <3>3, ActsAsk
  <2>2. CASE task[k].answer # "ok"
    <3>1. page'.at = page.at
      BY <1>17, <2>2 DEF LoginArrives, Refused, Types, PageType
    <3>2. task' = Ended(k) /\ UNCHANGED <<owner, jar, keep, user, loading, crossed, mixed>>
      BY <1>17, <2>2 DEF LoginArrives
    <3>3. QED
      BY <1>15, <3>1, <3>2
  <2>3. QED
    BY <2>1, <2>2
<1>18. ASSUME NEW k \in Task, FormArrives(k) PROVE ActsInv'
  <2>1. page'.at = page.at
    BY <1>18 DEF FormArrives, Refused, Types, PageType
  <2>2. task' = Ended(k) /\ UNCHANGED <<owner, jar, keep, user, loading, crossed, mixed>>
    BY <1>18 DEF FormArrives
  <2>3. QED
    BY <1>15, <2>1, <2>2
<1>19. ASSUME NEW k \in Task, NEW at \in Guest \cup Private \cup Open, Goes(at, Ended(k)),
              Mounted(at) \in PageType
       PROVE  /\ page'.at = at
              /\ \A j \in Task \ {k} : /\ task'[j].kind = task[j].kind
                                        /\ task'[j].step = task[j].step
                                        /\ Sent(task'[j]) = Sent(task[j])
                                        /\ task'[j].arg = task[j].arg
              /\ task'[k].kind = "none" /\ task'[k].step = "none" /\ Sent(task'[k]) = {}
  <2>1. page'.at = at /\ (task' = Ended(k) \/ task' = Left(Ended(k)))
    BY <1>19, EndedFacts, GoesFacts
  <2>2. \A j \in Task : Ended(k)[j] = IF j = k THEN NoTask ELSE task[j]
    BY EndedFacts
  <2>3. ASSUME NEW j \in Task
        PROVE  /\ task'[j].kind = Ended(k)[j].kind /\ task'[j].step = Ended(k)[j].step
               /\ Sent(task'[j]) = Sent(Ended(k)[j]) /\ task'[j].arg = Ended(k)[j].arg
    <3>1. CASE task' = Ended(k)
      BY <3>1
    <3>2. CASE task' = Left(Ended(k))
      <4>1. task'[j] = [Ended(k)[j] EXCEPT !.here = FALSE] /\ Ended(k)[j] \in TaskType
        BY <3>2, EndedFacts, LeftFacts
      <4>2. QED
        BY <4>1 DEF TaskType, Sent
    <3>3. QED
      BY <2>1, <3>1, <3>2
  <2>4. NoTask.kind = "none" /\ NoTask.step = "none" /\ Sent(NoTask) = {}
    BY DEF NoTask, Sent
  <2>5. QED
    BY <2>1, <2>2, <2>3, <2>4
<1>20. ASSUME NEW k \in Task, LogoutArrives(k) PROVE ActsInv'
  <2>1. CASE task[k].answer = "ok"
    <3> DEFINE to == Guarded(page.at, None)
    <3>1. /\ to \in Guest \cup Private \cup Open /\ Mounted(to) \in PageType
          /\ Guarded(to, None) = to
      BY GuardedFacts, page.at \in Guest \cup Private \cup Open DEF Types, PageType
    <3>2. /\ Goes(to, Ended(k)) /\ jar' = 0 /\ keep' = 0 /\ user' = None
          /\ UNCHANGED <<owner, loading, crossed, mixed>>
      BY <1>20, <2>1 DEF LogoutArrives
    <3> HIDE DEF to
    <3>3. /\ page'.at = to
          /\ \A j \in Task \ {k} : /\ task'[j].kind = task[j].kind
                                    /\ task'[j].step = task[j].step
                                    /\ Sent(task'[j]) = Sent(task[j])
                                    /\ task'[j].arg = task[j].arg
          /\ task'[k].kind = "none" /\ task'[k].step = "none" /\ Sent(task'[k]) = {}
      BY <1>19, <3>1, <3>2
    <3>4. LoadOK'
      <4>1. (Guarded(page.at, user) = page.at)'
        BY <3>1, <3>2, <3>3 DEF Guarded
      <4>2. QED
        BY <3>2, <3>3, <4>1 DEF ActsInv, LoadOK
    <3>5. Held' = {}
      BY <3>2 DEF Held
    <3>6. OwnedOK'
      BY <3>2, <3>3, <3>5 DEF ActsInv, OwnedOK
    <3>7. ASSUME ~crossed', ~mixed' PROVE AnswersOK'
      BY <3>2, <3>3, <3>5, <3>7 DEF ActsInv, AnswersOK
    <3>8. QED
      BY <3>4, <3>6, <3>7 DEF ActsInv
  <2>2. CASE task[k].answer # "ok"
    BY <1>15, <1>20, <2>2 DEF LogoutArrives
  <2>3. QED
    BY <2>1, <2>2
<1>21. ASSUME NEW k \in Task, DeleteArrives(k) PROVE ActsInv'
  <2>1. CASE task[k].answer = "ok"
    <3>1. /\ task[k].kind = "delete" /\ task' = Refreshes(k, 0, 0) /\ jar' = 0 /\ keep' = 0
          /\ UNCHANGED <<owner, user, loading, crossed, mixed, page>>
      BY <1>21, <2>1 DEF DeleteArrives
    <3>2. \A t \in {0, 0} \ {0} : owner[t] # None
      OBVIOUS
    <3>3. QED
      BY <3>1, <3>2, ActsAsk
  <2>2. CASE task[k].answer # "ok"
    <3>1. page'.at = page.at
      BY <1>21, <2>2 DEF DeleteArrives, Refused, Types, PageType
    <3>2. task' = Ended(k) /\ UNCHANGED <<owner, jar, keep, user, loading, crossed, mixed>>
      BY <1>21, <2>2 DEF DeleteArrives
    <3>3. QED
      BY <1>15, <3>1, <3>2
  <2>3. QED
    BY <2>1, <2>2
<1>22. ASSUME NEW k \in Task, MeArrives(k) PROVE ActsInv'
  <2> DEFINE a == task[k].arg
             to == Guarded(Destination(k), a)
  <2>1. /\ to \in Guest \cup Private \cup Open /\ Mounted(to) \in PageType
        /\ Guarded(to, a) = to
    <3>1. Destination(k) \in Guest \cup Private \cup Open
      BY DEF Destination, Types, PageType, Private
    <3>2. QED
      BY <3>1, GuardedFacts
  <2>2. /\ task[k].step = "told" /\ user' = a /\ loading' = FALSE
        /\ UNCHANGED <<owner, jar, keep, crossed, mixed>>
    BY <1>22 DEF MeArrives
  <2>3. /\ page'.at = to
        /\ \A j \in Task \ {k} : /\ task'[j].kind = task[j].kind
                                  /\ task'[j].step = task[j].step
                                  /\ Sent(task'[j]) = Sent(task[j])
                                  /\ task'[j].arg = task[j].arg
        /\ task'[k].kind = "none" /\ task'[k].step = "none" /\ Sent(task'[k]) = {}
    <3>1. CASE to = page.at
      <4>1. task' = Ended(k) /\ page'.at = page.at
        BY <1>22, <3>1 DEF MeArrives, Types, PageType
      <4>2. QED
        BY <3>1, <4>1, EndedFacts DEF NoTask, Sent
    <3>2. CASE to # page.at
      <4>1. page' = Mounted(to) /\ task' = Left(Ended(k))
        BY <1>22, <3>2 DEF MeArrives
      <4>2. Goes(to, Ended(k))
        BY <3>2, <4>1 DEF Goes
      <4> HIDE DEF to
      <4>3. QED
        BY <1>19, <2>1, <4>2
    <3>3. QED
      BY <3>1, <3>2
  <2>4. (Guarded(page.at, user) = page.at)'
    BY <2>1, <2>2, <2>3 DEF Guarded
  <2>5. task[k].kind \in {"boot", "login", "delete"}
    BY <2>2 DEF CaptchaInv, AskOK
  <2> HIDE DEF a, to
  <2>6. LoadOK'
    <3>1. CASE task[k].kind = "boot"
      BY <2>2, <2>3, <2>4, <3>1 DEF ActsInv, LoadOK
    <3>2. CASE task[k].kind \in {"login", "delete"}
      BY <2>2, <2>3, <2>4, <3>2 DEF ActsInv, LoadOK
    <3>3. QED
      BY <2>5, <3>1, <3>2
  <2>7. Held' = Held
    BY <2>2 DEF Held
  <2>8. OwnedOK'
    BY <2>2, <2>3, <2>7 DEF ActsInv, OwnedOK
  <2>9. ASSUME ~crossed', ~mixed' PROVE AnswersOK'
    <3>1. AnswersOK
      BY <2>2, <2>9 DEF ActsInv
    <3>2. a # None => \A j \in Task \ {k} : task[j].kind # "login"
      <4>1. CASE task[k].kind = "boot"
        BY <4>1 DEF ActsInv, LoadOK
      <4>2. CASE task[k].kind = "login"
        BY <3>1, <4>2 DEF AnswersOK
      <4>3. CASE task[k].kind = "delete"
        BY <2>2, <3>1, <4>3 DEF AnswersOK, a
      <4>4. QED
        BY <2>5, <4>1, <4>2, <4>3
    <3>3. a # None => \A s \in Held : owner[s] = a
      BY <2>2, <3>1 DEF AnswersOK, a
    <3>4. QED
      BY <2>2, <2>3, <2>7, <3>1, <3>2, <3>3 DEF AnswersOK
  <2>10. QED
    BY <2>6, <2>8, <2>9 DEF ActsInv
<1>23. CASE Elsewhere
  <2>1. crossed' /\ UNCHANGED <<user, loading, page, task>>
    BY <1>23, Zenon DEF Elsewhere
  <2>2. Guarded(page.at, user)' = Guarded(page.at, user)
    BY <2>1 DEF Guarded
  <2>3. LoadOK'
    BY <2>1, <2>2 DEF ActsInv, LoadOK
  <2>4. OwnedOK'
    <3>1. CASE jar' = 0 /\ keep' = 0 /\ UNCHANGED owner
      BY <2>1, <3>1 DEF ActsInv, OwnedOK, Held
    <3>2. ASSUME NEW s \in Sid, NEW u \in exists, NEW remember \in BOOLEAN,
                 NewSession(s, u, remember), jar' = s, keep' = IF remember THEN s ELSE keep
          PROVE  OwnedOK'
      <4>1. u # None
        BY SiteAssumption DEF Types
      <4>2. owner'[s] = u /\ \A r \in Sid : owner[r] # None => owner'[r] = owner[r]
        BY <3>2, <4>1 DEF NewSession, Types
      <4>3. Held' \subseteq Held \cup {s}
        BY <3>2 DEF Held
      <4>4. QED
        BY <2>1, <4>1, <4>2, <4>3, SentFacts DEF ActsInv, OwnedOK
    <3>3. QED
      BY <1>23, <3>1, <3>2 DEF Elsewhere
  <2>5. QED
    BY <2>1, <2>3, <2>4 DEF ActsInv
<1>24. CASE Lapse
  BY <1>0, <1>24 DEF Lapse
<1>25. QED
  BY <1>1, <1>2, <1>3, <1>4, <1>5, <1>6, <1>7, <1>8, <1>10, <1>11, <1>13, <1>14, <1>17,
     <1>18, <1>20, <1>21, <1>22, <1>23, <1>24 DEF Next

-----------------------------------------------------------------------------
(* The theorems. *)

SiteInv == Types /\ BusyInv /\ CaptchaInv /\ ActsInv

LEMMA SiteInit == Init => SiteInv
<1> SUFFICES ASSUME Init PROVE SiteInv
  OBVIOUS
<1>1. PICK k \in Task : task = [j \in Task |->
         IF j = k THEN [NoTask EXCEPT !.kind = "boot", !.step = "ask", !.sid = jar, !.keep = keep]
                  ELSE NoTask]
  BY DEF Init
<1>2. PICK at \in Route \cup {"reset"} : page = Mounted(at)
  BY DEF Init
<1>3. /\ page.spent = {} /\ page.token = 0 /\ page.solved = 0 /\ ~page.busy
  BY <1>2 DEF Mounted
<1>4. ASSUME NEW j \in Task
      PROVE  /\ ~task[j].here
             /\ IF j = k THEN task[j].kind = "boot" /\ task[j].step = "ask" /\ task[j].sid = jar
                         ELSE task[j].kind = "none" /\ task[j].step = "none"
             /\ Sent(task[j]) \subseteq Held
  <2> DEFINE t == [NoTask EXCEPT !.kind = "boot", !.step = "ask", !.sid = jar, !.keep = keep]
  <2>1. ~t.here /\ t.kind = "boot" /\ t.step = "ask" /\ t.sid = jar /\ Sent(t) = Held
    BY DEF NoTask, Sent, Held
  <2>2. task[j] = IF j = k THEN t ELSE NoTask
    BY <1>1
  <2>3. ~NoTask.here /\ NoTask.kind = "none" /\ NoTask.step = "none" /\ Sent(NoTask) = {}
    BY DEF NoTask, Sent
  <2> HIDE DEF t
  <2>4. QED
    BY <2>1, <2>2, <2>3
<1>5. Types /\ BusyInv
  BY <1>3, TypesInit DEF BusyInv
<1>6. CaptchaInv
  <2>1. SpentOK
    BY <1>3 DEF SpentOK
  <2>2. HereOK /\ AskOK /\ FreshCaptcha
    BY <1>4 DEF HereOK, AskOK, FreshCaptcha
  <2>3. FormOK
    BY <1>3, <1>4 DEF FormOK
  <2>4. QED
    BY <2>1, <2>2, <2>3 DEF CaptchaInv
<1>7. user = None /\ loading
  BY Zenon DEF Init
<1>8. ActsInv
  <2>1. LoadOK
    BY <1>4, <1>7 DEF LoadOK
  <2>2. Held \subseteq {1} /\ \A s \in Held : owner[s] # None
    <3>1. PICK u \in (User \ Unverified) \cup {None} :
             IF u = None
             THEN owner = [s \in Sid |-> None] /\ live = {} /\ good = {} /\ jar = 0 /\ keep = 0
             ELSE /\ owner = [s \in Sid |-> IF s = 1 THEN u ELSE None]
                  /\ live = {1} /\ jar = 1 /\ keep \in {0, 1} /\ good = {keep} \ {0}
      BY DEF Init
    <3>2. QED
      BY <3>1, SiteAssumption DEF Held
  <2>3. OwnedOK
    BY <1>4, <2>2, SiteAssumption DEF OwnedOK
  <2>4. AnswersOK
    BY <1>4, <1>7, <2>2 DEF AnswersOK
  <2>5. QED
    BY <2>1, <2>3, <2>4 DEF ActsInv
<1>9. QED
  BY <1>5, <1>6, <1>8 DEF SiteInv

LEMMA SiteStep == SiteInv /\ [Next]_vars => SiteInv'
BY TypesStep, CaptchaStep, ActsStep DEF SiteInv

LEMMA SiteInvariant == Spec => []SiteInv
BY SiteInit, SiteStep, PTL DEF Spec

\* The tab shows the user its cookies are of, and the deletion of an account
\* carries cookies of the user it shows, until another tab signs in, two logins
\* overlap or a login leaves the remember cookie of somebody else.
THEOREM TabActsAsShown == Spec => []ActsAsShown
<1>1. SiteInv => ActsAsShown
  BY DEF SiteInv, ActsInv, AnswersOK, ActsAsShown, Held, Sent
<1>2. QED
  BY <1>1, SiteInvariant, PTL

\* No page stays busy when its requests are over.
THEOREM PagesAreNotStuck == Spec => []BusyWhileWorking
<1>1. SiteInv => BusyWhileWorking
  BY DEF SiteInv, BusyInv, BusyWhileWorking
<1>2. QED
  BY <1>1, SiteInvariant, PTL

\* Sign-up and the request for another mail send no captcha token twice.
THEOREM CaptchasAreFresh == Spec => []FreshCaptcha
<1>1. SiteInv => FreshCaptcha
  BY DEF SiteInv, CaptchaInv
<1>2. QED
  BY <1>1, SiteInvariant, PTL
=============================================================================
