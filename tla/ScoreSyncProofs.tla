-------------------------- MODULE ScoreSyncProofs --------------------------
(***************************************************************************)
(* Proofs about module ScoreSync, for any charts, runs, devices, pages and *)
(* catalogues and any number of failures.  The argument rests on a run     *)
(* that has the server to itself: from its fetch to its insert the latest  *)
(* snapshot stays the one it compared with.                                *)
(***************************************************************************)
EXTENDS ScoreSync, TLAPS

USE ScoreSyncAssumption

\* Run r takes a step of its own, other than its beginning.
RunStep(r) ==
    \/ FetchPrevious(r) \/ FetchFails(r)
    \/ Scrape(r) \/ GiveUp(r)
    \/ \E pictures \in BOOLEAN : Skip(r, pictures) \/ Send(r, pictures)
    \/ ReadLatest(r) \/ ReadLatestFails(r)
    \/ Stamp(r) \/ Insert(r) \/ InsertFails(r)
    \/ Sent(r) \/ Refused(r) \/ NoAnswer(r)

\* The game changes, and nothing else.
GameStep == (\E c \in Played : Play(c)) \/ ChangeProfile

LEMMA StepCases ==
    [Next]_vars => \/ GameStep \/ UNCHANGED vars
                   \/ \E r \in Run : Start(r) \/ RunStep(r)
BY DEF Next, RunStep, GameStep

-----------------------------------------------------------------------------
(* The operators on payloads. *)

\* A function from keys to scores is a set of rows, and nothing else is.
LEMMA RowsIntro ==
    ASSUME NEW K \in SUBSET Key, NEW f \in [K -> 0 .. MaxScore]
    PROVE  f \in Rows
BY DEF Rows

LEMMA RowsElim ==
    ASSUME NEW f \in Rows
    PROVE  DOMAIN f \in SUBSET Key /\ f \in [DOMAIN f -> 0 .. MaxScore]
BY DEF Rows

LEMMA NoRowsTyped == NoRows \in Rows /\ DOMAIN NoRows = {}
<1>1. NoRows \in [{} -> 0 .. MaxScore] /\ {} \in SUBSET Key
  BY DEF NoRows
<1>. QED  BY <1>1, RowsIntro DEF NoRows

\* A merge has the keys of both, and the incoming row of each key it has one of.
LEMMA MergeKeeps ==
    ASSUME NEW p \in Rows, NEW i \in Rows, DOMAIN i # {}
    PROVE  /\ DOMAIN MergeRows(p, i) = DOMAIN p \cup DOMAIN i
           /\ \A k \in DOMAIN i : MergeRows(p, i)[k] = i[k]
           /\ \A k \in DOMAIN p \ DOMAIN i : MergeRows(p, i)[k] = p[k]
<1>1. CASE DOMAIN p = {}
  BY <1>1 DEF MergeRows
<1>2. CASE DOMAIN p # {}
  BY <1>2 DEF MergeRows
<1>. QED  BY <1>1, <1>2

LEMMA MergeRowsTyped ==
    ASSUME NEW p \in Rows, NEW i \in Rows
    PROVE  MergeRows(p, i) \in Rows
<1>1. CASE DOMAIN p = {} \/ DOMAIN i = {}
  BY <1>1 DEF MergeRows
<1>2. CASE ~(DOMAIN p = {} \/ DOMAIN i = {})
  <2>. DEFINE K == DOMAIN p \cup DOMAIN i
              f == [k \in K |-> IF k \in DOMAIN i THEN i[k] ELSE p[k]]
  <2>1. K \in SUBSET Key /\ \A k \in K : f[k] \in 0 .. MaxScore
    BY RowsElim
  <2>2. f \in [K -> 0 .. MaxScore]
    BY <2>1
  <2>3. f \in Rows
    <3>. HIDE DEF f, K
    <3>. QED  BY <2>1, <2>2, RowsIntro
  <2>4. MergeRows(p, i) = f
    BY <1>2 DEF MergeRows
  <2>. QED  BY <2>3, <2>4
<1>. QED  BY <1>1, <1>2

LEMMA ChangedRowsTyped ==
    ASSUME NEW c \in Rows, NEW p \in Rows
    PROVE  ChangedRows(c, p) \in Rows
<1>. DEFINE K == {j \in DOMAIN c : ~(j \in DOMAIN p /\ p[j] = c[j])}
            f == [k \in K |-> c[k]]
<1>1. K \in SUBSET Key /\ \A k \in K : f[k] \in 0 .. MaxScore
  BY RowsElim
<1>2. f \in [K -> 0 .. MaxScore]
  BY <1>1
<1>3. f \in Rows
  <2>. HIDE DEF f, K
  <2>. QED  BY <1>1, <1>2, RowsIntro
<1>. QED  BY <1>3 DEF ChangedRows

LEMMA CombinedRowsTyped ==
    ASSUME game \in [Chart -> 0 .. MaxScore], NEW charts \in Pages, NEW known \in Catalogues
    PROVE  CombinedRows(charts, known) \in Rows
<1>. DEFINE K == {<<c, c \in known>> : c \in charts}
            f == [k \in K |-> game[k[1]]]
<1>0. charts \in SUBSET Chart
  OBVIOUS
<1>1. K \in SUBSET Key
  <2>1. \A c \in charts : (c \in known) \in BOOLEAN
    OBVIOUS
  <2>2. \A c \in charts : <<c, c \in known>> \in Chart \X BOOLEAN
    BY <1>0, <2>1, Zenon
  <2>3. \A k \in K : k \in Key
    BY <2>2 DEF Key
  <2>. QED  BY <2>3
<1>2. \A k \in K : k[1] \in Chart
  OBVIOUS
<1>3. f \in [K -> 0 .. MaxScore]
  BY <1>2
<1>4. f \in Rows
  <2>. HIDE DEF f, K
  <2>. QED  BY <1>1, <1>3, RowsIntro
<1>. QED  BY <1>4 DEF CombinedRows

LEMMA MergePayloadTyped ==
    ASSUME NEW p \in Payload, NEW i \in Payload
    PROVE  MergeSnapshotPayload(p, i) \in Payload
BY MergeRowsTyped DEF MergeSnapshotPayload, Payload

LEMMA NoPayloadTyped == NoPayload \in Payload
BY NoRowsTyped DEF NoPayload, Payload, ProfileOrNone

LEMMA NoSnapshotTyped == NoSnapshot \in Snapshot
BY NoPayloadTyped DEF NoSnapshot, Snapshot

-----------------------------------------------------------------------------
(* Types. *)

LEMMA BecomesTyped ==
    ASSUME run \in [Run -> RunState], NEW r \in Run,
           NEW s \in RunState, Becomes(r, s)
    PROVE  run' \in [Run -> RunState]
BY DEF Becomes

LEMMA InitTyped == Init => TypeOK
BY NoPayloadTyped, NoSnapshotTyped
   DEF Init, TypeOK, RunState, ClientState, RequestState

LEMMA EndingTyped ==
    ASSUME run \in [Run -> RunState], NEW r \in Run, NEW how \in ClientState
    PROVE  Ending(r, how) \in RunState
BY NoPayloadTyped DEF Ending, RunState

LEMMA AnsweringTyped ==
    ASSUME run \in [Run -> RunState], NEW r \in Run, NEW how \in RequestState
    PROVE  Answering(r, how) \in RunState
BY NoPayloadTyped DEF Answering, RunState

LEMMA StartTyped ==
    ASSUME TypeOK, NEW r \in Run, Start(r)
    PROVE  TypeOK'
<1>1. \A u \in Run : run'[u] \in RunState
  <2>. SUFFICES ASSUME NEW u \in Run PROVE run'[u] \in RunState
    OBVIOUS
  <2>1. run[u] \in RunState
    BY DEF TypeOK
  <2>2. CASE u = r
    BY <2>1, <2>2 DEF Start, RunState, ClientState
  <2>3. CASE u # r
    BY <2>1, <2>3 DEF Start, RunState
  <2>. QED  BY <2>2, <2>3
<1>2. run' \in [Run -> RunState]
  BY <1>1 DEF Start
<1>. QED  BY <1>2 DEF TypeOK, Start, world, server, table

LEMMA RunStepTyped ==
    ASSUME TypeOK, NEW r \in Run, RunStep(r)
    PROVE  TypeOK'
<1>. USE DEF TypeOK, world, server, table, Failure
<1>0. run[r] \in RunState /\ latest.payload \in Payload /\ DeviceOf[r] \in Device
  BY DEF Snapshot
<1>1. CASE FetchPrevious(r)
  <2>1. [run[r] EXCEPT !.client = "scraping", !.prev = latest.payload] \in RunState
    BY <1>0 DEF RunState, ClientState
  <2>. QED  BY <1>1, <2>1, BecomesTyped DEF FetchPrevious
<1>2. CASE FetchFails(r)
  <2>1. [run[r] EXCEPT !.client = "scraping"] \in RunState
    BY <1>0 DEF RunState, ClientState
  <2>. QED  BY <1>2, <2>1, BecomesTyped DEF FetchFails
<1>3. CASE Scrape(r)
  <2>1. PICK charts \in Pages, known \in Catalogues, found \in {profile, NoProfile} :
          /\ Becomes(r, [run[r] EXCEPT !.client = "comparing",
                           !.scraped = [rows |-> CombinedRows(charts, known), profile |-> found]])
          /\ failures' = failures \/ Failure
    BY <1>3 DEF Scrape
  <2>2. [rows |-> CombinedRows(charts, known), profile |-> found] \in Payload
    BY CombinedRowsTyped DEF Payload, ProfileOrNone
  <2>3. [run[r] EXCEPT !.client = "comparing",
           !.scraped = [rows |-> CombinedRows(charts, known), profile |-> found]] \in RunState
    BY <1>0, <2>2 DEF RunState, ClientState
  <2>. QED  BY <1>3, <2>1, <2>3, BecomesTyped DEF Scrape
<1>4. CASE GiveUp(r)
  BY <1>4, EndingTyped, BecomesTyped DEF GiveUp, ClientState
<1>5. ASSUME NEW pictures \in BOOLEAN, Skip(r, pictures) PROVE TypeOK'
  BY <1>5, EndingTyped, BecomesTyped DEF Skip, ClientState
<1>6. ASSUME NEW pictures \in BOOLEAN, Send(r, pictures) PROVE TypeOK'
  <2>1. Outgoing(r) \in Payload
    BY <1>0, ChangedRowsTyped DEF Outgoing, Payload, RunState
  <2>2. Received(Partial(r)) \in RequestState /\ Partial(r) \in BOOLEAN
    BY DEF Received, RequestState, Partial
  <2>3. [run[r] EXCEPT !.client = "waiting", !.request = Received(Partial(r)),
                       !.payload = Outgoing(r), !.partial = Partial(r)] \in RunState
    BY <1>0, <2>1, <2>2 DEF RunState, ClientState
  <2>. QED  BY <1>6, <2>3, BecomesTyped DEF Send
<1>7. CASE ReadLatest(r)
  <2>. DEFINE p == IF latest = NoSnapshot THEN run[r].payload
                   ELSE MergeSnapshotPayload(latest.payload, run[r].payload)
  <2>1. p \in Payload
    BY <1>0, MergePayloadTyped DEF RunState
  <2>2. [run[r] EXCEPT !.request = "ready", !.payload = p] \in RunState
    <3>. HIDE DEF p
    <3>. QED  BY <1>0, <2>1 DEF RunState, RequestState
  <2>. QED  BY <1>7, <2>2, BecomesTyped DEF ReadLatest
<1>8. CASE ReadLatestFails(r)
  <2>1. [run[r] EXCEPT !.request = "ready", !.unread = TRUE] \in RunState
    BY <1>0 DEF RunState, RequestState
  <2>. QED  BY <1>8, <2>1, BecomesTyped DEF ReadLatestFails
<1>9. CASE Stamp(r)
  <2>1. PICK now \in Instants :
          /\ taken' = taken \cup {now}
          /\ Becomes(r, [run[r] EXCEPT !.request = "stamped", !.at = now])
    BY <1>9 DEF Stamp
  <2>2. [run[r] EXCEPT !.request = "stamped", !.at = now] \in RunState
    BY <1>0, <2>1 DEF RunState, RequestState
  <2>3. run' \in [Run -> RunState]
    BY <2>1, <2>2, BecomesTyped
  <2>. QED  BY <1>9, <2>1, <2>3 DEF Stamp
<1>10. CASE Insert(r)
  <2>1. [by |-> r, at |-> run[r].at, payload |-> run[r].payload, partial |-> run[r].partial] \in Snapshot
    BY <1>0 DEF Snapshot, RunState
  <2>2. latest' \in Snapshot
    BY <1>10, <2>1 DEF Insert
  <2>3. newest' \in Nat
    BY <1>0, <1>10 DEF Insert, RunState
  <2>4. run' \in [Run -> RunState]
    BY <1>10, AnsweringTyped, BecomesTyped DEF Insert, RequestState
  <2>. QED  BY <1>10, <2>2, <2>3, <2>4 DEF Insert
<1>11. CASE InsertFails(r)
  BY <1>11, AnsweringTyped, BecomesTyped DEF InsertFails, RequestState
<1>12. CASE Sent(r)
  <2>1. Partial(r) \in BOOLEAN
    BY DEF Partial
  <2>. QED  BY <1>0, <1>12, <2>1, EndingTyped, BecomesTyped DEF Sent, ClientState
<1>13. CASE Refused(r)
  BY <1>13, EndingTyped, BecomesTyped DEF Refused, ClientState
<1>14. CASE NoAnswer(r)
  BY <1>14, EndingTyped, BecomesTyped DEF NoAnswer, ClientState
<1>. QED
  BY <1>1, <1>2, <1>3, <1>4, <1>5, <1>6, <1>7, <1>8, <1>9, <1>10, <1>11, <1>12,
     <1>13, <1>14 DEF RunStep

LEMMA GameStepTyped == TypeOK /\ GameStep => TypeOK'
<1>. SUFFICES ASSUME TypeOK, GameStep PROVE TypeOK'
  OBVIOUS
<1>1. ASSUME NEW c \in Played, Play(c) PROVE TypeOK'
  <2>1. game' \in [Chart -> 0 .. MaxScore]
    BY <1>1 DEF Play, TypeOK
  <2>. QED  BY <1>1, <2>1 DEF Play, TypeOK, server, table
<1>2. CASE ChangeProfile
  BY <1>2 DEF ChangeProfile, TypeOK, server, table
<1>. QED  BY <1>1, <1>2 DEF GameStep

LEMMA StepTyped == TypeOK /\ [Next]_vars => TypeOK'
<1>. SUFFICES ASSUME TypeOK, [Next]_vars PROVE TypeOK'
  OBVIOUS
<1>1. CASE GameStep
  BY <1>1, GameStepTyped
<1>2. CASE UNCHANGED vars
  BY <1>2 DEF TypeOK, vars
<1>3. ASSUME NEW r \in Run, Start(r) \/ RunStep(r) PROVE TypeOK'
  BY <1>3, StartTyped, RunStepTyped
<1>. QED  BY <1>1, <1>2, <1>3, StepCases

\* The state has the shape that the types of the code give it, for every run,
\* payload and failure of the bookmarklet and the server.
THEOREM TypeCorrect == Spec => []TypeOK
<1>1. Init => TypeOK
  BY InitTyped
<1>2. TypeOK /\ [Next]_vars => TypeOK'
  BY StepTyped
<1>. QED  BY <1>1, <1>2, PTL DEF Spec

-----------------------------------------------------------------------------
(* The inductive invariant. *)

\* Every created_at is one of the times that the server took.
TimesWereTaken ==
    /\ latest = NoSnapshot \/ latest.at \in taken
    /\ \A r \in Run : run[r].request = "stamped" => run[r].at \in taken

\* The bookmarklet and its request agree on how far they are.
InStep(r) ==
    /\ run[r].client \in {"new", "asking"} => run[r].prev = NoPayload
    /\ run[r].client \in {"new", "asking", "scraping", "comparing", "skipped"}
          => run[r].request = "none" /\ ~run[r].unread
    /\ run[r].client = "sent" => run[r].request = "saved"
    /\ run[r].client = "waiting" => run[r].request # "none"
    /\ run[r].client = "waiting" /\ ~Partial(r)
          => run[r].request # "merging" /\ ~run[r].unread
    /\ run[r].request \in {"merging", "ready", "stamped"} /\ run[r].client = "waiting"
          => run[r].partial = Partial(r)

\* The server to itself.
OthersRest(r) == run[r].alone /\ Active(r) => \A o \in Run \ {r} : ~Active(o)

\* What r found is in payload p.
Covers(p, r) ==
    /\ \A k \in DOMAIN run[r].scraped.rows :
          k \in DOMAIN p.rows /\ p.rows[k] = run[r].scraped.rows[k]
    /\ run[r].scraped.profile \in {NoProfile, p.profile}
    /\ ~Partial(r) => p.rows = run[r].scraped.rows

\* A run that has the server to itself compared with what is still the latest,
\* and its payload, once it is merged or needs no merge, covers what it found.
OwnWork(r) ==
    run[r].alone =>
        /\ run[r].client \in {"scraping", "comparing"} /\ Partial(r)
              => run[r].prev = latest.payload
        /\ run[r].client = "waiting" /\ run[r].request = "merging" /\ Partial(r)
              => run[r].prev = latest.payload
        /\ run[r].client = "waiting" /\ run[r].request = "merging"
              => run[r].payload = Outgoing(r)
        /\ run[r].client = "waiting" /\ ~run[r].unread /\ run[r].request \in {"ready", "stamped"}
              => Covers(run[r].payload, r)
        /\ run[r].request = "stamped" /\ latest # NoSnapshot => latest.at < run[r].at
        /\ run[r].client = "waiting" /\ run[r].request = "saved"
              => /\ latest.by = r
                 /\ latest.partial = Partial(r)
                 /\ ~run[r].unread => Covers(latest.payload, r)

\* A merged payload that has rows has those of the snapshot it was merged into.
KeepsRows(r) ==
    /\ run[r].alone /\ run[r].partial /\ ~run[r].unread
    /\ run[r].request \in {"ready", "stamped"} /\ DOMAIN run[r].payload.rows # {}
    => DOMAIN latest.payload.rows \subseteq DOMAIN run[r].payload.rows

\* After a run that had the server to itself nobody is behind it.
Settled ==
    latest.by # NoRun /\ run[latest.by].alone /\ run[latest.by].client = "sent" =>
           /\ latest.partial => forceFull[DeviceOf[latest.by]]
           /\ \A r \in Run \ {latest.by} :
                 /\ ~(run[r].client = "waiting" /\ run[r].request = "saved")
                 /\ run[r].request = "stamped" => latest.at < run[r].at

BaseInv ==
    /\ TypeOK
    /\ TimesWereTaken
    /\ \A r \in Run : InStep(r) /\ OthersRest(r)

\* What holds besides, while the texts of the times are in their order.
OrderedInv ==
    /\ FindsMostRecent
    /\ \A r \in Run : OwnWork(r)
    /\ Settled

Inv == BaseInv /\ (InOrder => OrderedInv)

-----------------------------------------------------------------------------
(* The clock and the texts of its times. *)

\* While no text hides a later one the texts are in the order of the times.
LEMMA TextsFollowTimes ==
    ASSUME InOrder, NEW a \in taken, NEW b \in taken
    PROVE  TextAfter(a, b) <=> a > b
BY DEF InOrder, TextAfter

-----------------------------------------------------------------------------
(* What the steps leave alone. *)

\* The record of a run, field by field.
LEMMA RunForm ==
    ASSUME TypeOK, NEW r \in Run
    PROVE  /\ run \in [Run -> RunState]
           /\ run[r] = [client |-> run[r].client, request |-> run[r].request,
                        prev |-> run[r].prev, scraped |-> run[r].scraped,
                        payload |-> run[r].payload, partial |-> run[r].partial,
                        at |-> run[r].at, alone |-> run[r].alone, unread |-> run[r].unread]
BY DEF TypeOK, RunState

LEMMA Replaced ==
    ASSUME TypeOK, NEW r \in Run, NEW s, Becomes(r, s)
    PROVE  run'[r] = s /\ \A o \in Run \ {r} : run'[o] = run[o]
BY DEF TypeOK, Becomes

LEMMA SendEffect ==
    ASSUME TypeOK, NEW r \in Run, NEW pictures \in BOOLEAN, Send(r, pictures)
    PROVE  /\ run'[r].client = "waiting"
           /\ run'[r].request = Received(Partial(r))
           /\ run'[r].prev = run[r].prev /\ run'[r].scraped = run[r].scraped
           /\ run'[r].payload = Outgoing(r)
           /\ run'[r].partial = Partial(r)
           /\ run'[r].unread = run[r].unread /\ run'[r].alone = run[r].alone
<1>. DEFINE p == Partial(r)
            q == Received(p)
            o == Outgoing(r)
<1>1. run' = [run EXCEPT ![r] = [run[r] EXCEPT !.client = "waiting", !.request = q,
                                               !.payload = o, !.partial = p]]
  BY Zenon DEF Send, Becomes
<1>. HIDE DEF p, q, o
<1>2. run'[r] = [run[r] EXCEPT !.client = "waiting", !.request = q, !.payload = o, !.partial = p]
  BY <1>1, RunForm
<1>3. /\ run'[r].client = "waiting" /\ run'[r].request = q
      /\ run'[r].prev = run[r].prev /\ run'[r].scraped = run[r].scraped
      /\ run'[r].payload = o
      /\ run'[r].partial = p
      /\ run'[r].unread = run[r].unread /\ run'[r].alone = run[r].alone
  BY <1>2, RunForm
<1>. QED  BY <1>3 DEF p, q, o

\* The time is later than all that were taken, and is taken now.
LEMMA StampEffect ==
    ASSUME TypeOK, NEW r \in Run, Stamp(r)
    PROVE  /\ run'[r].client = run[r].client /\ run'[r].request = "stamped"
           /\ run'[r].prev = run[r].prev /\ run'[r].scraped = run[r].scraped
           /\ run'[r].payload = run[r].payload /\ run'[r].partial = run[r].partial
           /\ run'[r].unread = run[r].unread /\ run'[r].alone = run[r].alone
           /\ \A o \in Run \ {r} : run'[o] = run[o]
           /\ run'[r].at \in taken' /\ taken \subseteq taken'
           /\ \A t \in taken : t < run'[r].at
           /\ run[r].request = "ready"
<1>1. PICK now \in Instants :
        /\ \A t \in taken : t < now
        /\ taken' = taken \cup {now}
        /\ Becomes(r, [run[r] EXCEPT !.request = "stamped", !.at = now])
  BY DEF Stamp
<1>2. run'[r] = [run[r] EXCEPT !.request = "stamped", !.at = now]
      /\ \A o \in Run \ {r} : run'[o] = run[o]
  BY <1>1, Replaced
<1>3. /\ run'[r].client = run[r].client /\ run'[r].request = "stamped"
      /\ run'[r].prev = run[r].prev /\ run'[r].scraped = run[r].scraped
      /\ run'[r].payload = run[r].payload /\ run'[r].partial = run[r].partial
      /\ run'[r].unread = run[r].unread /\ run'[r].alone = run[r].alone
      /\ run'[r].at = now
  BY <1>2, RunForm
<1>. QED  BY <1>1, <1>2, <1>3 DEF Stamp

\* What a step of a run may do to the part of it that the invariant follows.
Moves(r) ==
    /\ run'[r].alone = run[r].alone
    /\ run'[r].request = "stamped" =>
          Stamp(r) \/ (run[r].request = "stamped" /\ run'[r].at = run[r].at)
    /\ run'[r].client = "waiting" /\ run'[r].request = "saved" =>
          Insert(r) \/ (run[r].client = "waiting" /\ run[r].request = "saved")
    /\ run'[r].client = "sent" => Sent(r) \/ run[r].client = "sent"
    /\ run'[r].client = "skipped" =>
          (\E pictures \in BOOLEAN : Skip(r, pictures)) \/ run[r].client = "skipped"

LEMMA StepMoves ==
    ASSUME TypeOK, NEW r \in Run, RunStep(r)
    PROVE  Moves(r) /\ \A o \in Run \ {r} : run'[o] = run[o]
<1>. DEFINE Others == \A o \in Run \ {r} : run'[o] = run[o]
<1>. USE DEF Moves
<1>1. CASE FetchPrevious(r)
  <2>1. run'[r] = [run[r] EXCEPT !.client = "scraping", !.prev = latest.payload] /\ Others
    BY <1>1, Replaced DEF FetchPrevious
  <2>. QED  BY <1>1, <2>1, RunForm
<1>2. CASE FetchFails(r)
  <2>1. run'[r] = [run[r] EXCEPT !.client = "scraping"] /\ Others
    BY <1>2, Replaced DEF FetchFails
  <2>. QED  BY <1>2, <2>1, RunForm
<1>3. CASE Scrape(r)
  <2>1. PICK s : Becomes(r, [run[r] EXCEPT !.client = "comparing", !.scraped = s])
    BY <1>3 DEF Scrape
  <2>2. run'[r] = [run[r] EXCEPT !.client = "comparing", !.scraped = s] /\ Others
    BY <2>1, Replaced
  <2>. QED  BY <2>2, RunForm
<1>4. CASE GiveUp(r)
  <2>1. run'[r] = [run[r] EXCEPT !.client = "failed", !.prev = NoPayload, !.scraped = NoPayload] /\ Others
    BY <1>4, Replaced DEF GiveUp, Ending
  <2>. QED  BY <1>4, <2>1, RunForm
<1>5. ASSUME NEW pictures \in BOOLEAN, Skip(r, pictures) PROVE Moves(r) /\ Others
  <2>1. run'[r] = [run[r] EXCEPT !.client = "skipped", !.prev = NoPayload, !.scraped = NoPayload] /\ Others
    BY <1>5, Replaced DEF Skip, Ending
  <2>. QED  BY <1>5, <2>1, RunForm
<1>6. ASSUME NEW pictures \in BOOLEAN, Send(r, pictures) PROVE Moves(r) /\ Others
  <2>1. Others
    BY <1>6, Replaced DEF Send
  <2>2. Received(Partial(r)) \in {"merging", "ready"}
    BY DEF Received
  <2>. QED  BY <1>6, <2>1, <2>2, SendEffect
<1>7. CASE ReadLatest(r)
  <2>1. PICK p : Becomes(r, [run[r] EXCEPT !.request = "ready", !.payload = p])
    BY <1>7 DEF ReadLatest
  <2>2. run'[r] = [run[r] EXCEPT !.request = "ready", !.payload = p] /\ Others
    BY <2>1, Replaced
  <2>. QED  BY <2>2, RunForm
<1>8. CASE ReadLatestFails(r)
  <2>1. run'[r] = [run[r] EXCEPT !.request = "ready", !.unread = TRUE] /\ Others
    BY <1>8, Replaced DEF ReadLatestFails
  <2>. QED  BY <1>8, <2>1, RunForm
<1>9. CASE Stamp(r)
  <2>1. run'[r].client \notin {"waiting", "sent", "skipped"} \/ run'[r].client = run[r].client
    BY <1>9, StampEffect
  <2>. QED  BY <1>9, <2>1, StampEffect
<1>10. CASE Insert(r)
  <2>1. run'[r] = [run[r] EXCEPT !.request = "saved", !.payload = NoPayload, !.partial = FALSE, !.at = 0] /\ Others
    BY <1>10, Replaced DEF Insert, Answering
  <2>. QED  BY <1>10, <2>1, RunForm
<1>11. CASE InsertFails(r)
  <2>1. run'[r] = [run[r] EXCEPT !.request = "failed", !.payload = NoPayload, !.partial = FALSE, !.at = 0] /\ Others
    BY <1>11, Replaced DEF InsertFails, Answering
  <2>. QED  BY <1>11, <2>1, RunForm
<1>12. CASE Sent(r)
  <2>1. run'[r] = [run[r] EXCEPT !.client = "sent", !.prev = NoPayload, !.scraped = NoPayload] /\ Others
    BY <1>12, Replaced DEF Sent, Ending
  <2>. QED  BY <1>12, <2>1, RunForm
<1>13. CASE Refused(r)
  <2>1. run'[r] = [run[r] EXCEPT !.client = "failed", !.prev = NoPayload, !.scraped = NoPayload] /\ Others
    BY <1>13, Replaced DEF Refused, Ending
  <2>. QED  BY <1>13, <2>1, RunForm
<1>14. CASE NoAnswer(r)
  <2>1. run'[r] = [run[r] EXCEPT !.client = "failed", !.prev = NoPayload, !.scraped = NoPayload] /\ Others
    BY <1>14, Replaced DEF NoAnswer, Ending
  <2>. QED  BY <1>14, <2>1, RunForm
<1>. QED
  BY <1>1, <1>2, <1>3, <1>4, <1>5, <1>6, <1>7, <1>8, <1>9, <1>10, <1>11, <1>12,
     <1>13, <1>14 DEF RunStep

\* A run that takes a step is active, and changes of the runs only its own.
LEMMA Frame ==
    ASSUME TypeOK, NEW r \in Run, RunStep(r)
    PROVE  /\ Active(r)
           /\ run'[r].alone = run[r].alone
           /\ run'[r] \in RunState
           /\ \A o \in Run \ {r} : run'[o] = run[o]
           /\ Insert(r) \/ UNCHANGED table
           /\ Sent(r) \/ UNCHANGED forceFull
           /\ Stamp(r) \/ UNCHANGED taken
<1>0. run[r] \in RunState /\ run \in [Run -> RunState]
  BY DEF TypeOK
<1>1. Active(r)
  BY DEF RunStep, FetchPrevious, FetchFails, Scrape, GiveUp, Skip, Send, ReadLatest,
         ReadLatestFails, Stamp, Insert, InsertFails, Sent, Refused, NoAnswer, Active, Ended
<1>2. (Insert(r) \/ UNCHANGED table) /\ (Sent(r) \/ UNCHANGED forceFull) /\ (Stamp(r) \/ UNCHANGED taken)
  BY DEF RunStep, FetchPrevious, FetchFails, Scrape, GiveUp, Skip, Send, ReadLatest,
         ReadLatestFails, Stamp, Insert, InsertFails, Sent, Refused, NoAnswer, server
<1>3. run' \in [Run -> RunState]
  BY RunStepTyped DEF TypeOK
<1>. QED  BY <1>0, <1>1, <1>2, <1>3, StepMoves DEF Moves

\* While the texts are in order the row that is inserted is found if it is the
\* first or newer than the latest.
LEMMA InsertFindsNewest ==
    ASSUME TypeOK, TimesWereTaken, InOrder, NEW r \in Run, Insert(r)
    PROVE  latest' = IF latest = NoSnapshot \/ latest.at < run[r].at
                     THEN [by |-> r, at |-> run[r].at, payload |-> run[r].payload,
                           partial |-> run[r].partial]
                     ELSE latest
<1>1. run[r].at \in taken /\ run[r].at \in Nat
  BY DEF Insert, TimesWereTaken, TypeOK, RunState
<1>2. latest.at \in Nat /\ (latest # NoSnapshot => latest.at \in taken)
  BY DEF TimesWereTaken, TypeOK, Snapshot
<1>3. latest # NoSnapshot => (TextAfter(run[r].at, latest.at) <=> latest.at < run[r].at)
  <2>. HAVE latest # NoSnapshot
  <2>1. TextAfter(run[r].at, latest.at) <=> run[r].at > latest.at
    BY <1>1, <1>2, TextsFollowTimes
  <2>. QED  BY <1>1, <1>2, <2>1
<1>. DEFINE row == [by |-> r, at |-> run[r].at, payload |-> run[r].payload,
                    partial |-> run[r].partial]
<1>4. latest' = IF latest = NoSnapshot \/ TextAfter(run[r].at, latest.at)
                THEN row ELSE latest
  BY DEF Insert
<1>. HIDE DEF row
<1>5. latest' = IF latest = NoSnapshot \/ latest.at < run[r].at THEN row ELSE latest
  BY <1>3, <1>4
<1>. QED  BY <1>5 DEF row

-----------------------------------------------------------------------------
(* The times. *)

LEMMA TimesStep ==
    ASSUME TypeOK, TimesWereTaken, NEW r \in Run, RunStep(r)
    PROVE  TimesWereTaken'
<1>1. taken \subseteq taken'
  BY Frame DEF Stamp
<1>2. latest' = NoSnapshot \/ latest'.at \in taken'
  <2>1. CASE Insert(r)
    BY <2>1, <1>1 DEF Insert, TimesWereTaken
  <2>2. CASE UNCHANGED table
    BY <2>2, <1>1 DEF table, TimesWereTaken
  <2>. QED  BY <2>1, <2>2, Frame
<1>3. ASSUME NEW o \in Run, run'[o].request = "stamped" PROVE run'[o].at \in taken'
  <2>1. CASE Stamp(r) /\ o = r
    BY <2>1, StampEffect
  <2>2. CASE ~(Stamp(r) /\ o = r)
    <3>1. run[o].request = "stamped" /\ run'[o].at = run[o].at
      <4>1. CASE o # r
        BY <4>1, <1>3, Frame DEF TypeOK
      <4>2. CASE o = r
        BY <4>2, <2>2, <1>3, StepMoves DEF Moves
      <4>. QED  BY <4>1, <4>2
    <3>. QED  BY <3>1, <1>1 DEF TimesWereTaken
  <2>. QED  BY <2>1, <2>2
<1>. QED  BY <1>2, <1>3 DEF TimesWereTaken

LEMMA LatestStep ==
    ASSUME TypeOK, TimesWereTaken, InOrder, FindsMostRecent, NEW r \in Run, RunStep(r)
    PROVE  FindsMostRecent'
<1>1. CASE Insert(r)
  <2>1. run[r].at \in Nat /\ run[r].at > 0
    <3>1. run[r].at \in Instants
      BY <1>1 DEF Insert, TimesWereTaken, TypeOK
    <3>2. \A n \in Instants : n \in Nat /\ n # 0
      BY ScoreSyncAssumption
    <3>3. \A n \in Nat : n # 0 => n > 0
      OBVIOUS
    <3>. QED  BY <3>1, <3>2, <3>3
  <2>2. /\ latest = NoSnapshot => latest.at = 0
        /\ latest.at \in Nat /\ newest = latest.at
    BY DEF NoSnapshot, FindsMostRecent, TypeOK, Snapshot
  <2>3. newest' = IF run[r].at > newest THEN run[r].at ELSE newest
    BY <1>1 DEF Insert
  <2>4. CASE latest = NoSnapshot \/ latest.at < run[r].at
    BY <1>1, <2>1, <2>2, <2>3, <2>4, InsertFindsNewest DEF FindsMostRecent
  <2>5. CASE ~(latest = NoSnapshot \/ latest.at < run[r].at)
    BY <1>1, <2>1, <2>2, <2>3, <2>5, InsertFindsNewest DEF FindsMostRecent
  <2>. QED  BY <2>4, <2>5
<1>2. CASE UNCHANGED table
  BY <1>2 DEF table, FindsMostRecent
<1>. QED  BY <1>1, <1>2, Frame

-----------------------------------------------------------------------------
(* The other runs. *)

\* A run that had the server to itself is over when another one takes a step.
LEMMA OthersStep ==
    ASSUME BaseInv, NEW r \in Run, RunStep(r), NEW o \in Run, o # r
    PROVE  InStep(o)' /\ OthersRest(o)' /\ OwnWork(o)'
<1>. USE DEF BaseInv
<1>1. run'[o] = run[o] /\ Active(r)
  BY Frame
<1>2. InStep(o)'
  BY <1>1 DEF InStep, Partial
<1>3. run[o].alone => ~Active(o)
  BY <1>1 DEF OthersRest
<1>4. OthersRest(o)'
  BY <1>1, <1>3 DEF OthersRest, Active
<1>5. OwnWork(o)'
  BY <1>1, <1>3 DEF OwnWork, Active, Ended
<1>. QED  BY <1>2, <1>4, <1>5

LEMMA SelfRests ==
    ASSUME BaseInv, NEW r \in Run, RunStep(r)
    PROVE  OthersRest(r)'
<1>1. run'[r].alone = run[r].alone /\ Active(r) /\ \A o \in Run \ {r} : run'[o] = run[o]
  BY Frame DEF BaseInv
<1>2. run[r].alone => \A o \in Run \ {r} : ~Active(o)
  BY <1>1 DEF OthersRest, BaseInv
<1>. QED  BY <1>1, <1>2 DEF OthersRest, Active

-----------------------------------------------------------------------------
(* The run itself. *)

LEMMA SelfInStep ==
    ASSUME TypeOK, NEW r \in Run, RunStep(r), InStep(r)
    PROVE  InStep(r)'
<1>. USE RunForm DEF InStep, Partial, Becomes
<1>0. DOMAIN NoPayload.rows = {}
  BY NoRowsTyped DEF NoPayload
<1>1. CASE FetchPrevious(r)
  <2>1. run'[r] = [run[r] EXCEPT !.client = "scraping", !.prev = latest.payload]
    BY <1>1 DEF FetchPrevious
  <2>. QED  BY <1>1, <2>1 DEF FetchPrevious
<1>2. CASE FetchFails(r)
  <2>1. run'[r] = [run[r] EXCEPT !.client = "scraping"]
    BY <1>2 DEF FetchFails
  <2>. QED  BY <1>2, <2>1 DEF FetchFails
<1>3. CASE Scrape(r)
  <2>1. PICK s : run'[r] = [run[r] EXCEPT !.client = "comparing", !.scraped = s]
    BY <1>3 DEF Scrape
  <2>. QED  BY <1>3, <2>1 DEF Scrape
<1>4. CASE GiveUp(r)
  <2>1. run'[r] = [run[r] EXCEPT !.client = "failed", !.prev = NoPayload, !.scraped = NoPayload]
    BY <1>4 DEF GiveUp, Ending
  <2>. QED  BY <1>4, <2>1 DEF GiveUp
<1>5. ASSUME NEW pictures \in BOOLEAN, Skip(r, pictures) PROVE InStep(r)'
  <2>1. run'[r] = [run[r] EXCEPT !.client = "skipped", !.prev = NoPayload, !.scraped = NoPayload]
    BY <1>5 DEF Skip, Ending
  <2>. QED  BY <1>5, <2>1 DEF Skip
<1>6. ASSUME NEW pictures \in BOOLEAN, Send(r, pictures) PROVE InStep(r)'
  <2>. USE <1>6, SendEffect
  <2>0. run[r].request = "none" /\ ~run[r].unread
    BY DEF Send
  <2>1. CASE Partial(r)
    BY <2>0, <2>1 DEF Received
  <2>2. CASE ~Partial(r)
    BY <2>0, <2>2 DEF Received
  <2>. QED  BY <2>1, <2>2
<1>7. CASE ReadLatest(r)
  <2>1. PICK p : run'[r] = [run[r] EXCEPT !.request = "ready", !.payload = p]
    BY <1>7 DEF ReadLatest
  <2>. QED  BY <1>7, <2>1 DEF ReadLatest
<1>8. CASE ReadLatestFails(r)
  <2>1. run'[r] = [run[r] EXCEPT !.request = "ready", !.unread = TRUE]
    BY <1>8 DEF ReadLatestFails
  <2>. QED  BY <1>8, <2>1 DEF ReadLatestFails
<1>9. CASE Stamp(r)
  BY <1>9, StampEffect
<1>10. CASE Insert(r)
  <2>1. run'[r] = [run[r] EXCEPT !.request = "saved", !.payload = NoPayload, !.partial = FALSE, !.at = 0]
    BY <1>10 DEF Insert, Answering
  <2>2. /\ run'[r].client = run[r].client /\ run'[r].request = "saved"
        /\ run'[r].prev = run[r].prev /\ run'[r].unread = run[r].unread
    BY <2>1
  <2>3. run[r].request = "stamped"
    BY <1>10 DEF Insert
  <2>. QED  BY <2>2, <2>3
<1>11. CASE InsertFails(r)
  <2>1. run'[r] = [run[r] EXCEPT !.request = "failed", !.payload = NoPayload, !.partial = FALSE, !.at = 0]
    BY <1>11 DEF InsertFails, Answering
  <2>2. /\ run'[r].client = run[r].client /\ run'[r].request = "failed"
        /\ run'[r].prev = run[r].prev /\ run'[r].unread = run[r].unread
    BY <2>1
  <2>3. run[r].request = "stamped"
    BY <1>11 DEF InsertFails
  <2>. QED  BY <2>2, <2>3
<1>12. CASE Sent(r)
  <2>1. run'[r] = [run[r] EXCEPT !.client = "sent", !.prev = NoPayload, !.scraped = NoPayload]
    BY <1>12 DEF Sent, Ending
  <2>2. /\ run'[r].client = "sent" /\ run'[r].request = run[r].request
        /\ run'[r].unread = run[r].unread
    BY <2>1
  <2>3. run[r].request = "saved"
    BY <1>12 DEF Sent
  <2>. QED  BY <2>2, <2>3
<1>13. CASE Refused(r) \/ NoAnswer(r)
  <2>1. run'[r] = [run[r] EXCEPT !.client = "failed", !.prev = NoPayload, !.scraped = NoPayload]
    BY <1>13 DEF Refused, NoAnswer, Ending
  <2>. QED  BY <1>13, <2>1 DEF Refused, NoAnswer
<1>. QED
  BY <1>1, <1>2, <1>3, <1>4, <1>5, <1>6, <1>7, <1>8, <1>9, <1>10, <1>11, <1>12,
     <1>13 DEF RunStep

\* What a merge with the snapshot of the comparison makes covers what was found.
LEMMA MergeCovers ==
    ASSUME TypeOK, NEW r \in Run, Partial(r)
    PROVE  Covers(MergeSnapshotPayload(run[r].prev, Outgoing(r)), r)
<1>. DEFINE prev    == run[r].prev.rows
            rows    == run[r].scraped.rows
            changed == ChangedRows(rows, prev)
            out     == Outgoing(r).rows
            merged  == MergeSnapshotPayload(run[r].prev, Outgoing(r))
<1>0. prev \in Rows /\ rows \in Rows
  BY DEF TypeOK, RunState, Payload
<1>1. /\ DOMAIN changed = {k \in DOMAIN rows : ~(k \in DOMAIN prev /\ prev[k] = rows[k])}
      /\ \A k \in DOMAIN changed : changed[k] = rows[k]
  BY DEF ChangedRows
<1>2. /\ out = IF DOMAIN changed = {} THEN rows ELSE changed
      /\ Outgoing(r).profile = run[r].scraped.profile
  BY DEF Outgoing
<1>3. changed \in Rows /\ out \in Rows
  BY <1>0, <1>2, ChangedRowsTyped
<1>4. merged.rows = MergeRows(prev, out)
  BY DEF MergeSnapshotPayload
<1>5. run[r].scraped.profile \in {NoProfile, merged.profile}
  BY <1>2 DEF MergeSnapshotPayload
<1>6. ASSUME NEW k \in DOMAIN rows
      PROVE  k \in DOMAIN merged.rows /\ merged.rows[k] = rows[k]
  <2>. HIDE DEF prev, rows, changed, out, merged
  <2>1. DOMAIN out # {}
    BY <1>2
  <2>2. /\ DOMAIN merged.rows = DOMAIN prev \cup DOMAIN out
        /\ \A j \in DOMAIN out : merged.rows[j] = out[j]
        /\ \A j \in DOMAIN prev \ DOMAIN out : merged.rows[j] = prev[j]
    <3>1. /\ DOMAIN MergeRows(prev, out) = DOMAIN prev \cup DOMAIN out
          /\ \A j \in DOMAIN out : MergeRows(prev, out)[j] = out[j]
          /\ \A j \in DOMAIN prev \ DOMAIN out : MergeRows(prev, out)[j] = prev[j]
      BY <1>0, <1>3, <2>1, MergeKeeps, Zenon
    <3>. QED  BY <3>1, <1>4, Zenon
  <2>3. CASE k \in DOMAIN out
    BY <1>1, <1>2, <2>2, <2>3
  <2>4. CASE k \notin DOMAIN out
    BY <1>1, <1>2, <2>2, <2>4
  <2>. QED  BY <2>3, <2>4
<1>. QED  BY <1>5, <1>6 DEF Covers

\* A payload that needs no merge is what was found.
LEMMA FullCovers ==
    ASSUME TypeOK, NEW r \in Run, ~Partial(r)
    PROVE  Covers(Outgoing(r), r)
BY DEF Covers, Outgoing

\* What covers it depends on what the run compared, and on nothing else.
LEMMA SameComparison ==
    ASSUME NEW r \in Run, run'[r].prev = run[r].prev, run'[r].scraped = run[r].scraped
    PROVE  /\ Outgoing(r)' = Outgoing(r)
           /\ Partial(r)' = Partial(r)
           /\ \A p : Covers(p, r)' <=> Covers(p, r)
BY DEF Outgoing, Partial, Covers

LEMMA SelfOwnWork ==
    ASSUME BaseInv, OrderedInv, InOrder, NEW r \in Run, RunStep(r)
    PROVE  OwnWork(r)'
<1>. USE RunForm DEF BaseInv, OrderedInv, Becomes
<1>0. /\ run'[r].alone = run[r].alone
      /\ OwnWork(r) /\ InStep(r) /\ InStep(r)'
      /\ Insert(r) \/ latest' = latest
  BY Frame, SelfInStep DEF table
<1>. SUFFICES ASSUME run[r].alone PROVE OwnWork(r)'
  BY <1>0 DEF OwnWork
<1>1. CASE FetchPrevious(r)
  <2>1. run'[r] = [run[r] EXCEPT !.client = "scraping", !.prev = latest.payload]
    BY <1>1 DEF FetchPrevious
  <2>2. run[r].request = "none" /\ latest' = latest
    BY <1>0, <1>1 DEF FetchPrevious, InStep, server, table
  <2>. QED  BY <2>1, <2>2 DEF OwnWork
<1>2. CASE FetchFails(r)
  <2>1. run'[r] = [run[r] EXCEPT !.client = "scraping"]
    BY <1>2 DEF FetchFails
  <2>2. run[r].request = "none" /\ run[r].prev = NoPayload
    BY <1>0, <1>2 DEF FetchFails, InStep
  <2>3. ~Partial(r)'
    BY <2>1, <2>2, NoRowsTyped DEF Partial, NoPayload
  <2>. QED  BY <2>1, <2>2, <2>3 DEF OwnWork
<1>3. CASE Scrape(r)
  <2>1. PICK s : run'[r] = [run[r] EXCEPT !.client = "comparing", !.scraped = s]
    BY <1>3 DEF Scrape
  <2>2. run[r].request = "none" /\ run[r].client = "scraping" /\ latest' = latest
    BY <1>0, <1>3 DEF Scrape, InStep, server, table
  <2>. QED  BY <1>0, <2>1, <2>2 DEF OwnWork, Partial
<1>4. CASE GiveUp(r)
  <2>1. run'[r] = [run[r] EXCEPT !.client = "failed", !.prev = NoPayload, !.scraped = NoPayload]
    BY <1>4 DEF GiveUp, Ending
  <2>2. run[r].request = "none"
    BY <1>0, <1>4 DEF GiveUp, InStep
  <2>. QED  BY <2>1, <2>2 DEF OwnWork
<1>5. ASSUME NEW pictures \in BOOLEAN, Skip(r, pictures) PROVE OwnWork(r)'
  <2>1. run'[r] = [run[r] EXCEPT !.client = "skipped", !.prev = NoPayload, !.scraped = NoPayload]
    BY <1>5 DEF Skip, Ending
  <2>2. run[r].request = "none"
    BY <1>0, <1>5 DEF Skip, InStep
  <2>. QED  BY <2>1, <2>2 DEF OwnWork
<1>6. ASSUME NEW pictures \in BOOLEAN, Send(r, pictures) PROVE OwnWork(r)'
  <2>1. /\ run'[r].client = "waiting" /\ run'[r].request = Received(Partial(r))
        /\ run'[r].prev = run[r].prev /\ run'[r].scraped = run[r].scraped
        /\ run'[r].payload = Outgoing(r)
    BY <1>6, SendEffect
  <2>2. run[r].client = "comparing" /\ latest' = latest
    BY <1>6 DEF Send, server, table
  <2>3. CASE Partial(r)
    BY <1>0, <2>1, <2>2, <2>3, SameComparison DEF OwnWork, Received
  <2>4. CASE ~Partial(r)
    BY <1>0, <2>1, <2>2, <2>4, SameComparison, FullCovers DEF OwnWork, Received
  <2>. QED  BY <2>3, <2>4
<1>7. CASE ReadLatest(r)
  <2>. DEFINE p == IF latest = NoSnapshot THEN run[r].payload
                   ELSE MergeSnapshotPayload(latest.payload, run[r].payload)
  <2>1. run'[r] = [run[r] EXCEPT !.request = "ready", !.payload = p]
    BY <1>7 DEF ReadLatest
  <2>2. ASSUME run[r].client = "waiting" PROVE Covers(p, r)
    <3>1. Partial(r) /\ run[r].prev = latest.payload /\ run[r].payload = Outgoing(r)
      BY <1>0, <1>7, <2>2 DEF ReadLatest, InStep, OwnWork
    <3>2. latest # NoSnapshot
      BY <3>1, NoRowsTyped DEF Partial, NoSnapshot, NoPayload
    <3>. QED  BY <3>1, <3>2, MergeCovers
  <2>. HIDE DEF p
  <2>3. /\ run'[r].client = run[r].client /\ run'[r].request = "ready"
        /\ run'[r].prev = run[r].prev /\ run'[r].scraped = run[r].scraped
        /\ run'[r].payload = p
    BY <2>1
  <2>4. run[r].client \notin {"scraping", "comparing"}
    BY <1>0, <1>7 DEF ReadLatest, InStep
  <2>. QED  BY <2>2, <2>3, <2>4, SameComparison DEF OwnWork
<1>8. CASE ReadLatestFails(r)
  <2>1. run'[r] = [run[r] EXCEPT !.request = "ready", !.unread = TRUE]
    BY <1>8 DEF ReadLatestFails
  <2>2. run[r].client \notin {"scraping", "comparing"}
    BY <1>0, <1>8 DEF ReadLatestFails, InStep
  <2>. QED  BY <2>1, <2>2 DEF OwnWork
<1>9. CASE Stamp(r)
  <2>1. /\ run'[r].client = run[r].client /\ run'[r].request = "stamped"
        /\ run'[r].prev = run[r].prev /\ run'[r].scraped = run[r].scraped
        /\ run'[r].payload = run[r].payload /\ run'[r].unread = run[r].unread
    BY <1>9, StampEffect
  <2>2. latest' = latest /\ run[r].request = "ready"
    BY <1>9 DEF Stamp, table
  <2>3. latest # NoSnapshot => latest.at < run'[r].at
    BY <1>9, StampEffect DEF TimesWereTaken
  <2>4. run[r].client \notin {"scraping", "comparing"}
    BY <1>0, <2>2 DEF InStep
  <2>. QED  BY <1>0, <2>1, <2>2, <2>3, <2>4, SameComparison DEF OwnWork
<1>10. CASE Insert(r)
  <2>1. run'[r] = [run[r] EXCEPT !.request = "saved", !.payload = NoPayload, !.partial = FALSE, !.at = 0]
    BY <1>10 DEF Insert, Answering
  <2>2. /\ run'[r].client = run[r].client /\ run'[r].request = "saved"
        /\ run'[r].prev = run[r].prev /\ run'[r].scraped = run[r].scraped
        /\ run'[r].unread = run[r].unread
    BY <2>1
  <2>3. run[r].request = "stamped" /\ run[r].client \notin {"scraping", "comparing"}
    BY <1>0, <1>10 DEF Insert, InStep
  <2>4. latest' = [by |-> r, at |-> run[r].at, payload |-> run[r].payload, partial |-> run[r].partial]
    BY <1>0, <1>10, <2>3, InsertFindsNewest DEF OwnWork
  <2>5. latest'.by = r /\ latest'.partial = run[r].partial /\ latest'.payload = run[r].payload
    BY <2>4
  <2>6. run[r].client = "waiting" => run[r].partial = Partial(r)
    BY <1>0, <2>3 DEF InStep
  <2>7. run[r].client = "waiting" /\ ~run[r].unread => Covers(latest'.payload, r)
    BY <1>0, <2>3, <2>5 DEF OwnWork
  <2>. QED  BY <2>2, <2>3, <2>5, <2>6, <2>7, SameComparison DEF OwnWork
<1>11. CASE InsertFails(r)
  <2>1. run'[r] = [run[r] EXCEPT !.request = "failed", !.payload = NoPayload, !.partial = FALSE, !.at = 0]
    BY <1>11 DEF InsertFails, Answering
  <2>2. run[r].client \notin {"scraping", "comparing"}
    BY <1>0, <1>11 DEF InsertFails, InStep
  <2>. QED  BY <2>1, <2>2 DEF OwnWork
<1>12. CASE Sent(r)
  <2>1. run'[r] = [run[r] EXCEPT !.client = "sent", !.prev = NoPayload, !.scraped = NoPayload]
    BY <1>12 DEF Sent, Ending
  <2>2. run'[r].request = "saved"
    BY <1>12, <2>1 DEF Sent
  <2>. QED  BY <2>1, <2>2 DEF OwnWork
<1>13. CASE Refused(r) \/ NoAnswer(r)
  <2>1. run'[r] = [run[r] EXCEPT !.client = "failed", !.prev = NoPayload, !.scraped = NoPayload]
    BY <1>13 DEF Refused, NoAnswer, Ending
  <2>2. latest' = latest
    BY <1>13 DEF Refused, NoAnswer, server, table
  <2>. QED  BY <1>0, <2>1, <2>2 DEF OwnWork
<1>. QED
  BY <1>1, <1>2, <1>3, <1>4, <1>5, <1>6, <1>7, <1>8, <1>9, <1>10, <1>11, <1>12,
     <1>13 DEF RunStep

-----------------------------------------------------------------------------
(* The run that made the latest snapshot. *)

LEMMA SettledStep ==
    ASSUME BaseInv, OrderedInv, InOrder, NEW r \in Run, RunStep(r)
    PROVE  Settled'
<1>. USE DEF BaseInv, OrderedInv
<1>. DEFINE b == latest'.by
<1>. SUFFICES ASSUME b # NoRun, run'[b].alone, run'[b].client = "sent"
              PROVE  /\ latest'.partial => forceFull'[DeviceOf[b]]
                     /\ \A u \in Run \ {b} :
                           /\ ~(run'[u].client = "waiting" /\ run'[u].request = "saved")
                           /\ run'[u].request = "stamped" => latest'.at < run'[u].at
  BY DEF Settled
<1>1. b \in Run
  BY RunStepTyped DEF TypeOK, Snapshot
<1>2. /\ Active(r) /\ run'[r].alone = run[r].alone
      /\ \A o \in Run \ {r} : run'[o] = run[o]
  BY Frame
<1>3. CASE Sent(r) /\ b = r
  <2>1. UNCHANGED latest
    BY <1>3 DEF Sent, server, table
  <2>2. run[r].client = "waiting" /\ run[r].request = "saved" /\ run[r].alone
    BY <1>2, <1>3 DEF Sent
  <2>3. latest.partial = Partial(r)
    BY <2>2 DEF OwnWork
  <2>4. forceFull'[DeviceOf[r]] = Partial(r)
    BY <1>3 DEF Sent, TypeOK
  <2>5. \A u \in Run \ {r} : ~Active(u) /\ run'[u] = run[u]
    BY <1>2, <2>2 DEF OthersRest
  <2>. QED  BY <1>3, <2>1, <2>3, <2>4, <2>5 DEF Active, Ended
<1>4. CASE ~(Sent(r) /\ b = r)
  <2>1. run[b].client = "sent" /\ run[b].alone
    BY <1>1, <1>2, <1>4, StepMoves DEF Moves
  <2>2. b # r
    BY <1>2, <2>1 DEF Active, Ended, InStep
  <2>3. UNCHANGED latest
    <3>1. CASE Insert(r)
      BY <3>1, <2>2, InsertFindsNewest
    <3>. QED  BY <3>1, Frame DEF table
  <2>4. /\ latest.partial => forceFull[DeviceOf[b]]
        /\ \A u \in Run \ {b} :
              /\ ~(run[u].client = "waiting" /\ run[u].request = "saved")
              /\ run[u].request = "stamped" => latest.at < run[u].at
    BY <1>1, <2>1, <2>3 DEF Settled
  <2>5. ~Sent(r)
    BY <2>2, <2>4 DEF Sent
  <2>6. latest'.partial => forceFull'[DeviceOf[b]]
    BY <2>3, <2>4, <2>5, Frame
  <2>7. ~Insert(r)
    <3>. SUFFICES ASSUME Insert(r) PROVE FALSE
      OBVIOUS
    <3>1. latest.at < run[r].at
      BY <2>2, <2>4 DEF Insert
    <3>2. latest'.by = r
      BY <3>1, InsertFindsNewest
    <3>. QED  BY <2>2, <3>2
  <2>8. ~(run'[r].client = "waiting" /\ run'[r].request = "saved")
    BY <2>2, <2>4, <2>7, StepMoves DEF Moves
  <2>9. run'[r].request = "stamped" => latest.at < run'[r].at
    <3>1. CASE Stamp(r)
      <4>1. latest # NoSnapshot
        BY <1>1, <2>3, ScoreSyncAssumption DEF NoSnapshot
      <4>. QED  BY <3>1, <4>1, StampEffect DEF TimesWereTaken
    <3>2. CASE ~Stamp(r)
      BY <2>2, <2>4, <3>2, StepMoves DEF Moves
    <3>. QED  BY <3>1, <3>2
  <2>. QED  BY <1>2, <2>2, <2>3, <2>4, <2>6, <2>8, <2>9
<1>. QED  BY <1>3, <1>4

-----------------------------------------------------------------------------
(* The invariant. *)

LEMMA RunStepInv ==
    ASSUME Inv, NEW r \in Run, RunStep(r)
    PROVE  Inv'
<1>. USE DEF Inv
<1>0. BaseInv /\ TypeOK /\ TimesWereTaken /\ \A o \in Run : InStep(o)
  BY DEF BaseInv
<1>1. BaseInv'
  <2>1. TypeOK' /\ TimesWereTaken'
    BY <1>0, RunStepTyped, TimesStep
  <2>2. ASSUME NEW o \in Run PROVE InStep(o)' /\ OthersRest(o)'
    <3>1. CASE o = r
      BY <1>0, <3>1, SelfInStep, SelfRests
    <3>2. CASE o # r
      BY <1>0, <3>2, OthersStep
    <3>. QED  BY <3>1, <3>2
  <2>. QED  BY <2>1, <2>2 DEF BaseInv
<1>2. ASSUME InOrder' PROVE OrderedInv'
  <2>1. InOrder /\ OrderedInv
    <3>1. taken \subseteq taken'
      BY <1>0, Frame DEF Stamp
    <3>. QED  BY <1>2, <3>1 DEF InOrder
  <2>2. FindsMostRecent' /\ Settled'
    BY <1>0, <2>1, LatestStep, SettledStep DEF OrderedInv
  <2>3. ASSUME NEW o \in Run PROVE OwnWork(o)'
    <3>1. CASE o = r
      BY <1>0, <2>1, <3>1, SelfOwnWork
    <3>2. CASE o # r
      BY <1>0, <3>2, OthersStep
    <3>. QED  BY <3>1, <3>2
  <2>. QED  BY <2>2, <2>3 DEF OrderedInv
<1>. QED  BY <1>1, <1>2

LEMMA StartInv ==
    ASSUME Inv, NEW r \in Run, Start(r)
    PROVE  Inv'
<1>. USE DEF Inv, BaseInv, OrderedInv
<1>1. /\ UNCHANGED <<latest, newest, taken, forceFull>>
      /\ run[r].client = "new"
  BY DEF Start, server, table
<1>2. /\ run'[r].client \in {"asking", "scraping"} /\ run'[r].request = run[r].request
      /\ run'[r].prev = run[r].prev /\ run'[r].unread = run[r].unread
      /\ run'[r].alone = \A o \in Run : ~Active(o)
      /\ run'[r].at = run[r].at
  <2>1. run'[r] = [run[r] EXCEPT
                     !.client = IF forceFull[DeviceOf[r]] THEN "scraping" ELSE "asking",
                     !.alone = \A o \in Run : ~Active(o)]
    BY DEF Start
  <2>. QED  BY <2>1, RunForm
<1>3. ASSUME NEW u \in Run, u # r
      PROVE  /\ run'[u].client = run[u].client /\ run'[u].request = run[u].request
             /\ run'[u].prev = run[u].prev /\ run'[u].scraped = run[u].scraped
             /\ run'[u].payload = run[u].payload /\ run'[u].partial = run[u].partial
             /\ run'[u].at = run[u].at /\ run'[u].unread = run[u].unread
             /\ run'[u].alone => run[u].alone /\ ~Active(u)
  <2>. DEFINE a == run[u].alone /\ ~Active(u)
  <2>1. run'[u] = [run[u] EXCEPT !.alone = a]
    BY <1>3 DEF Start
  <2>2. a => run[u].alone /\ ~Active(u)
    OBVIOUS
  <2>. HIDE DEF a
  <2>3. run'[u].alone = a
    BY <2>1, RunForm
  <2>. QED  BY <2>1, <2>2, <2>3, RunForm
<1>4. TypeOK' /\ (InOrder' <=> InOrder) /\ (FindsMostRecent' <=> FindsMostRecent)
  BY <1>1, StartTyped DEF FindsMostRecent, InOrder
<1>5. run[r].request = "none" /\ run[r].prev = NoPayload /\ ~run[r].unread
  BY <1>1 DEF InStep
<1>6. TimesWereTaken'
  BY <1>1, <1>2, <1>3, <1>5 DEF TimesWereTaken
<1>7. InStep(r)' /\ OthersRest(r)' /\ OwnWork(r)'
  <2>1. ~Partial(r)'
    BY <1>2, <1>5, NoRowsTyped DEF Partial, NoPayload
  <2>2. InStep(r)'
    BY <1>2, <1>5 DEF InStep
  <2>3. OwnWork(r)'
    BY <1>2, <1>5, <2>1 DEF OwnWork
  <2>4. OthersRest(r)'
    BY <1>2, <1>3 DEF OthersRest, Active
  <2>. QED  BY <2>2, <2>3, <2>4
<1>8. ASSUME NEW u \in Run, u # r
      PROVE  InStep(u)' /\ OthersRest(u)' /\ (OwnWork(u) => OwnWork(u)')
  <2>1. InStep(u)'
    BY <1>3, <1>8 DEF InStep, Partial
  <2>2. OthersRest(u)'
    BY <1>3, <1>8 DEF OthersRest, Active
  <2>3. OwnWork(u) => OwnWork(u)'
    BY <1>3, <1>8 DEF OwnWork, Active, Ended
  <2>. QED  BY <2>1, <2>2, <2>3
<1>9. Settled => Settled'
  <2>. SUFFICES ASSUME Settled, latest.by # NoRun, run'[latest.by].alone, run'[latest.by].client = "sent"
                PROVE  /\ latest.partial => forceFull[DeviceOf[latest.by]]
                       /\ \A u \in Run \ {latest.by} :
                             /\ ~(run'[u].client = "waiting" /\ run'[u].request = "saved")
                             /\ run'[u].request = "stamped" => latest.at < run'[u].at
    BY <1>1 DEF Settled
  <2>1. latest.by \in Run /\ latest.by # r
    BY <1>2 DEF TypeOK, Snapshot
  <2>2. run[latest.by].alone /\ run[latest.by].client = "sent"
    BY <1>3, <2>1
  <2>. QED  BY <1>2, <1>3, <1>5, <2>1, <2>2 DEF Settled
<1>. QED  BY <1>4, <1>6, <1>7, <1>8, <1>9

LEMMA RestInv ==
    ASSUME Inv, GameStep \/ UNCHANGED vars
    PROVE  Inv'
<1>. USE DEF Inv, BaseInv, OrderedInv
<1>1. UNCHANGED <<forceFull, run, latest, newest, taken>>
  BY DEF GameStep, Play, ChangeProfile, server, table, vars
<1>2. TypeOK'
  <2>1. CASE GameStep
    BY <2>1, GameStepTyped
  <2>2. CASE UNCHANGED vars
    BY <2>2 DEF TypeOK, vars
  <2>. QED  BY <2>1, <2>2
<1>3. /\ TimesWereTaken' /\ (InOrder' <=> InOrder)
      /\ (FindsMostRecent' <=> FindsMostRecent) /\ (Settled' <=> Settled)
  BY <1>1 DEF TimesWereTaken, InOrder, FindsMostRecent, Settled
<1>4. ASSUME NEW r \in Run
      PROVE  InStep(r)' /\ OthersRest(r)' /\ (OwnWork(r) => OwnWork(r)')
  <2>1. InStep(r)' /\ OthersRest(r)'
    BY <1>1 DEF InStep, Partial, OthersRest, Active
  <2>2. OwnWork(r) => OwnWork(r)'
    BY <1>1, SameComparison DEF OwnWork
  <2>. QED  BY <2>1, <2>2
<1>. QED  BY <1>2, <1>3, <1>4

LEMMA StepInv == Inv /\ [Next]_vars => Inv'
BY StepCases, RunStepInv, StartInv, RestInv

LEMMA InitInv == Init => Inv
<1>. SUFFICES ASSUME Init PROVE Inv
  OBVIOUS
<1>1. TypeOK
  BY InitTyped
<1>2. latest = NoSnapshot /\ latest.by = NoRun /\ latest.at = 0 /\ newest = 0
  BY DEF Init, NoSnapshot
<1>3. \A r \in Run : /\ run[r].client = "new" /\ run[r].request = "none"
                     /\ run[r].prev = NoPayload /\ ~run[r].alone /\ ~run[r].unread
  BY DEF Init
<1>4. BaseInv
  BY <1>1, <1>2, <1>3 DEF BaseInv, TimesWereTaken, InStep, OthersRest
<1>5. OrderedInv
  BY <1>2, <1>3 DEF OrderedInv, FindsMostRecent, OwnWork, Settled
<1>. QED  BY <1>4, <1>5 DEF Inv

LEMMA InvCorrect == Spec => []Inv
<1>1. Init => Inv
  BY InitInv
<1>2. Inv /\ [Next]_vars => Inv'
  BY StepInv
<1>. QED  BY <1>1, <1>2, PTL DEF Spec

-----------------------------------------------------------------------------
(* The theorems. *)

\* As long as the texts of the times are in the order of the times, LatestSnapshot
\* finds the newest snapshot, however the requests overtake each other between
\* taking the time and their insert.
THEOREM LatestCorrect == Spec => []LatestIsNewest
<1>1. Inv => LatestIsNewest
  BY DEF Inv, OrderedInv, LatestIsNewest
<1>. QED  BY <1>1, InvCorrect, PTL

\* After a partial payload of a run that had the server to itself and got its
\* answer, the next run of that browser sends everything, while the texts of the
\* times are in order.
THEOREM FollowedCorrect == Spec => []PartialIsFollowedByFull
<1>1. Inv => PartialIsFollowedByFull
  BY DEF Inv, OrderedInv, Settled, PartialIsFollowedByFull
<1>. QED  BY <1>1, InvCorrect, PTL

\* A run succeeds when its answer comes, or when there is nothing to send.
LEMMA SuccessCases ==
    ASSUME TypeOK, [Next]_vars, NEW r \in Run, Succeeds(r)
    PROVE  Sent(r) \/ \E pictures \in BOOLEAN : Skip(r, pictures)
<1>1. PICK o \in Run : Start(o) \/ RunStep(o)
  BY StepCases DEF Succeeds, GameStep, Play, ChangeProfile, vars
<1>2. RunStep(o)
  <2>. SUFFICES ASSUME Start(o) PROVE FALSE
    BY <1>1
  <2>1. run'[r].client \in {run[r].client, "scraping", "asking"}
    <3>1. CASE r = o
      <4>1. run'[r] = [run[r] EXCEPT
                         !.client = IF forceFull[DeviceOf[r]] THEN "scraping" ELSE "asking",
                         !.alone = \A u \in Run : ~Active(u)]
        BY <3>1 DEF Start
      <4>. QED  BY <4>1, RunForm
    <3>2. CASE r # o
      <4>1. run'[r] = [run[r] EXCEPT !.alone = @ /\ ~Active(r)]
        BY <3>2 DEF Start
      <4>. QED  BY <4>1, RunForm
    <3>. QED  BY <3>1, <3>2
  <2>. QED  BY <2>1 DEF Succeeds
<1>3. o = r
  BY <1>2, Frame DEF Succeeds
<1>. QED  BY <1>2, <1>3, StepMoves DEF Moves, Succeeds

\* A run that had the server to itself and succeeds leaves what it found in the
\* latest snapshot, after however many lost answers, failed reads and inserts of
\* the runs before it, while the texts of the times are in order.
THEOREM SuccessCorrect == Spec => SuccessShowsScrape
<1>. DEFINE Shown == \A r \in Run :
       InOrder /\ Succeeds(r) /\ run[r].alone /\ ~run[r].unread =>
          /\ \A k \in DOMAIN run[r].scraped.rows :
                /\ k \in DOMAIN latest'.payload.rows
                /\ latest'.payload.rows[k] = run[r].scraped.rows[k]
          /\ run[r].scraped.profile \in {NoProfile, latest'.payload.profile}
<1>1. Inv /\ [Next]_vars => [Shown]_vars
  <2>. SUFFICES ASSUME Inv, [Next]_vars, NEW r \in Run, InOrder, Succeeds(r),
                       run[r].alone, ~run[r].unread
                PROVE  Covers(latest'.payload, r)
    BY DEF Covers
  <2>. USE DEF Inv, BaseInv, OrderedInv
  <2>1. CASE Sent(r)
    <3>1. latest' = latest /\ run[r].client = "waiting" /\ run[r].request = "saved"
      BY <2>1 DEF Sent, server, table
    <3>. QED  BY <3>1 DEF OwnWork
  <2>2. ASSUME NEW pictures \in BOOLEAN, Skip(r, pictures) PROVE Covers(latest'.payload, r)
    <3>1. /\ run[r].client = "comparing" /\ Partial(r) /\ latest' = latest
          /\ run[r].scraped.profile = run[r].prev.profile
      BY <2>2 DEF Skip, ProfileRelatedChanged, server, table
    <3>2. run[r].prev = latest.payload
      BY <3>1 DEF OwnWork
    <3>3. \A k \in DOMAIN run[r].scraped.rows :
             k \in DOMAIN run[r].prev.rows /\ run[r].prev.rows[k] = run[r].scraped.rows[k]
      BY <2>2 DEF Skip, ChangedRows
    <3>. QED  BY <3>1, <3>2, <3>3 DEF Covers
  <2>. QED  BY <2>1, <2>2, SuccessCases
<1>. QED  BY <1>1, InvCorrect, PTL DEF Spec, SuccessShowsScrape

\* A run that had the server to itself and takes the flag down has replaced the
\* latest snapshot by exactly what it found: what partial payloads and runs
\* without a catalogue left behind is gone, while the texts of the times are in
\* order.
THEOREM FullCorrect == Spec => FullSyncIsExact
<1>. DEFINE Exact == \A r \in Run :
       /\ InOrder /\ Succeeds(r) /\ run[r].alone
       /\ forceFull[DeviceOf[r]] /\ ~forceFull'[DeviceOf[r]]
       => latest'.payload.rows = run[r].scraped.rows
<1>1. Inv /\ [Next]_vars => [Exact]_vars
  <2>. SUFFICES ASSUME Inv, [Next]_vars, NEW r \in Run, InOrder, Succeeds(r),
                       forceFull[DeviceOf[r]], ~forceFull'[DeviceOf[r]], run[r].alone
                PROVE  latest'.payload.rows = run[r].scraped.rows
    OBVIOUS
  <2>. USE DEF Inv, BaseInv, OrderedInv
  <2>1. Sent(r)
    <3>1. \A pictures \in BOOLEAN : Skip(r, pictures) => UNCHANGED forceFull
      BY DEF Skip
    <3>. QED  BY <3>1, SuccessCases
  <2>2. /\ latest' = latest /\ run[r].client = "waiting" /\ run[r].request = "saved"
        /\ ~Partial(r)
    BY <2>1 DEF Sent, server, table, TypeOK
  <2>3. ~run[r].unread
    BY <2>2 DEF InStep
  <2>4. Covers(latest.payload, r)
    BY <2>2, <2>3 DEF OwnWork
  <2>. QED  BY <2>2, <2>4 DEF Covers
<1>. QED  BY <1>1, InvCorrect, PTL DEF Spec, FullSyncIsExact

-----------------------------------------------------------------------------
(* The rows that a merge keeps. *)

RowsInv == \A r \in Run : KeepsRows(r)

LEMMA SelfKeepsRows ==
    ASSUME BaseInv, RowsInv, NEW r \in Run, RunStep(r)
    PROVE  KeepsRows(r)'
<1>. USE RunForm DEF BaseInv, RowsInv, Becomes
<1>0. /\ run'[r].alone = run[r].alone
      /\ InStep(r) /\ KeepsRows(r)
      /\ Insert(r) \/ latest' = latest
  BY Frame DEF table
<1>1. CASE FetchPrevious(r)
  <2>1. run'[r] = [run[r] EXCEPT !.client = "scraping", !.prev = latest.payload]
    BY <1>1 DEF FetchPrevious
  <2>2. run[r].request = "none"
    BY <1>0, <1>1 DEF FetchPrevious, InStep
  <2>. QED  BY <2>1, <2>2 DEF KeepsRows
<1>2. CASE FetchFails(r)
  <2>1. run'[r] = [run[r] EXCEPT !.client = "scraping"]
    BY <1>2 DEF FetchFails
  <2>2. run[r].request = "none"
    BY <1>0, <1>2 DEF FetchFails, InStep
  <2>. QED  BY <2>1, <2>2 DEF KeepsRows
<1>3. CASE Scrape(r)
  <2>1. PICK s : run'[r] = [run[r] EXCEPT !.client = "comparing", !.scraped = s]
    BY <1>3 DEF Scrape
  <2>2. run[r].request = "none"
    BY <1>0, <1>3 DEF Scrape, InStep
  <2>. QED  BY <2>1, <2>2 DEF KeepsRows
<1>4. CASE GiveUp(r)
  <2>1. run'[r] = [run[r] EXCEPT !.client = "failed", !.prev = NoPayload, !.scraped = NoPayload]
    BY <1>4 DEF GiveUp, Ending
  <2>2. run[r].request = "none"
    BY <1>0, <1>4 DEF GiveUp, InStep
  <2>. QED  BY <2>1, <2>2 DEF KeepsRows
<1>5. ASSUME NEW pictures \in BOOLEAN, Skip(r, pictures) PROVE KeepsRows(r)'
  <2>1. run'[r] = [run[r] EXCEPT !.client = "skipped", !.prev = NoPayload, !.scraped = NoPayload]
    BY <1>5 DEF Skip, Ending
  <2>2. run[r].request = "none"
    BY <1>0, <1>5 DEF Skip, InStep
  <2>. QED  BY <2>1, <2>2 DEF KeepsRows
<1>6. ASSUME NEW pictures \in BOOLEAN, Send(r, pictures) PROVE KeepsRows(r)'
  <2>1. run'[r].request = Received(Partial(r)) /\ run'[r].partial = Partial(r)
    BY <1>6, SendEffect
  <2>. QED  BY <2>1 DEF KeepsRows, Received
<1>7. CASE ReadLatest(r)
  <2>. DEFINE p == IF latest = NoSnapshot THEN run[r].payload
                   ELSE MergeSnapshotPayload(latest.payload, run[r].payload)
  <2>1. run'[r] = [run[r] EXCEPT !.request = "ready", !.payload = p] /\ latest' = latest
    BY <1>7 DEF ReadLatest, server, table
  <2>2. latest.payload.rows \in Rows /\ run[r].payload.rows \in Rows
    BY DEF TypeOK, Snapshot, RunState, Payload
  <2>3. DOMAIN p.rows # {} => DOMAIN latest.payload.rows \subseteq DOMAIN p.rows
    <3>1. CASE latest = NoSnapshot
      BY <3>1, NoRowsTyped DEF NoSnapshot, NoPayload
    <3>2. CASE latest # NoSnapshot /\ DOMAIN run[r].payload.rows = {}
      BY <3>2 DEF MergeSnapshotPayload, MergeRows
    <3>3. CASE latest # NoSnapshot /\ DOMAIN run[r].payload.rows # {}
      <4>1. DOMAIN MergeRows(latest.payload.rows, run[r].payload.rows)
              = DOMAIN latest.payload.rows \cup DOMAIN run[r].payload.rows
        BY <2>2, <3>3, MergeKeeps, Zenon
      <4>. QED  BY <3>3, <4>1 DEF MergeSnapshotPayload
    <3>. QED  BY <3>1, <3>2, <3>3
  <2>. HIDE DEF p
  <2>4. run'[r].payload = p
    BY <2>1
  <2>. QED  BY <2>1, <2>3, <2>4 DEF KeepsRows
<1>8. CASE ReadLatestFails(r)
  <2>1. run'[r] = [run[r] EXCEPT !.request = "ready", !.unread = TRUE]
    BY <1>8 DEF ReadLatestFails
  <2>. QED  BY <2>1 DEF KeepsRows
<1>9. CASE Stamp(r)
  <2>1. latest' = latest
    BY <1>9 DEF Stamp, table
  <2>. QED  BY <1>0, <1>9, <2>1, StampEffect DEF KeepsRows
<1>10. CASE Insert(r) \/ InsertFails(r)
  <2>1. PICK how \in {"saved", "failed"} :
          run'[r] = [run[r] EXCEPT !.request = how, !.payload = NoPayload, !.partial = FALSE, !.at = 0]
    BY <1>10 DEF Insert, InsertFails, Answering
  <2>. QED  BY <2>1 DEF KeepsRows
<1>11. CASE Sent(r) \/ Refused(r) \/ NoAnswer(r)
  <2>1. PICK how \in {"sent", "failed"} :
          run'[r] = [run[r] EXCEPT !.client = how, !.prev = NoPayload, !.scraped = NoPayload]
    BY <1>11 DEF Sent, Refused, NoAnswer, Ending
  <2>2. latest' = latest
    BY <1>11 DEF Sent, Refused, NoAnswer, server, table
  <2>. QED  BY <1>0, <2>1, <2>2 DEF KeepsRows
<1>. QED
  BY <1>1, <1>2, <1>3, <1>4, <1>5, <1>6, <1>7, <1>8, <1>9, <1>10, <1>11 DEF RunStep

LEMMA StepKeepsRows ==
    ASSUME BaseInv, RowsInv, [Next]_vars
    PROVE  RowsInv'
<1>. USE DEF BaseInv
<1>. SUFFICES ASSUME NEW u \in Run PROVE KeepsRows(u)'
  BY DEF RowsInv
<1>1. CASE GameStep \/ UNCHANGED vars
  BY <1>1 DEF RowsInv, KeepsRows, GameStep, Play, ChangeProfile, server, table, vars
<1>2. ASSUME NEW r \in Run, Start(r) PROVE KeepsRows(u)'
  <2>1. latest' = latest
    BY <1>2 DEF Start, server, table
  <2>2. CASE u = r
    <3>1. run'[r].request = run[r].request
      <4>1. run'[r] = [run[r] EXCEPT
                         !.client = IF forceFull[DeviceOf[r]] THEN "scraping" ELSE "asking",
                         !.alone = \A o \in Run : ~Active(o)]
        BY <1>2, RunForm DEF Start
      <4>. QED  BY <4>1, RunForm
    <3>2. run[r].request = "none"
      BY <1>2 DEF Start, InStep
    <3>. QED  BY <2>2, <3>1, <3>2 DEF KeepsRows
  <2>3. CASE u # r
    <3>. DEFINE a == run[u].alone /\ ~Active(u)
    <3>1. run'[u] = [run[u] EXCEPT !.alone = a]
      BY <1>2, <2>3, RunForm DEF Start
    <3>2. a => ~Active(u)
      OBVIOUS
    <3>. HIDE DEF a
    <3>3. run'[u].request = run[u].request /\ run'[u].alone = a
      BY <3>1, RunForm
    <3>. QED  BY <3>2, <3>3 DEF KeepsRows, Active
  <2>. QED  BY <2>2, <2>3
<1>3. ASSUME NEW r \in Run, RunStep(r) PROVE KeepsRows(u)'
  <2>1. CASE u = r
    BY <1>3, <2>1, SelfKeepsRows
  <2>2. CASE u # r
    <3>1. run'[u] = run[u] /\ Active(r)
      BY <1>3, <2>2, Frame
    <3>2. run[u].alone => ~Active(u)
      BY <2>2, <3>1 DEF OthersRest
    <3>. QED  BY <3>1, <3>2 DEF RowsInv, KeepsRows, Active
  <2>. QED  BY <2>1, <2>2
<1>. QED  BY <1>1, <1>2, <1>3, StepCases

\* A partial payload of a run that had the server to itself, and that is not empty
\* of rows, takes no row away, whatever the texts of the times are.
THEOREM PartialCorrect == Spec => PartialKeepsRows
<1>. DEFINE Keeps == \A r \in Run :
       StoresPartial(r) /\ DOMAIN run[r].payload.rows # {} =>
          DOMAIN latest.payload.rows \subseteq DOMAIN latest'.payload.rows
<1>1. Init => RowsInv
  BY DEF Init, RowsInv, KeepsRows
<1>2. Inv /\ RowsInv /\ [Next]_vars => RowsInv'
  BY StepKeepsRows DEF Inv
<1>3. Inv /\ RowsInv /\ [Next]_vars => [Keeps]_vars
  <2>. SUFFICES ASSUME Inv, RowsInv, [Next]_vars, NEW r \in Run,
                       run[r].request = "stamped", run[r].partial, run[r].alone,
                       ~run[r].unread, DOMAIN run[r].payload.rows # {}
                PROVE  DOMAIN latest.payload.rows \subseteq DOMAIN latest'.payload.rows
    BY DEF StoresPartial
  <2>. USE DEF Inv, BaseInv
  <2>1. CASE latest' = latest
    BY <2>1
  <2>2. ASSUME NEW o \in Run, Insert(o)
        PROVE  DOMAIN latest.payload.rows \subseteq DOMAIN latest'.payload.rows
    <3>1. o = r
      BY <2>2 DEF Insert, OthersRest, Active
    <3>2. latest' = latest \/ latest'.payload = run[r].payload
      BY <2>2, <3>1 DEF Insert
    <3>. QED  BY <3>2 DEF RowsInv, KeepsRows
  <2>3. latest' = latest \/ \E o \in Run : Insert(o)
    <3>1. ASSUME NEW o \in Run, RunStep(o) PROVE Insert(o) \/ latest' = latest
      BY <3>1, Frame DEF table
    <3>. QED
      BY <3>1, StepCases DEF Start, GameStep, Play, ChangeProfile, server, table, vars
  <2>. QED  BY <2>1, <2>2, <2>3
<1>. QED  BY <1>1, <1>2, <1>3, InvCorrect, PTL DEF Spec, PartialKeepsRows

=============================================================================
