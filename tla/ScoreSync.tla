------------------------------ MODULE ScoreSync ------------------------------
(***************************************************************************)
(* The way of a user's scores into the database: runs of the bookmarklet   *)
(* (bookmarklet/src/main.ts, runOngekiFetch of ongekiFetch.ts) and the     *)
(* requests they make, handleMe and handleIngest of                        *)
(* backend/cmd/server/main.go over SaveSnapshot and LatestSnapshot of      *)
(* backend/internal/store/store.go.                                        *)
(*                                                                         *)
(* A run asks for the latest snapshot, reads the pages of the game for     *)
(* minutes, and sends the rows that differ from the snapshot it was given, *)
(* which the server merges into the one that is the latest by then.  After *)
(* such a partial payload a flag in the browser makes the next run send    *)
(* everything.  Runs overlap, in several tabs and on several devices; an   *)
(* answer may be lost while the server goes on with the request.           *)
(*                                                                         *)
(* Scores are numbers that grow; the profile is one value, and whether a   *)
(* picture differs is an input.  A row is filed under its chart and        *)
(* whether it carries a music_ex_id: rowKey takes the id if there is one   *)
(* and name, difficulty and level otherwise, so that one chart may have    *)
(* both.  No two charts share all of name, difficulty and level here.      *)
(***************************************************************************)
EXTENDS Naturals, Sequences, FiniteSets

CONSTANTS
    Chart,
    Played,         \* the charts that are still played
    Run,            \* the runs of the bookmarklet, each begins once
    Device,         \* the browsers, each with a local storage
    DeviceOf,       \* per run, its browser
    MaxScore,
    MaxProfile,     \* the profiles the player has, one after the other
    NoProfile,      \* the pages with the profile could not be read
    NoRun,
    Pages,          \* the sets of charts that a run may find on the pages
    Catalogues,     \* the sets of charts that may be given an id
    Instants,       \* the values of the server's clock, in nanoseconds
    MaxFailures,    \* how many steps fail
    MaxActive       \* how many runs overlap

ASSUME ScoreSyncAssumption ==
    /\ DeviceOf \in [Run -> Device]
    /\ Played \subseteq Chart
    /\ MaxScore \in Nat
    /\ MaxProfile \in Nat
    /\ NoProfile \notin Nat
    /\ NoRun \notin Run
    /\ Pages \subseteq SUBSET Chart
    /\ Catalogues \subseteq SUBSET Chart
    /\ Instants \subseteq Nat \ {0}
    /\ MaxFailures \in Nat
    /\ MaxActive \in Nat

VARIABLES
    game,           \* per chart, the score the game has
    profile,        \* the profile the game has
    forceFull,      \* per device, FORCE_FULL_NEXT_KEY in its local storage
    run,            \* per run, where the bookmarklet and its request are
    latest,         \* the row that LatestSnapshot finds
    newest,         \* the greatest created_at in the table (history)
    taken,          \* the times the server took (history)
    failures        \* how many steps failed, for the bound on them

vars == <<game, profile, forceFull, run, latest, newest, taken, failures>>

table == <<latest, newest>>
server == <<table, taken>>
world == <<game, profile>>

-----------------------------------------------------------------------------
(* Payloads.  The rows are a function from keys to scores, the part of a    *)
(* row that the comparison looks at.                                        *)

Key == Chart \X BOOLEAN
Rows == UNION {[K -> 0 .. MaxScore] : K \in SUBSET Key}
NoRows == [k \in {} |-> 0]

ProfileOrNone == 0 .. MaxProfile \cup {NoProfile}

Payload == [rows : Rows, profile : ProfileOrNone]
NoPayload == [rows |-> NoRows, profile |-> NoProfile]

\* A row of the table: the run that sent it, its created_at, its payload, and
\* whether that came as a partial one.
Snapshot == [by : Run \cup {NoRun}, at : Nat, payload : Payload, partial : BOOLEAN]
NoSnapshot == [by |-> NoRun, at |-> 0, payload |-> NoPayload, partial |-> FALSE]

\* RFC3339Nano leaves out the zeros at the end of its nine digits: the text of
\* a has none of the digits in which b, a little later, differs from it ...
Hides(a, b) == a < b /\ \E k \in 1 .. 9 : a % 10 ^ k = 0 /\ b - a < 10 ^ k

\* ... and ends in the 'Z', which sorts after every digit and after the point.
TextAfter(a, b) == Hides(a, b) \/ (a > b /\ ~Hides(b, a))

\* Mutant: the incoming rows replace the previous ones.
MergeRowsNot(prev, incoming) == incoming

\* Incoming rows replace those of the same key, unless one of the two has none:
\* then the incoming rows are taken as they are.
MergeRows(prev, incoming) ==
    IF DOMAIN prev = {} \/ DOMAIN incoming = {}
    THEN incoming
    ELSE [k \in DOMAIN prev \cup DOMAIN incoming |->
             IF k \in DOMAIN incoming THEN incoming[k] ELSE prev[k]]

\* Every other key of the payload is replaced when it is there.
MergeSnapshotPayload(prev, incoming) ==
    [rows    |-> MergeRows(prev.rows, incoming.rows),
     profile |-> IF incoming.profile = NoProfile THEN prev.profile ELSE incoming.profile]

\* Mutant: only rows that are new count as changed.
ChangedRowsNew(current, prev) ==
    [k \in {j \in DOMAIN current : j \notin DOMAIN prev} |-> current[k]]

\* The rows that the snapshot lacks or has with another score.
ChangedRows(current, prev) ==
    [k \in {j \in DOMAIN current : ~(j \in DOMAIN prev /\ prev[j] = current[j])} |->
         current[k]]

\* A chart for which neither the catalogue nor its page has an id, and every
\* chart when there is no catalogue, has a row without one.
CombinedRows(charts, known) ==
    [k \in {<<c, c \in known>> : c \in charts} |-> game[k[1]]]

-----------------------------------------------------------------------------
(* A run of the bookmarklet, and what became of its request.                *)

ClientState == {"new", "asking", "scraping", "comparing", "waiting",
                "sent", "skipped", "failed"}
RequestState == {"none", "merging", "ready", "stamped", "saved", "failed"}

RunState ==
    [client : ClientState, request : RequestState,
     prev : Payload,            \* previousPayload
     scraped : Payload,         \* rows and playerProfile
     payload : Payload,         \* what the request stores
     partial : BOOLEAN,         \* its full_snapshot is false
     at : Nat,                  \* the time the server took for it
     alone : BOOLEAN,           \* nothing of another run went on meanwhile (history)
     unread : BOOLEAN]          \* the server could not read the latest (history)

Ended == {"sent", "skipped", "failed"}

\* The previous snapshot has rows: the payload is a partial one.
Partial(r) == DOMAIN run[r].prev.rows # {}

Becomes(r, state) == run' = [run EXCEPT ![r] = state]

Active(r) ==
    \/ run[r].client \notin {"new"} \cup Ended
    \/ run[r].request \in {"merging", "ready", "stamped"}

Init ==
    /\ game = [c \in Chart |-> 0]
    /\ profile = 0
    /\ forceFull = [d \in Device |-> FALSE]
    /\ run = [r \in Run |->
          [client |-> "new", request |-> "none", prev |-> NoPayload,
           scraped |-> NoPayload, payload |-> NoPayload,
           partial |-> FALSE, at |-> 0, alone |-> FALSE, unread |-> FALSE]]
    /\ latest = NoSnapshot
    /\ newest = 0
    /\ taken = {}
    /\ failures = 0

Failure ==
    /\ failures < MaxFailures
    /\ failures' = failures + 1

\* The player gets a better score.
Play(c) ==
    /\ game[c] < MaxScore
    /\ game' = [game EXCEPT ![c] = @ + 1]
    /\ UNCHANGED <<profile, forceFull, run, server, failures>>

ChangeProfile ==
    /\ profile < MaxProfile
    /\ profile' = profile + 1
    /\ UNCHANGED <<game, forceFull, run, server, failures>>

\* The run begins and reads the flag: if it is up the latest is not asked for.
Start(r) ==
    /\ run[r].client = "new"
    /\ Cardinality({o \in Run : Active(o)}) < MaxActive
    /\ run' = [u \in Run |->
          IF u = r
          THEN [run[r] EXCEPT
                   !.client = IF forceFull[DeviceOf[r]] THEN "scraping" ELSE "asking",
                   !.alone = \A o \in Run : ~Active(o)]
          ELSE [run[u] EXCEPT !.alone = @ /\ ~Active(u)]]
    /\ UNCHANGED <<world, forceFull, server, failures>>

\* fetchPreviousPayload: last_payload of handleMe, null when there is none.
FetchPrevious(r) ==
    /\ run[r].client = "asking"
    /\ Becomes(r, [run[r] EXCEPT !.client = "scraping", !.prev = latest.payload])
    /\ UNCHANGED <<world, forceFull, server, failures>>

\* Its errors are swallowed: the run goes on as if there were no snapshot.
FetchFails(r) ==
    /\ run[r].client = "asking"
    /\ Becomes(r, [run[r] EXCEPT !.client = "scraping"])
    /\ Failure
    /\ UNCHANGED <<world, forceFull, server>>

\* What the pages give: the charts that are on them, those in known with an id,
\* and the profile.  A page of scores that is an error page is one without
\* rows; without a catalogue the run goes on, as it does without a profile.
Scrape(r) ==
    /\ run[r].client = "scraping"
    /\ \E charts \in Pages, known \in Catalogues, found \in {profile, NoProfile} :
          /\ Becomes(r, [run[r] EXCEPT
                 !.client = "comparing",
                 !.scraped = [rows |-> CombinedRows(charts, known), profile |-> found]])
          /\ IF <<charts, known, found>> = <<Chart, Chart, profile>>
             THEN UNCHANGED failures
             ELSE Failure
    /\ UNCHANGED <<world, forceFull, server>>

Ending(r, how) == [run[r] EXCEPT !.client = how, !.prev = NoPayload, !.scraped = NoPayload]

\* No course, a page that is an HTTP error, a closed tab.
GiveUp(r) ==
    /\ run[r].client \in {"asking", "scraping", "comparing"}
    /\ Becomes(r, Ending(r, "failed"))
    /\ Failure
    /\ UNCHANGED <<world, forceFull, server>>

\* Mutant: a new profile alone is not looked at.
ProfileRelatedUnseen(r, pictures) == pictures

\* The profile differs, or one of the pictures does.
ProfileRelatedChanged(r, pictures) ==
    run[r].scraped.profile # run[r].prev.profile \/ pictures

\* Nothing differs: nothing is sent.
Skip(r, pictures) ==
    /\ run[r].client = "comparing"
    /\ Partial(r)
    /\ DOMAIN ChangedRows(run[r].scraped.rows, run[r].prev.rows) = {}
    /\ ~ProfileRelatedChanged(r, pictures)
    /\ Becomes(r, Ending(r, "skipped"))
    /\ UNCHANGED <<world, forceFull, server, failures>>

\* Without a snapshot to compare with all rows are sent, and so they are when
\* only the profile differs.
Outgoing(r) ==
    LET rows    == run[r].scraped.rows
        changed == ChangedRows(rows, run[r].prev.rows)
    IN  [rows    |-> IF ~Partial(r) \/ DOMAIN changed = {} THEN rows ELSE changed,
         profile |-> run[r].scraped.profile]

\* Mutant: full payloads are merged too.
ReceivedMerging(partial) == "merging"

\* shouldMergePartial: a payload that says it is not a full one is merged.
Received(partial) == IF partial THEN "merging" ELSE "ready"

Send(r, pictures) ==
    /\ run[r].client = "comparing"
    /\ Partial(r) => \/ DOMAIN ChangedRows(run[r].scraped.rows, run[r].prev.rows) # {}
                     \/ ProfileRelatedChanged(r, pictures)
    /\ Becomes(r, [run[r] EXCEPT !.client = "waiting", !.request = Received(Partial(r)),
                                 !.payload = Outgoing(r), !.partial = Partial(r)])
    /\ UNCHANGED <<world, forceFull, server, failures>>

-----------------------------------------------------------------------------
(* SaveSnapshot, in the goroutine of the request.                           *)

ReadLatest(r) ==
    /\ run[r].request = "merging"
    /\ Becomes(r, [run[r] EXCEPT
          !.request = "ready",
          !.payload = IF latest = NoSnapshot THEN @
                      ELSE MergeSnapshotPayload(latest.payload, @)])
    /\ UNCHANGED <<world, forceFull, server, failures>>

\* The error is ignored, and the partial payload is stored as it came.
ReadLatestFails(r) ==
    /\ run[r].request = "merging"
    /\ Becomes(r, [run[r] EXCEPT !.request = "ready", !.unread = TRUE])
    /\ Failure
    /\ UNCHANGED <<world, forceFull, table, taken>>

\* The time is taken before the insert waits for the connection.
Stamp(r) ==
    /\ run[r].request = "ready"
    /\ \E now \in Instants :
          /\ \A t \in taken : t < now
          /\ taken' = taken \cup {now}
          /\ Becomes(r, [run[r] EXCEPT !.request = "stamped", !.at = now])
    /\ UNCHANGED <<world, forceFull, table, failures>>

Answering(r, how) ==
    [run[r] EXCEPT !.request = how, !.payload = NoPayload, !.partial = FALSE, !.at = 0]

\* Mutant: the oldest row is found.
InsertAscending(r) ==
    /\ run[r].request = "stamped"
    /\ latest' = IF latest = NoSnapshot \/ TextAfter(latest.at, run[r].at)
                 THEN [by |-> r, at |-> run[r].at, payload |-> run[r].payload,
                       partial |-> run[r].partial]
                 ELSE latest
    /\ newest' = IF run[r].at > newest THEN run[r].at ELSE newest
    /\ Becomes(r, Answering(r, "saved"))
    /\ UNCHANGED <<world, forceFull, taken, failures>>

\* The new row is the latest if its created_at is the greatest text: that is
\* what ORDER BY created_at DESC LIMIT 1 compares.  No row is ever removed.
Insert(r) ==
    /\ run[r].request = "stamped"
    /\ latest' = IF latest = NoSnapshot \/ TextAfter(run[r].at, latest.at)
                 THEN [by |-> r, at |-> run[r].at, payload |-> run[r].payload,
                       partial |-> run[r].partial]
                 ELSE latest
    /\ newest' = IF run[r].at > newest THEN run[r].at ELSE newest
    /\ Becomes(r, Answering(r, "saved"))
    /\ UNCHANGED <<world, forceFull, taken, failures>>

\* The statement fails, or the server dies before it.
InsertFails(r) ==
    /\ run[r].request = "stamped"
    /\ Becomes(r, Answering(r, "failed"))
    /\ Failure
    /\ UNCHANGED <<world, forceFull, server>>

-----------------------------------------------------------------------------
(* The bookmarklet gets its answer, or none.                                *)

\* Mutant: the flag is taken down, never put up.
SentForgets(r) ==
    /\ run[r].client = "waiting"
    /\ run[r].request = "saved"
    /\ Becomes(r, Ending(r, "sent"))
    /\ forceFull' = [forceFull EXCEPT ![DeviceOf[r]] = FALSE]
    /\ UNCHANGED <<world, server, failures>>

Sent(r) ==
    /\ run[r].client = "waiting"
    /\ run[r].request = "saved"
    /\ Becomes(r, Ending(r, "sent"))
    /\ forceFull' = [forceFull EXCEPT ![DeviceOf[r]] = Partial(r)]
    /\ UNCHANGED <<world, server, failures>>

\* The server answers with an error.
Refused(r) ==
    /\ run[r].client = "waiting"
    /\ run[r].request = "failed"
    /\ Becomes(r, Ending(r, "failed"))
    /\ UNCHANGED <<world, forceFull, server, failures>>

\* An error of the network, or a closed tab: the request may be anywhere, and
\* goes on.
NoAnswer(r) ==
    /\ run[r].client = "waiting"
    /\ Becomes(r, Ending(r, "failed"))
    /\ Failure
    /\ UNCHANGED <<world, forceFull, server>>

Next ==
    \/ \E c \in Played : Play(c)
    \/ ChangeProfile
    \/ \E r \in Run :
          \/ Start(r) \/ FetchPrevious(r) \/ FetchFails(r)
          \/ Scrape(r) \/ GiveUp(r)
          \/ \E pictures \in BOOLEAN : Skip(r, pictures) \/ Send(r, pictures)
          \/ ReadLatest(r) \/ ReadLatestFails(r)
          \/ Stamp(r) \/ Insert(r) \/ InsertFails(r)
          \/ Sent(r) \/ Refused(r) \/ NoAnswer(r)

Spec == Init /\ [][Next]_vars

-----------------------------------------------------------------------------
(* Properties.                                                              *)

\* The state has the shape that the types of the code give it.
TypeOK ==
    /\ game \in [Chart -> 0 .. MaxScore]
    /\ profile \in 0 .. MaxProfile
    /\ forceFull \in [Device -> BOOLEAN]
    /\ run \in [Run -> RunState]
    /\ latest \in Snapshot
    /\ newest \in Nat
    /\ taken \subseteq Instants
    /\ failures \in 0 .. MaxFailures

Succeeds(r) ==
    /\ run[r].client \notin {"sent", "skipped"}
    /\ run'[r].client \in {"sent", "skipped"}

\* No text of a time taken so far hides a later one, which takes two that are
\* some nanoseconds apart, or the first of them ending in many zeros.
InOrder == \A a, b \in taken : ~Hides(a, b)

\* Whatever went wrong before, a run that had the server to itself and tells
\* the user that it sent the scores, or that there was nothing to send, leaves
\* every row and the profile that it found in the snapshot that the site shows.
\* The exceptions are a partial payload whose predecessor could not be read, and
\* times whose texts are in another order than they are.
SuccessShowsScrape ==
    [][\A r \in Run : InOrder /\ Succeeds(r) /\ run[r].alone /\ ~run[r].unread =>
          /\ \A k \in DOMAIN run[r].scraped.rows :
                /\ k \in DOMAIN latest'.payload.rows
                /\ latest'.payload.rows[k] = run[r].scraped.rows[k]
          /\ run[r].scraped.profile \in {NoProfile, latest'.payload.profile}]_vars

\* A partial payload is stored for a run that had the server to itself.
StoresPartial(r) ==
    /\ run[r].request = "stamped" /\ run'[r].request = "saved"
    /\ run[r].partial /\ run[r].alone /\ ~run[r].unread

\* The site does not lose a chart to a payload that holds only changes: what is
\* stored for a run that had the server to itself has all the rows of before,
\* or, when the run found no rows at all, none.
PartialKeepsRows ==
    [][\A r \in Run : StoresPartial(r) /\ DOMAIN run[r].payload.rows # {} =>
          DOMAIN latest.payload.rows \subseteq DOMAIN latest'.payload.rows]_vars

\* "Only the updates are sent" (bookmarklet/src/main.ts:857): a payload without
\* updates takes no chart away either.
UpdatesKeepRows ==
    [][\A r \in Run : StoresPartial(r) =>
          DOMAIN latest.payload.rows \subseteq DOMAIN latest'.payload.rows]_vars

\* What a merge leaves behind goes away: while a partial payload of a run that
\* had the server to itself is the latest snapshot, and the run got its answer,
\* the flag of its browser is up, so that the next run there sends everything.
\* The texts of the times have to be in their order.
PartialIsFollowedByFull ==
    InOrder /\ latest.by # NoRun =>
        LET r == run[latest.by]
        IN  latest.partial /\ r.alone /\ r.client = "sent"
            => forceFull[DeviceOf[latest.by]]

\* ... and a run that takes the flag down, and had the server to itself, leaves
\* exactly what it found: no row that a merge kept, and none of the rows without
\* an id that an earlier run sent without a catalogue.
FullSyncIsExact ==
    [][\A r \in Run :
          /\ InOrder /\ Succeeds(r) /\ run[r].alone
          /\ forceFull[DeviceOf[r]] /\ ~forceFull'[DeviceOf[r]]
          => latest'.payload.rows = run[r].scraped.rows]_vars

\* LatestSnapshot finds the most recent snapshot of the user, as the comment
\* above it says (backend/internal/store/store.go:496).
FindsMostRecent == latest.at = newest

\* It does, in whatever order the requests insert, as long as the texts of the
\* times taken are in the order of the times.
LatestIsNewest == InOrder => FindsMostRecent

=============================================================================
