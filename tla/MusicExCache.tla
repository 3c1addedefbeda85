---------------------------- MODULE MusicExCache ----------------------------
(***************************************************************************)
(* The song catalogue the server keeps in memory                           *)
(* (backend/cmd/server/music_ex.go) and the goroutines that share it: the  *)
(* refresher, which fetches the raw body from upstream once a day and at   *)
(* start; the watcher, which polls the override file's mtime once a        *)
(* minute; the merge requests of module OverridesFile; and the requests    *)
(* that call Snapshot for an index of the catalogue.                       *)
(*                                                                         *)
(* c.mu protects single reads and writes, never a whole operation, so the  *)
(* steps below are the critical sections and the system calls between      *)
(* them.  applyOverrides, the one operation that three kinds of goroutine  *)
(* run, reads rawBody, stats the override file, loads it, and publishes    *)
(* the merged body and the new-song versions in two separate sections.     *)
(*                                                                         *)
(* A body stands for its bytes, and for its hash and ETag with them.       *)
(***************************************************************************)
EXTENDS OverridesFile

CONSTANTS
    Body,           \* the catalogues upstream can publish
    Unmergeable,    \* those that are a JSON array but not one of objects
    NoBody,         \* no body, no tag
    Plain,          \* in place of a label: no version split was applied
    Reader,         \* the requests that call Snapshot
    MaxPublishes    \* bound: changes of the body upstream

ASSUME MusicExCacheAssumption ==
    /\ Unmergeable \subseteq Body
    /\ NoBody \notin Body
    /\ NoBody \notin [raw : Body, songs : SUBSET Song, label : Label \cup {Plain}]
    /\ Plain \notin Label
    /\ {"refresh", "watch"} \cap Merger = {}
    /\ MaxPublishes \in Nat

VARIABLES
    upstream,           \* the body upstream serves now
    publishes,          \* changes of it so far
    up,                 \* the server runs
    cacheFile,          \* the disk cache at cachePath
    rawBody,            \* c.rawBody (and c.rawHash)
    remoteTag,          \* c.remoteTag
    mergedBody,         \* c.mergedBody (and c.mergedHash)
    overridesMtime,     \* c.overridesMtime
    newSongVersions,    \* c.newSongVersions
    index,              \* c.snapshotHash and the index stored with it
    refresh,            \* the refresh under way
    watch,              \* the watcher's tick under way
    job,                \* per thread, the applyOverrides call under way
    reader              \* per reader, the Snapshot call under way and its result

cacheVars == <<upstream, publishes, up, cacheFile, rawBody, remoteTag, mergedBody,
               overridesMtime, newSongVersions, index, refresh, watch, job, reader>>

vars == <<fileVars, cacheVars>>

memory == <<rawBody, remoteTag, mergedBody, overridesMtime, newSongVersions, index>>

Thread == {"refresh", "watch"} \cup Merger

\* A catalogue as served: the raw body with overrides and version splits.
Merged == [raw : Body, songs : SUBSET Song, label : Label \cup {Plain}]

AsServed(raw) == [raw |-> raw, songs |-> {}, label |-> Plain]

\* What applyOverrides makes of a raw body and the content of the file: the
\* raw body itself when either of them does not parse.
MergedBody(raw, c) ==
    IF c = Broken \/ raw \in Unmergeable
    THEN AsServed(raw)
    ELSE [raw |-> raw, songs |-> Parsed(c).songs, label |-> Parsed(c).label]

\* The new-song versions that go with it.
Versions(c) == IF c = Broken THEN DefaultLabel ELSE Parsed(c).label

OrNone(S) == S \cup {NoBody}

Job == [at     : {"idle", "raw", "stat", "load", "set", "versions"},
        raw    : OrNone(Body),
        mtime  : Nat,
        merged : OrNone(Merged),
        label  : Label]

NoJob == [at |-> "idle", raw |-> NoBody, mtime |-> 0, merged |-> NoBody,
          label |-> DefaultLabel]

Refresh == [at : {"idle", "sent", "got"}, tag : OrNone(Body), body : OrNone(Body)]

NoRefresh == [at |-> "idle", tag |-> NoBody, body |-> NoBody]

Watch == [at : {"idle", "stat"}, mtime : Nat]

NoWatch == [at |-> "idle", mtime |-> 0]

\* The index stored in the cache: the hash it is filed under, and the body it
\* was built from.
Index == [hash : OrNone(Merged), of : OrNone(Merged)]

NoIndex == [hash |-> NoBody, of |-> NoBody]

\* body: what a Snapshot call is parsing; result: the body whose index the
\* last call returned.
Read == [at : {"idle", "parse"}, body : OrNone(Merged), result : OrNone(Merged)]

NoRead == [at |-> "idle", body |-> NoBody, result |-> NoBody]

TypeOK ==
    /\ FileTypeOK
    /\ upstream \in Body
    /\ publishes \in 0 .. MaxPublishes
    /\ up \in BOOLEAN
    /\ cacheFile \in OrNone(Body)
    /\ rawBody \in OrNone(Body)
    /\ remoteTag \in OrNone(Body)
    /\ mergedBody \in OrNone(Merged)
    /\ overridesMtime \in Nat
    /\ newSongVersions \in Label
    /\ index \in Index
    /\ refresh \in Refresh
    /\ watch \in Watch
    /\ job \in [Thread -> Job]
    /\ reader \in [Reader -> Read]

Init ==
    /\ FileInit
    /\ upstream \in Body
    /\ publishes = 0
    /\ up = FALSE
    /\ cacheFile = NoBody
    /\ rawBody = NoBody
    /\ remoteTag = NoBody
    /\ mergedBody = NoBody
    /\ overridesMtime = 0
    /\ newSongVersions = DefaultLabel
    /\ index = NoIndex
    /\ refresh = NoRefresh
    /\ watch = NoWatch
    /\ job = [t \in Thread |-> NoJob]
    /\ reader = [r \in Reader |-> NoRead]

-----------------------------------------------------------------------------
(* The environment. *)

\* Upstream publishes another catalogue.
Publish(b) ==
    /\ publishes < MaxPublishes
    /\ b # upstream
    /\ upstream' = b
    /\ publishes' = publishes + 1
    /\ UNCHANGED <<fileVars, up, cacheFile, memory, refresh, watch, job, reader>>

\* The process dies.  Its memory is gone; the two files stay.
Crash ==
    /\ up
    /\ FileCrash
    /\ up' = FALSE
    /\ rawBody' = NoBody
    /\ remoteTag' = NoBody
    /\ mergedBody' = NoBody
    /\ overridesMtime' = 0
    /\ newSongVersions' = DefaultLabel
    /\ index' = NoIndex
    /\ refresh' = NoRefresh
    /\ watch' = NoWatch
    /\ job' = [t \in Thread |-> NoJob]
    /\ reader' = [r \in Reader |-> NoRead]
    /\ UNCHANGED <<upstream, publishes, cacheFile>>

\* start: the disk cache is loaded and merged before any goroutine and before
\* the server listens.
Start ==
    /\ ~up
    /\ up' = TRUE
    /\ rawBody' = cacheFile
    /\ IF cacheFile = NoBody
       THEN UNCHANGED <<mergedBody, overridesMtime, newSongVersions>>
       ELSE /\ mergedBody' = MergedBody(cacheFile, file.content)
            /\ overridesMtime' = file.mtime
            /\ newSongVersions' = Versions(file.content)
    /\ UNCHANGED <<fileVars, upstream, publishes, cacheFile, remoteTag, index,
                   refresh, watch, job, reader>>

-----------------------------------------------------------------------------
(* refresh, run by one goroutine at a time: at start, and from then on daily. *)

\* The request is built, conditional on the tag of the body in memory.
RefreshSend ==
    /\ up
    /\ refresh.at = "idle" /\ job["refresh"].at = "idle"
    /\ refresh' = [at |-> "sent", tag |-> remoteTag, body |-> NoBody]
    /\ UNCHANGED <<fileVars, upstream, publishes, up, cacheFile, memory, watch, job, reader>>

\* 200 with a body that is a JSON array.
RefreshGets ==
    /\ refresh.at = "sent"
    /\ refresh.tag # upstream
    /\ refresh' = [refresh EXCEPT !.at = "got", !.body = upstream]
    /\ UNCHANGED <<fileVars, upstream, publishes, up, cacheFile, memory, watch, job, reader>>

\* 304: nothing to do, and applyOverrides is not called either.
RefreshNotModified ==
    /\ refresh.at = "sent"
    /\ refresh.tag = upstream
    /\ refresh' = NoRefresh
    /\ UNCHANGED <<fileVars, upstream, publishes, up, cacheFile, memory, watch, job, reader>>

\* No answer, another status, or a body that is refused.
RefreshFails ==
    /\ refresh.at = "sent"
    /\ refresh' = NoRefresh
    /\ UNCHANGED <<fileVars, upstream, publishes, up, cacheFile, memory, watch, job, reader>>

\* In one critical section a new body is written to disk, by a rename, and
\* becomes rawBody with its tag, which is empty when upstream sent no ETag.
RefreshCommit ==
    /\ refresh.at = "got"
    /\ cacheFile' = IF refresh.body = rawBody THEN cacheFile ELSE refresh.body
    /\ rawBody' = refresh.body
    /\ remoteTag' \in {refresh.body, NoBody}
    /\ refresh' = NoRefresh
    /\ job' = [job EXCEPT !["refresh"].at = "raw"]
    /\ UNCHANGED <<fileVars, upstream, publishes, up, mergedBody, overridesMtime,
                   newSongVersions, index, watch, reader>>

\* Mutants: what could not be written is published all the same; or its tag is.
RefreshCommitFailsKeepsBody ==
    /\ refresh.at = "got"
    /\ refresh.body # rawBody
    /\ rawBody' = refresh.body
    /\ remoteTag' = refresh.body
    /\ refresh' = NoRefresh
    /\ UNCHANGED <<fileVars, upstream, publishes, up, cacheFile, mergedBody,
                   overridesMtime, newSongVersions, index, watch, job, reader>>

RefreshCommitFailsKeepsTag ==
    /\ refresh.at = "got"
    /\ refresh.body # rawBody
    /\ remoteTag' = refresh.body
    /\ refresh' = NoRefresh
    /\ UNCHANGED <<fileVars, upstream, publishes, up, cacheFile, rawBody, mergedBody,
                   overridesMtime, newSongVersions, index, watch, job, reader>>

\* The new body could not be written or renamed: memory stays as it was.
RefreshCommitFails ==
    /\ refresh.at = "got"
    /\ refresh.body # rawBody
    /\ refresh' = NoRefresh
    /\ UNCHANGED <<fileVars, upstream, publishes, up, cacheFile, memory, watch, job, reader>>

-----------------------------------------------------------------------------
(* watchOverrides, one tick. *)

WatchStat ==
    /\ up
    /\ watch.at = "idle" /\ job["watch"].at = "idle"
    /\ watch' = [at |-> "stat", mtime |-> file.mtime]
    /\ UNCHANGED <<fileVars, upstream, publishes, up, cacheFile, memory, refresh, job, reader>>

WatchCompare ==
    /\ watch.at = "stat"
    /\ watch' = NoWatch
    /\ job' = IF watch.mtime = overridesMtime THEN job
              ELSE [job EXCEPT !["watch"].at = "raw"]
    /\ UNCHANGED <<fileVars, upstream, publishes, up, cacheFile, memory, refresh, reader>>

-----------------------------------------------------------------------------
(* applyOverrides, run by thread t. *)

\* The call returns; a merge request is answered then.
ApplyReturn(t) ==
    /\ job' = [job EXCEPT ![t] = NoJob]
    /\ IF t \in Merger THEN MergeReturn(t) ELSE UNCHANGED fileVars

ApplyReadRaw(t) ==
    /\ job[t].at = "raw"
    /\ IF rawBody = NoBody
       THEN ApplyReturn(t)
       ELSE /\ job' = [job EXCEPT ![t].at = "stat", ![t].raw = rawBody]
            /\ UNCHANGED fileVars
    /\ UNCHANGED <<upstream, publishes, up, cacheFile, memory, refresh, watch, reader>>

ApplyStat(t) ==
    /\ job[t].at = "stat"
    /\ job' = [job EXCEPT ![t].at = "load", ![t].mtime = file.mtime]
    /\ UNCHANGED <<fileVars, upstream, publishes, up, cacheFile, memory, refresh, watch, reader>>

ApplyLoad(t) ==
    /\ job[t].at = "load"
    /\ job' = [job EXCEPT ![t].at = "set",
                          ![t].merged = MergedBody(job[t].raw, file.content),
                          ![t].label = Versions(file.content)]
    /\ UNCHANGED <<fileVars, upstream, publishes, up, cacheFile, memory, refresh, watch, reader>>

\* Mutant: the mtime is taken when the result is published, not before the load.
ApplySetMergedLateStat(t) ==
    /\ job[t].at = "set"
    /\ mergedBody' = job[t].merged
    /\ overridesMtime' = file.mtime
    /\ job' = [job EXCEPT ![t].at = "versions"]
    /\ UNCHANGED <<fileVars, upstream, publishes, up, cacheFile, rawBody, remoteTag,
                   newSongVersions, index, refresh, watch, reader>>

\* setMergedBody
ApplySetMerged(t) ==
    /\ job[t].at = "set"
    /\ mergedBody' = job[t].merged
    /\ overridesMtime' = job[t].mtime
    /\ job' = [job EXCEPT ![t].at = "versions"]
    /\ UNCHANGED <<fileVars, upstream, publishes, up, cacheFile, rawBody, remoteTag,
                   newSongVersions, index, refresh, watch, reader>>

\* setNewSongVersions
ApplySetVersions(t) ==
    /\ job[t].at = "versions"
    /\ newSongVersions' = job[t].label
    /\ ApplyReturn(t)
    /\ UNCHANGED <<upstream, publishes, up, cacheFile, rawBody, remoteTag, mergedBody,
                   overridesMtime, index, refresh, watch, reader>>

ApplyStep(t) ==
    \/ ApplyReadRaw(t)
    \/ ApplyStat(t)
    \/ ApplyLoad(t)
    \/ ApplySetMerged(t)
    \/ ApplySetVersions(t)

-----------------------------------------------------------------------------
(* Merge requests, up to their call of applyOverrides, and operator edits. *)

MergeRequest(m) ==
    /\ up
    /\ MergeWork(m)
    /\ job' = [job EXCEPT ![m].at =
                  IF merge[m].at # "apply" /\ merge'[m].at = "apply" THEN "raw" ELSE @]
    /\ UNCHANGED <<upstream, publishes, up, cacheFile, memory, refresh, watch, reader>>

Edit(c) == OperatorEdit(c) /\ UNCHANGED cacheVars

-----------------------------------------------------------------------------
(* Snapshot, called by request r. *)

\* Mutant: any stored index is returned.
SnapshotReadAnyIndex(r) ==
    /\ up
    /\ reader[r].at = "idle"
    /\ reader' = [reader EXCEPT ![r] =
          IF index.hash # NoBody
          THEN [at |-> "idle", body |-> NoBody, result |-> index.of]
          ELSE [at |-> "parse", body |-> mergedBody, result |-> NoBody]]
    /\ UNCHANGED <<fileVars, upstream, publishes, up, cacheFile, memory, refresh, watch, job>>

\* The stored index is current and is returned, or there is no body yet, or
\* the body is taken along to be parsed outside the lock.
SnapshotRead(r) ==
    /\ up
    /\ reader[r].at = "idle"
    /\ reader' = [reader EXCEPT ![r] =
          IF index.hash = mergedBody
          THEN [at |-> "idle", body |-> NoBody, result |-> index.of]
          ELSE [at |-> "parse", body |-> mergedBody, result |-> NoBody]]
    /\ UNCHANGED <<fileVars, upstream, publishes, up, cacheFile, memory, refresh, watch, job>>

\* Mutant: the index is stored under the hash of the moment.
SnapshotStoreCurrentHash(r) ==
    /\ reader[r].at = "parse"
    /\ index' = IF reader[r].body = NoBody THEN index
                ELSE [hash |-> mergedBody, of |-> reader[r].body]
    /\ reader' = [reader EXCEPT ![r] =
          [at |-> "idle", body |-> NoBody, result |-> reader[r].body]]
    /\ UNCHANGED <<fileVars, upstream, publishes, up, cacheFile, rawBody, remoteTag,
                   mergedBody, overridesMtime, newSongVersions, refresh, watch, job>>

\* The index is stored under the hash that was read with the body.
SnapshotStore(r) ==
    /\ reader[r].at = "parse"
    /\ IF reader[r].body = NoBody \/ reader[r].body.raw \in Unmergeable
       THEN UNCHANGED index
       ELSE index' = [hash |-> reader[r].body, of |-> reader[r].body]
    /\ reader' = [reader EXCEPT ![r] =
          [at |-> "idle", body |-> NoBody,
           result |-> IF reader[r].body = NoBody \/ reader[r].body.raw \in Unmergeable
                      THEN NoBody ELSE reader[r].body]]
    /\ UNCHANGED <<fileVars, upstream, publishes, up, cacheFile, rawBody, remoteTag,
                   mergedBody, overridesMtime, newSongVersions, refresh, watch, job>>

-----------------------------------------------------------------------------
Next ==
    \/ \E b \in Body : Publish(b)
    \/ Crash
    \/ Start
    \/ RefreshSend \/ RefreshGets \/ RefreshNotModified \/ RefreshFails
    \/ RefreshCommit \/ RefreshCommitFails
    \/ WatchStat \/ WatchCompare
    \/ \E t \in Thread : ApplyStep(t)
    \/ \E m \in Merger : MergeRequest(m)
    \/ \E c \in Saves : Edit(c)
    \/ \E r \in Reader : SnapshotRead(r) \/ SnapshotStore(r)

Spec == Init /\ [][Next]_vars

(***************************************************************************)
(* Fairness.  A goroutine that is in the middle of an operation goes on;   *)
(* the tickers of the refresher and the watcher never stop ticking; a dead *)
(* process is started again.  Of the environment it is assumed that a      *)
(* refresh that is tried for ever gets its answer, and its file written,   *)
(* again and again.  Nobody has to publish, edit, merge or read.           *)
(***************************************************************************)
RefreshAnswered == RefreshGets \/ RefreshNotModified \/ RefreshFails

Fairness ==
    /\ WF_vars(Start)
    /\ WF_vars(RefreshSend)
    /\ WF_vars(RefreshAnswered)
    /\ SF_vars(RefreshGets)
    /\ WF_vars(RefreshCommit \/ RefreshCommitFails)
    /\ SF_vars(RefreshCommit)
    /\ WF_vars(WatchStat)
    /\ WF_vars(WatchCompare)
    /\ \A t \in Thread : WF_vars(ApplyStep(t))
    /\ \A m \in Merger : WF_vars(merge[m].at # "idle" /\ MergeRequest(m))

FairSpec == Spec /\ Fairness

-----------------------------------------------------------------------------
(* What makes the cache correct. *)

\* Whatever raw body is in memory is on disk too, so that a restart serves
\* nothing older than what was served before it: refresh writes the file before
\* it publishes the body, and publishes nothing when the write fails.
RawIsDurable == rawBody # NoBody => cacheFile = rawBody

\* The conditional tag is that of the body in memory.  If it ever named
\* another body, upstream would answer 304 for ever to a server that does not
\* have what it calls unmodified.
TagNamesRaw == remoteTag \in {rawBody, NoBody}

\* The stored index was built from the body whose hash it is filed under, in
\* spite of Snapshot calls that parse outside the lock, overtake each other
\* and store the index of a body that is not current any more.
IndexIsOfItsHash == index.of = index.hash

\* What the endpoint serves: the merged body, the raw one until there is one.
Served == IF mergedBody # NoBody THEN mergedBody
          ELSE IF rawBody # NoBody THEN AsServed(rawBody) ELSE NoBody

\* Once a running server has a catalogue to serve it always has one: no failed
\* refresh, broken override file or body that cannot be merged takes it back
\* to 503.
ReadyStaysReady == [][(up /\ up' /\ Served # NoBody) => Served' # NoBody]_vars

\* A Snapshot answered from the stored index is the index of the body that is
\* served at that very moment.
SnapshotHitIsCurrent ==
    [][\A r \in Reader :
          (up' /\ reader'[r] # reader[r] /\ reader[r].at = "idle" /\ reader'[r].at = "idle")
              => reader'[r].result = mergedBody]_vars

\* When upstream and the override file stop changing, the raw body becomes and
\* stays the one that upstream serves.
RawCatchesUp == <>[](rawBody = upstream)

\* ... and the overrides merged into what is served become and stay those of
\* the override file ("if the user edits the file it takes effect within a
\* minute", music_ex.go:44): an apply that published old overrides published
\* their old mtime with them, and the watcher notices.
OverridesHeal ==
    <>[](mergedBody # NoBody => mergedBody = MergedBody(mergedBody.raw, file.content))

\* ... and what is served becomes and stays the merge of the raw body in memory
\* ("mergedBody: rawBody + overrides", music_ex.go:53).  The code does not keep
\* this, and no run asks for it: an apply that read the raw body before a
\* refresh may publish after the refresh's own, until the next body or edit.
MergedFollowsRaw == <>[](mergedBody # NoBody => mergedBody.raw = rawBody)
=============================================================================
