---------------------------- MODULE CatalogCache ----------------------------
(***************************************************************************)
(* The browser's caches of the song catalogue (lib/musicExCache.ts) and    *)
(* the page that changes it (pages/ConstOverridePage.tsx).                 *)
(*                                                                         *)
(* Each tab has a map with the promise of the last fetch, all tabs share   *)
(* local storage and, below it, the browser's HTTP cache.  A page that     *)
(* opens asks fetchMusicExJson for the catalogue.  An administrator pastes *)
(* lines of constants, which the server merges into its overrides; then    *)
(* the page fetches the catalogue anew, past the first two caches.         *)
(*                                                                         *)
(* What is kept of a catalogue is its edition, which counts those that the *)
(* server has had; Served is what the latest of them says.  A promise is   *)
(* [call |-> k] while the call k is under way, then [error |-> TRUE] or a  *)
(* result [edition, at, stale]: at is when the server last had it, and a   *)
(* stale result is one that took the place of an error.                    *)
(*                                                                         *)
(* A song is known by its title, which stands for its id where an entry    *)
(* has one; no two songs share a title, and a song that upstream lacks is  *)
(* one without constants.  A merge is one step here: module OverridesFile  *)
(* has merges that overlap and writes that fail.                           *)
(***************************************************************************)
EXTENDS Integers, Sequences, SequencesExt

CONSTANTS
    Tab, Admin,     \* tabs, those of an administrator
    Call,           \* integers: requests for the catalogue under way
    Title,
    Field,          \* difficulties: lev_bas_i ... lev_lnt_i
    Upstream,       \* the constants the upstream catalogue has, or NoConst
    NoConst, None,
    Paste,          \* [lines, force] an administrator may submit
    Files,          \* entries the operator may have in the overrides file
    MaxAge,         \* 24 hours, in ticks
    HttpAge,        \* one hour, the server's max-age
    MaxTime, MaxEditions    \* bounds of this model

ASSUME AgesAssumption == /\ MaxAge \in Nat \ {0} /\ HttpAge \in Nat \ {0}
                         /\ Call \subseteq Nat /\ Admin \subseteq Tab

Answer == [edition : Nat, at : Nat]
Promise == [call : Call] \cup [error : {TRUE}] \cup [edition : Nat, at : Nat, stale : BOOLEAN]

\* None is none of what it stands in for.
ASSUME NoneAssumption ==
    None \notin Promise \cup Answer \cup [promise : Promise, cachedAt : Nat]
                       \cup [tab : Tab, answer : Answer \cup {None}]

ASSUME PasteAssumption ==
    \A p \in Paste : p.lines \in Seq([header : BOOLEAN, title : Title \cup {None},
                                      diff : Field \cup {None}, const : Int \cup {NoConst}])

\* An override entry: id is that of a song upstream, of none, or missing.
Entry == [id : Title \cup {None, "unknown"}, title : Title \cup {None},
          consts : [Field -> Int \cup {NoConst}], force : BOOLEAN]

ASSUME FilesAssumption == Files \subseteq Seq(Entry) /\ None \notin Title

VARIABLES
    now,
    entries,                \* the override entries of the operator's file
    added,                  \* per title, the entry that pastes appended, or a blank one
    edition,
    loaded,                 \* the server has the upstream catalogue
    httpCache,              \* [edition, at] or None
    storage,                \* [result, cachedAt] or None
    memory,                 \* per tab: MEMORY_CACHE, [promise, cachedAt] or None
    calls,                  \* [tab, answer] of each call under way, or None
    page,                   \* per tab: the page open, [promise, since] or None
    submit,                 \* per tab: onSubmit, [step, paste, edition, promise]
    seen,                   \* per tab: latest edition its pages were given
    overlapped              \* two calls have been under way at once

server == <<entries, added, edition, loaded>>
vars == <<now, server, httpCache, storage, memory, calls, page, submit, seen, overlapped>>

-----------------------------------------------------------------------------
(* parseConstOverridePaste.  A line is [header, title, diff, const], where *)
(* diff is the difficulty its column names, or None, and const is NoConst  *)
(* when it is not a number.                                                *)

Valid(l) == ~l.header /\ l.title # None /\ l.diff # None /\ l.const # NoConst

\* Mutant: the first line of a chart stays.
EntriesFirst(lines) ==
    LET good == {i \in DOMAIN lines : Valid(lines[i])}
        chart(i) == <<lines[i].title, lines[i].diff>>
        kept(x) == CHOOSE i \in good : chart(i) = x /\ \A j \in good : chart(j) = x => i <= j
    IN  [x \in {chart(i) : i \in good} |-> lines[kept(x)].const]

\* Of several lines of one chart the last one counts.
Entries(lines) ==
    LET good == {i \in DOMAIN lines : Valid(lines[i])}
        chart(i) == <<lines[i].title, lines[i].diff>>
        kept(x) == CHOOSE i \in good : chart(i) = x /\ \A j \in good : chart(j) = x => j <= i
    IN  [x \in {chart(i) : i \in good} |-> lines[kept(x)].const]

\* keyOf: an entry is known by its id if it has one, else by its title.
KeyOf(e) == IF e.id # None THEN <<"id", e.id>> ELSE <<"title", e.title>>

\* The entry of the file that a pasted entry of title t goes into: of several
\* with its key the last one.
IsEntryOf(t, i) ==
    /\ KeyOf(entries[i]) = <<"title", t>>
    /\ \A j \in DOMAIN entries : KeyOf(entries[j]) = <<"title", t>> => j <= i

Titles(new) == {x[1] : x \in DOMAIN new}

\* Mutant: only what the entry lacks is merged into it.
WithMissing(e, t, new, force) ==
    [id |-> e.id, title |-> t,
     consts |-> [f \in Field |-> IF <<t, f>> \in DOMAIN new /\ e.consts[f] = NoConst
                                THEN new[<<t, f>>] ELSE e.consts[f]],
     force |-> e.force \/ force]

\* Entry e with the constants that the paste has of title t; force stays once
\* it is there.
With(e, t, new, force) ==
    [id |-> e.id, title |-> t,
     consts |-> [f \in Field |-> IF <<t, f>> \in DOMAIN new THEN new[<<t, f>>] ELSE e.consts[f]],
     force |-> e.force \/ force]

Blank == [id |-> None, title |-> None, consts |-> [f \in Field |-> NoConst], force |-> FALSE]

\* MergeOverrideSongs.  What it appends stands behind the operator's entries,
\* in an order that does not matter: each is of another song.
Upserts(new, force) ==
    /\ entries' = [i \in DOMAIN entries |->
          IF entries[i].title \in Titles(new) /\ IsEntryOf(entries[i].title, i)
          THEN With(entries[i], entries[i].title, new, force) ELSE entries[i]]
    /\ added' = [t \in Title |->
          IF t \in Titles(new) /\ ~\E i \in DOMAIN entries : IsEntryOf(t, i)
          THEN With(added[t], t, new, force) ELSE added[t]]

\* All entries that may be about the song t, in their order.
Listed(t) == Append(entries, added[t])

\* lookupOverrideMatches: the song of its id, else the one of its title.
SongOf(e) == IF e.id \in Title THEN e.id ELSE e.title

\* The entries that have a constant for chart x.
Giving(x) == {i \in DOMAIN Listed(x[1]) :
                /\ SongOf(Listed(x[1])[i]) = x[1]
                /\ Listed(x[1])[i].consts[x[2]] # NoConst}

\* The constant of chart x after applyMusicExOverrides: every entry with force
\* replaces what is there, and one without fills in what is missing.
Const(x) ==
    LET given == [i \in Giving(x) |-> Listed(x[1])[i].consts[x[2]]]
        force == {i \in Giving(x) : Listed(x[1])[i].force}
    IN  CASE force # {} -> given[CHOOSE i \in force : \A j \in force : j <= i]
          [] force = {} /\ Upstream[x] = NoConst /\ Giving(x) # {} ->
                given[CHOOSE i \in Giving(x) : \A j \in Giving(x) : i <= j]
          [] OTHER -> Upstream[x]

Served == [x \in Title \X Field |-> Const(x)]

-----------------------------------------------------------------------------
(* fetchMusicExJson.                                                       *)

NoSubmit == [step |-> "idle", paste |-> None, edition |-> 0, promise |-> None]

Init ==
    /\ now = 0
    /\ entries \in Files /\ added = [t \in Title |-> Blank]
    /\ edition = 0 /\ loaded \in BOOLEAN
    /\ httpCache = None /\ storage = None
    /\ memory = [t \in Tab |-> None] /\ calls = [k \in Call |-> None]
    /\ page = [t \in Tab |-> None] /\ submit = [t \in Tab |-> NoSubmit]
    /\ seen = [t \in Tab |-> 0] /\ overlapped = FALSE

Young(entry) == entry # None /\ now - entry.cachedAt < MaxAge

FreeCalls == {k \in Call : calls[k] = None}
NextCall == CHOOSE k \in FreeCalls : \A j \in FreeCalls : k <= j
UnderWay(c) == {k \in Call : c[k] # None}

\* Mutant: what is read from storage starts a new day in memory.
RememberedAnew == [promise |-> storage.result, cachedAt |-> now]

\* What is read from storage keeps its age.
Remembered == [promise |-> storage.result, cachedAt |-> storage.cachedAt]

\* Mutant: a forced refresh does not get into memory.
FetchAside(t, force) ==
    LET cached == httpCache # None /\ now - httpCache.at < HttpAge
    IN  IF ~force /\ Young(memory[t]) THEN [memo |-> memory[t], memory |-> memory, calls |-> calls]
        ELSE IF ~force /\ Young(storage) THEN
                [memo |-> Remembered, memory |-> [memory EXCEPT ![t] = Remembered], calls |-> calls]
        ELSE    LET memo == [promise |-> [call |-> NextCall], cachedAt |-> now]
                IN  [memo |-> memo,
                     memory |-> IF force THEN memory ELSE [memory EXCEPT ![t] = memo],
                     calls |-> [calls EXCEPT ![NextCall] =
                                   [tab |-> t, answer |-> IF cached THEN httpCache ELSE None]]]

\* The entry whose promise the caller is given, and the new memory and
\* calls: memory, then storage, then a request, which the browser answers
\* itself when its HTTP cache is fresh (cache: "default").
Fetch(t, force) ==
    LET cached == httpCache # None /\ now - httpCache.at < HttpAge
    IN  IF ~force /\ Young(memory[t]) THEN [memo |-> memory[t], memory |-> memory, calls |-> calls]
        ELSE IF ~force /\ Young(storage) THEN
                [memo |-> Remembered, memory |-> [memory EXCEPT ![t] = Remembered], calls |-> calls]
        ELSE    LET memo == [promise |-> [call |-> NextCall], cachedAt |-> now]
                IN  [memo |-> memo,
                     memory |-> [memory EXCEPT ![t] = memo],
                     calls |-> [calls EXCEPT ![NextCall] =
                                   [tab |-> t, answer |-> IF cached THEN httpCache ELSE None]]]

Fetches(t, force) ==
    /\ FreeCalls # {}
    /\ memory' = Fetch(t, force).memory
    /\ calls' = Fetch(t, force).calls
    /\ overlapped' = (overlapped \/ Cardinality(UnderWay(calls')) > 1)

IsResult(p) == p # None /\ "edition" \in DOMAIN p

\* What pages and submits of a tab have been given.
Given(t) == {p \in {IF page[t] = None THEN None ELSE page[t].promise, submit[t].promise} :
                IsResult(p)}

Sees == seen' = [t \in Tab |->
                    Max({seen[t]} \cup {r.edition : r \in Given(t)'})]

-----------------------------------------------------------------------------
(* Pages.                                                                  *)

\* One of the four pages that show the catalogue or use it.
Open(t) ==
    /\ page[t] = None
    /\ Fetches(t, FALSE)
    /\ page' = [page EXCEPT ![t] = [promise |-> Fetch(t, FALSE).memo.promise, since |-> now]]
    /\ UNCHANGED <<now, server, httpCache, storage, submit>>
    /\ Sees

Leave(t) ==
    /\ page[t] # None
    /\ page' = [page EXCEPT ![t] = None]
    /\ UNCHANGED <<now, server, httpCache, storage, memory, calls, submit, overlapped>>
    /\ Sees

\* Memory, requests and the handlers that wait for them are gone.
Reload(t) ==
    /\ memory' = [memory EXCEPT ![t] = None]
    /\ calls' = [k \in Call |-> IF calls[k] # None /\ calls[k].tab = t THEN None ELSE calls[k]]
    /\ page' = [page EXCEPT ![t] = None]
    /\ submit' = [submit EXCEPT ![t] = NoSubmit]
    /\ seen' = [seen EXCEPT ![t] = 0]
    /\ UNCHANGED <<now, server, httpCache, storage, overlapped>>

-----------------------------------------------------------------------------
(* Requests for the catalogue.                                             *)

\* A server that has no catalogue yet answers with an error.
Serve(k) ==
    /\ calls[k] # None /\ calls[k].answer = None /\ loaded
    /\ LET answer == [edition |-> edition, at |-> now] IN
         /\ calls' = [calls EXCEPT ![k].answer = answer]
         /\ httpCache' = answer
    /\ UNCHANGED <<now, server, storage, memory, page, submit, seen, overlapped>>

Settled(p, k, r) == IF p = [call |-> k] THEN r ELSE p

\* The promise of call k is settled with r for all who wait for it.
Settle(k, r) ==
    /\ calls' = [calls EXCEPT ![k] = None]
    /\ page' = [t \in Tab |-> IF page[t] = None THEN None
                              ELSE [page[t] EXCEPT !.promise = Settled(@, k, r)]]
    /\ submit' = [t \in Tab |-> [submit[t] EXCEPT !.promise = Settled(@, k, r)]]
    /\ Sees

MemorySettles(k, r) ==
    memory' = [t \in Tab |-> IF memory[t] = None THEN None
                             ELSE [memory[t] EXCEPT !.promise = Settled(@, k, r)]]

\* fetchFresh.  Storage may have no room; what it holds then stays.
Arrive(k) ==
    /\ calls[k] # None /\ calls[k].answer # None
    /\ LET r == [edition |-> calls[k].answer.edition, at |-> calls[k].answer.at, stale |-> FALSE] IN
         /\ Settle(k, r)
         /\ MemorySettles(k, r)
         /\ storage' \in {[result |-> r, cachedAt |-> now], storage}
    /\ UNCHANGED <<now, server, httpCache, overlapped>>

\* The request fails: what is stored has to do, however old it is ...
FallBack(k) ==
    /\ calls[k] # None /\ storage # None
    /\ LET r == [storage.result EXCEPT !.stale = TRUE] IN Settle(k, r) /\ MemorySettles(k, r)
    /\ UNCHANGED <<now, server, httpCache, storage, overlapped>>

\* ... or there is an error, and the tab forgets whichever promise it has.
Fail(k) ==
    /\ calls[k] # None /\ storage = None
    /\ Settle(k, [error |-> TRUE])
    /\ memory' = [memory EXCEPT ![calls[k].tab] = None]
    /\ UNCHANGED <<now, server, httpCache, storage, overlapped>>

-----------------------------------------------------------------------------
(* ConstOverridePage.                                                      *)

Busy(s) == \/ s.step \in {"posting", "merged"}
           \/ s.step = "refreshing" /\ "call" \in DOMAIN s.promise

\* onSubmit, with a preview that is not empty.
Submit(t) ==
    /\ t \in Admin /\ ~Busy(submit[t])
    /\ \E p \in Paste :
         /\ Entries(p.lines) # << >>
         /\ submit' = [submit EXCEPT ![t] =
                          [step |-> "posting", paste |-> p, edition |-> 0, promise |-> None]]
    /\ UNCHANGED <<now, server, httpCache, storage, memory, calls, page, overlapped>>
    /\ Sees

\* mergeMusicExOverrides, at the server.
Merge(t) ==
    /\ submit[t].step = "posting" /\ edition < MaxEditions
    /\ LET p == submit[t].paste IN
         /\ Upserts(Entries(p.lines), p.force)
         /\ submit' = [submit EXCEPT ![t] =
                [step |-> "merged", paste |-> p, edition |-> edition + 1, promise |-> None]]
    /\ edition' = edition + 1
    /\ UNCHANGED <<now, loaded, httpCache, storage, memory, calls, page, seen, overlapped>>

\* The request or its answer is lost, or refused.
MergeFails(t) ==
    /\ submit[t].step \in {"posting", "merged"}
    /\ submit' = [submit EXCEPT ![t] = NoSubmit]
    /\ UNCHANGED <<now, server, httpCache, storage, memory, calls, page, seen, overlapped>>

\* The answer: the catalogue is fetched past memory and storage.
Refresh(t) ==
    /\ submit[t].step = "merged"
    /\ Fetches(t, TRUE)
    /\ submit' = [submit EXCEPT ![t] =
                      [step |-> "refreshing", paste |-> submit[t].paste,
                       edition |-> submit[t].edition, promise |-> Fetch(t, TRUE).memo.promise]]
    /\ UNCHANGED <<now, server, httpCache, storage, page>>
    /\ Sees

\* The catalogue changes upstream, in what is no constant.
Publish ==
    /\ edition < MaxEditions
    /\ edition' = edition + 1
    /\ UNCHANGED <<now, entries, added, loaded, httpCache, storage, memory, calls, page, submit,
                   seen, overlapped>>

\* The upstream catalogue arrives for the first time.
Load ==
    /\ ~loaded
    /\ loaded' = TRUE
    /\ UNCHANGED <<now, entries, added, edition, httpCache, storage, memory, calls, page, submit,
                   seen, overlapped>>

\* Requests take less than a tick.
Tick ==
    /\ now < MaxTime /\ UnderWay(calls) = {}
    /\ \A t \in Tab : ~Busy(submit[t])
    /\ now' = now + 1
    /\ UNCHANGED <<server, httpCache, storage, memory, calls, page, submit, seen, overlapped>>

Next ==
    \/ \E t \in Tab : Open(t) \/ Leave(t) \/ Reload(t)
    \/ \E k \in Call : Serve(k) \/ Arrive(k) \/ FallBack(k) \/ Fail(k)
    \/ \E t \in Tab : Submit(t) \/ Merge(t) \/ MergeFails(t) \/ Refresh(t)
    \/ Publish \/ Load \/ Tick

Spec == Init /\ [][Next]_vars

-----------------------------------------------------------------------------
(* Properties.                                                             *)

\* A catalogue a page is given, unless it took the place of an error, was
\* the server's less than MaxAge and HttpAge before the page opened, through
\* whatever caches of whatever tabs it came (the promise of 24 hours at the
\* head of musicExCache.ts, plus the server's max-age).
GivenIsFresh ==
    \A t \in Tab : page[t] # None =>
        LET r == page[t].promise IN
        IsResult(r) /\ ~r.stale => page[t].since - r.at <= (MaxAge - 1) + (HttpAge - 1)

\* Until two requests overlap, no page of a tab is given an older catalogue
\* than an earlier one was (MEMORY_CACHE, storage and forceRefresh).
NeverBackwards ==
    [][\A t \in Tab : \A r \in Given(t)' \ Given(t) :
          r.stale \/ overlapped' \/ seen[t] <= r.edition]_vars

\* The merge of submit s is done, the server has a catalogue, and this has not
\* changed since.
Reports(s) == s.step \in {"merged", "refreshing"} /\ loaded /\ s.edition = edition

\* Line i of paste p has the last constant of its chart, which upstream lacks
\* unless the paste is forced.
Counts(p, i) ==
    /\ Valid(p.lines[i])
    /\ p.force \/ Upstream[<<p.lines[i].title, p.lines[i].diff>>] = NoConst
    /\ \A j \in DOMAIN p.lines :
          Valid(p.lines[j]) /\ p.lines[j].title = p.lines[i].title
              /\ p.lines[j].diff = p.lines[i].diff => j <= i

\* No two override entries of its song have a constant for chart x.
OneEntry(x) == \A i, j \in Giving(x) : i = j

\* When the page reports success, each chart of the preview has its last
\* constant in the catalogue the server has, if upstream had none or the paste
\* was forced, and unless another entry of the song has one too: of several
\* merges, into entries of the operator or of earlier pastes, the last one shows
\* (parseConstOverridePaste, MergeOverrideSongs, applyMusicExOverrides).
SubmittedIsServed ==
    \A t \in Tab : LET p == submit[t].paste IN
        Reports(submit[t]) =>
            \A i \in DOMAIN p.lines :
                LET x == <<p.lines[i].title, p.lines[i].diff>> IN
                Counts(p, i) /\ OneEntry(x) => Served[x] = p.lines[i].const

\* Existing entries are upserted by title or id, and applied at once
\* (backend/cmd/server/music_ex_overrides_admin.go:51): what was pasted shows
\* also where an entry of the song was there before.
UpsertedByTitle ==
    \A t \in Tab : LET p == submit[t].paste IN
        Reports(submit[t]) =>
            \A i \in DOMAIN p.lines :
                Counts(p, i) =>
                    Served[<<p.lines[i].title, p.lines[i].diff>>] = p.lines[i].const
=============================================================================
