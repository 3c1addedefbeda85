# A verification project for chinatsu_info

TLA+ models, TLC runs and TLAPS proofs for the program in this repository: a
site that shows a player's scores in an arcade game. A bookmarklet collects
the scores on the game's own site and sends them to a Go server; a React
frontend shows them, next to a song catalogue that the server keeps up to date.

Paths below are relative to the repository; `server/` stands for
`backend/cmd/server/`, `pages/` and `lib/` are in `frontend/src/`. Lines are
those that `PROJECT.json` maps.

## 1. The system

| Component | Where | State it keeps | Operations | Model |
|---|---|---|---|---|
| Song catalogue cache | `server/music_ex.go` | raw body, tag, merged body, mtime of the override file, new-song versions, index; a disk cache | refresh (at start and daily), watch the override file (every minute), apply the overrides, serve, Snapshot | `MusicExCache` |
| Override file | `server/music_ex_overrides_admin.go` | one JSON file, a temporary file, descriptors | merge requests (read, upsert, write, rename, apply), operator edits | `OverridesFile` |
| Override merge | `server/music_ex_overrides.go` | none | which override changes which song, which constant wins | use of it in `MusicExCache`; the constants that win in `CatalogCache` |
| Bookmarklet sessions | `internal/bmshort/bmshort.go`, `server/bookmarklet.go` | two tables in memory, a template read once | create, consume, status, prune | `BookmarkletSession`, `OneTimeTicket` |
| Accounts, tokens, sessions | `server/auth.go`, `internal/store/auth.go`, `internal/session/redis_store.go` | rows of SQLite, keys of Redis | sign-up, verify, login, logout, authenticate, forgot, reset, delete | `Accounts` |
| Rate limits, login failures | the same | two tables of events | count before the work, record after it | the failures behind the captcha in `SiteSession` |
| Snapshots and ingest | `server/main.go`, `internal/store/store.go` | an append-only table of payloads | save (merging a partial payload into the latest), latest | `ScoreSync`; pictures in `OngekiFetch` |
| Bookmarklet sync | `bookmarklet/src/` | one flag in local storage | fetch previous, scrape, combine, compare, send | `ScoreSync` (runs that overlap), `OngekiFetch` (what one run reads and sends) |
| Rating | `server/rating_targets.go`, `lib/ratingCalc.ts`, `lib/ratingView.ts`, `lib/musicExIndex.ts` | none | the same formulas twice | `Rating` |
| Rating pages | `pages/RatingSimulatorPage.tsx`, `RatingTargetsPage.tsx`, `AchievementBoardPage.tsx` | a scenario in local storage | fetch, simulate, list | `RatingPages` |
| Song browser | `pages/SongCatalogPage.tsx` | preferences in local storage | parse, filter, sort, turn pages | `SongCatalog` |
| Frontend catalogue cache | `lib/musicExCache.ts`, `lib/constOverrideParse.ts`, `pages/ConstOverridePage.tsx` | promises in memory, local storage, the HTTP cache | fetch, expire, fall back, paste constants and refresh | `CatalogCache` |
| Frontend session | `frontend/src/auth/`, `App.tsx`, the forms in `pages/` | the user, the forms, captcha tokens | refresh, login, logout, delete, guards, forms | `SiteSession` |
| Profile pictures | `server/main.go` | one file per key | write when it is not there | `OngekiFetch` |
| User ids, migrations | `internal/store/store.go` | users, app_migrations | draw an id, randomize the old ones once | not modelled |
| Passwords, CSRF tokens, mail, HTTP wiring | `internal/auth/`, `internal/mail/`, `server/main.go` | none | library calls | not modelled |
| Set-up page, texts, deployment | `pages/SetupPage.tsx`, `scripts/`, `.github/`, `deploy/` | none that outlives a render or a run | views, shell scripts | not modelled |

How they interact:

* The catalogue cache reads the override file that merge requests and the
  operator write; a merge request ends by calling applyOverrides of the cache.
  `MusicExCache` EXTENDS `OverridesFile` for this reason.
* Bookmarklet sessions hand out the ingest token of a user; a sync with that
  token makes a snapshot. A session of the account is not needed for it.
* The bookmarklet and the server share the decision what a snapshot is: the
  bookmarklet compares with the latest one and sends the difference, minutes
  later the server merges it into the one that is the latest then.
* The rating targets ask the cache for an index (Snapshot) and for the
  new-song versions, and the store for the latest snapshot. The rating pages
  ask for the snapshot, the catalogue and the configuration in requests of
  their own, whose answers come in any order.
* All pages that show songs get the catalogue from one function with three
  caches below it; the page for constants changes it at the server and
  fetches it past two of the three.
* What a tab of the site shows of the user is a copy that authMe brought; the
  cookies, which all tabs share, are what the server goes by.
* Accounts and snapshots share one SQLite connection (`SetMaxOpenConns(1)`,
  `internal/store/store.go:63`). A statement or a transaction is therefore one
  step; between two of them any other request may run.

What is hard: goroutines that take a lock for single reads and writes but not
for an operation (the cache), or no lock at all (the override file); a clock
that is read before a lock is waited for (bookmarklet sessions); handlers made
of several statements over two stores, whose clean-up ignores its errors
(accounts); a comparison that is minutes old when it is used, and answers that
are lost (the sync); rows told apart by texts because ids are missing (the
bookmarklet and the rating); the same arithmetic twice, cut at different
places; caches on top of caches, each with an age of its own; handlers of a
page that go on when the page is gone; effects that run a render too early;
restarts between any two steps. `PROJECT.json` lists all hazards at their
lines.

What makes each part correct:

* the catalogue: once there is one it is always served; what is in memory can
  be reloaded after a restart; the conditional request never names a body that
  is not there; an index is of the body it is filed under; in the end what is
  served is upstream's body with the overrides of the file;
* the override file: a song that was saved stays; the file always parses;
* bookmarklet sessions: a URL works once, within its time, for the user it was
  made for; no user is refused one, and none has two;
* accounts: a reset and a deletion leave no session, token or link behind; a
  link works once; nobody is signed in without a verified address; no session or
  remember token signs anybody in to a deleted account (its ingest token still
  works, section 4);
* the sync: a run that nobody interferes with and that reports success leaves
  in the latest snapshot what it found on the pages; a partial payload takes
  nothing away; what merges leave behind is gone after the next full payload;
  the latest snapshot is the newest; songs of one name are not taken for one;
  a run that says that nothing has changed is right;
* the rating: server and pages agree on what they both found; what a player
  tries in the simulator never lowers a rating, belongs to its chart and is not
  lost; the board's constant of a row is one of the row's level;
* the song browser: the pages hold every match once, in the order asked for;
* the frontend's catalogue: it is no older than its caches may be, does not go
  backwards, and a paste is there when its page says so, unless another entry of
  the song speaks of the chart;
* the frontend's session: the tab acts for the user it shows, no button stays
  disabled, no spent captcha is sent again.

## 2. The modules

### OverridesFile (abstract data, concrete file system)

`file` and `tmp` are the two paths; a content is a set of songs and a label
that stands for the `_meta` block, or Absent, Blank (truncated), Broken (does
not parse). `merge[m]` is the goroutine of a merge request: the step it is at,
the bundle it will write and where its open descriptor leads. One action per
system call: `MergeRead` (read and upsert), `MergeOpen` (open and truncate),
`MergeWrite`, `MergeWriteFails`, `MergeRename`, `MergeReturn`. All merges
share `<path>.tmp`: a rename moves whatever that name stands for, and
descriptors follow (`Followed`); a write into a file somebody else has filled
leaves a tail when it is shorter (`Overlay`). `OperatorEdit` and `FileCrash`
are the environment. `saved` and `alone` are history: the songs that a merge
reported saved and that since then neither an operator edit nor a merge that
overlapped another has taken out, and whether a merge has overlapped another
since it read the file. Nothing in the code keeps two merges apart, so the
properties hold for any number of mergers and make an exception of the steps of
merges that overlap (`Overlapping`).

Abstracted: whether the file is an array or an object, the fields of an entry,
and time stamps, of which each write gets a new one.

### MusicExCache

The variables are the fields of `musicExCache` and, per goroutine, what its
operation has in hand: `refresh`, `watch`, `job[t]` (a call of applyOverrides
by thread t: the refresher, the watcher or a merge request), `reader[r]` (a
call of Snapshot). Steps are the critical sections of `c.mu` and the system
calls between them: applyOverrides is `ApplyReadRaw`, `ApplyStat`,
`ApplyLoad`, `ApplySetMerged` and `ApplySetVersions`; refresh is
`RefreshSend`, one of `RefreshGets`, `RefreshNotModified`, `RefreshFails`, and
`RefreshCommit` or `RefreshCommitFails`, which hold the lock over the disk
cache and the fields. `MergeRequest` is a step of `OverridesFile` that starts
an apply when it has renamed. `Start` loads the disk cache before any
goroutine runs. `Served` is what serveHTTP answers.

Abstracted: a body stands for its bytes, hash and ETag (no collisions);
Last-Modified and the time of the fetch; the retry after 30 seconds, which is
another refresh; a crash between the rename of the disk cache and the end of
its critical section, which leaves what a crash right after the section
leaves. A body may be an array that is not one of objects (`Unmergeable`):
refresh accepts it and the merge does not. Upstream answers 304 exactly when
the tag matches, and may send no tag.

### BookmarkletSession and OneTimeTicket

`sessions` and `byToken` are the two tables, `request[r]` a request between
its two critical sections. Every operation prunes first (`PrunedSessions`,
`PrunedTokens`) and reads the clock afresh each time the code does; a create
request has read it before it waits for the mutex (`CreateStart`, then
`CreateSession`). Consuming takes the session out before the template is
loaded (`ConsumeSession`, then `LoadTemplate`); the template is read once per
process. `OneTimeTicket` is the abstract specification: tickets are new, held,
redeemed or lapsed, a holder holds one at most, and nothing comes back. The
refinement mapping reads the state of a ticket from the tables and from two
histories (the ids drawn, how often each was consumed).

Abstracted: ids are never drawn twice; the address of the API in a session;
the checks of the token that come before any change of state.

### Accounts

One account, its tokens row by row, its sessions, and requests that each sit
between two statements (`request[r].at` is the statement that comes next).
`SignUp` to `Logout` are the handlers of `server/auth.go`, cut where they talk
to SQLite or Redis: sign-up and resend make a verification token in two
statements (`MarkVerifyTokens`, `AddVerifyToken`), a forgotten password a
reset token (`MarkResetTokens`, `AddResetToken`), while consuming one is a
transaction (`VerifyEmail`, `ConsumeResetToken`, `AuthByRemember`). A reset is
`ConsumeResetToken`, `UpdatePassword`, `RevokeResetTokens`,
`RevokeRememberTokens`, the scan over Redis (`ScanDeletes` any number of
times, `ScanEnds`) and `AnswerOk`; a deletion is an authentication
(`AuthBySession` or `AuthByRemember`, `LoadUser`), `SoftDeleteUser` and the
same clean-up. A request with the ingest token finds the account's row by the
token alone (`AuthByIngestToken`), deleted or not. `GivesUp` is any other
failure of a statement, `CleanUpFails` a failure that the clean-up ignores, `Crash` a restart, `Expire` the passing of time. The
scan promises what Redis promises: a key that is there from beginning to end
is returned (`todo`), any other may be.

Abstracted: passwords, addresses, captchas, cookies, CSRF and rate limits are
inputs; a request may carry any session or token there is. A hash that cannot
be computed (more than 72 bytes) is a `GivesUp` before `UpdatePassword`. A
login that compared the old password before the reset may set its session
after the scan: it was not live when the password changed, and the property
does not speak of it. A loss of Redis' last second of writes is not modelled.

### ScoreSync

One user. `run[r]` is one run of the bookmarklet together with its request: the
step the bookmarklet is at (`client`), the step SaveSnapshot is at (`request`),
and what both have in hand. A run is `Start` (it reads the flag of its
browser), `FetchPrevious` or `FetchFails`, `Scrape`, then `Skip` or `Send`;
the server goes on with `ReadLatest` (the merge), `Stamp` (the time) and
`Insert`; the bookmarklet ends with `Sent`, which writes the flag. Its failures
are `GiveUp`, `ReadLatestFails` (the error is ignored and the payload stored as
it came), `InsertFails`, `Refused`, and `NoAnswer`: the bookmarklet is gone, the
request goes on. `latest` is the row that the query of LatestSnapshot finds,
which compares texts (`TextAfter`): RFC3339Nano leaves out trailing zeros, so
the text of a time sorts after that of a later one which differs from it only in
digits it leaves out (`Hides`). No operation looks at another row of the table;
`newest`, and `taken`, the times the server took, are history. While no text of
`taken` hides a later time (`InOrder`), texts and times have one order. A row is filed under its chart and
whether it has a `music_ex_id`, so a sync without song data leaves a second row
of the same chart.

Most of what the sync promises holds for a run that has the server to itself
(`alone`, history): when it begins no other run is under way, nor a request of
one that lost its answer, and none begins before its request is done. Nothing
is assumed of the runs before it. With another run beside it the promise does
not hold: the server merges into a snapshot that was not compared with.

Abstracted: the pages of the difficulties are read in one step; the scores of
a chart are one number that grows; the profile is one value, and whether a
picture differs an input; charts that share name, difficulty and level
(the bookmarklet hands out their ids in the order of the page); parsing and
pictures, both of which `OngekiFetch` has.

### OngekiFetch

What one run of the bookmarklet does with the data that `ScoreSync` takes for
granted. A page is a sequence of forms (`ParseForm`, `ExtractId`); each of the
five pages is fetched, the rows are combined with the song data (`SongOf`:
by id, else by name and level in turn, else any of the name), compared by key
and signature with the previous payload (`ChangedRows`) and sent. The steps
are those of `main.ts`: `Begin` (flag, previous payload, profile from two
pages), `FetchScores`, `FetchSongs` (JSON, CSV or nothing), `FetchPictures`,
`Retry` (what is missing of the profile), then `Skip`, `Send` or `SendFails`.
`Send` includes the server: it stores pictures that are not there
(`Persisted`) and merges the rows of a partial payload (`MergeRows`).

Abstracted: one run at a time, and a run from compare to answer is one step;
HTML and CSV; texts that are only compared are values; what
`scoreRowSignature` joins is one score and the lamps; two requests that write
one picture at once and a crash in the middle of it. What a filter keeps of a
sequence is given by the places it keeps (`Picked` in `Subsequence`, which the
rating pages use too).

### Rating and RatingPages

`Rating` has the arithmetic as operators: of `lib/ratingCalc.ts` and of
`server/rating_targets.go`, each with its own rounding. Rates are integers in
thousandths, constants in tenths; the server does not cut one of its
quotients, so its rates are in 13333rds of a thousandth (`Fine`), which is
exact. Pools are sets of indices (`Top`).

`RatingPages` has the three pages over one server: `Open`, `Close`, one action
per answer (`AnswerMe`, `AnswerTargets`, `AnswerMusic`, `AnswerConfig`,
`AnswerFails`) and, of the simulator, the scenario (`AddScenarioRow`,
`UpdateScenario`, `RemoveScenarioRow`, `ClearScenario`). `Open` is the first
render and its effects: what is stored is read (`loaded`), and the effect that
stores the scenario writes the empty one; `Render` is the second render, with
what was read. `ServerChanges` is a sync, a change of the catalogue or of the
configured versions. A row carries `chart`, the chart it really is of, which
the code does not have.

Server and pages look rows up differently, and the model has both. The server
looks up by id in the snapshot's catalogue and in its own, then by title
(`ServerEntry`, `ServerVersion`, `ServerIsBonus`); its toInt knows ids that are
numbers (`NumericIds`, as in the tests) and makes zero of texts, which the
bookmarklet sends. Its titles keep wide letters apart from plain ones (`name`),
those of the pages do not (`key`, NFKC). `SameFound` says that for all that both
found the same, which is when `TargetsAgree` promises the same totals. `shown`
is history, the snapshots the simulator has had: an id that one of them gives to
another chart than before takes its patch along (`NamesOneChart`).

Abstracted: floating point errors, the sorting and wording of the lists, the
groups by level of the board, and the constant that the targets page shows
beside a row. `IsRow` and `IsCatalogue` say what the pages of the game and the
catalogue may hold.

### SongCatalog

`ParseTracks`, `FilteredRows`, `Filtered` and `RowsOf` are what the page
computes in a render from the catalogue and the inputs; `Type`, `Choose`,
`TypeLevel`, `TypeBound`, `Prefer` and `Turn` are its inputs, `Load` the end of
the fetch. `due` says which effects a render still has to run: `Effects` puts
the page number right, first to 1 when the inputs changed, then to the last
page when it was past that, of which the second wins. `pageNumber` is the
page's `page`; it and `BrowserSpec` are named apart from those of `RatingPages`,
with which one module of proofs extends this one.

A filter keeps a set of places (`Picked`). The stable sort is what it promises:
`Ahead` are the rows that go before a row, by the comparator and, where that says
equal, by the place they had, and how many they are is the row's new place
(`Sorted`). `CatalogAssumption` says of what types catalogue and preferences are.
Of what local storage holds the page checks mode, difficulty and direction
against their values, and the key to sort by only for being a text
(`SongCatalogPage.tsx:255`): the model has the keys that the page writes.

Abstracted: texts are numbers in the order of localeCompare, 0 the empty one;
matching part of a text is the relation `Includes`.

### CatalogCache

`httpCache` and `storage` are shared by the tabs, `memory[t]` is MEMORY_CACHE
of a tab. A promise is [call |-> k] while call k is under way and then its
result [edition, at, stale] for all that hold it (`Settle`); `at` is when the
server had that edition. `Fetch` is fetchMusicExJson up to its first await, and
`Serve`, `Arrive`, `FallBack` and `Fail` are the rest of it. `Open`, `Leave`
and `Reload` are the pages that use it; `Submit`, `Merge`, `MergeFails` and
`Refresh` are the page for constants, of which `Entries` is
parseConstOverridePaste. What the server makes of it is `Upserts` and `Const`:
an entry of the overrides file is known by its id if it has one and by its
title otherwise (`KeyOf`), a paste goes into the entry that its title names or
is appended as one (`With`, `added`), and of all entries of a song, the
operator's (`Files`) first, those without force fill in what is missing and
those with force replace it. The server may start without a catalogue
(`loaded`) and answers with an error until upstream has given it one (`Load`). A
catalogue is known by its `edition`, a number that the code does not have; its
constants matter at the server only, where they are looked at.

Abstracted: a title stands for the id of its song, and no two songs share a
title; a merge is one step (`OverridesFile` has merges that overlap and writes
that fail); lines of a paste come split into title, difficulty and constant;
requests take less than a tick (`Tick` only when no call and no post of a
paste is under way).

### SiteSession

One tab and the server. A handler under way is a task: its request, the
server's answer and what the handler does when it arrives are separate steps
(`SubmitLogin`, `ServeLogin`, `LoginArrives`; in the same way for forms,
logout and deletion), and login and deletion go on with authMe (`ServeMe`,
`MeArrives`). A task knows whether its page is still there (`here`). `page` is
the form that is mounted, `jar` and `keep` the cookies of the session and of the
remember token, `csrf` whether the tab's copy of the token is the cookie's.
`Guarded` is RequireAuth and GuestOnly. `Elsewhere` is another tab that signs in
or out, `Lapse` the passing of time, `Lose` a lost request or answer.

The server side is an abstraction of `Accounts`: logins with their owner, those
whose session is there (`live`) and those whose remember token is (`good`), and
the count of failed logins, after which a captcha is asked for. A login
(`NewSession`) sets the remember cookie only when it was asked to and leaves the
one of an earlier login otherwise, which the history `mixed` records. Without a
session, `Named` is the user of the remember cookie, as in userFromSession: its
token is used up (`Unused`) and no session is issued for it. A new password and
a deletion take sessions and tokens of their user (`Without`), logout takes
the session and clears both cookies in the browser.

Abstracted: failures of the two stores; a remember token that reaches its 30
days; a cookie that expires in the browser, which is one whose session or token
is gone; the change of password and of the ingest token on the account
page, the page a verification link opens, the rules for inputs, the texts of
errors.

## 3. The runs

Each property of a run has a mutant, a plausible bug in a mapped definition
with which TLC finds the property violated.

| Run | What it shows | Bounds | Result |
|---|---|---|---|
| `OverridesFile_safety` | two merges that may overlap, failing writes, edits and a restart: only a merge that overlapped another loses a saved song or breaks the file | 2 mergers, 2 songs, 2 labels, 4 edits and merges, 1 restart | holds |
| `MusicExCache_safety` | everything that touches the cache, interleaved: what is in memory is on disk, the index is of its body, a hit is current | 2 bodies (one cannot be merged), 1 merger, 2 readers, 1 edit or merge, 1 new body, 1 restart | holds |
| `MusicExCache_liveness` | edits, new bodies, failed refreshes and writes and a restart end up with upstream's body and the overrides of the file | 2 bodies, 2 new ones, 2 edits, 1 restart | holds, under fairness |
| `Bookmarklet_safety` | the tables agree, no session is dropped early; one-time tickets are implemented | 2 users, 3 ids, 2 requests, TTL 5, clock to 11 | holds |
| `Accounts_safety` | resets, deletions, logins, verifications and requests with each kind of credential at once, statement by statement | 2 requests, 2 sessions, 2 reset tokens, 1 verification and 1 remember token | holds |
| `ScoreSync_safety` | a sync leaves what it found and takes nothing away, after any failures of others | 3 runs on one device, 2 at a time, 2 charts of which one is played, 1 new profile, pages with all rows or with none, no song data, 2 failures, 4 times of which the texts of 2 are in the wrong order | holds |
| `ScoreSync_wiped` | pages without rows make a partial payload that replaces everything | 2 runs, 1 failure | `PartialKeepsRows` violated |
| `OngekiFetch` | rows keep keys of their own; what is sent is what the site has; nothing is skipped that differs; pictures that are shown are there | any number of runs; 3 songs of one name, 2 of them at one level; 2 pages, one with two songs of one name and level; a profile from two pages; 1 picture | holds |
| `RatingPages` | what is tried never lowers anything and stays with its chart; server and pages agree to a thousandth | 4 snapshots (equal names, a name in wide letters, ids that are numbers, texts or missing, missing constants and versions, ties, a bonus track, no rows), 2 catalogues, pools of 1, 2 and 2, 3 changes of the server, 2 edits | holds |
| `SongCatalog` | pages hold every match once, in order, in every render | 6 songs that miss texts and numbers, pages of two, 1 query, 1 bound, 32 preferences | holds |
| `CatalogCache` | how old a catalogue may be, that it does not go backwards, that a paste is there | 2 tabs, 2 calls, ages of 2 ticks, 3 ticks, 1 change of the catalogue, 3 pastes, an overrides file that is empty or has an entry of the song by id and one by title | holds |
| `SiteSession` | the tab acts as the user it shows, no button stays disabled, no spent captcha is sent again | 3 routes and the reset page, which only a mail leads to, 3 users (one not verified), logins with and without "remember", 2 logins altogether, 2 handlers, 1 captcha per page | holds |

Why the bounds are enough. The races are between two actors that each go
through their steps once while the other is in between; two of each kind, and
one more value than actors where values can be confused, show all of them, and
the theorems below cover any number of actors and values. `MaxEdits`,
`MaxPublishes`, `MaxCrashes` and `MaxClock` bound what the environment does;
one edit or new body before, between and after the steps of an apply is the
interesting case, a second one makes an mtime go by twice. In the liveness run
applies overlap in the refresher and the watcher; a merge request would be a
third thread in the same steps, and is in `MusicExCache_safety`. The clock of
the bookmarklet runs past two lifetimes of a session. In `Accounts` the tokens
themselves are the bound: each is drawn once. Two sessions make a scan that
deletes one and misses another; two reset links make one reset revoke the
link that another request is using. In `ScoreSync` three runs are needed to
see a partial payload follow a full one and a full one follow that;
`MaxActive` bounds how many overlap, `MaxFailures` how many steps fail, of
which two are a lost answer and something after it. `Pages` are complete or
without any row. `Played` (one chart gets better scores, the other does not) is
a bound, and so is `Instants`: four times, of which the text of 10 hides that
of 12 and three are in order, so that three runs are saved in either case.

In `RatingPages` pools of one and two are full with the rows there are, so
that rows push each other out; `MaxChanges` lets a sync, another sync and a
change of the catalogue or the versions fall between any two answers;
`MaxEdits` lets one patch be made and changed, or two be made. The inputs are
a score below, one between and one above what the game allows. Of the ids 1 and
4 are numbers, which the server can look up, and the others are texts. In
`SongCatalog` pages of two make a last page that is not full and a number that
is past the end after a filter; each number is there twice, and once missing. In
`CatalogCache` three ticks are more than either age, and `MaxEditions` gives an
old catalogue and a new one; the properties compare two. `SiteSession` needs
two handlers for answers that cross, and two users and two sessions to confuse;
`MaxCaptchas` gives a page one token, which is enough to send it twice.
`crossed`, `mixed` and, in `CatalogCache`, `overlapped` are history: what a
property says ends when another tab signs in or two logins overlap, when a login
leaves the remember cookie of another user, or when two requests of the browser
overlap. `crossed` is a bound as well: `Elsewhere` happens once, and two logins
overlap only where nothing has crossed before.

Each module has one run of its properties, and those of the cache and the sync
one more; TLC ran each of the twelve to its end. The type invariants (but that
of `RatingPages`) and the four properties `TagNamesRaw`, `ReadyStaysReady`,
`NeverInCooldown` and `ConsumedOnce` are proved (section 5) and checked by no
run.

`CHECK_DEADLOCK FALSE` is said where everything that can be drawn is drawn or
every bound is reached. Symmetry is used for readers, requests, ids, tokens, runs, tasks and
verified users that no definition tells apart, and in no run with fairness.

Fairness (`MusicExCache!Fairness`): a goroutine in the middle of an operation
goes on, the two tickers tick, and a process that died is started again
(`restart: unless-stopped` in the compose files): weak fairness of those steps.
Of the environment a refresh that is tried again and again is assumed to get
its answer and to have its file written again and again (strong fairness of
`RefreshGets` and `RefreshCommit`): without that no client of a network could
promise anything. Nobody has to publish, edit, merge or read. `OverridesHeal`
is checked for an operator who does not remove the file: no file has mtime
zero, and a file that appears between an apply's stat and its load and is
removed before the next tick leaves its overrides in place. The other modules
state no fairness: what they wait for is a user, a network or another server.

## 4. What the code does not promise

One run expects a violation, and `PROJECT.json` quotes the line: a partial
payload without rows wipes the site (`store.go:460`, `ScoreSync_wiped`),
although the bookmarklet says of such a payload that only the updates are sent
(`main.ts:857`, 更新分のみ送信します).

The other places where the code falls short of its own words, or of what one
would expect, are kept in the models as they are. What the code's words ask for
is written down in the module under the name given here; no run checks it, and
TLC finds it violated when it is added to the cfg of the module's run. The
properties of the runs say what does hold.

* Two merges at once lose the songs of one (`music_ex_overrides_admin.go:121`,
  against the comment at `:116`; `MergesUpsert`) and can leave a file that does
  not parse, because they share a temporary name (`:284`). `SavedSongsStay`,
  `FileIsWhole` and `UnbrokenByMerges` are about merges that overlapped no other.
* An account that is deleted is still served for its ingest token:
  `UserByIngestToken` does not ask for `deleted_at` (`store.go:272`), and the
  upload and the bookmarklet's own page (`main.go:375,413`), the rating targets
  (`rating_targets.go:42`) and the bookmarklet session (`bookmarklet.go:22`) rely
  on it, although what is kept is to be deleted with the account
  (`PolicyPage.tsx:34`; `DeletionEndsIngest`). `NoSignInAfterDeletion` is about sessions and
  remember tokens.
* The latest snapshot is found by the text of its time, and RFC3339Nano leaves
  trailing zeros out: of two times some nanoseconds apart the older may be taken
  for the newer (`store.go:499`, comment `:496`; `FindsMostRecent`). The
  properties of the sync hold while no text of a time hides a later one
  (`InOrder`).
* A row whose id is a text is not found by its id on the server, whose ids are
  numbers (`rating_targets.go:110`, comment `:349`; `FoundById`). The bookmarklet
  writes all ids as texts.
* The server's names keep wide letters apart, those of the pages do not
  (`rating_targets.go:131`, `ratingCalc.ts:9`), so that a row may have a constant
  on one side only (`SameRatings`, after `ratingCalc.ts:4`). A catalogue's
  constant goes before the row's on the server (`:424`) and after it on the
  pages (`RatingSimulatorPage.tsx:188`). `TargetsAgree` is about rows for which
  both find the same.
* A paste by title does not meet an entry of the same song by its id
  (`music_ex_overrides_admin.go:127`, comment `:52`), which is applied first, so
  that its constants stay (`UpsertedByTitle`). `SubmittedIsServed` excepts a song
  for which another entry has the constant.
* A login without "remember" leaves the remember cookie of an earlier user
  (`auth.go:387`), and a server that finds no session goes by that cookie
  (`:414`): the deletion that one user's page asks for may delete the account of
  the other (`DeletesWhatIsShown`; `PolicyPage.tsx:39`). `ActsAsShown` holds
  until a login has left such a cookie.
* The remember token is good for one request after the session of 12 hours has
  ended: it is spent and no session is issued (`auth.go:422`, against "stay
  signed in, 30 days" of `LoginPage.tsx:62`; `AskingKeepsSignIn` of the browser,
  `StaysRemembered` of the accounts).
* A slow apply overwrites the result of a later refresh, and the watcher,
  which compares mtimes only, does not notice (`music_ex.go:295`;
  `MergedFollowsRaw`).
* Two requests for a reset link leave two that work (`store/auth.go:178`;
  `OneLiveResetToken`).
* The simulator's storage is empty between its first two renders
  (`RatingSimulatorPage.tsx:298`): a tab that is closed there loses the
  scenario. `PatchesStay` excepts it.
* A fetch that fails late forgets a newer promise (`musicExCache.ts:126`), an
  older answer replaces a newer one in storage (`:84`), a forced refresh may be
  answered by the HTTP cache with an old body (`:76`), and a stale result stays
  in memory as if it were new (`:124`). `NeverBackwards` holds until two
  requests overlap.
* The `csrf_token` cookie stays the same from one user to the next
  (`auth.go:252`), and it expires after an hour: the sign-out of an idle tab is
  then refused and the tab says nothing (`auth.go:254`, `App.tsx:80`). Answers
  of authMe are taken in the order they come (`AuthContext.tsx:38`). After
  another tab has signed in, `ActsAsShown` does not hold.
* The login page and the one for a forgotten password may send a captcha token
  that is spent; `FreshCaptcha` is about the other two forms.
* A filter that shortens the list while a page past its end is open leads to
  the last page, not to the first (`SongCatalogPage.tsx:372`), and songs
  without a number are not sorted by title, since the difference of two
  infinities is not a number (`:170`).
* A row with an id takes no turn among the songs of its name
  (`ongekiFetch.ts:637`), so that a row without one may get the same key, and
  without song data the id of the page is dropped (`:673`).
* The payload of a picture that was just stored has no data, so the next
  comparison finds it changed (`main.go:287`); a file that is there is never
  written again (`main.go:282`).

## 5. What is proved

Each `...Proofs` module extends the module it is about; that of the cache also
has the theorems about `OverridesFile`, which the cache extends, and `PagesProofs`
those about `RatingPages` and `SongCatalog`.

| Theorem | Statement | Inductive invariant |
|---|---|---|
| `FileTypeInvariant` | `FileSpec => []FileTypeOK`, any number of mergers | itself |
| `SavedSongsAreKept`, `FileStaysWhole`, `MergesBreakNothing` | `SavedSongsStay`, `FileIsWhole`, `UnbrokenByMerges`, any number of mergers | `AloneInv`: while a merge has overlapped no other, no other is under way, its descriptor leads to the temporary file, blank while it writes and its bundle when it renames, and its bundle has all that is saved and its own songs |
| `TypeCorrect` | `Spec => []TypeOK` of the cache | `CacheInv` |
| `RawIsAlwaysDurable`, `TagAlwaysNamesRaw`, `IndexAlwaysOfItsHash` | the three invariants | `CacheInv`: the types, the three, what a goroutine carries from one critical section to the next, and that a server that is down has no tag and no refresh under way |
| `HitsAreCurrent`, `AlwaysReady` | the two action properties | `CacheInv`, one step |
| `SessionTypes`, `TablesAgree`, `CreateIsNeverRefused`, `SessionsAreConsumedOnce` | the invariants of the bookmarklet sessions | `SessionInv`: the tables are inverse to each other; a stored session was drawn and not consumed, is pruned from the instant at which it expires, and is marked only after that; no request knows a time later than the clock |
| `GoodSessionsAreKept` | `Spec => GoodSessionsStay` | `SessionInv`, one step: what pruning drops has expired |
| `SessionsAreTickets` | `Spec => ImplementsTickets` | `SessionInv`; every step is a step of `OneTimeTicket` or changes nothing there |
| `AccountTypes` | `Spec => []TypeOK` of the accounts | itself |
| `CleanUpIsComplete` | `Spec => []NothingOutlivesReset` | per request, `Progress`: of what was live at the change, the reset links are gone once they were revoked, then the remember tokens, and of the sessions only those in `todo` are left |
| `LinksWorkOnce` | `Spec => []OneChangePerToken` | a token in a request's hand is spent, and no two requests hold the same; one that changed the password is spent and in nobody's hand |
| `ScoreSyncProofs!TypeCorrect` | `Spec => []TypeOK` of the sync | itself |
| `LatestCorrect`, `FollowedCorrect`, `SuccessCorrect`, `FullCorrect` | `LatestIsNewest`, `PartialIsFollowedByFull`, `SuccessShowsScrape`, `FullSyncIsExact`, while the texts of the times are in order (`InOrder`) | `Inv == BaseInv /\ (InOrder => OrderedInv)`: while a run has the server to itself no other is active, the latest snapshot is the one it compared with, its payload covers what it found as soon as it is merged, and so does the latest snapshot once it is saved; the latest time was taken before any that is still to come; behind a run that is done nobody is left |
| `PartialCorrect` | `PartialKeepsRows`, of payloads that have rows | `Inv` and `RowsInv`: a merged payload that was sent with rows has those of the latest snapshot |
| `SignInNeedsVerification`, `DeletedIsNotSignedIn` | `OnlyVerifiedSignIn`, `NoSignInAfterDeletion` (sessions and remember tokens; the ingest token is excepted) | `SignInInv`: a request that is about to set a session, or was served, belongs to a verified account; a request that passed the check of `deleted_at` did not come after the deletion |
| `TabActsAsShown`, `PagesAreNotStuck`, `CaptchasAreFresh` | `ActsAsShown`, `BusyWhileWorking`, `FreshCaptcha` | `SiteInv`: the types; a busy page has a task that is no logout; a task belongs to the page it can be started on, and a form's token is spent only while its one request is under way or when it is done; the guards let the page through; every cookie, in the browser or on its way, belongs to a login with an owner (`OwnedOK`), and until `crossed` or `mixed` every answer under way agrees with the cookies (`AnswersOK`) and a deletion carries those of the user who asked (`ActsInv`) |
| `CataloguesAreFresh` | `GivenIsFresh` | `FreshInv`: an answer under way is younger than the age of the HTTP cache, what is stored or remembered was that young when it was stored, and a page was given it before it was a day older |
| `SubmitsAreServed` | `SubmittedIsServed`, for any entries and pastes | `SubmitInv`: what an accepted paste says of a chart of which no other entry of the song has a constant is served until the next edition; that the last line of a chart counts is the lemma `LastLineCounts` |
| `NeverGoesBack` | `NeverBackwards` | `OrderInv` on top of the two: until two requests overlap one call at most is under way, and what is stored, remembered, waited for and seen is ordered by edition, storage being as new as anything a page was given |
| `PagesProofs!TypeCorrect` | `Spec => []TypeOK` of the pages: every patch, stored ones too, is a result the game allows | `IInv`: the types; every patch is filed under the id of a row, of its chart, of a snapshot the simulator has had (`Known`); what is stored is the scenario, but between the first two renders; a page that is closed has read nothing |
| `PatchStaysWithItsChart` | `PatchOfItsChart` | `IInv` |
| `PatchesAreKept` | `PatchesStay` | `IInv`, one step |
| `SimulationIsNeverLower` | `RowsNeverLower` | `IInv`; each formula grows with score, stars and lamps, over the joints of its pieces (`MainRateGrows` and the like) |
| `TotalsAreNeverLower` | `TotalsNeverLower` | `IInv`; a sum counts units, so a bigger sum is an injection; the rows of a pool are in a strict order, and the best `count` of them have the greatest sum any `count` of them have (`TopIsMaximal`) |
| `TargetsAreAgreed` | `TargetsAgree` | `IInv` and `Answered`: the page of the targets has lists once the server has answered; rows the server leaves out count nothing, what it rounds later is less than a unit a row (`TopsAgree`), and so is the quotient (`QuotientsAgree`) |
| `BoardTellsSongsApart` | `BoardConstFitsLevel` | `IInv` |
| `SongsAreOrdered` | `BrowserSpec => []Ordered` of the song browser | `SongsOK`: songs have the types the parser gives them, the page number is positive. The comparator, with the places before the sort where it says equal, is a strict order, so the numbers of rows ahead are a bijection (`RanksOf`) and each row has one place (`SortedFacts`) |
| `PagesHoldAll` | `BrowserSpec => []PagesTile` | `SongsOK`; pages are as many as the rows need (`PagesFit`), and the row at a place of a page is the one whose number is how many places come up to it (`NumbersOf`, `LaidInOrder`) |
| `GroupsHaveOwnKeys`, `RunsAreSaved`, `SkippedIsSame`, `ShownPicturesAreThere` | `OwnKeys`, `SentIsSaved`, `SkipMeansSame`, `PicturesAreThere` of one run | `IInv`: what was read, combined and saved are rows; the previous payload is the saved one or none; pictures the site shows are on its disk. The rest is one step: what `ChangedRows` leaves out is there (`OutgoingFacts`), and merging keeps the last row of each key |

None of these properties is inductive alone: what a goroutine has in its hand
has to be described before it shows. Assumptions: the named assumptions on
the constants in each module (that sentinels are not values, that kinds of
tokens do not overlap), and
`StrictClock` in the bookmarklet theorems: two reads of the clock differ. With
equal reads the two tables part company at the one instant at which a session
is good (not after its expiry) and may be pruned; Go's monotonic clock has a
resolution of nanoseconds, so the model keeps the case (`ClockStep = 0`) and
the theorems exclude it. Where the code keeps a promise in some cases only, the case is
part of the property (`InOrder`, merges that overlap, `mixed`) and not an
assumption of the theorem.

The theorems about the frontend need what the code has anyway: ages of at least
one tick, calls that are numbered, routes that exist, rows whose scores are
scores. One needs more, and says so. `OneIdEach`: each song of the song data has
an id of its own. TLC checks that the instance of the run meets it.

The library's theorems of induction take an operator, which the provers cannot
instantiate. Where the data needs induction (a sum over a set, the k-th of a
set, a row in a sequence that was filtered) the proofs go by a smallest
counterexample: a finite set that fails has a least one (`SmallestOf`), and a
set of numbers has a least element (`LeastOf`).

Model-checked only: liveness (`OverridesHeal`, `RawCatchesUp`), since fairness
and ENABLED are beyond the prover. Every other property of the runs that pass is
a theorem.

## 6. Not modelled, and why

* Which entry of the override file changes which song
  (`music_ex_overrides.go:229-373`): matching by names, artists and
  difficulties, a pure function of two files; which constant wins is in
  `CatalogCache`.
* Rate limits: they refuse requests, and every model allows a request to be
  refused. That requests at once all pass one is in the list of hazards.
* User ids: a draw that repeats is tried again and backed by a unique index.
  Migrations: they run once, at the start, in one process.
* The set-up page, whose server side is `BookmarkletSession`; the page that a
  verification link opens; the change of password and of the ingest token on the
  account page.
* Passwords, random numbers, mail, image files, certificates, routes and the
  deployment scripts: calls into other programs.
* Time as such: clocks are counters, and what the code compares is kept.

What could come next: two runs of the bookmarklet at once over the rows of
`OngekiFetch`, the pictures under a crash, the matching of override entries
against a reference over small files.
