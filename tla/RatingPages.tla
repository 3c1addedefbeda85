----------------------------- MODULE RatingPages -----------------------------
(***************************************************************************)
(* The three pages that show ratings: the rating targets, whose lists the  *)
(* server makes (pages/RatingTargetsPage.tsx, rating_targets.go), the      *)
(* simulator, which computes the same itself and lets the player try other *)
(* results in a scenario (pages/RatingSimulatorPage.tsx), and the board of *)
(* records (pages/AchievementBoardPage.tsx).  One page is open at a time.  *)
(*                                                                         *)
(* Each page fetches on its own what it shows, and the answers arrive in   *)
(* any order or not at all, while the server goes on: a sync replaces the  *)
(* snapshot, the catalogue and the names of the new versions change.       *)
(*                                                                         *)
(* The scenario is a function from row ids to patches.  An effect of the   *)
(* page stores it in local storage after each change.                      *)
(***************************************************************************)
EXTENDS Rating

CONSTANTS
    Payload,        \* the snapshots a sync may make: [rows, catalog]
    Catalogue,      \* the catalogues the server may have
    News,           \* the names of new versions it may be configured with
    DefaultNews,    \* DEFAULT_NEW_SONG_VERSIONS
    NumericIds,     \* the ids that are numbers, as in the tests; the others are texts
    ScoreInput, StarInput,          \* the numbers a player may enter
    NoPayload, NoScenario,
    MaxChanges, MaxEdits            \* bounds of this model

IsSequence(s) == Len(s) \in Nat /\ DOMAIN s = 1..Len(s)

\* A row holds what the pages of the game show.
IsRow(r) ==
    /\ r = [chart |-> r.chart, name |-> r.name, key |-> r.key, id |-> r.id,
            level |-> r.level, const |-> r.const, version |-> r.version, score |-> r.score,
            star |-> r.star, plat |-> r.plat, fb |-> r.fb, fc |-> r.fc, ab |-> r.ab]
    /\ r.chart[1] = r.name
    /\ r.level \in [n : 0..15, plus : BOOLEAN] \cup {NoId}
    /\ r.const \in Nat \cup {NoConst} /\ r.score \in 0..TopScore
    /\ r.star \in Int /\ r.star <= 5 /\ r.plat \in Nat
    /\ {r.fb, r.fc, r.ab} \subseteq BOOLEAN

IsCatalogue(cat) ==
    /\ IsSequence(cat)
    /\ \A k \in DOMAIN cat : /\ cat[k].const \in Nat \cup {NoConst}
                            /\ cat[k].level \in [n : Nat, plus : BOOLEAN] \cup {NoId}

ASSUME PagesAssumption ==
    /\ NoPayload \notin Payload
    /\ \A p \in Payload : /\ IsSequence(p.rows) /\ \A i \in DOMAIN p.rows : IsRow(p.rows[i])
                          /\ IsCatalogue(p.catalog)
    /\ \A cat \in Catalogue : IsCatalogue(cat)
    /\ ScoreInput \cup StarInput \subseteq Int

VARIABLES
    latest, catalogue, news,        \* the server
    page,                           \* the page that is open
    waiting, err,                   \* its unanswered requests; its error
    payload, music, versions,       \* what it has fetched
    scenario,                       \* the simulator's scenarioMap
    loaded,                         \* ... read from storage, not rendered yet
    stored,                         \* ... in local storage
    answered,                       \* what the server's lists were made of
    shown,                          \* the snapshots the simulator has had
    changes, edits                  \* counted for the bounds

server == <<latest, catalogue, news, changes>>
fetched == <<payload, music, versions, answered, shown>>
vars == <<server, page, waiting, err, fetched, scenario, loaded, stored, edits>>

Smaller(a, b) == IF a < b THEN a ELSE b
Larger(a, b) == IF a < b THEN b ELSE a

Requests(p) == CASE p = "simulator" -> {"me", "music", "config"}
                 [] p = "board" -> {"me", "music"}
                 [] p = "targets" -> {"targets", "music"}

\* The page shows more than a loading bar or an error.
Shows(p) == page = p /\ waiting \cap {"me", "targets"} = {} /\ ~err

-----------------------------------------------------------------------------
(* The rows of the simulator.                                              *)

\* The bonus tracks of the snapshot's catalogue.
BonusEntries(p) == {p.catalog[k] : k \in {j \in DOMAIN p.catalog : p.catalog[j].bonus}}

\* Row r is of a bonus track, by the id or by the title.
IsBonus(p, r) == EntryOfId(p.catalog, r.id).bonus \/ \E e \in BonusEntries(p) : e.key = r.key

\* extractScoreRows and the filter of baseRows.
Rows(p) == IF p = NoPayload THEN << >>
           ELSE Picked(p.rows, {i \in DOMAIN p.rows : ~IsBonus(p, p.rows[i])})

\* Mutant: the id of the song is not used.
RowIdByPlace(rows, i) == <<rows[i].name, i>>

\* stableRowID: the id of the song, or the name and the place in the list.
RowId(rows, i) == IF rows[i].id # NoId THEN <<rows[i].id>> ELSE <<rows[i].name, i>>

RowIds(rows) == {RowId(rows, i) : i \in DOMAIN rows}

\* resolvedConst: the row's, the snapshot's catalogue's, the fetched one's.
ResolvedConst(p, m, r) ==
    AtLeastZero(FirstConst(<<r.const, EntryOfId(p.catalog, r.id).const,
                             IndexedConst(m, r.key)>>))

CatalogVersion(p, m, r) ==
    LET v == IndexedVersion(m, r.key)
    IN  IF v # NoVersion THEN v ELSE EntryOfId(p.catalog, r.id).version

IsNewRow(p, m, ns, r) == IsNewSong(r.version, CatalogVersion(p, m, r), ns)

\* defaultPatchForRow; chart is what the patch is for and not in the code.
DefaultPatch(r) == [chart |-> r.chart, score |-> r.score, star |-> AtLeastZero(r.star),
                    fc |-> r.fc \/ r.ab, ab |-> r.ab, fb |-> r.fb]

\* Mutant: a score is not limited to what the game allows.
UpdatedUnlimited(r, q) ==
    [q EXCEPT !.score = AtLeastZero(@),
              !.star = Larger(r.star, Smaller(5, AtLeastZero(@))),
              !.fc = @ \/ r.fc \/ r.ab, !.ab = @ \/ r.ab, !.fb = @ \/ r.fb]

\* updateScenario: what was reached cannot be taken back.
Updated(r, q) ==
    [q EXCEPT !.score = AtLeastZero(Smaller(TopScore, @)),
              !.star = Larger(r.star, Smaller(5, AtLeastZero(@))),
              !.fc = @ \/ r.fc \/ r.ab, !.ab = @ \/ r.ab, !.fb = @ \/ r.fb]

\* Mutant: a patch may lower the score.
PatchedAsEntered(r, q) ==
    LET ab == r.ab \/ q.ab
        star == Larger(r.star, Smaller(5, AtLeastZero(q.star)))
    IN  [r EXCEPT !.score = Smaller(TopScore, q.score), !.ab = ab,
                  !.fc = r.fc \/ r.ab \/ q.fc \/ ab, !.fb = r.fb \/ q.fb,
                  !.star = star, !.plat = IF @ > 0 \/ star > 0 THEN Larger(@, 1) ELSE 0]

\* simulatedRows: a row with its patch, never less than the row.
Patched(r, q) ==
    LET ab == r.ab \/ q.ab
        star == Larger(r.star, Smaller(5, AtLeastZero(q.star)))
    IN  [r EXCEPT !.score = Larger(r.score, Smaller(TopScore, q.score)), !.ab = ab,
                  !.fc = r.fc \/ r.ab \/ q.fc \/ ab, !.fb = r.fb \/ q.fb,
                  !.star = star, !.plat = IF @ > 0 \/ star > 0 THEN Larger(@, 1) ELSE 0]

Simulated(rows, s) ==
    [i \in DOMAIN rows |-> IF RowId(rows, i) \in DOMAIN s
                           THEN Patched(rows[i], s[RowId(rows, i)]) ELSE rows[i]]

-----------------------------------------------------------------------------
(* Pools and totals of the simulator: getTargetPools, calcTotalRating.     *)

Field(rows, f(_)) == [i \in DOMAIN rows |-> f(rows[i])]

TechRates(p, m, rows) == Field(rows, LAMBDA r : TechRate(ResolvedConst(p, m, r), r))
PlatRates(p, m, rows) == Field(rows, LAMBDA r : PlatRate(ResolvedConst(p, m, r), r.star))

Pools(p, m, ns, rows) ==
    LET tech == TechRates(p, m, rows)
        score == Field(rows, LAMBDA r : r.score)
        new == {i \in DOMAIN rows : IsNewRow(p, m, ns, rows[i])}
        plat == {i \in DOMAIN rows : rows[i].plat > 0}
    IN  [new |-> Top(new, NewCount, tech, score),
         old |-> Top(DOMAIN rows \ new, OldCount, tech, score),
         plat |-> Top(plat, PlatCount, PlatRates(p, m, rows), Field(rows, LAMBDA r : r.star))]

\* Mutant: platinum scores are averaged over the rows there are.
ContributionsOfRows(pools, tech, plat, unit) ==
    [new |-> SumOf(tech, pools.new) \div (NewCount * 5 * unit),
     old |-> SumOf(tech, pools.old) \div (OldCount * unit),
     plat |-> SumOf(plat, pools.plat) \div Larger(1, Cardinality(pools.plat))]

\* What the pools contribute: averages, a fifth of it for new songs.
Contributions(pools, tech, plat, unit) ==
    [new |-> SumOf(tech, pools.new) \div (NewCount * 5 * unit),
     old |-> SumOf(tech, pools.old) \div (OldCount * unit),
     plat |-> SumOf(plat, pools.plat) \div PlatCount]

Summary(p, m, ns, rows) ==
    Contributions(Pools(p, m, ns, rows), TechRates(p, m, rows), PlatRates(p, m, rows), 1)

-----------------------------------------------------------------------------
(* The server's lists.  Its toInt makes 0 of an id that is a text, as the  *)
(* bookmarklet and upstream have them; what is looked up by id is then     *)
(* never found.                                                            *)

ServerEntryOfId(cat, id) == IF id \in NumericIds THEN EntryOfId(cat, id) ELSE NoEntry

\* lookupCatalog: by id in the snapshot's catalogue and in the server's, then
\* by name.
ServerEntry(p, cat, r) ==
    LET own == ServerEntryOfId(p.catalog, r.id)
        its == ServerEntryOfId(cat, r.id)
    IN  CASE own # NoEntry -> own
          [] own = NoEntry /\ its # NoEntry -> its
          [] OTHER -> EntryOfName(cat, r.name)

\* The entry's constant goes before the row's.
ServerConst(p, cat, r) == AtLeastZero(FirstConst(<<ServerEntry(p, cat, r).const, r.const>>))

\* catalogVersion: the first that is not empty.
ServerVersion(p, cat, r) ==
    LET tries == <<ServerEntryOfId(cat, r.id), EntryOfName(cat, r.name), ServerEntry(p, cat, r)>>
        known == {i \in DOMAIN tries : tries[i].version # NoVersion}
    IN  IF known = {} THEN NoVersion
        ELSE tries[CHOOSE i \in known : \A j \in known : i <= j].version

ServerIsBonus(p, cat, r) ==
    \/ r.id \in NumericIds \ {NoId} /\ \E e \in BonusEntries(p) : e.id = r.id
    \/ \E e \in BonusEntries(p) : e.name = r.name
    \/ ServerEntry(p, cat, r).bonus

\* extractRatedRowsFromPayload: no bonus track, no row without a constant.
ServerRows(p, cat) ==
    IF p = NoPayload THEN << >>
    ELSE Picked(p.rows, {i \in DOMAIN p.rows : /\ ~ServerIsBonus(p, cat, p.rows[i])
                                               /\ ServerConst(p, cat, p.rows[i]) > 0})

ServerTechRates(p, cat, rows) ==
    Field(rows, LAMBDA r : ServerTechRate(ServerConst(p, cat, r), r))
ServerPlatRates(p, cat, rows) == Field(rows, LAMBDA r : PlatRate(ServerConst(p, cat, r), r.star))

\* Mutant: only the version of the row makes a song new.
ServerPoolsByVersion(p, cat, ns, rows) ==
    LET new == {i \in DOMAIN rows : rows[i].version \in ns}
        plat == {i \in DOMAIN rows : rows[i].plat > 0}
        score == Field(rows, LAMBDA r : r.score)
    IN  [new |-> Top(new, NewCount, ServerTechRates(p, cat, rows), score),
         old |-> Top(DOMAIN rows \ new, OldCount, ServerTechRates(p, cat, rows), score),
         plat |-> Top(plat, PlatCount, ServerPlatRates(p, cat, rows), Field(rows, LAMBDA r : r.star))]

\* handleRatingTargets.
ServerPools(p, cat, ns, rows) ==
    LET new == {i \in DOMAIN rows : IsNewSong(rows[i].version, ServerVersion(p, cat, rows[i]), ns)}
        plat == {i \in DOMAIN rows : rows[i].plat > 0}
        score == Field(rows, LAMBDA r : r.score)
    IN  [new |-> Top(new, NewCount, ServerTechRates(p, cat, rows), score),
         old |-> Top(DOMAIN rows \ new, OldCount, ServerTechRates(p, cat, rows), score),
         plat |-> Top(plat, PlatCount, ServerPlatRates(p, cat, rows), Field(rows, LAMBDA r : r.star))]

\* The totals the page of the rating targets makes of the lists.
TargetsSummary(a) ==
    LET rows == ServerRows(a.payload, a.catalogue)
    IN  Contributions(ServerPools(a.payload, a.catalogue, a.news, rows),
                      ServerTechRates(a.payload, a.catalogue, rows),
                      ServerPlatRates(a.payload, a.catalogue, rows), Fine)

-----------------------------------------------------------------------------
(* The board.                                                              *)

\* rows: the constant a row is shown with.
BoardConst(p, m, r) ==
    FirstConst(<<r.const, EntryOfId(p.catalog, r.id).const,
                 BestConst(r.level, Candidates(m, r.key)), IndexedConst(m, r.key)>>)

-----------------------------------------------------------------------------
(* The server.                                                             *)

Init ==
    /\ latest = NoPayload /\ catalogue \in Catalogue /\ news \in News
    /\ page = "none" /\ waiting = {} /\ err = FALSE
    /\ payload = NoPayload /\ music = << >> /\ versions = DefaultNews
    /\ answered = NoPayload /\ shown = {}
    /\ scenario = << >> /\ loaded = NoScenario /\ stored = << >>
    /\ changes = 0 /\ edits = 0

\* The player syncs, upstream changes the catalogue, the operator the names.
ServerChanges ==
    /\ changes < MaxChanges
    /\ changes' = changes + 1
    /\ \/ latest' \in Payload /\ UNCHANGED <<catalogue, news>>
       \/ catalogue' \in Catalogue /\ UNCHANGED <<latest, news>>
       \/ news' \in News /\ UNCHANGED <<latest, catalogue>>
    /\ UNCHANGED <<page, waiting, err, fetched, scenario, loaded, stored, edits>>

-----------------------------------------------------------------------------
(* Opening and closing a page.                                             *)

\* The first render and its effects.  The simulator reads what is stored,
\* and the effect that stores the scenario runs before that is rendered.
Open(p) ==
    /\ page = "none"
    /\ page' = p /\ waiting' = Requests(p) /\ err' = FALSE
    /\ payload' = NoPayload /\ music' = << >> /\ versions' = DefaultNews
    /\ answered' = NoPayload
    /\ scenario' = << >>
    /\ loaded' = IF p = "simulator" THEN stored ELSE NoScenario
    /\ stored' = IF p = "simulator" THEN << >> ELSE stored
    /\ UNCHANGED <<server, shown, edits>>

\* setScenarioMap and the effect that stores what it set.
SetScenario(s) == scenario' = s /\ stored' = s

\* The second render: what was read is the scenario.
Render ==
    /\ loaded # NoScenario
    /\ SetScenario(loaded) /\ loaded' = NoScenario
    /\ UNCHANGED <<server, page, waiting, err, fetched, edits>>

\* Answers of requests of a page that was left are dropped (cancelled).
Close ==
    /\ page # "none"
    /\ page' = "none" /\ waiting' = {} /\ err' = FALSE
    /\ payload' = NoPayload /\ music' = << >> /\ versions' = DefaultNews
    /\ answered' = NoPayload
    /\ scenario' = << >> /\ loaded' = NoScenario
    /\ UNCHANGED <<server, shown, stored, edits>>

-----------------------------------------------------------------------------
(* Answers.                                                                *)

\* A request of the page is answered; its first effects are over.
Settles(q) == q \in waiting /\ loaded = NoScenario

Restricted(s, ids) == [id \in DOMAIN s \cap ids |-> s[id]]

\* Mutant: an empty list of rows prunes everything.
PrunedAlways(s, rows) == Restricted(s, RowIds(rows))

\* The effect on baseRows: patches of rows that are gone are dropped.
Pruned(s, rows) == IF rows = << >> THEN s ELSE Restricted(s, RowIds(rows))

\* fetchMe: the latest snapshot, or none.
AnswerMe ==
    /\ Settles("me")
    /\ waiting' = waiting \ {"me"}
    /\ payload' = latest
    /\ IF page = "simulator" THEN /\ SetScenario(Pruned(scenario, Rows(latest)))
                                  /\ shown' = shown \cup ({latest} \ {NoPayload})
                             ELSE UNCHANGED <<scenario, stored, shown>>
    /\ UNCHANGED <<server, page, err, music, versions, answered, loaded, edits>>

\* fetchRatingTargets: the lists; the page then asks for its snapshot.
AnswerTargets ==
    /\ Settles("targets")
    /\ waiting' = (waiting \ {"targets"}) \cup {"me"}
    /\ answered' = [payload |-> latest, catalogue |-> catalogue, news |-> news]
    /\ UNCHANGED <<server, page, err, payload, music, versions, shown, scenario, loaded, stored,
                   edits>>

\* A failure of either is what the page shows instead.
AnswerFails ==
    /\ \E q \in {"me", "targets"} : Settles(q) /\ waiting' = waiting \ {q}
    /\ err' = TRUE
    /\ UNCHANGED <<server, page, fetched, scenario, loaded, stored, edits>>

\* fetchMusicExJson: a failure is ignored.
AnswerMusic ==
    /\ Settles("music")
    /\ waiting' = waiting \ {"music"}
    /\ music' \in {catalogue, << >>}
    /\ UNCHANGED <<server, page, err, payload, versions, answered, shown, scenario, loaded, stored,
                   edits>>

\* fetchAppConfig: a failure, or no names at all, leaves the default.
AnswerConfig ==
    /\ Settles("config")
    /\ waiting' = waiting \ {"config"}
    /\ versions' \in {IF news = {} THEN DefaultNews ELSE news, DefaultNews}
    /\ UNCHANGED <<server, page, err, payload, music, answered, shown, scenario, loaded, stored,
                   edits>>

-----------------------------------------------------------------------------
(* The scenario.                                                           *)

Edit == /\ Shows("simulator") /\ loaded = NoScenario
        /\ edits < MaxEdits /\ edits' = edits + 1
        /\ UNCHANGED <<server, page, waiting, err, fetched, loaded>>

\* The list to choose from has the rows of one level, which may be any but
\* 0+, the only level the page does not offer.
Selectable == {i \in DOMAIN Rows(payload) :
                  Rows(payload)[i].level \notin {NoId, [n |-> 0, plus |-> TRUE]}}

\* scenarioEntries: the row a patch is shown with, the first with its id.
Entries == {i \in DOMAIN Rows(payload) :
               /\ RowId(Rows(payload), i) \in DOMAIN scenario
               /\ \A j \in 1..(i - 1) : RowId(Rows(payload), j) # RowId(Rows(payload), i)}

WithPatch(s, id, q) == [x \in DOMAIN s \cup {id} |-> IF x = id THEN q ELSE s[x]]

AddScenarioRow ==
    /\ Edit
    /\ \E i \in Selectable :
         /\ RowId(Rows(payload), i) \notin DOMAIN scenario
         /\ SetScenario(WithPatch(scenario, RowId(Rows(payload), i), DefaultPatch(Rows(payload)[i])))

\* One field of a patch is entered.
Entered(q) == {[q EXCEPT !.score = x] : x \in ScoreInput}
                  \cup {[q EXCEPT !.star = x] : x \in StarInput}
                  \cup {[q EXCEPT !.fc = ~@], [q EXCEPT !.ab = ~@], [q EXCEPT !.fb = ~@]}

UpdateScenario ==
    /\ Edit
    /\ \E i \in Entries : LET id == RowId(Rows(payload), i) IN
         \E q \in Entered(scenario[id]) :
            SetScenario([scenario EXCEPT ![id] = Updated(Rows(payload)[i], q)])

RemoveScenarioRow ==
    /\ Edit
    /\ \E i \in Entries :
         SetScenario(Restricted(scenario, DOMAIN scenario \ {RowId(Rows(payload), i)}))

ClearScenario == Edit /\ Entries # {} /\ SetScenario(<< >>)

-----------------------------------------------------------------------------
Next ==
    \/ ServerChanges \/ Render \/ Close
    \/ \E p \in {"simulator", "board", "targets"} : Open(p)
    \/ AnswerMe \/ AnswerTargets \/ AnswerFails \/ AnswerMusic \/ AnswerConfig
    \/ AddScenarioRow \/ UpdateScenario \/ RemoveScenarioRow \/ ClearScenario

Spec == Init /\ [][Next]_vars

-----------------------------------------------------------------------------
(* Properties.                                                             *)

PatchType == [chart : {r.chart : r \in UNION {{p.rows[i] : i \in DOMAIN p.rows} : p \in Payload}},
              score : 0..TopScore, star : 0..5, fc : BOOLEAN, ab : BOOLEAN, fb : BOOLEAN]

IsScenario(s) == s \in [DOMAIN s -> PatchType]

Ids == UNION {RowIds(Rows(p)) : p \in Payload}

ASSUME NoScenarioAssumption == \A D \in SUBSET Ids : NoScenario \notin [D -> PatchType]

\* Types.  A patch, stored ones included, is a result the game allows:
\* at most TopScore points and five stars (updateScenario).
TypeOK ==
    /\ latest \in Payload \cup {NoPayload} /\ catalogue \in Catalogue /\ news \in News
    /\ page \in {"none", "simulator", "board", "targets"}
    /\ waiting \subseteq {"me", "music", "config", "targets"} /\ err \in BOOLEAN
    /\ payload \in Payload \cup {NoPayload}
    /\ music \in Catalogue \cup {<< >>} /\ versions \in News \cup {DefaultNews}
    /\ answered \in [payload : Payload \cup {NoPayload}, catalogue : Catalogue, news : News]
                       \cup {NoPayload}
    /\ shown \subseteq Payload
    /\ IsScenario(scenario) /\ IsScenario(stored)
    /\ loaded = NoScenario \/ IsScenario(loaded)

\* Whatever the player enters, no row of the simulation is rated below the
\* row it is of (simulatedRows, and the steps of calcMainRate).
RowsNeverLower ==
    Shows("simulator") =>
        LET rows == Rows(payload)  sim == Simulated(rows, scenario) IN
        \A i \in DOMAIN rows :
            LET c == ResolvedConst(payload, music, rows[i]) IN
            /\ TechRate(c, rows[i]) <= TechRate(c, sim[i])
            /\ PlatRate(c, rows[i].star) <= PlatRate(c, sim[i].star)

\* ... and neither is any of the three contributions, nor does a row leave
\* a pool unless the pool is full (calcTotalRating, targetDiff).
TotalsNeverLower ==
    Shows("simulator") =>
        LET rows == Rows(payload)  sim == Simulated(rows, scenario)
            before == Summary(payload, music, versions, rows)
            after == Summary(payload, music, versions, sim)
            out == Pools(payload, music, versions, rows)
            in == Pools(payload, music, versions, sim)
            size == [new |-> NewCount, old |-> OldCount, plat |-> PlatCount]
        IN  \A f \in DOMAIN size :
                /\ before[f] <= after[f]
                /\ out[f] \subseteq in[f] \/ Cardinality(in[f]) = size[f]

\* No two snapshots that the simulator has had give one id to two charts, nor
\* does one of them.
NamesOneChart(id) ==
    \A p, q \in shown : \A i \in DOMAIN p.rows, j \in DOMAIN q.rows :
        p.rows[i].id = id /\ q.rows[j].id = id => p.rows[i].chart = q.rows[j].chart

\* A patch of a row with an id is only ever applied to the chart it was made
\* for, through syncs that add, remove and reorder rows, until a snapshot gives
\* the id to another chart; one of a row without an id at least to a chart of
\* the same name (stableRowID, the prune effect).
PatchOfItsChart ==
    Shows("simulator") =>
        \A i \in DOMAIN Rows(payload) :
            LET r == Rows(payload)[i]  id == RowId(Rows(payload), i) IN
            id \in DOMAIN scenario =>
                /\ r.id = NoId => scenario[id].chart[1] = r.chart[1]
                /\ r.id # NoId /\ NamesOneChart(r.id) => scenario[id].chart = r.chart

\* What would be there after a reload, or is about to be stored.
Kept == IF loaded = NoScenario THEN stored ELSE loaded

\* A patch is lost only when the player removes it, when a snapshot with
\* rows has none with its id, or when the page is closed between its first
\* two renders.
PatchesStay ==
    [][\A id \in DOMAIN Kept \ DOMAIN Kept' :
           \/ RemoveScenarioRow \/ ClearScenario
           \/ AnswerMe /\ Rows(latest) # << >> /\ id \notin RowIds(Rows(latest))
           \/ Close /\ loaded # NoScenario]_vars

\* A song whose row has neither constant nor id gets the constant of an
\* entry of its name with its level, when there is one: songs of the same
\* name are told apart (pickBestConstCandidate).
BoardConstFitsLevel ==
    Shows("board") /\ payload # NoPayload =>
        \A i \in DOMAIN payload.rows :
            LET r == payload.rows[i]
                same == {k \in DOMAIN music : music[k].key = r.key /\ HasConst(music[k])
                                                /\ music[k].level = r.level}
            IN  r.const = NoConst /\ r.id = NoId /\ r.level # NoId /\ same # {} =>
                    BoardConst(payload, music, r) \in {music[k].const : k \in same}

\* Server and simulator find the same bonus tracks, constants and new songs.
SameFound(p, cat, ns) ==
    /\ \A i \in DOMAIN p.rows : ServerConst(p, cat, p.rows[i]) > 0 =>
          (IsBonus(p, p.rows[i]) <=> ServerIsBonus(p, cat, p.rows[i]))
    /\ \A i \in DOMAIN Rows(p) : LET r == Rows(p)[i] IN
          /\ ServerConst(p, cat, r) = ResolvedConst(p, cat, r)
          /\ IsNewRow(p, cat, ns, r) <=> IsNewSong(r.version, ServerVersion(p, cat, r), ns)

\* The rating targets and the simulator, which round at different places,
\* agree to a thousandth on what each pool contributes, when they found the
\* same bonus tracks, constants and new songs (handleRatingTargets, sumTop,
\* calcTotalRating).
TargetsAgree ==
    Shows("targets") /\ answered.payload # NoPayload =>
        LET p == answered.payload  cat == answered.catalogue  ns == answered.news IN
        SameFound(p, cat, ns) =>
            \A f \in {"new", "old", "plat"} :
                Apart(Summary(p, cat, ns, Rows(p))[f], TargetsSummary(answered)[f]) <= 1

\* A row is looked up by its id in the snapshot's catalogue first
\* (backend/cmd/server/rating_targets.go:349).
FoundById ==
    Shows("targets") /\ answered.payload # NoPayload =>
        LET p == answered.payload IN
        \A i \in DOMAIN p.rows :
            LET own == EntryOfId(p.catalog, p.rows[i].id) IN
            own # NoEntry => ServerEntry(p, answered.catalogue, p.rows[i]) = own

\* The server's logic and the page's have to give the same
\* (frontend/src/lib/ratingCalc.ts:4).
SameRatings ==
    Shows("targets") /\ answered.payload # NoPayload =>
        LET p == answered.payload IN
        \A f \in {"new", "old", "plat"} :
            Apart(Summary(p, answered.catalogue, answered.news, Rows(p))[f],
                  TargetsSummary(answered)[f]) <= 1
=============================================================================
