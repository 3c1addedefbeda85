----------------------------- MODULE SongCatalog -----------------------------
(***************************************************************************)
(* The song browser (pages/SongCatalogPage): the catalogue is parsed once, *)
(* filtered by what the inputs ask for, sorted, and shown a page at a      *)
(* time.  A render is followed by the effects that put the page number     *)
(* right; what a render shows before that counts, too.                     *)
(*                                                                         *)
(* Texts are numbers in the order of localeCompare, 0 the empty one; a     *)
(* constant is in tenths.  Catalogues come from module CatalogCache.       *)
(***************************************************************************)
EXTENDS Subsequence

CONSTANTS
    SongLists,      \* sequences of entries the server may give
    Query,          \* texts typed into the inputs
    Includes,       \* pairs of a query and a text it is found in
    Bound,          \* numbers typed into the inputs
    Undefined,      \* no number; no query
    Preference,     \* stored and chosen: [mode, diff, key, order]
    RowsPerPage

Diff == {"bas", "adv", "exc", "mas", "lnt"}
TextField == {"title", "artist", "version", "genre", "attr"}

\* Keys to sort by: a field, "bpm", or what is known of a difficulty.
SimpleKey == {<<f, "all">> : f \in TextField \cup {"bpm"}} \cup ({"level", "const"} \X Diff)
DetailKey == {"notes", "bells", "star"} \X Diff

ASSUME CatalogAssumption ==
    /\ RowsPerPage \in Nat \ {0} /\ Bound \subseteq Nat
    /\ \A raws \in SongLists : Len(raws) \in Nat /\ DOMAIN raws = 1..Len(raws)
    /\ Preference \subseteq [mode : {"simple", "detail"}, diff : Diff,
                            key : SimpleKey \cup DetailKey, order : {"asc", "desc"}]

VARIABLES
    status,         \* "loading", "error", "ready"
    tracks,
    ask,            \* [text, level, const, bells, star]
    prefs,          \* a Preference
    pageNumber,
    due             \* effects to run: "none", "clamp", "reset"

browserVars == <<status, tracks, ask, prefs, pageNumber, due>>

-----------------------------------------------------------------------------
(* Parsing.                                                                *)

\* toNumber, toInt: no number unless there is one in the text.
ToNumber(raw) == IF raw \in Int THEN raw ELSE Undefined
\* String(v ?? "").trim()
ToText(raw) == IF raw \in Int THEN raw ELSE 0

\* parseTrack, of an entry whose fields may be anything.
ParseTrack(raw) ==
    [text |-> [f \in TextField |-> ToText(raw.text[f])],
     bpm |-> ToNumber(raw.bpm),
     chart |-> [d \in Diff |-> [level |-> ToText(raw.chart[d].level),
                                const |-> ToNumber(raw.chart[d].const),
                                notes |-> ToNumber(raw.chart[d].notes),
                                bells |-> ToNumber(raw.chart[d].bells)]]]

ParseTracks(raws) ==
    LET all == [i \in DOMAIN raws |-> ParseTrack(raws[i])]
    IN  Picked(all, {i \in DOMAIN raws : all[i].text["title"] # 0})

\* The points one may lose of 2 * notes and have 98 per cent.
FiveStarLimit(notes) == IF notes = Undefined THEN Undefined ELSE (notes * 4) \div 100

-----------------------------------------------------------------------------
(* Filtering.                                                              *)

NoRange == [lo |-> Undefined, hi |-> Undefined]
NoAsk == [text |-> [f \in TextField |-> Undefined], level |-> Undefined,
          const |-> NoRange, bells |-> NoRange, star |-> NoRange]

Within(n, range) ==
    /\ range.lo # Undefined => n # Undefined /\ n >= range.lo
    /\ range.hi # Undefined => n # Undefined /\ n <= range.hi

\* What is typed for title and artist is looked for; the others are chosen.
TextMatches(f, q, text) == IF f \in {"title", "artist"} THEN <<q, text>> \in Includes ELSE q = text

Matches(t) ==
    LET c == t.chart[prefs.diff] IN
    /\ \A f \in TextField : ask.text[f] # Undefined => TextMatches(f, ask.text[f], t.text[f])
    /\ ask.level # Undefined =>
          {<<ask.level, c.level>>, <<ask.level, c.const>>} \cap Includes # {}
    /\ Within(c.const, ask.const)
    /\ prefs.mode = "detail" => Within(c.bells, ask.bells) /\ Within(FiveStarLimit(c.notes), ask.star)

FilteredRows == Picked(tracks, {i \in DOMAIN tracks : Matches(tracks[i])})

-----------------------------------------------------------------------------
(* Sorting.                                                                *)

MinusInfinity == -1
NumOrSentinel(n) == IF n = Undefined THEN MinusInfinity ELSE n

\* What compareByKey subtracts or compares.
KeyValue(t, key) ==
    CASE key[1] \in TextField -> t.text[key[1]]
      [] key[1] = "bpm" -> NumOrSentinel(t.bpm)
      [] key[1] = "level" -> t.chart[key[2]].level
      [] key[1] \in {"const", "notes", "bells"} -> NumOrSentinel(t.chart[key[2]][key[1]])
      [] key[1] = "star" -> NumOrSentinel(FiveStarLimit(t.chart[key[2]].notes))

\* Mutant: the direction turns the order of the titles around, too.
PrecedesEither(a, b) ==
    LET up(x, y) == IF prefs.order = "asc" THEN x < y ELSE x > y
        ka == KeyValue(a, prefs.key)
        kb == KeyValue(b, prefs.key) IN
    \/ up(ka, kb)
    \/ ka = kb /\ ka # MinusInfinity /\ up(a.text["title"], b.text["title"])

\* The comparator is negative: by the key in its direction, then by title.
\* Of two infinities the difference is not a number: they stay as they are.
Precedes(a, b) ==
    LET ka == KeyValue(a, prefs.key)
        kb == KeyValue(b, prefs.key) IN
    \/ IF prefs.order = "asc" THEN ka < kb ELSE ka > kb
    \/ ka = kb /\ ka # MinusInfinity /\ a.text["title"] < b.text["title"]

\* The rows that a stable sort puts before the i-th.
Ahead(rows, i) == {j \in DOMAIN rows : \/ Precedes(rows[j], rows[i])
                                       \/ ~Precedes(rows[i], rows[j]) /\ j < i}

\* Array.prototype.sort, which is stable: each row goes to its place.
Sorted(rows) ==
    [k \in DOMAIN rows |-> rows[CHOOSE i \in DOMAIN rows : Cardinality(Ahead(rows, i)) = k - 1]]

Filtered == Sorted(FilteredRows)

-----------------------------------------------------------------------------
(* Pages.                                                                  *)

AtLeast(n, m) == IF n < m THEN m ELSE n
AtMost(n, m) == IF n > m THEN m ELSE n

\* Mutant: a last page that is not full is not counted.
FullPages(n) == AtLeast(n \div RowsPerPage, 1)

PageCount(n) == AtLeast((n + RowsPerPage - 1) \div RowsPerPage, 1)

TotalPages == PageCount(Len(FilteredRows))
PageSafe == AtMost(pageNumber, TotalPages)

\* What a page shows, slice(startIndex, endIndex).
RowsOf(p) == SubSeq(Filtered, (p - 1) * RowsPerPage + 1, AtMost(p * RowsPerPage, Len(Filtered)))

\* The numbers of the pages there are buttons for.
Buttons == {p \in 1..TotalPages : p \in {1, TotalPages} \/ p - PageSafe \in -2..2}

-----------------------------------------------------------------------------
(* The page is opened.  Its preferences are what localStorage has, which   *)
(* this tab or another has written, or the defaults.                       *)

BrowserInit ==
    /\ status = "loading" /\ tracks = <<>> /\ ask = NoAsk
    /\ prefs \in Preference /\ pageNumber = 1 /\ due = "reset"

\* Left and opened again; a load under way is dropped.
OpenBrowser ==
    /\ status' = "loading" /\ tracks' = <<>> /\ ask' = NoAsk
    /\ prefs' \in Preference /\ pageNumber' = 1 /\ due' = "reset"

\* The load ends.
Load ==
    /\ status = "loading" /\ due = "none"
    /\ \/ status' = "error" /\ UNCHANGED tracks
       \/ status' = "ready" /\ \E raws \in SongLists : tracks' = ParseTracks(raws)
    /\ due' = "clamp"
    /\ UNCHANGED <<ask, prefs, pageNumber>>

\* The effects after a render, in their order: a change of what is asked
\* for goes to page 1, but a page past the last goes to the last.
Effects ==
    /\ due # "none"
    /\ pageNumber' = IF pageNumber > TotalPages THEN TotalPages
                     ELSE IF due = "reset" THEN 1 ELSE pageNumber
    /\ due' = "none"
    /\ UNCHANGED <<status, tracks, ask, prefs>>

-----------------------------------------------------------------------------
(* The inputs.                                                             *)

Ready == status = "ready" /\ due = "none"

Asks(new) == ask' = new /\ due' = "reset" /\ UNCHANGED <<status, tracks, prefs, pageNumber>>
Prefers(new) == prefs' = new /\ due' = "reset" /\ UNCHANGED <<status, tracks, ask, pageNumber>>

Type == \E f \in {"title", "artist"}, q \in Query \cup {Undefined} :
          Ready /\ q # ask.text[f] /\ Asks([ask EXCEPT !.text[f] = q])

\* The options are the texts of the catalogue.
Choose == \E f \in {"version", "genre", "attr"} :
            \E q \in {tracks[i].text[f] : i \in DOMAIN tracks} \cup {Undefined} :
              Ready /\ q \notin {0, ask.text[f]} /\ Asks([ask EXCEPT !.text[f] = q])

TypeLevel == \E q \in Query \cup {Undefined} :
               Ready /\ q # ask.level /\ Asks([ask EXCEPT !.level = q])

\* The inputs for bells and stars are there in the detailed search.
TypeBound == \E what \in {"const", "bells", "star"}, end \in {"lo", "hi"}, n \in Bound \cup {Undefined} :
               /\ Ready /\ n # ask[what][end] /\ (what = "const" \/ prefs.mode = "detail")
               /\ Asks([ask EXCEPT ![what][end] = n])

\* Search mode, difficulty, key and direction; the keys of the detailed
\* search are options there only.
Prefer == \E new \in Preference :
               /\ Ready /\ new # prefs
               /\ \E one \in {"mode", "diff", "key", "order"} : new = [prefs EXCEPT ![one] = new[one]]
               /\ new.key # prefs.key => prefs.mode = "detail" \/ new.key \in SimpleKey
               /\ Prefers(new)

Turn == /\ Ready
        /\ \/ PageSafe > 1 /\ pageNumber' = AtLeast(pageNumber - 1, 1)
           \/ PageSafe < TotalPages /\ pageNumber' = AtMost(pageNumber + 1, TotalPages)
           \/ pageNumber' \in Buttons
        /\ due' = "clamp"
        /\ UNCHANGED <<status, tracks, ask, prefs>>

BrowserNext == OpenBrowser \/ Load \/ Effects \/ Type \/ Choose \/ TypeLevel \/ TypeBound \/ Prefer \/ Turn

BrowserSpec == BrowserInit /\ [][BrowserNext]_browserVars

-----------------------------------------------------------------------------
(* Properties.                                                             *)

\* The pages hold every match once, in order, and the page that is shown is
\* one of them, in every render: also in the one between a change that
\* shrinks the list and the effects that correct the page number (pageSafe).
PagesTile ==
    LET places == UNION {{p} \X DOMAIN RowsOf(p) : p \in 1..TotalPages}
        upTo(x) == {y \in places : y[1] < x[1] \/ (y[1] = x[1] /\ y[2] <= x[2])} IN
    /\ Cardinality(places) = Len(Filtered)
    /\ \A x \in places : RowsOf(x[1])[x[2]] = Filtered[Cardinality(upTo(x))]
    /\ PageSafe \in 1..TotalPages
    /\ Filtered # <<>> => RowsOf(PageSafe) # <<>>

\* Songs are in the order of the key, up or down; those that have no value
\* for it come first going up and last going down; equal ones that have are
\* by title in both directions (compareByKey and the stable sort).
Ordered ==
    LET key(i) == KeyValue(Filtered[i], prefs.key)
        title(i) == Filtered[i].text["title"] IN
    \A i, j \in DOMAIN Filtered :
        i < j => /\ prefs.order = "asc" => key(i) <= key(j)
                 /\ prefs.order = "desc" => key(i) >= key(j)
                 /\ key(i) = key(j) /\ key(i) # MinusInfinity => title(i) <= title(j)
=============================================================================
