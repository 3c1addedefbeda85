------------------------------- MODULE Rating -------------------------------
(***************************************************************************)
(* The rating of a row of scores, which the server (rating_targets.go) and *)
(* the pages (lib/ratingCalc.ts, lib/ratingView.ts, lib/musicExIndex.ts)   *)
(* compute each with its own copy of the formulas.                         *)
(*                                                                         *)
(* Rates are integers, in thousandths; a constant of 14.4 is 144.  The     *)
(* server does not cut one of its quotients, so its rates are in parts of  *)
(* a thousandth, Fine to each: 1/26.666 is 500/13333.  The error of        *)
(* floating point numbers is left out.                                     *)
(*                                                                         *)
(* A title and a difficulty are one name, which the server compares with   *)
(* names; the pages compare its key, since their normalizeTitle takes a    *)
(* wide letter for the plain one.  A row of scores is a record [chart,     *)
(* name, key, id, level, const, version, score, star, plat, fb, fc, ab]    *)
(* where chart, which the code does not have, is <<name, n>> for the chart *)
(* it really is of; the id of a row stands for id and difficulty.  A       *)
(* catalogue is a sequence of entries                                      *)
(* [id, name, key, level, const, version, bonus].                          *)
(***************************************************************************)
EXTENDS Integers, SequencesExt, Subsequence

CONSTANTS
    NewCount, OldCount, PlatCount,  \* rows that count: 10, 50 and 50
    NoId,                           \* a row or an entry without an id
    NoVersion                       \* an empty version

ASSUME CountsAssumption == {NewCount, OldCount, PlatCount} \subseteq Nat \ {0}

Fine == 13333

\* The score of a chart without a mistake.
TopScore == 1010000

\* No constant: neither a number nor a text that starts with one.
NoConst == -1

NoEntry == [id |-> NoId, name |-> NoId, key |-> NoId, level |-> NoId, const |-> NoConst,
            version |-> NoVersion, bonus |-> FALSE]

-----------------------------------------------------------------------------
(* The formulas.                                                           *)

AtLeastZero(x) == IF x < 0 THEN 0 ELSE x

\* calcMainRate: a constant c and a score t make so many thousandths.
MainRate(c, t) ==
    AtLeastZero(100 * c +
        CASE t = TopScore -> 2000
          [] t >= 1007500 /\ t < TopScore -> 1750 + (t - 1007500) \div 10
          [] t >= 1000000 /\ t < 1007500 -> 1250 + (t - 1000000) \div 15
          [] t >= 990000 /\ t < 1000000 -> 750 + (t - 990000) \div 20
          [] t >= 970000 /\ t < 990000 -> ((t - 970000) * 500) \div 13333
          [] OTHER -> -((970000 - t) \div 18))

RankBonus(t) ==
    CASE t >= 1007500 -> 300
      [] t >= 1000000 /\ t < 1007500 -> 200
      [] t >= 990000 /\ t < 1000000 -> 100
      [] OTHER -> 0

Lamp(t, fb, fc, ab) ==
    CASE t = TopScore -> IF fb THEN "FB/AB+" ELSE "AB+"
      [] t # TopScore /\ ab -> IF fb THEN "FB/AB" ELSE "AB"
      [] t # TopScore /\ ~ab /\ fc -> IF fb THEN "FB/FC" ELSE "FC"
      [] OTHER -> IF fb THEN "FB" ELSE ""

LampBonus(lamp) ==
    CASE lamp = "FB/AB+" -> 400
      [] lamp \in {"AB+", "FB/AB"} -> 350
      [] lamp = "AB" -> 300
      [] lamp = "FB/FC" -> 150
      [] lamp = "FC" -> 100
      [] lamp = "FB" -> 50
      [] OTHER -> 0

\* The lamp of a row: an All Break is a Full Combo, whatever the row says.
RowLampBonus(r) == LampBonus(Lamp(r.score, r.fb, r.fc \/ r.ab, r.ab))

\* The technical rate of a row with the constant c; 0 without one.
TechRate(c, r) ==
    IF c > 0 THEN MainRate(c, r.score) + RankBonus(r.score) + RowLampBonus(r)
             ELSE 0

\* calcPlatinumRate: c * c * star, cut to thousandths.
PlatRate(c, star) ==
    IF c > 0 THEN LET s == IF star < 0 THEN 0 ELSE IF star > 5 THEN 5 ELSE star
                  IN  (c * c * s) \div 100
             ELSE 0

\* The server's calcMainRate: the step below 990000 is not cut.
ServerMainRate(c, t) ==
    AtLeastZero(100 * c * Fine +
        CASE t = TopScore -> 2000 * Fine
          [] t >= 1007500 /\ t < TopScore -> (1750 + (t - 1007500) \div 10) * Fine
          [] t >= 1000000 /\ t < 1007500 -> (1250 + (t - 1000000) \div 15) * Fine
          [] t >= 990000 /\ t < 1000000 -> (750 + (t - 990000) \div 20) * Fine
          [] t >= 970000 /\ t < 990000 -> (t - 970000) * 500
          [] OTHER -> -(((970000 - t) \div 18) * Fine))

\* The bonuses are the page's.  A row without a constant is not listed.
ServerTechRate(c, r) ==
    ServerMainRate(c, r.score) + (RankBonus(r.score) + RowLampBonus(r)) * Fine

\* isNewCategorySong: no version at all is a new song too.
IsNewSong(version, catalogVersion, news) ==
    \/ version = NoVersion
    \/ version \in news
    \/ catalogVersion \in news \ {NoVersion}

-----------------------------------------------------------------------------
(* Lookups in a catalogue.                                                 *)

\* indexMusicCatalogById: of entries with the same id the last one.
EntryOfId(cat, id) ==
    LET hits == {i \in DOMAIN cat : cat[i].id = id /\ id # NoId}
    IN  IF hits = {} THEN NoEntry ELSE cat[CHOOSE i \in hits : \A j \in hits : j <= i]

\* The first entry that is Wanted.
FirstEntry(cat, Wanted(_)) ==
    LET hits == {i \in DOMAIN cat : Wanted(cat[i])}
    IN  IF hits = {} THEN NoEntry ELSE cat[CHOOSE i \in hits : \A j \in hits : i <= j]

\* Snapshot, lookupCatalog: of entries with the same name the first one.
EntryOfName(cat, name) == FirstEntry(cat, LAMBDA e : e.name = name)

HasConst(e) == e.const # NoConst

\* buildMusicExIndex: the constant and the version filed under a key are
\* those of the first entry that has a constant, or a version as well.
IndexedConst(cat, key) == FirstEntry(cat, LAMBDA e : e.key = key /\ HasConst(e)).const
IndexedVersion(cat, key) ==
    FirstEntry(cat, LAMBDA e : e.key = key /\ HasConst(e) /\ e.version # NoVersion).version
Candidates(cat, key) ==
    Picked(cat, {k \in DOMAIN cat : cat[k].key = key /\ HasConst(cat[k])})

\* normalizeLevel, levelToNumber: "13+" is 13.7.
LevelTenths(level) == 10 * level.n + (IF level.plus THEN 7 ELSE 0)

Apart(a, b) == IF a < b THEN b - a ELSE a - b

\* Mutant: the last of the candidates, whatever its level.
BestConstLast(level, cands) ==
    IF cands = << >> THEN NoConst ELSE cands[Len(cands)].const

\* pickBestConstCandidate: the first of those whose level is the nearest.
BestConst(level, cands) ==
    LET Levelled == {i \in DOMAIN cands : cands[i].level # NoId}
        Off(i) == Apart(LevelTenths(cands[i].level), LevelTenths(level))
    IN  CASE cands = << >> -> NoConst
          [] cands # << >> /\ (level = NoId \/ Levelled = {}) -> cands[1].const
          [] OTHER -> cands[CHOOSE i \in Levelled :
                              /\ \A j \in Levelled : Off(i) <= Off(j)
                              /\ \A j \in Levelled : Off(j) = Off(i) => i <= j].const

\* The first of several constants that there is.
FirstConst(consts) ==
    LET hits == {i \in DOMAIN consts : consts[i] # NoConst}
    IN  IF hits = {} THEN NoConst ELSE consts[CHOOSE i \in hits : \A j \in hits : i <= j]

-----------------------------------------------------------------------------
(* Pools: the rows that count, best first, as sets of indices.  The page   *)
(* sorts with a stable sort; the server's need not be, and rows that tie   *)
(* have the same rate.                                                     *)

\* The count best indices of pool, by rate and then by tie.
Top(pool, count, rate, tie) ==
    {i \in pool :
        Cardinality({j \in pool :
            \/ rate[j] > rate[i]
            \/ rate[j] = rate[i] /\ tie[j] > tie[i]
            \/ rate[j] = rate[i] /\ tie[j] = tie[i] /\ j < i}) < count}

SumOf(f, S) == MapThenSumSet(LAMBDA i : f[i], S)
=============================================================================
