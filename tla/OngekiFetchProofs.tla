-------------------------- MODULE OngekiFetchProofs --------------------------
(***************************************************************************)
(* Proofs about module OngekiFetch, for any pages of the game, any songs   *)
(* and any pictures.                                                       *)
(***************************************************************************)
EXTENDS OngekiFetch, FiniteSetTheorems, TLAPS

-----------------------------------------------------------------------------
(* Sets of numbers and what is picked from a sequence. *)

\* A set of natural numbers has a least one.
LEMMA LeastOf ==
    ASSUME NEW S, S \subseteq Nat, S # {}
    PROVE  \E x \in S : \A y \in S : x <= y
<1> DEFINE R == OpToRel(<, Nat)
<1>1. \E x \in S : \A y \in S : ~(<<y, x>> \in R)
  <2>1. IsWellFoundedOn(R, Nat)
    BY NatLessThanWellFounded
  <2> HIDE DEF R
  <2>2. QED
    BY <2>1, WFMin
<1>2. \A x, y \in S : <<y, x>> \in R <=> y < x
  BY DEF OpToRel
<1> HIDE DEF R
<1>3. PICK x \in S : \A y \in S : ~(<<y, x>> \in R)
  BY <1>1
<1>4. ASSUME NEW y \in S PROVE x <= y
  <2>1. ~(y < x) /\ x \in Nat /\ y \in Nat
    BY <1>2, <1>3
  <2>2. QED
    BY <2>1
<1>5. QED
  BY <1>4

\* One of numbers up to n has a greatest one, too.
LEMMA GreatestOf ==
    ASSUME NEW n \in Nat, NEW S, S \subseteq 1..n, S # {}
    PROVE  \E x \in S : \A y \in S : y <= x
<1> DEFINE T == {n - y : y \in S}
<1>1. T \subseteq Nat /\ T # {}
  <2>1. \A y \in 1..n : n - y \in Nat
    OBVIOUS
  <2>2. QED
    BY <2>1
<1>2. PICK z \in T : \A y \in T : z <= y
  BY <1>1, LeastOf
<1>3. PICK x \in S : z = n - x
  BY <1>2
<1>4. ASSUME NEW y \in S PROVE y <= x
  <2>1. n - x <= n - y
    BY <1>2, <1>3
  <2>2. x \in Int /\ y \in Int
    OBVIOUS
  <2>3. QED
    BY <2>1, <2>2
<1>5. QED
  BY <1>4

Before(S, i) == {j \in S : j < i}

\* Before a number of a set of them are as many as its place says.
LEMMA NthExists ==
    ASSUME NEW n \in Nat, NEW S, S \subseteq 1..n
    PROVE  /\ Cardinality(S) \in Nat
           /\ \A k \in 1..Cardinality(S) :
                 Nth(S, k) \in S /\ Cardinality(Before(S, Nth(S, k))) = k - 1
           /\ \A i \in S : \E k \in 1..Cardinality(S) : Nth(S, k) = i
<1> DEFINE c == Cardinality(S)
           Below(i) == {j \in S : j < i}
           f == [i \in S |-> Cardinality(Below(i)) + 1]
<1>1. IsFiniteSet(S) /\ c \in Nat
  <2>1. IsFiniteSet(1..n)
    BY FS_Interval
  <2>2. S \in SUBSET (1..n)
    OBVIOUS
  <2>3. IsFiniteSet(S)
    BY <2>1, <2>2, FS_Subset
  <2>4. QED
    BY <2>3, FS_CardinalityType
<1>2. \A i \in S : IsFiniteSet(Below(i)) /\ Cardinality(Below(i)) \in Nat /\ Cardinality(Below(i)) < c
  <2> TAKE i \in S
  <2>1. Below(i) \in SUBSET S /\ i \notin Below(i) /\ i \in Nat
    OBVIOUS
  <2>2. IsFiniteSet(Below(i)) /\ Cardinality(Below(i)) <= c /\ (c = Cardinality(Below(i)) => S = Below(i))
    BY <1>1, <2>1, FS_Subset
  <2>3. Cardinality(Below(i)) \in Nat
    BY <2>2, FS_CardinalityType
  <2> HIDE DEF c, Below
  <2>4. QED
    BY <1>1, <2>1, <2>2, <2>3
<1>3. \A i, j \in S : i < j => Cardinality(Below(i)) < Cardinality(Below(j))
  <2> TAKE i, j \in S
  <2> HAVE i < j
  <2>1. Below(i) \in SUBSET Below(j) /\ i \in Below(j) /\ i \notin Below(i)
    <3>1. i \in Nat /\ j \in Nat /\ \A k \in S : k \in Nat
      OBVIOUS
    <3>2. \A k \in S : k < i => k < j
      BY <3>1
    <3>3. Below(i) \in SUBSET Below(j)
      BY <3>2
    <3>4. QED
      BY <3>1, <3>3
  <2>2. Cardinality(Below(i)) <= Cardinality(Below(j))
        /\ (Cardinality(Below(j)) = Cardinality(Below(i)) => Below(j) = Below(i))
    BY <1>2, <2>1, FS_Subset
  <2> HIDE DEF Below
  <2>3. QED
    BY <1>2, <2>1, <2>2
<1>4. f \in Injection(S, 1..c)
  <2>1. f \in [S -> 1..c]
    <3> SUFFICES ASSUME NEW i \in S PROVE Cardinality(Below(i)) + 1 \in 1..c
      OBVIOUS
    <3> HIDE DEF Below, c
    <3>1. QED
      BY <1>1, <1>2
  <2>2. ASSUME NEW i \in S, NEW j \in S, f[i] = f[j] PROVE i = j
    <3>1. Cardinality(Below(i)) = Cardinality(Below(j))
      BY <1>2, <2>2
    <3>2. i \in Nat /\ j \in Nat
      OBVIOUS
    <3> HIDE DEF Below
    <3>3. QED
      BY <1>2, <1>3, <3>1, <3>2
  <2>3. QED
    BY <2>1, <2>2 DEF Injection, IsInjective
<1>5. f \in Surjection(S, 1..c)
  <2>1. IsFiniteSet(1..c) /\ Cardinality(1..c) = c
    BY <1>1, FS_Interval
  <2> HIDE DEF c, f
  <2>2. QED
    BY <1>4, <2>1, FS_Injection DEF c
<1>6. ASSUME NEW k \in 1..c PROVE \E i \in S : Cardinality(Below(i)) = k - 1
  <2>1. PICK i \in S : f[i] = k
    BY <1>5 DEF Surjection
  <2>2. Cardinality(Below(i)) + 1 = k /\ Cardinality(Below(i)) \in Nat
    BY <1>2, <2>1
  <2> HIDE DEF Below
  <2>3. QED
    BY <2>2
<1>7. ASSUME NEW k \in 1..c PROVE Nth(S, k) \in S /\ Cardinality(Below(Nth(S, k))) = k - 1
  BY <1>6 DEF Nth
<1>8. ASSUME NEW i \in S PROVE \E k \in 1..c : Nth(S, k) = i
  <2> DEFINE k == f[i]
  <2>1. k \in 1..c /\ k = Cardinality(Below(i)) + 1 /\ Cardinality(Below(i)) \in Nat
    BY <1>2, <1>4 DEF Injection
  <2> HIDE DEF k, Below, f, c
  <2>2. PICK m \in S : m = Nth(S, k) /\ Cardinality(Below(m)) = Cardinality(Below(i))
    <3>1. k - 1 = Cardinality(Below(i))
      BY <2>1
    <3>2. Nth(S, k) \in S /\ Cardinality(Below(Nth(S, k))) = k - 1
      BY <1>7, <2>1
    <3>3. QED
      BY <3>1, <3>2
  <2>3. m \in Int /\ i \in Int
    OBVIOUS
  <2>4. ~(m < i) /\ ~(i < m)
    <3>1. m < i => Cardinality(Below(m)) < Cardinality(Below(i))
      BY <1>3
    <3>2. i < m => Cardinality(Below(i)) < Cardinality(Below(m))
      BY <1>3
    <3>3. QED
      BY <1>2, <2>2, <3>1, <3>2
  <2>5. m = i
    BY <2>3, <2>4
  <2>6. QED
    BY <2>1, <2>2, <2>5
<1>9. \A i : Before(S, i) = Below(i)
  BY DEF Before
<1> HIDE DEF Below
<1>10. QED
  BY <1>1, <1>7, <1>8, <1>9

\* P has what s has at the places S, and all of it.
IsPicked(P, s, S) ==
    /\ P \in Seq({s[i] : i \in S}) /\ DOMAIN P = 1..Cardinality(S) /\ Cardinality(S) \in Nat
    /\ \A k \in DOMAIN P : \E i \in S : P[k] = s[i]
    /\ \A i \in S : \E k \in DOMAIN P : P[k] = s[i]
    /\ P = <<>> <=> S = {}

LEMMA PickedFacts ==
    ASSUME NEW n \in Nat, NEW S, S \subseteq 1..n, NEW s
    PROVE  IsPicked(Picked(s, S), s, S)
<1> DEFINE c == Cardinality(S)
           P == Picked(s, S)
<1>1. c \in Nat /\ (\A k \in 1..c : Nth(S, k) \in S) /\ \A i \in S : \E k \in 1..c : Nth(S, k) = i
  BY NthExists
<1>2. P = [k \in 1..c |-> s[Nth(S, k)]]
  BY DEF Picked
<1> HIDE DEF c, P
<1>3. P \in [1..c -> {s[i] : i \in S}]
  BY <1>1, <1>2
<1>4. P \in Seq({s[i] : i \in S}) /\ Len(P) = c /\ DOMAIN P = 1..c
  BY <1>1, <1>3
<1>5. P = <<>> <=> S = {}
  <2>1. c = 0 => S = {}
    BY <1>1
  <2>2. c # 0 => Nth(S, 1) \in S
    BY <1>1
  <2>3. P = <<>> <=> c = 0
    BY <1>1, <1>4
  <2>4. QED
    BY <2>1, <2>2, <2>3
<1>6. QED
  BY <1>1, <1>2, <1>4, <1>5 DEF IsPicked, c, P

LEMMA MinFacts ==
    ASSUME NEW S, S \subseteq Nat, S # {}
    PROVE  Min(S) \in S
<1>1. \E x \in S : \A y \in S : x <= y
  BY LeastOf
<1>2. QED
  BY <1>1 DEF Min

LEMMA MaxFacts ==
    ASSUME NEW n \in Nat, NEW S, S \subseteq 1..n, S # {}
    PROVE  Max(S) \in S
<1>1. \E x \in S : \A y \in S : y <= x
  BY GreatestOf
<1>2. \E x \in S : \A y \in S : x >= y
  BY <1>1
<1>3. QED
  BY <1>2 DEF Max

-----------------------------------------------------------------------------
(* Rows and what they are made of. *)

Row == [name : STRING, difficulty : Diff, level : STRING, id : Id \cup {NoId},
        score : Nat, lamps : SUBSET Lamp]
Form == [name : STRING, level : STRING, ids : Seq(Id \cup {NoId}),
         played : BOOLEAN, score : Nat, lamps : SUBSET Lamp]
Song == [name : STRING, id : Id \cup {NoId}, level : [Diff -> STRING \cup {NoLevel}],
         const : [Diff -> Nat \cup {NoConst}]]

LEMMA ElementsOf ==
    ASSUME NEW S, NEW s \in Seq(S)
    PROVE  Len(s) \in Nat /\ DOMAIN s = 1..Len(s) /\ \A i \in DOMAIN s : s[i] \in S
OBVIOUS

LEMMA IdOfForm == ASSUME NEW form \in Form PROVE ExtractId(form) \in Id \cup {NoId}
<1> DEFINE found == {i \in DOMAIN form.ids : form.ids[i] # NoId}
<1>1. form.ids \in Seq(Id \cup {NoId})
  BY DEF Form
<1>2. Len(form.ids) \in Nat /\ DOMAIN form.ids = 1..Len(form.ids)
      /\ \A i \in DOMAIN form.ids : form.ids[i] \in Id \cup {NoId}
  BY <1>1, ElementsOf
<1>3. found \subseteq Nat /\ found \subseteq DOMAIN form.ids
  BY <1>2
<1>4. ExtractId(form) = IF found = {} THEN NoId ELSE form.ids[Min(found)]
  BY DEF ExtractId
<1> HIDE DEF found
<1>5. CASE found = {}
  BY <1>4, <1>5
<1>6. CASE found # {}
  <2>1. Min(found) \in found
    BY <1>3, <1>6, MinFacts
  <2>2. QED
    BY <1>2, <1>3, <1>4, <1>6, <2>1
<1>7. QED
  BY <1>5, <1>6

LEMMA PageIsRows ==
    ASSUME NEW d \in Diff, NEW page \in Pages[d]
    PROVE  ParseScoreHTML(page, d) \in Seq(Row)
<1>1. page \in Seq(Form)
  BY FetchAssumption DEF Form
<1>2. Len(page) \in Nat /\ DOMAIN page = 1..Len(page) /\ \A i \in DOMAIN page : page[i] \in Form
  BY <1>1, ElementsOf
<1>3. ASSUME NEW form \in Form PROVE ParseForm(form, d) \in Row
  <2> DEFINE l == IF ~form.played THEN {}
                  ELSE form.lamps \cup IF "ab" \in form.lamps THEN {"fc"} ELSE {}
             s == IF form.played THEN form.score ELSE 0
  <2>1. form.name \in STRING /\ form.level \in STRING /\ s \in Nat /\ form.lamps \subseteq Lamp
    BY DEF Form
  <2>2. l \subseteq Lamp
    BY <2>1 DEF Lamp
  <2>3. ParseForm(form, d) = [name |-> form.name, difficulty |-> d, level |-> form.level,
                              id |-> ExtractId(form), score |-> s, lamps |-> l]
    BY DEF ParseForm
  <2> HIDE DEF l, s
  <2>4. QED
    BY <2>1, <2>2, <2>3, IdOfForm DEF Row
<1> DEFINE n == Len(page)
<1>4. ParseScoreHTML(page, d) = [i \in 1..n |-> ParseForm(page[i], d)]
  BY <1>2 DEF ParseScoreHTML
<1>5. \A i \in 1..n : ParseForm(page[i], d) \in Row
  BY <1>2, <1>3
<1>6. n \in Nat
  BY <1>2
<1> HIDE DEF n
<1>7. QED
  BY <1>4, <1>5, <1>6

LEMMA FiniteTo ==
    ASSUME NEW n \in Nat, NEW S, S \subseteq 1..n
    PROVE  IsFiniteSet(S) /\ Cardinality(S) \in Nat /\ (Cardinality(S) = 0 <=> S = {})
<1>1. IsFiniteSet(1..n) /\ S \in SUBSET (1..n)
  BY FS_Interval
<1>2. IsFiniteSet(S)
  BY <1>1, FS_Subset
<1>3. QED
  BY <1>2, FS_CardinalityType, FS_EmptySet

\* The song of a row has an id or none.
LEMMA SongOfFacts ==
    ASSUME NEW songs \in Seq(Song), NEW datas \in Seq(Row), NEW i \in DOMAIN datas
    PROVE  SongOf(i, datas, songs).id \in Id \cup {NoId}
<1> DEFINE row == datas[i]
           same == SameLevel(row, songs)
           turn == Cardinality(Used(i, datas, songs)) % Cardinality(same)
           n == Len(songs)
<1>1. n \in Nat /\ DOMAIN songs = 1..n /\ \A k \in 1..n : songs[k].id \in Id \cup {NoId}
  <2>1. n \in Nat /\ DOMAIN songs = 1..n /\ \A k \in DOMAIN songs : songs[k] \in Song
    BY ElementsOf
  <2>2. \A s \in Song : s.id \in Id \cup {NoId}
    BY DEF Song
  <2>3. QED
    BY <2>1, <2>2
<1>2. NoSong.id = NoId
  BY DEF NoSong
<1>3. ASSUME NEW S, S \subseteq DOMAIN songs PROVE FirstOf(S, songs).id \in Id \cup {NoId}
  <2>1. CASE S = {}
    BY <1>2, <2>1 DEF FirstOf
  <2>2. CASE S # {}
    <3>1. S \subseteq Nat
      BY <1>1, <1>3
    <3>2. Min(S) \in 1..n
      BY <1>1, <1>3, <2>2, <3>1, MinFacts
    <3>3. FirstOf(S, songs) = songs[Min(S)]
      BY <2>2 DEF FirstOf
    <3>4. QED
      BY <1>1, <3>2, <3>3
  <2>3. QED
    BY <2>1, <2>2
<1>4. Unlevelled(row, songs).id \in Id \cup {NoId}
  <2> DEFINE S == IF WithConst(row, songs) # {} THEN WithConst(row, songs)
                  ELSE Candidates(row, songs)
  <2>1. S \subseteq DOMAIN songs
    BY DEF WithConst, Candidates
  <2>2. Unlevelled(row, songs) = FirstOf(S, songs)
    BY DEF Unlevelled
  <2> HIDE DEF S
  <2>3. QED
    BY <1>3, <2>1, <2>2
<1>5. CASE ById(row, songs) # {}
  <2>1. ById(row, songs) \subseteq 1..n
    BY <1>1 DEF ById
  <2>2. Max(ById(row, songs)) \in 1..n
    BY <1>1, <1>5, <2>1, MaxFacts
  <2>3. SongOf(i, datas, songs) = songs[Max(ById(row, songs))]
    BY <1>5 DEF SongOf
  <2>4. QED
    BY <1>1, <2>2, <2>3
<1>6. CASE ById(row, songs) = {} /\ same # {}
  <2>1. same \subseteq 1..n
    BY <1>1 DEF SameLevel, Candidates
  <2>2. Nth(same, turn + 1) \in 1..n
    <3>1. Cardinality(same) \in Nat /\ \A k \in 1..Cardinality(same) : Nth(same, k) \in same
      BY <1>1, <2>1, NthExists
    <3>2. Cardinality(same) # 0
      BY <1>1, <1>6, <2>1, FiniteTo
    <3>3. Cardinality(Used(i, datas, songs)) \in Nat
      <4>1. i - 1 \in Nat
        BY ElementsOf
      <4>2. Used(i, datas, songs) \subseteq 1..(i - 1)
        BY DEF Used
      <4>3. QED
        BY <4>1, <4>2, FiniteTo
    <3> DEFINE c == Cardinality(same)
               u == Cardinality(Used(i, datas, songs))
    <3>4. c \in Nat \ {0} /\ u \in Nat
      BY <3>1, <3>2, <3>3
    <3> HIDE DEF c, u
    <3>5. (u % c) + 1 \in 1..c
      BY <3>4
    <3>6. QED
      BY <2>1, <3>1, <3>5 DEF c, u
  <2>3. SongOf(i, datas, songs) = songs[Nth(same, turn + 1)]
    BY <1>6 DEF SongOf
  <2>4. QED
    BY <1>1, <2>2, <2>3
<1>7. CASE ById(row, songs) = {} /\ same = {}
  BY <1>4, <1>7 DEF SongOf
<1>8. QED
  BY <1>5, <1>6, <1>7

\* Songs that a CSV file holds are songs.
LEMMA CsvIsSongs ==
    ASSUME NEW songs \in Seq(Song)
    PROVE  OfCsv(songs) \in Seq(Song)
<1> DEFINE n == Len(songs)
           none == [d \in Diff |-> NoLevel]
<1>1. n \in Nat /\ DOMAIN songs = 1..n /\ \A k \in 1..n : songs[k] \in Song
  BY ElementsOf
<1>2. ASSUME NEW s \in Song PROVE [s EXCEPT !.id = NoId, !.level = none] \in Song
  <2>1. none \in [Diff -> STRING \cup {NoLevel}]
    OBVIOUS
  <2> HIDE DEF none
  <2>2. QED
    BY <2>1 DEF Song
<1>3. OfCsv(songs) = [k \in 1..n |-> [songs[k] EXCEPT !.id = NoId, !.level = none]]
  BY <1>1 DEF OfCsv
<1> DEFINE bare(k) == [songs[k] EXCEPT !.id = NoId, !.level = none]
<1> HIDE DEF n, none
<1>4. \A k \in 1..n : bare(k) \in Song
  BY <1>1, <1>2
<1>5. OfCsv(songs) = [k \in 1..n |-> bare(k)]
  BY <1>3
<1> HIDE DEF bare
<1>6. QED
  BY <1>1, <1>4, <1>5

\* Rows that get a song, and rows that get none.
LEMMA CombinedIsRows ==
    ASSUME NEW datas \in Seq(Row)
    PROVE  /\ \A songs \in Seq(Song) : CombineDatas(datas, songs) \in Seq(Row)
           /\ CombineWithout(datas) \in Seq(Row)
<1> DEFINE n == Len(datas)
           Of(i, id) == [name |-> datas[i].name, difficulty |-> datas[i].difficulty,
                         level |-> datas[i].level, score |-> datas[i].score,
                         lamps |-> datas[i].lamps, id |-> id]
<1>1. n \in Nat /\ DOMAIN datas = 1..n /\ \A i \in 1..n : datas[i] \in Row
  BY ElementsOf
<1>2. ASSUME NEW i \in 1..n, NEW id \in Id \cup {NoId} PROVE Of(i, id) \in Row
  BY <1>1 DEF Row
<1>3. ASSUME NEW songs \in Seq(Song) PROVE CombineDatas(datas, songs) \in Seq(Row)
  <2> DEFINE id(i) == IF SongOf(i, datas, songs).id # NoId THEN SongOf(i, datas, songs).id
                      ELSE datas[i].id
  <2>1. \A i \in 1..n : id(i) \in Id \cup {NoId}
    <3>1. \A i \in 1..n : SongOf(i, datas, songs).id \in Id \cup {NoId}
      BY <1>1, SongOfFacts
    <3>2. \A i \in 1..n : datas[i].id \in Id \cup {NoId}
      BY <1>1 DEF Row
    <3>3. QED
      BY <3>1, <3>2
  <2>2. CombineDatas(datas, songs) = [i \in 1..n |-> Of(i, id(i))]
    BY <1>1 DEF CombineDatas
  <2> HIDE DEF id, Of, n
  <2>3. \A i \in 1..n : Of(i, id(i)) \in Row
    BY <1>2, <2>1
  <2>4. QED
    BY <1>1, <2>2, <2>3
<1>4. CombineWithout(datas) = [i \in 1..n |-> Of(i, NoId)]
  BY <1>1 DEF CombineWithout
<1>5. \A i \in 1..n : Of(i, NoId) \in Row
  BY <1>2
<1> HIDE DEF Of, n
<1>6. QED
  BY <1>1, <1>3, <1>4, <1>5

-----------------------------------------------------------------------------
(* Rows by their keys. *)

\* The last row of a key.
LEMMA LastFacts ==
    ASSUME NEW S \in Seq(Row), NEW i \in DOMAIN S, NEW key, RowKey(S[i]) = key
    PROVE  /\ LastOf(key, S) \in DOMAIN S /\ RowKey(S[LastOf(key, S)]) = key
           /\ \A j \in DOMAIN S : RowKey(S[j]) = key => j <= LastOf(key, S)
<1> DEFINE T == {j \in DOMAIN S : RowKey(S[j]) = key}
<1>1. Len(S) \in Nat /\ DOMAIN S = 1..Len(S)
  BY ElementsOf
<1>2. T \subseteq 1..Len(S) /\ T # {}
  BY <1>1
<1>3. \E j \in T : \A l \in T : l <= j
  BY <1>1, <1>2, GreatestOf
<1>4. \E j \in DOMAIN S : RowKey(S[j]) = key /\ \A l \in DOMAIN S : RowKey(S[l]) = key => l <= j
  BY <1>3
<1>5. QED
  BY <1>4 DEF LastOf

\* What is sent are rows that were read and that the snapshot has otherwise.
Changed(now, before, i) ==
    \/ \A b \in Range(before) : RowKey(b) # RowKey(now[i])
    \/ Signature(before[LastOf(RowKey(now[i]), before)]) # Signature(now[i])

LEMMA ChangedFacts ==
    ASSUME NEW now \in Seq(Row), NEW before \in Seq(Row)
    PROVE  /\ ChangedRows(now, before) \in Seq(Row)
           /\ \A k \in DOMAIN ChangedRows(now, before) :
                 \E i \in DOMAIN now : ChangedRows(now, before)[k] = now[i]
           /\ \A i \in DOMAIN now : Changed(now, before, i) =>
                 \E k \in DOMAIN ChangedRows(now, before) : ChangedRows(now, before)[k] = now[i]
           /\ ChangedRows(now, before) = <<>> <=> \A i \in DOMAIN now : ~Changed(now, before, i)
<1> DEFINE n == Len(now)
           S == {i \in DOMAIN now : Changed(now, before, i)}
           C == ChangedRows(now, before)
<1>1. n \in Nat /\ DOMAIN now = 1..n /\ \A i \in DOMAIN now : now[i] \in Row
  BY ElementsOf
<1>2. C = Picked(now, S)
  BY DEF ChangedRows, Changed
<1>3. S \subseteq 1..n
  BY <1>1
<1> HIDE DEF n, C
<1>4. IsPicked(C, now, S)
  <2> HIDE DEF S
  <2>1. QED
    BY <1>1, <1>2, <1>3, PickedFacts, Zenon
<1>5. /\ C \in Seq({now[i] : i \in S})
      /\ \A k \in DOMAIN C : \E i \in S : C[k] = now[i]
      /\ \A i \in S : \E k \in DOMAIN C : C[k] = now[i]
      /\ C = <<>> <=> S = {}
  BY <1>4, Zenon DEF IsPicked
<1>6. C \in Seq(Row)
  <2>1. {now[i] : i \in S} \subseteq Row
    BY <1>1
  <2> HIDE DEF S
  <2>2. QED
    BY <1>5, <2>1
<1>7. QED
  BY <1>5, <1>6 DEF C

\* What the server makes of two payloads has for each key the last row of it.
LEMMA MergedFacts ==
    ASSUME NEW before \in Seq(Row), NEW incoming \in Seq(Row)
    PROVE  /\ MergeRows(before, incoming) \in Seq(Row)
           /\ before # <<>> /\ incoming # <<>> =>
                 LET all == before \o incoming IN
                 \A i \in DOMAIN all : \E k \in DOMAIN MergeRows(before, incoming) :
                    /\ MergeRows(before, incoming)[k] = all[LastOf(RowKey(all[i]), all)]
                    /\ RowKey(MergeRows(before, incoming)[k]) = RowKey(all[i])
<1> DEFINE all == before \o incoming
           n == Len(all)
           last == [i \in DOMAIN all |-> all[LastOf(RowKey(all[i]), all)]]
           S == FirstPlaces(all)
           M == MergeRows(before, incoming)
<1>1. all \in Seq(Row)
  OBVIOUS
<1> HIDE DEF all
<1>2. n \in Nat /\ DOMAIN all = 1..n /\ \A i \in DOMAIN all : all[i] \in Row
  BY <1>1, ElementsOf
<1> HIDE DEF n
<1>3. M = IF before = <<>> \/ incoming = <<>> THEN incoming ELSE Picked(last, S)
  BY DEF MergeRows, all
<1>4. S \subseteq 1..n
  BY <1>2 DEF FirstPlaces
<1>5. \A i \in DOMAIN all : last[i] \in Row /\ RowKey(last[i]) = RowKey(all[i])
  <2> TAKE i \in DOMAIN all
  <2> DEFINE key == RowKey(all[i])
             l == LastOf(key, all)
  <2>1. l \in DOMAIN all /\ RowKey(all[l]) = key
    BY <1>1, LastFacts
  <2> HIDE DEF l, key
  <2>2. last[i] = all[l]
    BY DEF l, key
  <2>3. QED
    BY <1>2, <2>1, <2>2 DEF key
<1> HIDE DEF M
<1>6. IsPicked(Picked(last, S), last, S)
  <2> HIDE DEF S, last
  <2>1. QED
    BY <1>2, <1>4, PickedFacts, Zenon
<1> DEFINE P == Picked(last, S)
<1>7. /\ P \in Seq({last[i] : i \in S})
      /\ \A i \in S : \E k \in DOMAIN P : P[k] = last[i]
  BY <1>6, Zenon DEF IsPicked
<1> HIDE DEF P
<1>8. P \in Seq(Row)
  <2>1. {last[i] : i \in S} \subseteq Row
    BY <1>2, <1>4, <1>5
  <2> HIDE DEF S, last
  <2>2. QED
    BY <1>7, <2>1
<1>9. M \in Seq(Row)
  BY <1>3, <1>8 DEF P
<1>10. ASSUME before # <<>>, incoming # <<>>, NEW i \in DOMAIN all
       PROVE  \E k \in DOMAIN M : M[k] = last[i] /\ RowKey(M[k]) = RowKey(all[i])
  <2> DEFINE T == {j \in DOMAIN all : RowKey(all[j]) = RowKey(all[i])}
  <2>1. T \subseteq Nat /\ T # {}
    BY <1>2
  <2>2. PICK j \in T : \A l \in T : j <= l
    BY <2>1, LeastOf
  <2>3. j \in DOMAIN all /\ RowKey(all[j]) = RowKey(all[i])
    OBVIOUS
  <2>4. j \in S
    <3>1. ASSUME NEW l \in 1..(j - 1), RowKey(all[l]) = RowKey(all[j]) PROVE FALSE
      <4>1. l \in DOMAIN all /\ l < j
        BY <1>2, <2>3
      <4>2. l \in T
        BY <2>3, <3>1, <4>1
      <4>3. j <= l /\ j \in Nat /\ l \in Nat
        BY <1>2, <2>2, <2>3, <4>1, <4>2
      <4>4. QED
        BY <4>1, <4>3
    <3>2. QED
      BY <2>3, <3>1 DEF FirstPlaces
  <2> HIDE DEF T, S
  <2>5. PICK k \in DOMAIN P : P[k] = last[j]
    BY <1>7, <2>4
  <2>6. last[j] = last[i]
    BY <2>3
  <2>7. M = P
    BY <1>3, <1>10 DEF P, S
  <2>8. QED
    BY <1>5, <2>3, <2>5, <2>6, <2>7
<1>11. QED
  BY <1>9, <1>10 DEF M, all

-----------------------------------------------------------------------------
(* What holds in every state. *)

IInv ==
    /\ userDatas \in Seq(Row) /\ rows \in Seq(Row) /\ saved.scores \in Seq(Row)
    /\ prev \in {saved, NoPayload}
    /\ PicturesAreThere

LEMMA InitInv ==
    Init => IInv
<1> SUFFICES ASSUME Init PROVE IInv
  OBVIOUS
<1>1. QED
  BY DEF Init, IInv, NoPayload, PicturesAreThere

\* What a run sends are rows that it read, and all that are not there yet.
LEMMA OutgoingFacts ==
    ASSUME IInv
    PROVE  /\ Outgoing \in Seq(Row)
           /\ \A k \in DOMAIN Outgoing : \E i \in DOMAIN rows : Outgoing[k] = rows[i]
           /\ rows # <<>> => Outgoing # <<>>
           /\ \A i \in DOMAIN rows :
                \/ \E k \in DOMAIN Outgoing : Outgoing[k] = rows[i]
                \/ Partial /\ ~Changed(rows, prev.scores, i)
<1> DEFINE C == ChangedRows(rows, prev.scores)
<1>1. rows \in Seq(Row) /\ prev.scores \in Seq(Row)
  <2>1. NoPayload.scores = <<>> /\ <<>> \in Seq(Row)
    BY DEF NoPayload
  <2>2. QED
    BY <2>1 DEF IInv
<1>2. /\ C \in Seq(Row)
      /\ \A k \in DOMAIN C : \E i \in DOMAIN rows : C[k] = rows[i]
      /\ \A i \in DOMAIN rows : Changed(rows, prev.scores, i) => \E k \in DOMAIN C : C[k] = rows[i]
  BY <1>1, ChangedFacts
<1>3. Outgoing = IF ~Partial \/ C = <<>> THEN rows ELSE C
  BY DEF Outgoing
<1> HIDE DEF C
<1>4. QED
  BY <1>1, <1>2, <1>3

\* What is saved.
LEMMA SendFacts ==
    ASSUME IInv, Send
    PROVE  /\ saved'.scores = IF ~Partial THEN Outgoing ELSE MergeRows(saved.scores, Outgoing)
           /\ files' = [k \in Kind |-> files'[k]]
           /\ \A k \in Kind : files[k] \subseteq files'[k]
           /\ \A k \in Kind : \/ saved'.pic[k] = None
                              \/ saved'.pic[k] = saved.pic[k]
                              \/ /\ saved'.pic[k].local => saved'.pic[k].file \in files'[k]
<1>1. PICK ok \in [Kind -> BOOLEAN] :
         /\ files' = [k \in Kind |-> files[k] \cup IF pic[k] # None /\ ok[k] THEN {pic[k]} ELSE {}]
         /\ LET sent == [scores |-> Outgoing, profile |-> profile,
                         pic |-> [k \in Kind |-> IF pic[k] = None THEN None
                                                 ELSE Persisted(k, pic[k], ok[k])]] IN
              saved' = IF ~Partial THEN sent
                       ELSE [scores |-> MergeRows(saved.scores, sent.scores),
                             profile |-> IF profile = None THEN saved.profile ELSE profile,
                             pic |-> [k \in Kind |-> IF pic[k] = None THEN saved.pic[k] ELSE sent.pic[k]]]
  BY DEF Send
<1> DEFINE p(k) == Persisted(k, pic[k], ok[k])
           o == Outgoing
           m == MergeRows(saved.scores, o)
           whole == [k \in Kind |-> IF pic[k] = None THEN None ELSE p(k)]
           part == [k \in Kind |-> IF pic[k] = None THEN saved.pic[k] ELSE p(k)]
<1>2. ASSUME NEW k \in Kind, pic[k] # None
      PROVE  p(k).local => p(k).file \in files'[k]
  <2>1. files'[k] = files[k] \cup (IF ok[k] THEN {pic[k]} ELSE {})
    BY <1>1, <1>2
  <2>2. CASE pic[k] \in files[k]
    BY <2>1, <2>2 DEF Persisted
  <2>3. CASE pic[k] \notin files[k] /\ ok[k]
    BY <2>1, <2>3 DEF Persisted
  <2>4. CASE pic[k] \notin files[k] /\ ~ok[k]
    BY <2>4 DEF Persisted, Sent
  <2>5. QED
    BY <2>2, <2>3, <2>4
<1> HIDE DEF p, o, m
<1>3. saved' = IF ~Partial THEN [scores |-> o, profile |-> profile, pic |-> whole]
               ELSE [scores |-> m,
                     profile |-> IF profile = None THEN saved.profile ELSE profile,
                     pic |-> part]
  <2>1. [scores |-> o, profile |-> profile, pic |-> whole].pic = whole
        /\ [scores |-> o, profile |-> profile, pic |-> whole].scores = o
    OBVIOUS
  <2>2. part = [k \in Kind |-> IF pic[k] = None THEN saved.pic[k] ELSE whole[k]]
    OBVIOUS
  <2> HIDE DEF part, whole
  <2>3. QED
    BY <1>1, <2>1, <2>2, Zenon DEF o, m, p, whole
<1>4. saved'.scores = IF ~Partial THEN o ELSE m
  BY <1>3
<1>5. saved'.pic = IF ~Partial THEN whole ELSE part
  <2> HIDE DEF whole, part
  <2>1. QED
    BY <1>3
<1>6. ASSUME NEW k \in Kind
      PROVE  \/ saved'.pic[k] = None
             \/ saved'.pic[k] = saved.pic[k]
             \/ saved'.pic[k].local => saved'.pic[k].file \in files'[k]
  BY <1>2, <1>5, <1>6
<1>7. files' = [k \in Kind |-> files'[k]] /\ \A k \in Kind : files[k] \subseteq files'[k]
  BY <1>1
<1>8. QED
  BY <1>4, <1>6, <1>7 DEF o, m

LEMMA NextInv == ASSUME IInv, [Next]_vars PROVE IInv'
<1>a. ASSUME Idle, UNCHANGED server PROVE IInv'
  BY <1>a DEF Idle, IInv, server, PicturesAreThere
<1>1. CASE UNCHANGED vars
  BY <1>1 DEF vars, data, server, IInv, PicturesAreThere
<1>2. CASE Begin
  BY <1>2 DEF Begin, server, IInv, PicturesAreThere
<1>3. CASE FetchScores
  <2>1. CASE Idle /\ UNCHANGED server
    BY <1>a, <2>1
  <2>2. ASSUME NEW page \in [Diff -> UNION {Pages[d] : d \in Diff}],
               \A d \in Diff : page[d] \in Pages[d],
               LET Read(d) == ParseScoreHTML(page[d], d) IN
                 userDatas' = Read("BASIC") \o Read("ADVANCED") \o Read("EXPERT")
                                            \o Read("MASTER") \o Read("LUNATIC"),
               UNCHANGED <<prev, rows, server>>
        PROVE  IInv'
    <3> DEFINE Read(d) == ParseScoreHTML(page[d], d)
    <3>1. \A d \in Diff : Read(d) \in Seq(Row)
      BY <2>2, PageIsRows
    <3> HIDE DEF Read
    <3>2. /\ Read("BASIC") \in Seq(Row) /\ Read("ADVANCED") \in Seq(Row) /\ Read("EXPERT") \in Seq(Row)
          /\ Read("MASTER") \in Seq(Row) /\ Read("LUNATIC") \in Seq(Row)
      BY <3>1 DEF Diff
    <3>3. \A s, t \in Seq(Row) : s \o t \in Seq(Row)
      OBVIOUS
    <3>4. userDatas' = Read("BASIC") \o Read("ADVANCED") \o Read("EXPERT")
                                     \o Read("MASTER") \o Read("LUNATIC")
      BY <2>2 DEF Read
    <3>5. userDatas' \in Seq(Row)
      <4> DEFINE a == Read("BASIC") \o Read("ADVANCED")
                 b == a \o Read("EXPERT")
                 c == b \o Read("MASTER")
      <4>1. a \in Seq(Row)
        BY <3>2, <3>3, Zenon
      <4> HIDE DEF a
      <4>2. b \in Seq(Row)
        BY <3>2, <3>3, <4>1, Zenon
      <4> HIDE DEF b
      <4>3. c \in Seq(Row)
        BY <3>2, <3>3, <4>2, Zenon
      <4> HIDE DEF c
      <4>4. userDatas' = c \o Read("LUNATIC")
        BY <3>4 DEF a, b, c
      <4>5. QED
        BY <3>2, <3>3, <4>3, <4>4, Zenon
    <3>6. QED
      BY <2>2, <3>5 DEF server, IInv, PicturesAreThere
  <2>3. QED
    BY <1>3, <2>1, <2>2 DEF FetchScores
<1>4. CASE FetchSongs
  <2>1. UNCHANGED <<prev, userDatas, server>>
        /\ \/ \E songs \in Songs : rows' \in {CombineDatas(userDatas, songs),
                                              CombineDatas(userDatas, OfCsv(songs))}
           \/ rows' = CombineWithout(userDatas)
    BY <1>4 DEF FetchSongs
  <2>2. \A songs \in Songs : songs \in Seq(Song) /\ OfCsv(songs) \in Seq(Song)
    BY FetchAssumption, CsvIsSongs DEF Song
  <2>3. rows' \in Seq(Row)
    BY <2>1, <2>2, CombinedIsRows DEF IInv
  <2>4. QED
    BY <2>1, <2>3 DEF server, IInv, PicturesAreThere
<1>5. CASE FetchPictures
  BY <1>5 DEF FetchPictures, server, IInv, PicturesAreThere
<1>6. CASE Retry
  BY <1>6 DEF Retry, server, IInv, PicturesAreThere
<1>7. CASE Skip
  BY <1>7, <1>a DEF Skip
<1>8. CASE SendFails
  BY <1>8, <1>a DEF SendFails
<1>9. CASE Send
  <2>1. saved'.scores \in Seq(Row)
    BY <1>9, SendFacts, OutgoingFacts, MergedFacts DEF IInv
  <2>2. PicturesAreThere'
    <3> SUFFICES ASSUME NEW k \in Kind, saved'.pic[k] # None, saved'.pic[k].local
                 PROVE  saved'.pic[k].file \in files'[k]
      BY DEF PicturesAreThere
    <3>1. files[k] \subseteq files'[k]
      BY <1>9, SendFacts
    <3>2. \/ saved'.pic[k] = saved.pic[k]
          \/ saved'.pic[k].local => saved'.pic[k].file \in files'[k]
      BY <1>9, SendFacts
    <3>3. QED
      BY <3>1, <3>2 DEF IInv, PicturesAreThere
  <2>3. userDatas' = <<>> /\ rows' = <<>> /\ prev' = NoPayload
    BY <1>9 DEF Send, Idle
  <2>4. QED
    BY <2>1, <2>2, <2>3 DEF IInv
<1>10. QED
  BY <1>1, <1>2, <1>3, <1>4, <1>5, <1>6, <1>7, <1>8, <1>9 DEF Next

THEOREM Invariance == Spec => []IInv
BY InitInv, NextInv, PTL DEF Spec

\* A picture that the site shows from its own files is there: what the server
\* names is what it has just written or found, and files stay.
THEOREM ShownPicturesAreThere == Spec => []PicturesAreThere
<1>1. IInv => PicturesAreThere
  BY DEF IInv
<1>2. QED
  BY <1>1, Invariance, PTL

-----------------------------------------------------------------------------
(* What the site has after a run. *)

LEMMA AllFacts ==
    ASSUME NEW s \in Seq(Row), NEW t \in Seq(Row)
    PROVE  /\ s \o t \in Seq(Row) /\ Len(s) \in Nat /\ Len(t) \in Nat
           /\ DOMAIN s = 1..Len(s) /\ DOMAIN t = 1..Len(t)
           /\ DOMAIN (s \o t) = 1..(Len(s) + Len(t))
           /\ \A j \in DOMAIN s : j \in DOMAIN (s \o t) /\ (s \o t)[j] = s[j]
           /\ \A k \in DOMAIN t : Len(s) + k \in DOMAIN (s \o t) /\ (s \o t)[Len(s) + k] = t[k]
           /\ \A j \in DOMAIN (s \o t) \ DOMAIN s : j - Len(s) \in DOMAIN t /\ (s \o t)[j] = t[j - Len(s)]
OBVIOUS

\* The row that the server keeps of a key that one row read has.
LEMMA MergeKeeps ==
    ASSUME NEW before \in Seq(Row), NEW sent \in Seq(Row), before # <<>>, sent # <<>>,
           NEW row \in Row,
           \A k \in DOMAIN sent : RowKey(sent[k]) = RowKey(row) => sent[k] = row,
           \/ \E k \in DOMAIN sent : sent[k] = row
           \/ /\ \E j \in DOMAIN before : RowKey(before[j]) = RowKey(row)
              /\ Signature(before[LastOf(RowKey(row), before)]) = Signature(row)
    PROVE  \E m \in DOMAIN MergeRows(before, sent) :
              /\ RowKey(MergeRows(before, sent)[m]) = RowKey(row)
              /\ Signature(MergeRows(before, sent)[m]) = Signature(row)
<1> DEFINE all == before \o sent
           key == RowKey(row)
           l == LastOf(key, all)
           M == MergeRows(before, sent)
           n == Len(before)
<1>1. /\ all \in Seq(Row) /\ n \in Nat /\ Len(sent) \in Nat
      /\ DOMAIN before = 1..n /\ DOMAIN sent = 1..Len(sent)
      /\ DOMAIN all = 1..(n + Len(sent))
      /\ \A j \in DOMAIN before : j \in DOMAIN all /\ all[j] = before[j]
      /\ \A k \in DOMAIN sent : n + k \in DOMAIN all /\ all[n + k] = sent[k]
      /\ \A j \in DOMAIN all \ DOMAIN before : j - n \in DOMAIN sent /\ all[j] = sent[j - n]
  BY AllFacts
<1>2. \A i \in DOMAIN all : \E k \in DOMAIN M :
          /\ M[k] = all[LastOf(RowKey(all[i]), all)]
          /\ RowKey(M[k]) = RowKey(all[i])
  BY MergedFacts
<1> HIDE DEF all, M, n, key
<1>3. PICK i \in DOMAIN all : /\ RowKey(all[i]) = key
                              /\ \/ i \notin DOMAIN before
                                 \/ /\ i = LastOf(key, before) /\ i \in DOMAIN before
                                    /\ Signature(before[i]) = Signature(row)
                                    /\ \A j \in DOMAIN before : RowKey(before[j]) = key => j <= i
  <2>1. CASE \E k \in DOMAIN sent : sent[k] = row
    <3>1. PICK k \in DOMAIN sent : sent[k] = row
      BY <2>1
    <3>2. n + k \in DOMAIN all /\ all[n + k] = row
      BY <1>1, <3>1
    <3>3. n + k \notin DOMAIN before
      BY <1>1
    <3>4. QED
      BY <3>2, <3>3 DEF key
  <2>2. CASE /\ \E j \in DOMAIN before : RowKey(before[j]) = key
             /\ Signature(before[LastOf(key, before)]) = Signature(row)
    <3> DEFINE q == LastOf(key, before)
    <3>1. /\ q \in DOMAIN before /\ RowKey(before[q]) = key
          /\ \A j \in DOMAIN before : RowKey(before[j]) = key => j <= q
      BY <2>2, LastFacts
    <3>2. q \in DOMAIN all /\ all[q] = before[q]
      BY <1>1, <3>1
    <3>3. QED
      BY <2>2, <3>1, <3>2
  <2>3. QED
    BY <2>1, <2>2 DEF key
<1>4. /\ l \in DOMAIN all /\ RowKey(all[l]) = key
      /\ \A j \in DOMAIN all : RowKey(all[j]) = key => j <= l
  BY <1>1, <1>3, LastFacts
<1>5. PICK m \in DOMAIN M : M[m] = all[l] /\ RowKey(M[m]) = key
  BY <1>2, <1>3
<1> HIDE DEF l
<1>6. Signature(all[l]) = Signature(row)
  <2>1. CASE l \notin DOMAIN before
    <3>1. l - n \in DOMAIN sent /\ all[l] = sent[l - n]
      BY <1>1, <1>4, <2>1
    <3>2. sent[l - n] = row
      BY <1>4, <3>1 DEF key
    <3>3. QED
      BY <3>1, <3>2
  <2>2. CASE l \in DOMAIN before
    <3>1. i <= l /\ i \in Int /\ l \in Int
      BY <1>1, <1>3, <1>4
    <3>2. i \in DOMAIN before
      BY <1>1, <1>3, <2>2, <3>1
    <3>3. RowKey(before[l]) = key
      BY <1>1, <1>4, <2>2
    <3>4. l <= i
      BY <1>3, <2>2, <3>2, <3>3
    <3>5. l = i
      BY <3>1, <3>4
    <3>6. QED
      BY <1>1, <1>3, <2>2, <3>2, <3>5
  <2>3. QED
    BY <2>1, <2>2
<1>7. QED
  BY <1>5, <1>6 DEF M, key

\* A payload of changes is about what the site has.
LEMMA PartialIsOfSaved ==
    ASSUME IInv, Partial
    PROVE  prev = saved /\ saved.scores # <<>>
BY DEF IInv, Partial, NoPayload

LEMMA SendIsSaved ==
    ASSUME IInv, Send
    PROVE  /\ \A i \in DOMAIN rows :
                (\A j \in DOMAIN rows : RowKey(rows[j]) = RowKey(rows[i]) => i = j) =>
                   \E s \in Range(saved'.scores) :
                      RowKey(s) = RowKey(rows[i]) /\ Signature(s) = Signature(rows[i])
           /\ Partial /\ rows # <<>> =>
                {RowKey(s) : s \in Range(saved.scores)} \subseteq {RowKey(s) : s \in Range(saved'.scores)}
<1> DEFINE o == Outgoing
           before == saved.scores
<1>1. /\ o \in Seq(Row) /\ (rows # <<>> => o # <<>>) /\ before \in Seq(Row)
      /\ \A k \in DOMAIN o : \E i \in DOMAIN rows : o[k] = rows[i]
      /\ \A i \in DOMAIN rows : \/ \E k \in DOMAIN o : o[k] = rows[i]
                                \/ Partial /\ ~Changed(rows, prev.scores, i)
  BY OutgoingFacts DEF IInv
<1>2. saved'.scores = IF ~Partial THEN o ELSE MergeRows(before, o)
  BY SendFacts
<1>3. Partial => prev.scores = before /\ before # <<>>
  BY PartialIsOfSaved
<1>4. Len(rows) \in Nat /\ DOMAIN rows = 1..Len(rows) /\ \A i \in DOMAIN rows : rows[i] \in Row
  BY ElementsOf DEF IInv
<1> HIDE DEF o, before
<1>5. ASSUME NEW i \in DOMAIN rows,
             \A j \in DOMAIN rows : RowKey(rows[j]) = RowKey(rows[i]) => i = j
      PROVE  \E m \in DOMAIN saved'.scores : /\ RowKey(saved'.scores[m]) = RowKey(rows[i])
                                             /\ Signature(saved'.scores[m]) = Signature(rows[i])
  <2>1. CASE ~Partial
    BY <1>1, <1>2, <2>1
  <2>2. CASE Partial
    <3>1. rows # <<>>
      BY <1>4
    <3>2. o # <<>> /\ before # <<>> /\ rows[i] \in Row
      BY <1>1, <1>3, <1>4, <2>2, <3>1
    <3>3. \A k \in DOMAIN o : RowKey(o[k]) = RowKey(rows[i]) => o[k] = rows[i]
      BY <1>1, <1>5
    <3>4. \/ \E k \in DOMAIN o : o[k] = rows[i]
          \/ /\ \E j \in DOMAIN before : RowKey(before[j]) = RowKey(rows[i])
             /\ Signature(before[LastOf(RowKey(rows[i]), before)]) = Signature(rows[i])
      <4>1. CASE \E k \in DOMAIN o : o[k] = rows[i]
        BY <4>1
      <4>2. CASE ~Changed(rows, prev.scores, i)
        BY <1>3, <2>2, <4>2 DEF Changed, Range
      <4>3. QED
        BY <1>1, <4>1, <4>2
    <3>5. QED
      BY <1>1, <1>2, <2>2, <3>2, <3>3, <3>4, MergeKeeps
  <2>3. QED
    BY <2>1, <2>2
<1>6. ASSUME Partial, rows # <<>>, NEW j \in DOMAIN before
      PROVE  \E m \in DOMAIN saved'.scores : RowKey(saved'.scores[m]) = RowKey(before[j])
  <2>1. o # <<>> /\ before # <<>> /\ saved'.scores = MergeRows(before, o)
    BY <1>1, <1>2, <1>3, <1>6
  <2>2. j \in DOMAIN (before \o o) /\ (before \o o)[j] = before[j]
    BY <1>1, <1>6, AllFacts
  <2>3. \E m \in DOMAIN MergeRows(before, o) : RowKey(MergeRows(before, o)[m]) = RowKey(before[j])
    BY <1>1, <2>1, <2>2, MergedFacts
  <2>4. QED
    BY <2>1, <2>3
<1>7. QED
  BY <1>5, <1>6 DEF Range, before

\* After a run was saved, every chart that it read and whose key is its own is
\* on the site with its score, and the other charts are not lost: what is left
\* out of a payload of changes is what the site has, and the server keeps the
\* last row of each key.
THEOREM RunsAreSaved == Spec => SentIsSaved
<1>1. IInv /\ [Next]_vars =>
        [saved' # saved =>
          /\ \A i \in DOMAIN rows :
               (\A j \in DOMAIN rows : RowKey(rows[j]) = RowKey(rows[i]) => i = j) =>
                  \E s \in Range(saved'.scores) :
                     RowKey(s) = RowKey(rows[i]) /\ Signature(s) = Signature(rows[i])
          /\ Partial /\ rows # <<>> =>
               {RowKey(s) : s \in Range(saved.scores)} \subseteq {RowKey(s) : s \in Range(saved'.scores)}]_vars
  <2> SUFFICES ASSUME IInv, [Next]_vars, saved' # saved PROVE Send
    BY SendIsSaved
  <2>1. QED
    BY DEF Next, vars, server, Begin, FetchScores, FetchSongs, FetchPictures, Retry, Skip, SendFails
<1>2. QED
  BY <1>1, Invariance, PTL DEF Spec, SentIsSaved

LEMMA SkipIsSame ==
    ASSUME IInv, Skip
    PROVE  /\ \A r \in Range(rows) : \E s \in Range(saved.scores) :
                 RowKey(s) = RowKey(r) /\ Signature(s) = Signature(r)
           /\ profile = saved.profile
           /\ \A k \in Kind : pic[k] # None => saved.pic[k] # None /\ saved.pic[k].file = pic[k]
<1>1. /\ Partial /\ ChangedRows(rows, prev.scores) = <<>> /\ ~ProfileRelatedChanged
  BY DEF Skip
<1>2. prev = saved
  BY <1>1, PartialIsOfSaved
<1>3. rows \in Seq(Row) /\ saved.scores \in Seq(Row)
  BY DEF IInv
<1>4. ASSUME NEW i \in DOMAIN rows
      PROVE  \E s \in Range(saved.scores) : RowKey(s) = RowKey(rows[i]) /\ Signature(s) = Signature(rows[i])
  <2> DEFINE key == RowKey(rows[i])
             q == LastOf(key, saved.scores)
  <2>1. ~Changed(rows, saved.scores, i)
    BY <1>1, <1>2, <1>3, ChangedFacts
  <2>2. PICK j \in DOMAIN saved.scores : RowKey(saved.scores[j]) = key
    BY <2>1 DEF Changed, Range
  <2>3. q \in DOMAIN saved.scores /\ RowKey(saved.scores[q]) = key
    BY <1>3, <2>2, LastFacts
  <2>4. Signature(saved.scores[q]) = Signature(rows[i])
    BY <2>1 DEF Changed
  <2>5. QED
    BY <2>3, <2>4 DEF Range
<1>5. profile = saved.profile
  BY <1>1, <1>2 DEF ProfileRelatedChanged
<1>6. \A k \in Kind : pic[k] # None => saved.pic[k] # None /\ saved.pic[k].file = pic[k]
  BY <1>1, <1>2 DEF ProfileRelatedChanged
<1>7. QED
  BY <1>4, <1>5, <1>6 DEF Range

\* A run that tells the user that there is nothing to send has found nothing
\* that the site does not show.
THEOREM SkippedIsSame == Spec => SkipMeansSame
<1>1. IInv /\ [Next]_vars =>
        [Skip =>
          /\ \A r \in Range(rows) : \E s \in Range(saved.scores) :
                RowKey(s) = RowKey(r) /\ Signature(s) = Signature(r)
          /\ profile = saved.profile
          /\ \A k \in Kind : pic[k] # None => saved.pic[k] # None /\ saved.pic[k].file = pic[k]]_vars
  BY SkipIsSame
<1>2. QED
  BY <1>1, Invariance, PTL DEF Spec, SkipMeansSame

-----------------------------------------------------------------------------
(* Songs that are told apart. *)

\* The place of the song whose turn it is.
Turn(i, songs) ==
    Nth(SameLevel(userDatas[i], songs), Cardinality(Used(i, userDatas, songs)) + 1)

\* A row of a group that the songs tell apart gets the song whose turn it is.
LEMMA ToldFacts ==
    ASSUME NEW songs \in Seq(Song), userDatas \in Seq(Row), NEW i \in DOMAIN userDatas,
           Told(i, songs), NEW same, same = SameLevel(userDatas[i], songs),
           NEW used, used = Used(i, userDatas, songs),
           NEW k, k = Turn(i, songs)
    PROVE  /\ ById(userDatas[i], songs) = {}
           /\ IsFiniteSet(used) /\ Cardinality(used) \in Nat
           /\ k \in same /\ Cardinality(Before(same, k)) = Cardinality(used)
           /\ SongOf(i, userDatas, songs) = songs[k]
<1> DEFINE row == userDatas[i]
           group == Group(i)
           n == Len(userDatas)
           c == Cardinality(same)
           u == Cardinality(used)
<1>1. n \in Nat /\ DOMAIN userDatas = 1..n /\ Len(songs) \in Nat /\ DOMAIN songs = 1..Len(songs)
  BY ElementsOf
<1>2. (\A j \in group : userDatas[j].id = NoId) /\ Cardinality(group) <= c
  BY DEF Told
<1>3. i \in group /\ group \subseteq 1..n
  BY <1>1 DEF Group
<1>4. ById(row, songs) = {}
  BY <1>2, <1>3 DEF ById
<1>5. used \subseteq group /\ i \notin used /\ used \subseteq 1..n
  <2>1. i \in Nat
    BY <1>1
  <2>2. \A j \in used : j \in 1..(i - 1)
    BY DEF Used
  <2>3. \A j \in used : j \in 1..n /\ j # i
    BY <1>1, <2>1, <2>2
  <2>4. QED
    BY <1>1, <2>3 DEF Used, Group
<1>6. same \subseteq 1..Len(songs)
  BY <1>1 DEF SameLevel, Candidates
<1>7. c \in Nat /\ u \in Nat /\ IsFiniteSet(used) /\ IsFiniteSet(group) /\ Cardinality(group) \in Nat
      /\ (c = 0 <=> same = {})
  BY <1>1, <1>3, <1>5, <1>6, FiniteTo
<1> HIDE DEF c, u, group
<1>8. u < c
  <2>1. Cardinality(used) <= Cardinality(group)
        /\ (Cardinality(group) = Cardinality(used) => group = used)
    BY <1>5, <1>7, FS_Subset
  <2>2. group # used
    BY <1>3, <1>5
  <2>3. QED
    BY <1>2, <1>7, <2>1, <2>2 DEF u
<1>9. \A m \in 1..c : Nth(same, m) \in same
                          /\ Cardinality(Before(same, Nth(same, m))) = m - 1
  BY <1>1, <1>6, NthExists DEF c
<1>10. u + 1 \in 1..c /\ u % c = u /\ (u + 1) - 1 = u
  BY <1>7, <1>8
<1>11. k = Nth(same, u + 1)
  BY DEF Turn, u
<1>12. k \in same /\ Cardinality(Before(same, k)) = u
  BY <1>9, <1>10, <1>11
<1>13. SongOf(i, userDatas, songs) = songs[k]
  <2>1. SongOf(i, userDatas, songs) = songs[Nth(same, (u % c) + 1)]
    BY <1>4, <1>12 DEF SongOf, u, c
  <2>2. QED
    BY <1>10, <1>11, <2>1
<1>14. QED
  BY <1>4, <1>7, <1>12, <1>13 DEF u

\* Two of them get two songs, and songs have ids of their own.
LEMMA ToldApart ==
    ASSUME OneIdEach, userDatas \in Seq(Row), NEW songs \in Songs, songs \in Seq(Song),
           rows = CombineDatas(userDatas, songs),
           NEW i \in DOMAIN userDatas, NEW j \in DOMAIN userDatas, i < j,
           Told(i, songs), Told(j, songs)
    PROVE  RowKey(rows[i]) # RowKey(rows[j])
<1> DEFINE a == userDatas[i]
           b == userDatas[j]
           si == SameLevel(a, songs)
           sj == SameLevel(b, songs)
           ui == Used(i, userDatas, songs)
           uj == Used(j, userDatas, songs)
           k == Turn(i, songs)
           l == Turn(j, songs)
<1>1. /\ ById(a, songs) = {} /\ IsFiniteSet(ui) /\ Cardinality(ui) \in Nat
      /\ k \in si /\ Cardinality(Before(si, k)) = Cardinality(ui)
      /\ SongOf(i, userDatas, songs) = songs[k]
  BY ToldFacts
<1>2. /\ ById(b, songs) = {} /\ IsFiniteSet(uj) /\ Cardinality(uj) \in Nat
      /\ l \in sj /\ Cardinality(Before(sj, l)) = Cardinality(uj)
      /\ SongOf(j, userDatas, songs) = songs[l]
  BY ToldFacts
<1>3. /\ k \in DOMAIN songs /\ songs[k].name = a.name /\ songs[k].level[a.difficulty] = a.level
      /\ l \in DOMAIN songs /\ songs[l].name = b.name /\ songs[l].level[b.difficulty] = b.level
  BY <1>1, <1>2 DEF SameLevel, Candidates
<1>4. /\ rows[i].id = songs[k].id /\ rows[i].difficulty = a.difficulty /\ songs[k].id # NoId
      /\ rows[j].id = songs[l].id /\ rows[j].difficulty = b.difficulty /\ songs[l].id # NoId
  BY <1>1, <1>2, <1>3 DEF CombineDatas, OneIdEach
<1>5. ASSUME a.difficulty = b.difficulty PROVE k # l
  <2>1. CASE a.name # b.name \/ a.level # b.level
    BY <1>3, <1>5, <2>1
  <2>2. CASE a.name = b.name /\ a.level = b.level
    <3>1. si = sj
      BY <1>5, <2>2 DEF SameLevel, Candidates
    <3>2. i \in Nat /\ j \in Nat /\ i \in 1..(j - 1)
      BY ElementsOf
    <3>3. ui \subseteq uj /\ i \in uj /\ i \notin ui
      <4>1. i \in uj
        BY <1>1, <1>5, <2>2, <3>2 DEF Used
      <4>2. \A m \in 1..(i - 1) : m \in 1..(j - 1) /\ m # i
        BY <3>2
      <4>3. QED
        BY <1>5, <2>2, <4>1, <4>2 DEF Used
    <3>4. Cardinality(ui) <= Cardinality(uj) /\ (Cardinality(uj) = Cardinality(ui) => uj = ui)
      BY <1>2, <3>3, FS_Subset
    <3>5. Cardinality(ui) # Cardinality(uj)
      BY <3>3, <3>4
    <3> HIDE DEF si, sj, k, l, ui, uj
    <3>6. QED
      BY <1>1, <1>2, <3>1, <3>5
  <2>3. QED
    BY <2>1, <2>2
<1> HIDE DEF k, l
<1>6. a.difficulty = b.difficulty => rows[i].id # rows[j].id
  BY <1>3, <1>4, <1>5 DEF OneIdEach
<1>7. RowKey(rows[i]) = <<rows[i].id, rows[i].difficulty>>
      /\ RowKey(rows[j]) = <<rows[j].id, rows[j].difficulty>>
  BY <1>4 DEF RowKey
<1>8. QED
  BY <1>4, <1>6, <1>7

\* No two songs of one name and level are taken for one: rows that the songs
\* tell apart get keys of their own, each by its turn.
THEOREM GroupsHaveOwnKeys == OneIdEach => (Spec => []OwnKeys)
<1> SUFFICES ASSUME OneIdEach PROVE Spec => []OwnKeys
  OBVIOUS
<1>1. ASSUME IInv PROVE OwnKeys
  <2> SUFFICES ASSUME NEW songs \in Songs, ByAllOf(songs), NEW i \in DOMAIN rows,
                      NEW j \in DOMAIN rows, i # j, Told(i, songs), Told(j, songs)
               PROVE  RowKey(rows[i]) # RowKey(rows[j])
    BY DEF OwnKeys
  <2>1. songs \in Seq(Song) /\ rows = CombineDatas(userDatas, songs) /\ userDatas \in Seq(Row)
    BY <1>1, FetchAssumption DEF Song, ByAllOf, IInv
  <2>2. DOMAIN rows = DOMAIN userDatas
    BY <2>1 DEF CombineDatas
  <2>3. i \in Nat /\ j \in Nat
    BY <2>1, <2>2, ElementsOf
  <2>4. i < j \/ j < i
    BY <2>3
  <2>5. QED
    BY <2>1, <2>2, <2>4, ToldApart
<1>2. QED
  BY <1>1, Invariance, PTL
=============================================================================
