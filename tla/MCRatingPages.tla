---------------------------- MODULE MCRatingPages ----------------------------
EXTENDS RatingPages

Lv(n, p) == [n |-> n, plus |-> p]

\* Two songs of one name at two levels, and one that gets its id later.
E1 == [id |-> 1, name |-> "n1", key |-> "n1", level |-> Lv(13, TRUE), const |-> 137,
       version |-> "past", bonus |-> FALSE]
E2 == [E1 EXCEPT !.id = 2, !.level = Lv(15, FALSE), !.const = 150]
E3 == [E1 EXCEPT !.id = 3, !.name = "n2", !.key = "n2", !.level = Lv(14, FALSE), !.const = 144,
                 !.version = "act2"]
Bonus == [E1 EXCEPT !.id = 4, !.name = "n3", !.key = "n3", !.const = 0, !.bonus = TRUE]

Catalogue1 == <<E1, E2, Bonus>>
Catalogue2 == <<E1, E2, Bonus, E3>>

\* A row before it has an id, a constant and a version ...
Unmatched(c, e, s) ==
    [chart |-> <<e.name, c>>, name |-> e.name, key |-> e.key, id |-> NoId, level |-> e.level, const |-> NoConst,
     version |-> NoVersion, score |-> s, star |-> 0, plat |-> 0,
     fb |-> FALSE, fc |-> FALSE, ab |-> FALSE]
\* ... and when the catalogue has its song.
Matched(c, e, s) ==
    [Unmatched(c, e, s) EXCEPT !.id = e.id, !.const = e.const, !.version = e.version]

R1 == [Matched(1, E1, 989999) EXCEPT !.fb = TRUE]
R2 == [Matched(2, E2, 970000) EXCEPT !.fc = TRUE, !.plat = 3, !.star = 5]
U1 == Unmatched(1, E1, 989999)
U2 == Unmatched(2, E2, 1007500)
U3 == Unmatched(1, E3, 969999)
R3 == [Matched(1, E3, 1007499) EXCEPT !.ab = TRUE]
R4 == [Unmatched(1, Bonus, 1010000) EXCEPT !.level = Lv(0, TRUE), !.ab = TRUE]

\* The name of U3 in wide letters.
W3 == [U3 EXCEPT !.name = "wide n2", !.chart = <<"wide n2", 1>>]

\* The other chart of n1 under the id of the first.
Moved == [R1 EXCEPT !.chart = <<"n1", 2>>, !.score = 990000]

\* Without a catalogue; with one; rows that moved, two of them with one id of
\* two charts; and without rows.
Snapshots ==
    {[rows |-> <<U1, U2, U3>>, catalog |-> << >>],
     [rows |-> <<R2, R1, R4, W3>>, catalog |-> Catalogue1],
     [rows |-> <<R3, U1, R1, Moved>>, catalog |-> << >>],
     [rows |-> << >>, catalog |-> << >>]}

TwoCatalogues == {Catalogue1, Catalogue2}
Names == {{"act2"}}
=============================================================================
