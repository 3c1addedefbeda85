---------------------------- MODULE MCScoreSync ----------------------------
EXTENDS ScoreSync, TLC

CONSTANTS c1, c2, d1

OneDevice == [r \in Run |-> d1]

\* The runs of a device are interchangeable.
Runs == Permutations(Run)

\* The catalogue is loaded and every chart has an id, or it is not loaded.
Lookups == {Chart, {}}

\* The pages show their charts, or all of them are error pages, which have no
\* rows.
SomePages == {Chart, {}}

\* Two of these times may be taken that have their texts in another order: the
\* text of 10 sorts after that of 12.
Clock == {10, 12, 20, 31}
=============================================================================
