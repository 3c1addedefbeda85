--------------------------- MODULE MCCatalogCache ---------------------------
EXTENDS CatalogCache

Line(t, d, c) == [header |-> FALSE, title |-> t, diff |-> d, const |-> c]

\* mas is upstream, exc is not.
Some == [x \in Title \X Field |-> IF x[2] = "mas" THEN 140 ELSE NoConst]

\* A header, two lines of one chart and one that is not a number; a forced
\* line; and a paste that has no valid line.
Pastes ==
    {[force |-> FALSE,
      lines |-> <<[Line("s", "exc", 120) EXCEPT !.header = TRUE], Line("s", "exc", 121),
                  Line("s", "mas", 141), Line("s", "exc", 122), Line("s", "exc", NoConst)>>],
     [force |-> TRUE, lines |-> <<Line("s", "mas", 142), Line("s", None, 143)>>],
     [force |-> FALSE, lines |-> <<Line(None, "mas", 144)>>]}

\* No entry, or one that has the id of the song and one that has its title.
SomeEntries ==
    LET byTitle == [id |-> None, title |-> "s", force |-> FALSE,
                    consts |-> [f \in Field |-> IF f = "mas" THEN 139 ELSE NoConst]]
        byID == [byTitle EXCEPT !.id = "s", !.consts = [f \in Field |-> IF f = "exc" THEN 119 ELSE NoConst]]
    IN  {<< >>, <<byID, byTitle>>}
=============================================================================
