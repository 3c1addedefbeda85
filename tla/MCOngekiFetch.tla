---------------------------- MODULE MCOngekiFetch ----------------------------
\* Songs of one name, two of them at one level, as the game has them.
EXTENDS OngekiFetch

Form(name, level, ids, score) ==
    [name |-> name, level |-> level, ids |-> ids, played |-> score > 0, score |-> score, lamps |-> {}]

AllBreak == [Form("n", "13", <<NoId, 3>>, 2) EXCEPT !.lamps = {"ab"}]

MasterPages == {<<Form("n", "13", <<>>, 1), Form("n", "13", <<NoId>>, 0), Form("n", "15", <<>>, 1)>>,
                <<AllBreak>>}
GamePages == [d \in Diff |-> IF d = "MASTER" THEN MasterPages ELSE {<<>>}]

Song(id, level, const) ==
    [name |-> "n", id |-> id,
     level |-> [d \in Diff |-> IF d = "MASTER" THEN level ELSE NoLevel],
     const |-> [d \in Diff |-> IF d = "MASTER" THEN const ELSE NoConst]]

AllSongs == <<Song(3, "13", 130), Song(4, "13", NoConst), Song(5, "15", 150)>>
SongLists == {AllSongs}

ASSUME OneIdEach

Own == {[f \in ProfileField |-> IF f = "code" THEN Missing ELSE 1]}
Friends == {[f \in ProfileField |-> IF f = "code" THEN 1 ELSE Missing]}
Files == [k \in Kind |-> IF k = "icon" THEN {"f.png"} ELSE {}]
=============================================================================
