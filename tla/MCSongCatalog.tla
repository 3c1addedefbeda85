---------------------------- MODULE MCSongCatalog ----------------------------
\* Six songs on pages of two; titles 1 to 4, versions 1 and 2.
EXTENDS SongCatalog

NoChart == [level |-> Undefined, const |-> Undefined, notes |-> Undefined, bells |-> Undefined]
Song(title, version, bpm, mas) ==
    [text |-> [f \in TextField |-> CASE f = "title" -> title [] f = "version" -> version [] OTHER -> Undefined],
     bpm |-> bpm, chart |-> [d \in Diff |-> IF d = "mas" THEN mas ELSE NoChart]]
Mas(level, const, notes, bells) == [level |-> level, const |-> const, notes |-> notes, bells |-> bells]

Songs == <<Song(3, 1, 180, Mas(13, 130, 100, 5)), Song(2, 2, Undefined, Mas(13, 130, 50, Undefined)),
           Song(Undefined, 1, 200, Mas(14, 140, 100, 5)), Song(4, 1, 180, Mas(14, Undefined, Undefined, 7)),
           Song(1, 2, 200, Mas(14, Undefined, 24, 5)), Song(2, 1, 200, NoChart)>>

Catalogues == {Songs, SubSeq(Songs, 1, 2)}
\* What is typed, 2, is in the title 2, the constant 130 and the level 14.
Found == {<<2, 2>>, <<2, 130>>, <<2, 14>>}

Preferences == [mode : {"simple", "detail"}, diff : {"mas", "lnt"},
            key : {<<"title", "all">>, <<"bpm", "all">>, <<"const", "mas">>, <<"star", "mas">>},
            order : {"asc", "desc"}]
=============================================================================
