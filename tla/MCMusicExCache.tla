--------------------------- MODULE MCMusicExCache ---------------------------
EXTENDS MusicExCache, TLC

Act1 == [songs |-> {}, label |-> CHOOSE l \in Label : l # DefaultLabel]
AllSongs == [songs |-> Song, label |-> DefaultLabel]

\* The operator saves either _meta block, a broken file, or removes the file.
AnySave == {Act1, AllSongs, Absent, Broken}

\* The operator never removes the file.
SavesOnly == {Act1, AllSongs, Broken}

Readers == Permutations(Reader)
=============================================================================
