----------------------------- MODULE OngekiFetch -----------------------------
(***************************************************************************)
(* What a run of the bookmarklet reads and how it becomes the payload the  *)
(* site keeps: the pages of the game (ongekiFetch.ts), the song data its   *)
(* rows are combined with, the profile and the pictures (main.ts), and     *)
(* what the server does with the pictures and the rows.  One run at a      *)
(* time; module ScoreSync is about runs that overlap.                      *)
(*                                                                         *)
(* A page is a sequence of forms; texts that are compared only are values  *)
(* of a set, and what scoreRowSignature joins is one score and the lamps.  *)
(***************************************************************************)
EXTENDS Integers, SequencesExt, Subsequence

CONSTANTS
    Pages,              \* per difficulty, the pages the game may show
    Songs,              \* the sequences of songs that music-ex.json may hold
    DetailProfile, FriendProfile,   \* what those two pages may say
    Comment,            \* what the page of the comment may say
    Pictures,           \* per kind, the files of the pictures a page may show
    Id, NoId, NoLevel, NoConst, Missing, None

\* A picture's kind.
Kind == {"icon", "chara"}
Diff == {"BASIC", "ADVANCED", "EXPERT", "MASTER", "LUNATIC"}

Lamp == {"fb", "fc", "ab"}

ASSUME FetchAssumption ==
    /\ \A d \in Diff : Pages[d] \subseteq Seq([name : STRING, level : STRING, ids : Seq(Id \cup {NoId}),
                                               played : BOOLEAN, score : Nat, lamps : SUBSET Lamp])
    /\ \A songs \in Songs : songs \in Seq([name : STRING, id : Id \cup {NoId},
                                           level : [Diff -> STRING \cup {NoLevel}],
                                           const : [Diff -> Nat \cup {NoConst}]])
    /\ NoId \notin Id

\* Each song has an id of its own.
OneIdEach == \A songs \in Songs : \A k, l \in DOMAIN songs :
                 songs[k].id # NoId /\ (songs[k].id = songs[l].id => k = l)

VARIABLES
    step,
    prev,               \* previousPayload
    userDatas, rows,    \* of the pages, and combined
    profile, detail,    \* playerProfile; the detail page was read
    pic,                \* per kind, the file of its picture or None
    saved,              \* the latest snapshot
    files,              \* per kind, the pictures on the server
    force               \* FORCE_FULL_NEXT_KEY

data == <<prev, userDatas, rows, profile, detail, pic>>
server == <<saved, files>>
vars == <<step, data, server, force>>

-----------------------------------------------------------------------------
(* The pages of the game.                                                  *)

\* extractMusicExIdFromForm: the first of the places that has a number.
ExtractId(form) ==
    LET found == {i \in DOMAIN form.ids : form.ids[i] # NoId} IN
    IF found = {} THEN NoId ELSE form.ids[Min(found)]

\* A chart that was not played has no table.  All break implies full combo.
ParseForm(form, d) ==
    [name |-> form.name, difficulty |-> d, level |-> form.level, id |-> ExtractId(form),
     score |-> IF form.played THEN form.score ELSE 0,
     lamps |-> IF ~form.played THEN {}
               ELSE form.lamps \cup IF "ab" \in form.lamps THEN {"fc"} ELSE {}]

ParseScoreHTML(page, d) == [i \in DOMAIN page |-> ParseForm(page[i], d)]

-----------------------------------------------------------------------------
(* Songs.  Of one that a CSV file holds neither id nor levels are known.   *)

OfCsv(songs) == [i \in DOMAIN songs |-> [songs[i] EXCEPT !.id = NoId, !.level = [d \in Diff |-> NoLevel]]]
NoSong == [name |-> None, id |-> NoId,
           level |-> [d \in Diff |-> NoLevel], const |-> [d \in Diff |-> NoConst]]

\* Where the songs of a row's name are; those at its level, with a constant,
\* with its id.
Candidates(row, songs) == {k \in DOMAIN songs : songs[k].name = row.name}
SameLevel(row, songs) ==
    {k \in Candidates(row, songs) : songs[k].level[row.difficulty] = row.level}
WithConst(row, songs) ==
    {k \in Candidates(row, songs) : songs[k].const[row.difficulty] # NoConst}
ById(row, songs) == {k \in DOMAIN songs : songs[k].id = row.id /\ row.id # NoId}

FirstOf(S, songs) == IF S = {} THEN NoSong ELSE songs[Min(S)]

\* The song of a row whose level no song has: one with a constant, or any.
Unlevelled(row, songs) ==
    FirstOf(IF WithConst(row, songs) # {} THEN WithConst(row, songs) ELSE Candidates(row, songs),
            songs)

\* Mutant: of the songs at its level always the first.
SongOfFirst(i, datas, songs) ==
    LET row == datas[i] IN
    CASE ById(row, songs) # {} -> songs[Max(ById(row, songs))]
      [] ById(row, songs) = {} /\ SameLevel(row, songs) # {} -> FirstOf(SameLevel(row, songs), songs)
      [] OTHER -> Unlevelled(row, songs)

\* The rows before row i that took a song of its group (groupUseCount).
Used(i, datas, songs) ==
    {j \in 1..(i - 1) : /\ ById(datas[j], songs) = {}
                        /\ datas[j].name = datas[i].name
                        /\ datas[j].difficulty = datas[i].difficulty
                        /\ datas[j].level = datas[i].level}

\* The song of row i: the last one with its id; or, of those at its level,
\* the one whose turn it is; or one with a constant; or any.
SongOf(i, datas, songs) ==
    LET row == datas[i]
        same == SameLevel(row, songs)
        turn == Cardinality(Used(i, datas, songs)) % Cardinality(same) IN
    CASE ById(row, songs) # {} -> songs[Max(ById(row, songs))]
      [] ById(row, songs) = {} /\ same # {} -> songs[Nth(same, turn + 1)]
      [] OTHER -> Unlevelled(row, songs)

\* The song's id, or that of the page.  Its constant, version and character
\* go into the row, too; neither key nor signature has them.
CombineDatas(datas, songs) ==
    [i \in DOMAIN datas |->
        LET song == SongOf(i, datas, songs) IN
        [name |-> datas[i].name, difficulty |-> datas[i].difficulty, level |-> datas[i].level,
         score |-> datas[i].score, lamps |-> datas[i].lamps,
         id |-> IF song.id # NoId THEN song.id ELSE datas[i].id]]

\* combineDatasWithoutBeatmap, which leaves out the id of the page, too.
CombineWithout(datas) ==
    [i \in DOMAIN datas |->
        [name |-> datas[i].name, difficulty |-> datas[i].difficulty, level |-> datas[i].level,
         score |-> datas[i].score, lamps |-> datas[i].lamps,
         id |-> NoId]]

-----------------------------------------------------------------------------
(* Rows, compared and merged by their keys.                                *)

\* scoreRowKey of the bookmarklet, rowKey of the server.
RowKey(row) ==
    IF row.id # NoId THEN <<row.id, row.difficulty>> ELSE <<row.name, row.difficulty, row.level>>

Signature(row) == <<row.score, row.lamps>>

\* The last row of those with a key.
LastOf(key, S) == CHOOSE i \in DOMAIN S : /\ RowKey(S[i]) = key
                                         /\ \A j \in DOMAIN S : RowKey(S[j]) = key => j <= i

\* Mutant: a row that the snapshot lacks is no change.
ChangedRowsKnown(now, before) ==
    Picked(now, {i \in DOMAIN now : \E b \in Range(before) :
                    RowKey(b) = RowKey(now[i]) /\ Signature(b) # Signature(now[i])})

ChangedRows(now, before) ==
    Picked(now, {i \in DOMAIN now :
                    \/ \A b \in Range(before) : RowKey(b) # RowKey(now[i])
                    \/ Signature(before[LastOf(RowKey(now[i]), before)]) # Signature(now[i])})

\* The places at which a key is for the first time.
FirstPlaces(S) == {i \in DOMAIN S : \A j \in 1..(i - 1) : RowKey(S[j]) # RowKey(S[i])}

\* Mutant: of two rows with a key the one of before stays.
MergeRowsFirst(before, incoming) ==
    LET all == before \o incoming IN
    IF before = <<>> \/ incoming = <<>> THEN incoming ELSE Picked(all, FirstPlaces(all))

\* mergeSnapshotPayload: a row per key, in the order of the first of each.
MergeRows(before, incoming) ==
    LET all == before \o incoming
        last == [i \in DOMAIN all |-> all[LastOf(RowKey(all[i]), all)]] IN
    IF before = <<>> \/ incoming = <<>> THEN incoming ELSE Picked(last, FirstPlaces(all))

-----------------------------------------------------------------------------
(* The profile.                                                            *)

ProfileField == {"name", "comment", "code"}

\* mergeFriendProfileIntoPlayer: what the friend page says goes first.
MergeFriend(p, friend) ==
    IF friend = None THEN p
    ELSE [f \in ProfileField |-> CASE friend[f] # Missing -> friend[f]
                                   [] friend[f] = Missing /\ p # None -> p[f]
                                   [] OTHER -> Missing]

\* fetchPlayerProfileViaDetailAndFriend: each of the two pages may fail.
FetchProfile(p, d) ==
    \E own \in DetailProfile \cup {None}, friend \in FriendProfile \cup {None} :
        d = (own # None) /\ p = MergeFriend(own, friend)

\* A picture as a payload holds it: with its data, or the URL of a file.
Sent(file) == [file |-> file, data |-> TRUE, local |-> FALSE]

-----------------------------------------------------------------------------
(* The run.                                                                *)

NoPayload == [scores |-> <<>>, profile |-> None, pic |-> [k \in Kind |-> None]]

Idle == /\ prev' = NoPayload /\ userDatas' = <<>> /\ rows' = <<>> /\ profile' = None
        /\ detail' = FALSE /\ pic' = [k \in Kind |-> None] /\ step' = "idle"

Init ==
    /\ step = "idle" /\ prev = NoPayload /\ userDatas = <<>> /\ rows = <<>>
    /\ profile = None /\ detail = FALSE /\ pic = [k \in Kind |-> None]
    /\ saved = NoPayload /\ files = [k \in Kind |-> {}] /\ force = FALSE

\* The flag, the previous payload (an error is swallowed), the profile.
Begin ==
    /\ step = "idle"
    /\ prev' \in IF force THEN {NoPayload} ELSE {saved, NoPayload}
    /\ \E p \in [ProfileField -> Comment \cup {Missing}] \cup {None}, d \in BOOLEAN :
         FetchProfile(p, d) /\ profile' = p /\ detail' = d
    /\ step' = "scores"
    /\ UNCHANGED <<userDatas, rows, pic, server, force>>

\* checkCourseSubscription, and the pages of the difficulties; without the
\* course, and when a page is an HTTP error, the run ends.
FetchScores ==
    /\ step = "scores"
    /\ \/ \E page \in [Diff -> UNION {Pages[d] : d \in Diff}] :
            /\ \A d \in Diff : page[d] \in Pages[d]
            /\ LET Read(d) == ParseScoreHTML(page[d], d) IN
                 userDatas' = Read("BASIC") \o Read("ADVANCED") \o Read("EXPERT")
                                            \o Read("MASTER") \o Read("LUNATIC")
            /\ step' = "songs" /\ UNCHANGED <<prev, rows, profile, detail, pic>>
       \/ Idle
    /\ UNCHANGED <<server, force>>

\* fetchBeatmapData: JSON or CSV; the run goes on without when it fails.
FetchSongs ==
    /\ step = "songs"
    /\ \/ \E songs \in Songs : rows' \in {CombineDatas(userDatas, songs),
                                          CombineDatas(userDatas, OfCsv(songs))}
       \/ rows' = CombineWithout(userDatas)
    /\ step' = "pictures"
    /\ UNCHANGED <<prev, userDatas, profile, detail, pic, server, force>>

\* The character is on the detail page only; the icon has a page of its own.
FetchPictures ==
    /\ step = "pictures"
    /\ pic' \in [Kind -> UNION {Pictures[k] : k \in Kind} \cup {None}]
    /\ \A k \in Kind : pic'[k] \in Pictures[k] \cup {None}
    /\ ~detail => pic'["chara"] = None
    /\ step' = "retry" /\ detail' = FALSE /\ userDatas' = <<>>
    /\ UNCHANGED <<prev, rows, profile, server, force>>

\* No profile: once more.  No comment in it: from its own page.
Retry ==
    /\ step = "retry"
    /\ \E p \in {profile} \cup [ProfileField -> Comment \cup {Missing}] :
         /\ IF profile # None THEN p = profile ELSE \E d \in BOOLEAN : FetchProfile(p, d)
         /\ IF p # None /\ p["comment"] = Missing
            THEN \E c \in Comment \cup {Missing} : profile' = [p EXCEPT !["comment"] = c]
            ELSE profile' = p
    /\ step' = "compare"
    /\ UNCHANGED <<prev, userDatas, rows, detail, pic, server, force>>

Partial == prev.scores # <<>>

\* profileRelatedChanged; of a picture the file and the data.
ProfileRelatedChanged ==
    \/ profile # prev.profile
    \/ \E k \in Kind :
         IF pic[k] = None \/ prev.pic[k] = None THEN pic[k] # prev.pic[k]
         ELSE pic[k] # prev.pic[k].file \/ ~prev.pic[k].data

Skip ==
    /\ step = "compare" /\ Partial
    /\ ChangedRows(rows, prev.scores) = <<>> /\ ~ProfileRelatedChanged
    /\ Idle
    /\ UNCHANGED <<server, force>>

\* The rows that are sent: all when only the profile differs.
Outgoing ==
    LET changed == ChangedRows(rows, prev.scores) IN
    IF ~Partial \/ changed = <<>> THEN rows ELSE changed

-----------------------------------------------------------------------------
(* The server.                                                             *)

\* Mutant: a picture that cannot be stored is shown, too.
PersistedAlways(k, file, ok) == [file |-> file, data |-> ~ok, local |-> TRUE]

\* persistProfileIconFromPayload: a file that is there is not written again
\* and the data stay in the payload; they are dropped when it is written.
Persisted(k, file, ok) ==
    CASE file \in files[k] -> [file |-> file, data |-> TRUE, local |-> TRUE]
      [] file \notin files[k] /\ ok -> [file |-> file, data |-> FALSE, local |-> TRUE]
      [] OTHER -> Sent(file)

\* handleIngest and SaveSnapshot; the answer may be lost.
Send ==
    /\ step = "compare"
    /\ Partial => ChangedRows(rows, prev.scores) # <<>> \/ ProfileRelatedChanged
    /\ \E ok \in [Kind -> BOOLEAN] :
         /\ files' = [k \in Kind |-> files[k] \cup IF pic[k] # None /\ ok[k] THEN {pic[k]} ELSE {}]
         /\ LET sent == [scores |-> Outgoing, profile |-> profile,
                         pic |-> [k \in Kind |-> IF pic[k] = None THEN None
                                                 ELSE Persisted(k, pic[k], ok[k])]] IN
              saved' = IF ~Partial THEN sent
                       ELSE [scores |-> MergeRows(saved.scores, sent.scores),
                             profile |-> IF profile = None THEN saved.profile ELSE profile,
                             pic |-> [k \in Kind |-> IF pic[k] = None THEN saved.pic[k] ELSE sent.pic[k]]]
    /\ force' \in {Partial, force}
    /\ Idle

\* Not saved: the server or the network fails.
SendFails == step = "compare" /\ Idle /\ UNCHANGED <<server, force>>

Next ==
    \/ Begin \/ FetchScores \/ FetchSongs \/ FetchPictures \/ Retry
    \/ Skip \/ Send \/ SendFails

Spec == Init /\ [][Next]_vars

-----------------------------------------------------------------------------
(* Properties.                                                             *)

\* The songs that rows were combined with, if they were with all of one.
ByAllOf(songs) == rows = CombineDatas(userDatas, songs)

Group(i) == {j \in DOMAIN userDatas : /\ userDatas[j].name = userDatas[i].name
                                      /\ userDatas[j].difficulty = userDatas[i].difficulty
                                      /\ userDatas[j].level = userDatas[i].level}

\* A group of rows of one name, difficulty and level that the song data can
\* tell apart: none has an id, and there is a song at that level for each.
Told(i, songs) ==
    /\ \A j \in Group(i) : userDatas[j].id = NoId
    /\ Cardinality(Group(i)) <= Cardinality(SameLevel(userDatas[i], songs))

\* No two songs of one name and level are taken for one (combineDatas).  A
\* row whose level the data lacks, or that shares them with one that has an
\* id, may have the key of another.
OwnKeys ==
    step = "pictures" =>
        \A songs \in Songs : ByAllOf(songs) =>
            \A i, j \in DOMAIN rows :
                i # j /\ Told(i, songs) /\ Told(j, songs) => RowKey(rows[i]) # RowKey(rows[j])

\* After a run was saved, every chart that it read and whose key is its own is
\* on the site with its score, whatever was there before, and the other charts
\* of the site are not lost to a payload of changes that holds some.
SentIsSaved ==
    [][saved' # saved =>
        /\ \A i \in DOMAIN rows :
             (\A j \in DOMAIN rows : RowKey(rows[j]) = RowKey(rows[i]) => i = j) =>
                \E s \in Range(saved'.scores) :
                   RowKey(s) = RowKey(rows[i]) /\ Signature(s) = Signature(rows[i])
        /\ Partial /\ rows # <<>> =>
             {RowKey(s) : s \in Range(saved.scores)} \subseteq {RowKey(s) : s \in Range(saved'.scores)}]_vars

\* A run that tells the user that there is nothing to send has found nothing
\* that the site does not show: rows, profile and pictures.
SkipMeansSame ==
    [][Skip =>
        /\ \A r \in Range(rows) : \E s \in Range(saved.scores) :
              RowKey(s) = RowKey(r) /\ Signature(s) = Signature(r)
        /\ profile = saved.profile
        /\ \A k \in Kind : pic[k] # None => saved.pic[k] # None /\ saved.pic[k].file = pic[k]]_vars

\* A picture that the site shows from its own files is there.
PicturesAreThere ==
    \A k \in Kind : saved.pic[k] # None /\ saved.pic[k].local => saved.pic[k].file \in files[k]
=============================================================================
