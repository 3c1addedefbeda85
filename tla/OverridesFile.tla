---------------------------- MODULE OverridesFile ----------------------------
(***************************************************************************)
(* The override file of the song catalogue (music-ex-overrides.json) and   *)
(* everybody who writes it: the requests that run MergeOverrideSongs       *)
(* (backend/cmd/server/music_ex_overrides_admin.go), each on a goroutine   *)
(* of its own and none holding a lock, and the operator who edits the file *)
(* by hand.                                                                *)
(*                                                                         *)
(* A merge reads the whole file, upserts its songs in memory, writes the   *)
(* result to <path>.tmp and renames that file over <path>.  Every merge    *)
(* uses the same temporary name, so two of them may hold the same open     *)
(* file; a rename moves whatever the temporary name stands for, complete   *)
(* or not, and an open descriptor follows its file.                        *)
(*                                                                         *)
(* A file's content is abstracted to the set of songs it overrides and the *)
(* label that stands for its _meta block (the new-song versions and the    *)
(* version splits, which the code always reads and writes together).       *)
(***************************************************************************)
EXTENDS Naturals

CONSTANTS
    Merger,         \* the goroutines that run a merge request
    Song,           \* the songs an override entry can name
    Label,          \* the _meta blocks a file can carry
    DefaultLabel,   \* defaultMusicExOverrideMeta()
    Absent,         \* content of a path without a file
    Blank,          \* content of a file truncated and not yet written
    Broken,         \* content that does not parse
    Saves,          \* what the operator may leave at the path
    MaxEdits,       \* bound: merges started plus operator edits
    MaxCrashes      \* bound: restarts of the process

ASSUME OverridesFileAssumption ==
    /\ DefaultLabel \in Label
    /\ MaxEdits \in Nat
    /\ MaxCrashes \in Nat
    /\ Absent # Blank /\ Absent # Broken /\ Blank # Broken
    /\ {Absent, Blank, Broken} \cap [songs : SUBSET Song, label : Label] = {}
    /\ Saves \subseteq [songs : SUBSET Song, label : Label] \cup {Absent, Broken}

VARIABLES
    file,       \* the file at overridesPath: its content and its mtime
    tmp,        \* the file at overridesPath + ".tmp"
    clock,      \* the time stamp of the last write to either file
    edits,      \* merges started and operator edits so far
    crashes,    \* restarts so far
    merge,      \* per merger, what its goroutine has in hand
    saved       \* songs whose merge saw its rename succeed and that since then
                \* neither an operator edit nor a merge that overlapped another
                \* has taken out (history, not program state)

fileVars == <<file, tmp, clock, edits, crashes, merge, saved>>

(***************************************************************************)
(* Contents.  Every reader takes a missing and a blank file for an empty   *)
(* list of overrides with the default _meta.                               *)
(***************************************************************************)
Bundle == [songs : SUBSET Song, label : Label]

NoOverrides == [songs |-> {}, label |-> DefaultLabel]

Content == Bundle \cup {Absent, Blank, Broken}

File == [content : Content, mtime : Nat]

NoFile == [content |-> Absent, mtime |-> 0]

\* What a reader makes of a content that it can parse.
Parsed(c) == IF c \in {Absent, Blank} THEN NoOverrides ELSE c

\* "merge": has read the file; "write": has opened and truncated the
\* temporary file; "rename": has written and closed it; "apply": has renamed
\* it and is re-applying the overrides to the catalogue.
MergeStep == {"idle", "merge", "write", "rename", "apply"}

\* Where the descriptor of an open temporary file leads by now.
Place == {"none", "tmp", "file", "gone"}

\* alone: no other merge has been under way since this one read the file
\* (history, not program state).
Merge == [at : MergeStep, songs : SUBSET Song, out : Bundle, fd : Place, alone : BOOLEAN]

NoMerge == [at |-> "idle", songs |-> {}, out |-> NoOverrides, fd |-> "none",
            alone |-> TRUE]

\* A merge is under way from its read to its rename.
UnderWay(m) == merge[m].at \in {"merge", "write", "rename"}

\* The merges after m has read the file and taken out along: m and those under
\* way overlap each other.
WithReadBy(m, S, out) ==
    [n \in Merger |->
        IF n = m
        THEN [at |-> "merge", songs |-> S, out |-> out, fd |-> "none",
              alone |-> \A o \in Merger \ {m} : ~UnderWay(o)]
        ELSE [merge[n] EXCEPT !.alone = @ /\ ~UnderWay(n)]]

\* What is left of the songs S once the file holds c.
LeftOf(S, c) == IF c = Broken THEN {} ELSE S \cap Parsed(c).songs

\* The types, and two facts of shape: a merge has a descriptor open exactly
\* while it writes, and no file is younger than the last write.
FileTypeOK ==
    /\ file \in File
    /\ tmp \in File
    /\ clock \in Nat
    /\ edits \in 0 .. MaxEdits
    /\ crashes \in 0 .. MaxCrashes
    /\ merge \in [Merger -> Merge]
    /\ saved \subseteq Song
    /\ \A m \in Merger : merge[m].fd # "none" <=> merge[m].at = "write"
    /\ file.mtime <= clock /\ tmp.mtime <= clock

FileInit ==
    /\ file = NoFile
    /\ tmp = NoFile
    /\ clock = 0
    /\ edits = 0
    /\ crashes = 0
    /\ merge = [m \in Merger |-> NoMerge]
    /\ saved = {}

(***************************************************************************)
(* A merge request.                                                        *)
(***************************************************************************)

\* Mutant: the songs replace the existing entries.
MergeReadReplaces(m, S) ==
    /\ merge[m].at = "idle"
    /\ edits < MaxEdits
    /\ file.content # Broken
    /\ merge' = WithReadBy(m, S, [Parsed(file.content) EXCEPT !.songs = S])
    /\ edits' = edits + 1
    /\ UNCHANGED <<file, tmp, clock, crashes, saved>>

\* readOverridesBundleFile and the upsert; a file that does not parse makes
\* the request fail before it has done anything.
MergeRead(m, S) ==
    /\ merge[m].at = "idle"
    /\ edits < MaxEdits
    /\ file.content # Broken
    /\ merge' = WithReadBy(m, S, [Parsed(file.content) EXCEPT !.songs = @ \cup S])
    /\ edits' = edits + 1
    /\ UNCHANGED <<file, tmp, clock, crashes, saved>>

\* Mutants: the file itself is opened and truncated; the temporary file is
\* opened without truncating what an earlier merge left in it.
MergeOpenInPlace(m) ==
    /\ merge[m].at = "merge"
    /\ file' = [content |-> Blank, mtime |-> clock + 1]
    /\ clock' = clock + 1
    /\ merge' = [merge EXCEPT ![m].at = "write", ![m].fd = "file"]
    /\ UNCHANGED <<tmp, edits, crashes, saved>>

MergeOpenKeepsOld(m) ==
    /\ merge[m].at = "merge"
    /\ tmp' = IF tmp.content = Absent THEN [content |-> Blank, mtime |-> clock + 1] ELSE tmp
    /\ clock' = clock + 1
    /\ merge' = [merge EXCEPT ![m].at = "write", ![m].fd = "tmp"]
    /\ UNCHANGED <<file, edits, crashes, saved>>

\* os.WriteFile opens the temporary file and truncates it, whoever else has
\* it open.
MergeOpen(m) ==
    /\ merge[m].at = "merge"
    /\ tmp' = [content |-> Blank, mtime |-> clock + 1]
    /\ clock' = clock + 1
    /\ merge' = [merge EXCEPT ![m].at = "write", ![m].fd = "tmp"]
    /\ UNCHANGED <<file, edits, crashes, saved>>

\* What an open file holds after b was written from its first byte on: when
\* another merge wrote it in the meantime and wrote more, its tail is left.
Overlay(old, b) ==
    IF \/ old = Blank
       \/ old # Broken /\ old.label = b.label /\ old.songs \subseteq b.songs
    THEN {b}
    ELSE {b, Broken}

\* os.WriteFile writes the bundle and closes the file.
MergeWrite(m) ==
    /\ merge[m].at = "write"
    /\ LET b == merge[m].out
           Written(f) == {[content |-> c, mtime |-> clock + 1] : c \in Overlay(f.content, b)}
       IN  CASE merge[m].fd = "tmp"  -> tmp' \in Written(tmp) /\ UNCHANGED file
             [] merge[m].fd = "file" -> file' \in Written(file) /\ UNCHANGED tmp
             [] OTHER                -> UNCHANGED <<file, tmp>>
    /\ clock' = clock + 1
    /\ merge' = [merge EXCEPT ![m].at = "rename", ![m].fd = "none"]
    /\ saved' = IF merge[m].alone THEN saved ELSE LeftOf(saved, file'.content)
    /\ UNCHANGED <<edits, crashes>>

\* The write fails (a full disk): the request fails, the temporary file is
\* left as it is.
MergeWriteFails(m) ==
    /\ merge[m].at = "write"
    /\ merge' = [merge EXCEPT ![m] = NoMerge]
    /\ UNCHANGED <<file, tmp, clock, edits, crashes, saved>>

\* A descriptor after its file's name was moved from tmp to file.
Followed(p) == CASE p = "tmp" -> "file" [] p = "file" -> "gone" [] OTHER -> p

\* os.Rename, which fails when another merge has already moved the file.
MergeRename(m) ==
    /\ merge[m].at = "rename"
    /\ IF tmp.content = Absent
       THEN /\ merge' = [merge EXCEPT ![m] = NoMerge]
            /\ UNCHANGED <<file, tmp, saved>>
       ELSE /\ file' = tmp
            /\ tmp' = NoFile
            /\ merge' = [n \in Merger |->
                            [merge[n] EXCEPT !.fd = Followed(@),
                                             !.at = IF n = m THEN "apply" ELSE @]]
            /\ LET all == saved \cup merge[m].songs
               IN  saved' = IF merge[m].alone THEN all ELSE LeftOf(all, tmp.content)
    /\ UNCHANGED <<clock, edits, crashes>>

\* applyOverrides has returned and the handler answers.
MergeReturn(m) ==
    /\ merge[m].at = "apply"
    /\ merge' = [merge EXCEPT ![m] = NoMerge]
    /\ UNCHANGED <<file, tmp, clock, edits, crashes, saved>>

(***************************************************************************)
(* The operator saves the file from an editor (which replaces it) or       *)
(* removes it.  The songs an edit leaves out are the operator's decision.  *)
(***************************************************************************)
OperatorEdit(c) ==
    /\ edits < MaxEdits
    /\ c # file.content
    /\ file' = IF c = Absent THEN NoFile ELSE [content |-> c, mtime |-> clock + 1]
    /\ clock' = clock + 1
    /\ edits' = edits + 1
    /\ saved' = LeftOf(saved, c)
    /\ merge' = [n \in Merger |->
                    [merge[n] EXCEPT !.fd = IF @ = "file" THEN "gone" ELSE @]]
    /\ UNCHANGED <<tmp, crashes>>

\* The process dies and every request with it; both files stay as they are.
FileCrash ==
    /\ crashes < MaxCrashes
    /\ crashes' = crashes + 1
    /\ merge' = [m \in Merger |-> NoMerge]
    /\ UNCHANGED <<file, tmp, clock, edits, saved>>

MergeWork(m) ==
    \/ \E S \in SUBSET Song \ {{}} : MergeRead(m, S)
    \/ MergeOpen(m)
    \/ MergeWrite(m)
    \/ MergeWriteFails(m)
    \/ MergeRename(m)

FileNext ==
    \/ \E m \in Merger : MergeWork(m) \/ MergeReturn(m)
    \/ \E c \in Saves : OperatorEdit(c)
    \/ FileCrash

FileSpec == FileInit /\ [][FileNext]_fileVars

-----------------------------------------------------------------------------
(* What is expected of the file.  Nothing in the code keeps two merges      *)
(* apart, and two that overlap do lose songs and break the file.  The first *)
(* three properties say that nothing else does, however many merges run.    *)

\* The songs of a merge that wrote the file without error stay in it until the
\* operator takes them out or a merge writes it that overlapped another: merges
\* that run one after the other, failed writes, edits in the middle of a merge
\* and restarts lose none (MergeOverrideSongs upserts what is there, it does
\* not replace it).
SavedSongsStay ==
    file.content # Broken => saved \subseteq Parsed(file.content).songs

\* Some merge under way has overlapped another.
Overlapping == \E m \in Merger : UnderWay(m) /\ ~merge[m].alone

\* Unless merges overlap, no state of a merge, finished, failed or cut short by
\* a crash, leaves the file at overridesPath truncated: whatever is there was
\* written in full by the program or saved by the operator, although an
\* earlier merge may have left anything at all in the temporary file.
FileIsWhole ==
    [][(file'.content = Blank /\ file.content # Blank) => Overlapping]_fileVars

\* Unless merges overlap, the program turns no file into one that it cannot
\* parse: a broken file is the operator's.
UnbrokenByMerges ==
    [][(file'.content = Broken /\ file.content # Broken)
          => edits' = edits + 1 \/ Overlapping]_fileVars

\* "MergeOverrideSongs upserts songs into the overrides file"
\* (music_ex_overrides_admin.go:116): writing the file takes no song out of it.
\* Two merges that overlap violate this: the second to rename has not read what
\* the first wrote.
MergesUpsert ==
    [][(/\ edits' = edits
        /\ {file.content, file'.content} \subseteq Bundle)
          => file.content.songs \subseteq file'.content.songs]_fileVars
=============================================================================
