------------------------- MODULE MusicExCacheProofs -------------------------
(***************************************************************************)
(* Proofs about modules OverridesFile and MusicExCache.                    *)
(*                                                                         *)
(* Of the override file, for any number of merges: its type invariant, and *)
(* that it takes two merges that overlap to lose a song that was saved or  *)
(* to leave the file truncated or broken.  Of the cache: the type          *)
(* invariant, the safety invariants of the raw body, its tag and the       *)
(* stored index, and the two action properties of what is served, for      *)
(* every set of bodies, merges and readers.                                *)
(***************************************************************************)
EXTENDS MusicExCache, TLAPS

-----------------------------------------------------------------------------
(* The override file. *)

\* What the contents are, whatever the constants stand for.
LEMMA ContentFacts ==
    /\ NoOverrides \in Bundle
    /\ NoFile \in File
    /\ NoMerge \in Merge
    /\ \A c \in Content : c # Broken => Parsed(c) \in Bundle
    /\ Saves \subseteq Content
<1>1. NoOverrides \in Bundle
  BY OverridesFileAssumption DEF NoOverrides, Bundle
<1>2. NoFile \in File
  BY DEF NoFile, File, Content
<1>3. NoMerge \in Merge
  BY <1>1 DEF NoMerge, Merge, MergeStep, Place
<1>4. \A c \in Content : c # Broken => Parsed(c) \in Bundle
  BY <1>1 DEF Content, Parsed
<1>5. Saves \subseteq Content
  BY OverridesFileAssumption DEF Content, Bundle
<1>6. QED
  BY <1>1, <1>2, <1>3, <1>4, <1>5

\* One step of a merge request, up to its rename, keeps the types.
LEMMA MergeWorkKeepsType ==
    ASSUME FileTypeOK, NEW m \in Merger, MergeWork(m)
    PROVE  FileTypeOK'
<1> USE DEF FileTypeOK
<1>1. ASSUME NEW S \in SUBSET Song, MergeRead(m, S)
      PROVE  FileTypeOK'
  <2>1. file.content \in Content /\ file.content # Broken
    BY <1>1 DEF MergeRead, File
  <2>2. [Parsed(file.content) EXCEPT !.songs = @ \cup S] \in Bundle
    BY <2>1, ContentFacts DEF Bundle
  <2>3. ASSUME NEW n \in Merger
        PROVE  /\ merge'[n] \in Merge
               /\ merge'[n].fd # "none" <=> merge'[n].at = "write"
    <3>1. merge[n] \in Merge
      OBVIOUS
    <3>2. CASE n = m
      <4>1. merge'[n] = [at |-> "merge", songs |-> S,
                         out |-> [Parsed(file.content) EXCEPT !.songs = @ \cup S],
                         fd |-> "none", alone |-> \A o \in Merger \ {m} : ~UnderWay(o)]
        BY <1>1, <3>2 DEF MergeRead, WithReadBy
      <4>2. (\A o \in Merger \ {m} : ~UnderWay(o)) \in BOOLEAN
        OBVIOUS
      <4>3. QED
        BY <2>2, <4>1, <4>2 DEF Merge, MergeStep, Place
    <3>3. CASE n # m
      <4>1. merge'[n] = [merge[n] EXCEPT !.alone = @ /\ ~UnderWay(n)]
        BY <1>1, <3>3 DEF MergeRead, WithReadBy
      <4>2. (merge[n].alone /\ ~UnderWay(n)) \in BOOLEAN
        OBVIOUS
      <4>3. QED
        BY <3>1, <4>1, <4>2 DEF Merge
    <3>4. QED
      BY <3>2, <3>3
  <2>4. edits' \in 0 .. MaxEdits
    BY <1>1, OverridesFileAssumption DEF MergeRead
  <2>5. merge' \in [Merger -> Merge]
    BY <1>1, <2>3 DEF MergeRead, WithReadBy
  <2>6. QED
    BY <1>1, <2>3, <2>4, <2>5 DEF MergeRead
<1>2. ASSUME MergeOpen(m)
      PROVE  FileTypeOK'
  <2>1. merge' \in [Merger -> Merge]
    BY <1>2 DEF MergeOpen, Merge, MergeStep, Place
  <2>2. tmp' \in File /\ clock' \in Nat /\ tmp'.mtime <= clock' /\ file'.mtime <= clock'
    BY <1>2 DEF MergeOpen, File, Content
  <2>3. \A n \in Merger : merge'[n].fd # "none" <=> merge'[n].at = "write"
    BY <1>2 DEF MergeOpen, Merge
  <2>4. QED
    BY <1>2, <2>1, <2>2, <2>3 DEF MergeOpen
<1>3. ASSUME MergeWrite(m)
      PROVE  FileTypeOK'
  <2>1. merge[m].out \in Bundle
    BY <1>3 DEF Merge
  <2>2. \A f \in File : \A c \in Overlay(f.content, merge[m].out) :
            [content |-> c, mtime |-> clock + 1] \in File
    BY <2>1 DEF Overlay, File, Content
  <2>3. /\ file' \in File /\ file'.mtime <= clock'
        /\ tmp' \in File /\ tmp'.mtime <= clock'
    <3>1. CASE merge[m].fd = "tmp"
      BY <1>3, <2>2, <3>1 DEF MergeWrite, File
    <3>2. CASE merge[m].fd = "file"
      BY <1>3, <2>2, <3>2 DEF MergeWrite, File
    <3>3. CASE merge[m].fd \notin {"tmp", "file"}
      BY <1>3, <3>3 DEF MergeWrite, File
    <3>4. QED
      BY <3>1, <3>2, <3>3
  <2>4. merge' \in [Merger -> Merge]
    BY <1>3 DEF MergeWrite, Merge, MergeStep, Place
  <2>5. \A n \in Merger : merge'[n].fd # "none" <=> merge'[n].at = "write"
    BY <1>3 DEF MergeWrite, Merge
  <2>6. saved' \subseteq Song
    BY <1>3 DEF MergeWrite, LeftOf
  <2>7. QED
    BY <1>3, <2>3, <2>4, <2>5, <2>6 DEF MergeWrite
<1>4. ASSUME MergeWriteFails(m)
      PROVE  FileTypeOK'
  BY <1>4, ContentFacts DEF MergeWriteFails, NoMerge
<1>5. ASSUME MergeRename(m)
      PROVE  FileTypeOK'
  <2>1. CASE tmp.content = Absent
    <3>1. /\ merge' = [merge EXCEPT ![m] = NoMerge]
          /\ UNCHANGED <<file, tmp, saved, clock, edits, crashes>>
      BY <1>5, <2>1 DEF MergeRename
    <3>2. merge' \in [Merger -> Merge]
      BY <3>1, ContentFacts
    <3>3. NoMerge.fd = "none" /\ NoMerge.at = "idle"
      BY DEF NoMerge
    <3>4. \A n \in Merger : merge'[n].fd # "none" <=> merge'[n].at = "write"
      BY <3>1, <3>3
    <3>5. QED
      BY <3>1, <3>2, <3>4
  <2>2. CASE tmp.content # Absent
    <3>1. /\ file' = tmp
          /\ tmp' = NoFile
          /\ merge' = [n \in Merger |->
                          [merge[n] EXCEPT !.fd = Followed(@),
                                           !.at = IF n = m THEN "apply" ELSE @]]
          /\ saved' \subseteq saved \cup merge[m].songs
          /\ UNCHANGED <<clock, edits, crashes>>
      BY <1>5, <2>2 DEF MergeRename, LeftOf
    <3>2. \A p \in Place : Followed(p) \in Place /\ (Followed(p) = "none" <=> p = "none")
      BY DEF Followed, Place
    <3>3. merge[m].at = "rename"
      BY <1>5 DEF MergeRename
    <3>4. ASSUME NEW n \in Merger
          PROVE  /\ merge'[n] \in Merge
                 /\ merge'[n].fd # "none" <=> merge'[n].at = "write"
      <4>1. merge[n] \in Merge /\ merge[n].fd \in Place
        BY DEF Merge
      <4>2. merge'[n] = [merge[n] EXCEPT !.fd = Followed(@),
                                         !.at = IF n = m THEN "apply" ELSE @]
        BY <3>1
      <4>3. /\ merge'[n].fd = Followed(merge[n].fd)
            /\ merge'[n].at = IF n = m THEN "apply" ELSE merge[n].at
            /\ merge'[n] \in Merge
        BY ZenonT(30), <3>2, <4>1, <4>2 DEF Merge, MergeStep
      <4>4. QED
        BY <3>2, <3>3, <4>1, <4>3
    <3>5. merge' \in [Merger -> Merge]
      BY <3>1, <3>4
    <3>6. NoFile.mtime = 0
      BY DEF NoFile
    <3>7. /\ tmp' \in File /\ tmp'.mtime <= clock'
          /\ file' \in File /\ file'.mtime <= clock'
      <4>1. clock' = clock /\ clock \in Nat /\ file' = tmp /\ tmp' = NoFile
        BY <3>1
      <4>2. tmp \in File /\ tmp.mtime <= clock
        OBVIOUS
      <4>3. 0 <= clock
        BY <4>1
      <4>4. QED
        BY <3>6, <4>1, <4>2, <4>3, ContentFacts
    <3>8. saved' \subseteq Song
      BY <3>1 DEF Merge
    <3>9. QED
      BY <3>1, <3>4, <3>5, <3>7, <3>8
  <2>3. QED
    BY <2>1, <2>2
<1>6. QED
  BY <1>1, <1>2, <1>3, <1>4, <1>5 DEF MergeWork

\* The other steps that touch the file keep the types.
LEMMA MergeReturnKeepsType ==
    ASSUME FileTypeOK, NEW m \in Merger, MergeReturn(m)
    PROVE  FileTypeOK'
BY ContentFacts DEF FileTypeOK, MergeReturn, NoMerge

LEMMA OperatorEditKeepsType ==
    ASSUME FileTypeOK, NEW c \in Saves, OperatorEdit(c)
    PROVE  FileTypeOK'
<1> USE DEF FileTypeOK
<1>1. c \in Content
  BY ContentFacts
<1>2. /\ file' \in File /\ file'.mtime <= clock'
      /\ tmp' \in File /\ tmp'.mtime <= clock'
      /\ clock' \in Nat
  BY <1>1, ContentFacts DEF OperatorEdit, File, NoFile
<1>3. ASSUME NEW n \in Merger
      PROVE  /\ merge'[n] \in Merge
             /\ merge'[n].fd # "none" <=> merge'[n].at = "write"
  <2>1. merge[n] \in Merge /\ merge[n].fd \in Place
    BY DEF Merge
  <2>2. merge'[n] = [merge[n] EXCEPT !.fd = IF @ = "file" THEN "gone" ELSE @]
    BY DEF OperatorEdit
  <2>3. /\ merge'[n].fd = IF merge[n].fd = "file" THEN "gone" ELSE merge[n].fd
        /\ merge'[n].at = merge[n].at
        /\ merge'[n] \in Merge
    BY <2>1, <2>2 DEF Merge, Place
  <2>4. QED
    BY <2>1, <2>3
<1>4. merge' \in [Merger -> Merge]
  BY <1>3 DEF OperatorEdit
<1>5. edits' \in 0 .. MaxEdits
  BY OverridesFileAssumption DEF OperatorEdit
<1>6. saved' \subseteq Song
  BY DEF OperatorEdit, LeftOf
<1>7. QED
  BY <1>2, <1>3, <1>4, <1>5, <1>6 DEF OperatorEdit

LEMMA FileCrashKeepsType ==
    ASSUME FileTypeOK, FileCrash
    PROVE  FileTypeOK'
<1>1. crashes' \in 0 .. MaxCrashes
  BY OverridesFileAssumption DEF FileTypeOK, FileCrash
<1>2. NoMerge.fd = "none" /\ NoMerge.at = "idle"
  BY DEF NoMerge
<1>3. QED
  BY <1>1, <1>2, ContentFacts DEF FileTypeOK, FileCrash

LEMMA FileInitHasType == FileInit => FileTypeOK
<1>1. NoMerge.fd = "none" /\ NoMerge.at = "idle" /\ NoFile.mtime = 0
  BY DEF NoMerge, NoFile
<1>2. QED
  BY <1>1, ContentFacts, OverridesFileAssumption DEF FileInit, FileTypeOK

\* The type invariant of the override file and its writers, however many merges
\* run at once.
THEOREM FileTypeInvariant == FileSpec => []FileTypeOK
<1>1. FileTypeOK /\ [FileNext]_fileVars => FileTypeOK'
  <2> SUFFICES ASSUME FileTypeOK, [FileNext]_fileVars
               PROVE  FileTypeOK'
    OBVIOUS
  <2>1. CASE UNCHANGED fileVars
    BY <2>1 DEF fileVars, FileTypeOK
  <2>2. CASE FileNext
    BY <2>2, MergeWorkKeepsType, MergeReturnKeepsType, OperatorEditKeepsType,
       FileCrashKeepsType DEF FileNext
  <2>3. QED
    BY <2>1, <2>2
<1>2. QED
  BY <1>1, FileInitHasType, PTL DEF FileSpec

-----------------------------------------------------------------------------
(* Merges that overlap no other. *)

\* A merge under way that has overlapped no other is the only one; it has the
\* temporary file for itself, so that the file holds what it has written, and
\* what it has read includes everything saved before it.
AloneOK(m) ==
    /\ \A n \in Merger \ {m} : ~UnderWay(n)
    /\ merge[m].fd \in {"none", "tmp"}
    /\ merge[m].at = "write" => tmp.content = Blank
    /\ merge[m].at = "rename" => tmp.content = merge[m].out
    /\ saved \cup merge[m].songs \subseteq merge[m].out.songs

AloneInv ==
    /\ SavedSongsStay
    /\ \A m \in Merger : merge[m].alone /\ UnderWay(m) => AloneOK(m)

LEMMA LeftOfStays ==
    ASSUME NEW S, NEW c, c # Broken
    PROVE  LeftOf(S, c) \subseteq Parsed(c).songs
BY DEF LeftOf

\* A step of m that leaves the others where they are concerns no merge but m.
LEMMA OnlyMine ==
    ASSUME FileTypeOK, AloneInv, NEW m \in Merger, UnderWay(m),
           \A n \in Merger \ {m} : merge'[n].at = merge[n].at /\ merge'[n].alone = merge[n].alone,
           SavedSongsStay',
           merge'[m].alone /\ UnderWay(m)' => AloneOK(m)'
    PROVE  AloneInv'
<1>1. ASSUME NEW n \in Merger, n # m, merge'[n].alone, UnderWay(n)'
      PROVE  FALSE
  BY <1>1 DEF UnderWay, AloneInv, AloneOK
<1>2. QED
  BY <1>1 DEF AloneInv

LEMMA MergeReadKeepsAlone ==
    ASSUME FileTypeOK, AloneInv, NEW m \in Merger, NEW S \in SUBSET Song, MergeRead(m, S)
    PROVE  AloneInv'
<1> DEFINE out == [Parsed(file.content) EXCEPT !.songs = @ \cup S]
<1>1. /\ merge' = WithReadBy(m, S, out)
      /\ UNCHANGED <<file, saved>> /\ file.content # Broken
  BY DEF MergeRead
<1>2. merge'[m] = [at |-> "merge", songs |-> S, out |-> out, fd |-> "none",
                   alone |-> \A o \in Merger \ {m} : ~UnderWay(o)]
  BY <1>1 DEF WithReadBy
<1>3. ASSUME NEW n \in Merger, n # m
      PROVE  merge'[n].at = merge[n].at /\ (merge'[n].alone <=> merge[n].alone /\ ~UnderWay(n))
  <2>1. merge'[n] = [merge[n] EXCEPT !.alone = @ /\ ~UnderWay(n)] /\ merge[n] \in Merge
    BY <1>1, <1>3 DEF WithReadBy, FileTypeOK
  <2>2. QED
    BY <2>1 DEF Merge
<1>4. ASSUME NEW n \in Merger, n # m, merge'[n].alone, UnderWay(n)'
      PROVE  FALSE
  BY <1>3, <1>4 DEF UnderWay
<1>5. ASSUME merge'[m].alone
      PROVE  AloneOK(m)'
  <2>1. \A o \in Merger \ {m} : ~UnderWay(o)
    BY <1>2, <1>5
  <2>2. \A o \in Merger \ {m} : ~UnderWay(o)'
    BY <1>3, <2>1 DEF UnderWay
  <2>3. Parsed(file.content) \in Bundle
    BY <1>1, ContentFacts DEF FileTypeOK, File
  <2>4. out.songs = Parsed(file.content).songs \cup S
    BY <2>3 DEF Bundle
  <2>5. saved \subseteq Parsed(file.content).songs
    BY <1>1 DEF AloneInv, SavedSongsStay
  <2>6. /\ merge'[m].at = "merge" /\ merge'[m].fd = "none"
        /\ merge'[m].songs = S /\ merge'[m].out = out
    BY <1>2
  <2> HIDE DEF out
  <2>7. saved' \cup merge'[m].songs \subseteq merge'[m].out.songs
    BY <1>1, <2>4, <2>5, <2>6
  <2>8. QED
    BY <2>2, <2>6, <2>7 DEF AloneOK
<1>6. SavedSongsStay'
  BY <1>1 DEF AloneInv, SavedSongsStay
<1>7. QED
  BY <1>4, <1>5, <1>6 DEF AloneInv

LEMMA MergeWorkKeepsAlone ==
    ASSUME FileTypeOK, AloneInv, NEW m \in Merger, MergeWork(m)
    PROVE  AloneInv'
<1>1. /\ merge[m] \in Merge
      /\ merge \in [Merger -> Merge]
      /\ merge[m].fd # "none" <=> merge[m].at = "write"
  BY DEF FileTypeOK
<1>2. file.content \in Content /\ tmp.content \in Content
  BY DEF FileTypeOK, File
<1> DEFINE g == merge'[m]
<1>3. CASE \E S \in SUBSET Song \ {{}} : MergeRead(m, S)
  BY <1>3, MergeReadKeepsAlone
<1>4. CASE MergeOpen(m)
  <2>1. /\ merge' = [merge EXCEPT ![m] = [merge[m] EXCEPT !.at = "write", !.fd = "tmp"]]
        /\ tmp'.content = Blank /\ UNCHANGED <<file, saved>> /\ merge[m].at = "merge"
    BY <1>4 DEF MergeOpen
  <2>2. /\ g.at = "write" /\ g.fd = "tmp" /\ g.out = merge[m].out /\ g.songs = merge[m].songs
        /\ g.alone = merge[m].alone
    BY <1>1, <2>1 DEF Merge
  <2>3. g.alone => AloneOK(m)'
    BY <1>1, <2>1, <2>2 DEF AloneInv, AloneOK, UnderWay
  <2>4. UnderWay(m) /\ SavedSongsStay'
    BY <2>1 DEF UnderWay, AloneInv, SavedSongsStay
  <2>5. QED
    BY <1>1, <2>1, <2>3, <2>4, OnlyMine
<1>5. CASE MergeWrite(m)
  <2>1. /\ merge' = [merge EXCEPT ![m] = [merge[m] EXCEPT !.at = "rename", !.fd = "none"]]
        /\ merge[m].at = "write"
        /\ saved' = IF merge[m].alone THEN saved ELSE LeftOf(saved, file'.content)
    BY <1>5 DEF MergeWrite
  <2>2. /\ g.at = "rename" /\ g.fd = "none" /\ g.out = merge[m].out /\ g.songs = merge[m].songs
        /\ g.alone = merge[m].alone
    BY <1>1, <2>1 DEF Merge
  <2>3. UnderWay(m)
    BY <2>1 DEF UnderWay
  <2>4. ASSUME merge[m].alone
        PROVE  AloneOK(m)' /\ SavedSongsStay'
    <3>1. AloneOK(m) /\ merge[m].fd = "tmp" /\ tmp.content = Blank
      BY <1>1, <2>1, <2>3, <2>4 DEF AloneInv, AloneOK
    <3>2. Overlay(tmp.content, merge[m].out) = {merge[m].out}
      BY <3>1 DEF Overlay
    <3>3. tmp'.content = merge[m].out /\ UNCHANGED file
      BY <1>5, <3>1, <3>2 DEF MergeWrite
    <3>4. \A n \in Merger \ {m} : ~UnderWay(n)'
      BY <1>1, <2>1, <3>1 DEF AloneOK, UnderWay
    <3>5. saved' = saved
      BY <2>1, <2>4
    <3>6. QED
      BY <2>2, <3>1, <3>3, <3>4, <3>5 DEF AloneOK, AloneInv, SavedSongsStay
  <2>5. ASSUME ~merge[m].alone
        PROVE  SavedSongsStay'
    BY <2>1, <2>5, LeftOfStays DEF SavedSongsStay
  <2>6. QED
    BY <1>1, <2>1, <2>2, <2>3, <2>4, <2>5, OnlyMine
<1>6. CASE MergeWriteFails(m)
  <2>1. /\ merge' = [merge EXCEPT ![m] = NoMerge] /\ merge[m].at = "write"
        /\ UNCHANGED <<file, saved>>
    BY <1>6 DEF MergeWriteFails
  <2>2. ~UnderWay(m)' /\ UnderWay(m) /\ SavedSongsStay'
    BY <1>1, <2>1 DEF UnderWay, NoMerge, AloneInv, SavedSongsStay
  <2>3. QED
    BY <1>1, <2>1, <2>2, OnlyMine
<1>7. CASE MergeRename(m)
  <2>1. merge[m].at = "rename" /\ UnderWay(m)
    BY <1>7 DEF MergeRename, UnderWay
  <2>2. CASE tmp.content = Absent
    <3>1. merge' = [merge EXCEPT ![m] = NoMerge] /\ UNCHANGED <<file, saved>>
      BY <1>7, <2>2 DEF MergeRename
    <3>2. ~UnderWay(m)' /\ SavedSongsStay'
      BY <1>1, <3>1 DEF UnderWay, NoMerge, AloneInv, SavedSongsStay
    <3>3. QED
      BY <1>1, <2>1, <3>1, <3>2, OnlyMine
  <2>3. CASE tmp.content # Absent
    <3> DEFINE all == saved \cup merge[m].songs
    <3>1. /\ file' = tmp
          /\ merge' = [n \in Merger |->
                          [merge[n] EXCEPT !.fd = Followed(@),
                                           !.at = IF n = m THEN "apply" ELSE @]]
          /\ saved' = IF merge[m].alone THEN all ELSE LeftOf(all, tmp.content)
      BY <1>7, <2>3 DEF MergeRename
    <3>2. ASSUME NEW n \in Merger \ {m}
          PROVE  merge'[n].at = merge[n].at /\ merge'[n].alone = merge[n].alone
      BY <1>1, <3>1, <3>2 DEF Merge
    <3>3. ~UnderWay(m)'
      BY <1>1, <3>1 DEF Merge, UnderWay
    <3>4. ASSUME merge[m].alone
          PROVE  SavedSongsStay'
      <4>1. tmp.content = merge[m].out /\ all \subseteq merge[m].out.songs
        BY <2>1, <3>4 DEF AloneInv, AloneOK
      <4>2. merge[m].out \in Bundle
        BY <1>1 DEF Merge
      <4>3. tmp.content # Absent /\ tmp.content # Blank
        BY <4>1, <4>2, OverridesFileAssumption DEF Bundle
      <4>4. Parsed(file'.content) = merge[m].out
        BY <3>1, <4>1, <4>3 DEF Parsed
      <4>5. saved' = all
        BY <3>1, <3>4
      <4>6. QED
        BY <4>1, <4>4, <4>5 DEF SavedSongsStay
    <3>5. ASSUME ~merge[m].alone
          PROVE  SavedSongsStay'
      BY <3>1, <3>5, LeftOfStays DEF SavedSongsStay
    <3>6. QED
      BY <2>1, <3>2, <3>3, <3>4, <3>5, OnlyMine
  <2>4. QED
    BY <2>2, <2>3
<1>8. QED
  BY <1>3, <1>4, <1>5, <1>6, <1>7 DEF MergeWork

LEMMA OtherStepsKeepAlone ==
    ASSUME FileTypeOK, AloneInv,
           \/ \E m \in Merger : MergeReturn(m)
           \/ \E c \in Saves : OperatorEdit(c)
           \/ FileCrash
    PROVE  AloneInv'
<1>1. merge \in [Merger -> Merge]
  BY DEF FileTypeOK
<1>2. ASSUME NEW m \in Merger, MergeReturn(m)
      PROVE  AloneInv'
  <2>1. merge' = [merge EXCEPT ![m] = NoMerge] /\ UNCHANGED <<file, tmp, saved>>
    BY <1>2 DEF MergeReturn
  <2>2. ~UnderWay(m)' /\ \A n \in Merger \ {m} : merge'[n] = merge[n]
    BY <1>1, <2>1 DEF UnderWay, NoMerge
  <2>3. \A n \in Merger : UnderWay(n)' => UnderWay(n) /\ merge'[n] = merge[n]
    BY <2>2 DEF UnderWay
  <2>4. QED
    BY <2>1, <2>3 DEF AloneInv, AloneOK, SavedSongsStay
<1>3. ASSUME NEW c \in Saves, OperatorEdit(c)
      PROVE  AloneInv'
  <2>1. file'.content = c
    BY <1>3 DEF OperatorEdit, NoFile
  <2>2. saved' = LeftOf(saved, c) /\ UNCHANGED tmp
    BY <1>3 DEF OperatorEdit
  <2>3. saved' \subseteq saved
    BY <2>2 DEF LeftOf
  <2>4. ASSUME NEW n \in Merger
        PROVE  /\ merge'[n].at = merge[n].at /\ merge'[n].alone = merge[n].alone
               /\ merge'[n].out = merge[n].out /\ merge'[n].songs = merge[n].songs
               /\ merge[n].fd \in {"none", "tmp"} => merge'[n].fd = merge[n].fd
    <3>1. merge'[n] = [merge[n] EXCEPT !.fd = IF @ = "file" THEN "gone" ELSE @]
      BY <1>3 DEF OperatorEdit
    <3>2. merge[n] \in Merge
      BY <1>1
    <3>3. QED
      BY <3>1, <3>2 DEF Merge
  <2>5. SavedSongsStay'
    BY <2>1, <2>2, LeftOfStays DEF SavedSongsStay
  <2>6. ASSUME NEW n \in Merger, merge'[n].alone, UnderWay(n)'
        PROVE  AloneOK(n)'
    <3>1. AloneOK(n)
      BY <2>4, <2>6 DEF AloneInv, UnderWay
    <3>2. QED
      BY <2>2, <2>3, <2>4, <3>1 DEF AloneOK, UnderWay
  <2>7. QED
    BY <2>5, <2>6 DEF AloneInv
<1>4. CASE FileCrash
  BY <1>4 DEF FileCrash, AloneInv, SavedSongsStay, UnderWay, NoMerge
<1>5. QED
  BY <1>2, <1>3, <1>4

\* AloneInv is inductive relative to the type invariant.
LEMMA AloneInvariant == FileSpec => []AloneInv
<1>1. FileInit => AloneInv
  BY DEF FileInit, AloneInv, SavedSongsStay, UnderWay, NoMerge
<1>2. FileTypeOK /\ AloneInv /\ [FileNext]_fileVars => AloneInv'
  <2> SUFFICES ASSUME FileTypeOK, AloneInv, [FileNext]_fileVars
               PROVE  AloneInv'
    OBVIOUS
  <2>1. CASE UNCHANGED fileVars
    BY <2>1 DEF fileVars, AloneInv, AloneOK, SavedSongsStay, UnderWay
  <2>2. CASE FileNext
    BY <2>2, MergeWorkKeepsAlone, OtherStepsKeepAlone DEF FileNext
  <2>3. QED
    BY <2>1, <2>2
<1>3. QED
  BY <1>1, <1>2, FileTypeInvariant, PTL DEF FileSpec

\* However many merges run, failing or cut short, whatever the operator edits:
\* a song that was saved stays, until the operator takes it out or the file is
\* written by a merge that overlapped another.
THEOREM SavedSongsAreKept == FileSpec => []SavedSongsStay
<1>1. AloneInv => SavedSongsStay
  BY DEF AloneInv
<1>2. QED
  BY <1>1, AloneInvariant, PTL

\* What a step that overlaps nothing leaves at overridesPath: the file as it
\* was, what the operator saved, or a bundle.
LEMMA AloneWritesBundles ==
    ASSUME FileTypeOK, AloneInv, FileNext, ~Overlapping
    PROVE  \/ file' = file
           \/ file'.content \in Bundle
           \/ file'.content \in Saves /\ edits' = edits + 1
<1>1. ASSUME NEW m \in Merger, MergeWrite(m)
      PROVE  file' = file
  <2>1. merge[m].at = "write"
    BY <1>1 DEF MergeWrite
  <2>2. merge[m].fd = "tmp"
    BY <2>1 DEF AloneInv, AloneOK, Overlapping, UnderWay, FileTypeOK
  <2>3. QED
    BY <1>1, <2>2 DEF MergeWrite
<1>2. ASSUME NEW m \in Merger, MergeRename(m)
      PROVE  file' = file \/ file'.content \in Bundle
  <2>1. merge[m].at = "rename"
    BY <1>2 DEF MergeRename
  <2>2. tmp.content = merge[m].out
    BY <2>1 DEF AloneInv, AloneOK, Overlapping, UnderWay
  <2>3. merge[m].out \in Bundle
    BY DEF FileTypeOK, Merge
  <2>4. file' = file \/ file' = tmp
    BY <1>2 DEF MergeRename
  <2>5. QED
    BY <2>2, <2>3, <2>4
<1>3. ASSUME NEW m \in Merger, MergeWork(m)
      PROVE  file' = file \/ file'.content \in Bundle
  BY <1>1, <1>2, <1>3 DEF MergeWork, MergeRead, MergeOpen, MergeWriteFails
<1>4. ASSUME NEW m \in Merger, MergeReturn(m)
      PROVE  file' = file
  BY <1>4 DEF MergeReturn
<1>5. ASSUME NEW c \in Saves, OperatorEdit(c)
      PROVE  file'.content \in Saves /\ edits' = edits + 1
  BY <1>5 DEF OperatorEdit, NoFile
<1>6. FileCrash => file' = file
  BY DEF FileCrash
<1>7. QED
  BY <1>3, <1>4, <1>5, <1>6 DEF FileNext

\* The file is never left truncated, by a failed write, a crash between two
\* steps or what either left in the temporary file, unless merges overlap.
THEOREM FileStaysWhole == FileSpec => FileIsWhole
<1> DEFINE A == (file'.content = Blank /\ file.content # Blank) => Overlapping
<1>1. FileTypeOK /\ AloneInv /\ [FileNext]_fileVars => [A]_fileVars
  <2> SUFFICES ASSUME FileTypeOK, AloneInv, FileNext, ~Overlapping,
                      file'.content = Blank, file.content # Blank
               PROVE  FALSE
    OBVIOUS
  <2>1. Blank \notin Bundle /\ Blank \notin Saves
    BY OverridesFileAssumption DEF Bundle
  <2>2. QED
    BY <2>1, AloneWritesBundles
<1>2. QED
  BY <1>1, AloneInvariant, FileTypeInvariant, PTL DEF FileSpec, FileIsWhole

\* No step of the program turns a file that parses into one that does not,
\* unless merges overlap.
THEOREM MergesBreakNothing == FileSpec => UnbrokenByMerges
<1> DEFINE A == (file'.content = Broken /\ file.content # Broken)
                   => edits' = edits + 1 \/ Overlapping
<1>1. FileTypeOK /\ AloneInv /\ [FileNext]_fileVars => [A]_fileVars
  <2> SUFFICES ASSUME FileTypeOK, AloneInv, FileNext, ~Overlapping,
                      file'.content = Broken, file.content # Broken
               PROVE  edits' = edits + 1
    OBVIOUS
  <2>1. Broken \notin Bundle
    BY OverridesFileAssumption DEF Bundle
  <2>2. QED
    BY <2>1, AloneWritesBundles
<1>2. QED
  BY <1>1, AloneInvariant, FileTypeInvariant, PTL DEF FileSpec, UnbrokenByMerges

-----------------------------------------------------------------------------
(* The cache. *)

\* What a goroutine carries from one critical section to the next.
CarriedOK ==
    /\ refresh.at = "got" => refresh.body \in Body
    /\ \A t \in Thread :
          /\ job[t].at \in {"stat", "load", "set", "versions"} => job[t].raw \in Body
          /\ job[t].at = "set" => job[t].merged \in Merged

\* A process that is down has no refresh under way and no tag in memory that
\* could outlive the restart.
DownIsIdle == ~up => remoteTag = NoBody /\ refresh.at = "idle"

CacheInv ==
    /\ TypeOK
    /\ CarriedOK
    /\ DownIsIdle
    /\ RawIsDurable
    /\ TagNamesRaw
    /\ IndexIsOfItsHash

LEMMA MusicExFacts ==
    /\ NoJob \in Job /\ NoJob.at = "idle"
    /\ NoRefresh \in Refresh /\ NoRefresh.at = "idle"
    /\ NoWatch \in Watch
    /\ NoRead \in Read
    /\ NoIndex \in Index /\ NoIndex.hash = NoIndex.of
    /\ NoBody \notin Body
    /\ NoBody \notin Merged
    /\ "refresh" \in Thread /\ "watch" \in Thread /\ Merger \subseteq Thread
BY OverridesFileAssumption, MusicExCacheAssumption
   DEF NoJob, Job, NoRefresh, Refresh, NoWatch, Watch, NoRead, Read, NoIndex, Index,
       OrNone, Merged, Thread

\* Whatever the file holds, an apply makes a catalogue and a label of it.
LEMMA MergedFacts ==
    ASSUME NEW raw \in Body, NEW c \in Content
    PROVE  MergedBody(raw, c) \in Merged /\ Versions(c) \in Label
<1>1. CASE c = Broken
  BY <1>1, OverridesFileAssumption DEF MergedBody, Versions, AsServed, Merged
<1>2. CASE c # Broken
  <2>1. Parsed(c) \in Bundle
    BY <1>2, ContentFacts
  <2>2. Parsed(c).songs \in SUBSET Song /\ Parsed(c).label \in Label
    BY <2>1 DEF Bundle
  <2>3. QED
    BY <1>2, <2>2 DEF MergedBody, Versions, AsServed, Merged
<1>3. QED
  BY <1>1, <1>2

-----------------------------------------------------------------------------
(* The steps, one lemma for each group. *)

LEMMA PublishKeeps ==
    ASSUME CacheInv, NEW b \in Body, Publish(b)
    PROVE  CacheInv'
BY MusicExCacheAssumption
   DEF CacheInv, TypeOK, FileTypeOK, CarriedOK, DownIsIdle, RawIsDurable, TagNamesRaw,
       IndexIsOfItsHash, Publish, fileVars, memory

LEMMA CrashKeeps ==
    ASSUME CacheInv, Crash
    PROVE  CacheInv'
<1>1. FileTypeOK'
  BY FileCrashKeepsType DEF CacheInv, TypeOK, Crash
<1>2. TypeOK'
  BY <1>1, MusicExFacts, OverridesFileAssumption DEF CacheInv, TypeOK, Crash, OrNone
<1>3. CarriedOK'
  BY MusicExFacts DEF CarriedOK, Crash
<1>4. (DownIsIdle /\ RawIsDurable /\ TagNamesRaw /\ IndexIsOfItsHash)'
  BY MusicExFacts DEF Crash, DownIsIdle, RawIsDurable, TagNamesRaw, IndexIsOfItsHash
<1>5. QED
  BY <1>1, <1>2, <1>3, <1>4 DEF CacheInv

LEMMA StartKeeps ==
    ASSUME CacheInv, Start
    PROVE  CacheInv'
<1>1. FileTypeOK'
  BY DEF CacheInv, TypeOK, FileTypeOK, Start, fileVars
<1>2. file.content \in Content /\ file.mtime \in Nat
  BY DEF CacheInv, TypeOK, FileTypeOK, File
<1>3. mergedBody' \in OrNone(Merged) /\ overridesMtime' \in Nat /\ newSongVersions' \in Label
  BY <1>2, MergedFacts DEF CacheInv, TypeOK, Start, OrNone
<1>4. TypeOK'
  BY <1>1, <1>3 DEF CacheInv, TypeOK, Start, OrNone
<1>5. (CarriedOK /\ DownIsIdle /\ RawIsDurable /\ TagNamesRaw /\ IndexIsOfItsHash)'
  BY DEF CacheInv, Start, CarriedOK, DownIsIdle, RawIsDurable, TagNamesRaw,
         IndexIsOfItsHash
<1>6. QED
  BY <1>4, <1>5 DEF CacheInv

LEMMA RefreshKeeps ==
    ASSUME CacheInv,
           \/ RefreshSend \/ RefreshGets \/ RefreshNotModified
           \/ RefreshFails \/ RefreshCommit \/ RefreshCommitFails
    PROVE  CacheInv'
<1> USE DEF CacheInv, TypeOK
<1>1. FileTypeOK'
  BY DEF FileTypeOK, fileVars, RefreshSend, RefreshGets, RefreshNotModified, RefreshFails,
         RefreshCommit, RefreshCommitFails
<1>2. CASE RefreshSend
  <2>1. refresh' \in Refresh /\ refresh'.at # "got"
    BY <1>2 DEF RefreshSend, Refresh, OrNone
  <2>2. QED
    BY <1>1, <1>2, <2>1
       DEF RefreshSend, memory, CarriedOK, DownIsIdle, RawIsDurable, TagNamesRaw,
           IndexIsOfItsHash
<1>3. CASE RefreshGets
  <2>1. refresh' \in Refresh /\ refresh'.body \in Body
    BY <1>3 DEF RefreshGets, Refresh, OrNone
  <2>2. QED
    BY <1>1, <1>3, <2>1
       DEF RefreshGets, memory, CarriedOK, DownIsIdle, RawIsDurable, TagNamesRaw,
           IndexIsOfItsHash
<1>4. CASE RefreshNotModified \/ RefreshFails \/ RefreshCommitFails
  <2>1. /\ refresh' = NoRefresh
        /\ UNCHANGED <<upstream, publishes, up, cacheFile, memory, watch, job, reader>>
    BY <1>4 DEF RefreshNotModified, RefreshFails, RefreshCommitFails
  <2>2. QED
    BY <1>1, <2>1, MusicExFacts
       DEF memory, CarriedOK, DownIsIdle, RawIsDurable, TagNamesRaw, IndexIsOfItsHash
<1>5. CASE RefreshCommit
  <2>1. refresh.body \in Body /\ refresh.at = "got"
    BY <1>5 DEF RefreshCommit, CarriedOK
  <2>2. job' \in [Thread -> Job]
    BY <1>5, MusicExFacts DEF RefreshCommit, Job
  <2>3. \A t \in Thread : job'[t] = job[t] \/ job'[t].at = "raw"
    BY <1>5, MusicExFacts DEF RefreshCommit, Job
  <2>4. TypeOK'
    BY <1>1, <1>5, <2>1, <2>2, MusicExFacts DEF RefreshCommit, OrNone
  <2>5. CarriedOK'
    BY <1>5, <2>3, MusicExFacts DEF RefreshCommit, CarriedOK
  <2>6. RawIsDurable'
    BY <1>5, <2>1, MusicExFacts DEF RefreshCommit, RawIsDurable
  <2>7. DownIsIdle' /\ TagNamesRaw' /\ IndexIsOfItsHash'
    BY <1>5 DEF RefreshCommit, DownIsIdle, TagNamesRaw, IndexIsOfItsHash
  <2>8. QED
    BY <2>4, <2>5, <2>6, <2>7
<1>6. QED
  BY <1>2, <1>3, <1>4, <1>5

LEMMA WatchKeeps ==
    ASSUME CacheInv, WatchStat \/ WatchCompare
    PROVE  CacheInv'
<1> USE DEF CacheInv, TypeOK
<1>1. FileTypeOK'
  BY DEF FileTypeOK, fileVars, WatchStat, WatchCompare
<1>2. watch' \in Watch
  BY MusicExFacts DEF WatchStat, WatchCompare, Watch, FileTypeOK, File
<1>3. /\ job' \in [Thread -> Job]
      /\ \A t \in Thread : job'[t] = job[t] \/ job'[t].at = "raw"
  BY MusicExFacts DEF WatchStat, WatchCompare, Job
<1>4. UNCHANGED <<upstream, publishes, up, cacheFile, memory, refresh, reader>>
  BY DEF WatchStat, WatchCompare
<1>5. CarriedOK'
  BY <1>3, <1>4 DEF CarriedOK
<1>6. QED
  BY <1>1, <1>2, <1>3, <1>4, <1>5
     DEF memory, DownIsIdle, RawIsDurable, TagNamesRaw, IndexIsOfItsHash

LEMMA ApplyReturnKeeps ==
    ASSUME CacheInv, NEW t \in Thread, ApplyReturn(t)
    PROVE  /\ FileTypeOK'
           /\ job' \in [Thread -> Job]
           /\ \A u \in Thread : job'[u] = job[u] \/ job'[u].at = "idle"
<1>1. FileTypeOK'
  BY MergeReturnKeepsType DEF CacheInv, TypeOK, ApplyReturn, FileTypeOK, fileVars
<1>2. job' = [job EXCEPT ![t] = NoJob] /\ job \in [Thread -> Job]
  BY DEF CacheInv, TypeOK, ApplyReturn
<1>3. QED
  BY <1>1, <1>2, MusicExFacts

LEMMA ApplyKeeps ==
    ASSUME CacheInv, NEW t \in Thread, ApplyStep(t)
    PROVE  CacheInv'
<1> USE DEF CacheInv, TypeOK
<1>1. job \in [Thread -> Job] /\ job[t] \in Job
  OBVIOUS
<1>2. file.content \in Content /\ file.mtime \in Nat
  BY DEF FileTypeOK, File
<1> DEFINE JobOK(j) == /\ j \in Job
                       /\ j.at \in {"stat", "load", "set", "versions"} => j.raw \in Body
                       /\ j.at = "set" => j.merged \in Merged
<1>3. ASSUME NEW j, JobOK(j), job' = [job EXCEPT ![t] = j], UNCHANGED refresh
      PROVE  job' \in [Thread -> Job] /\ CarriedOK'
  BY <1>3 DEF CarriedOK
<1>4. CASE ApplyReadRaw(t)
  <2>1. UNCHANGED <<upstream, publishes, up, cacheFile, memory, refresh, watch, reader>>
    BY <1>4 DEF ApplyReadRaw
  <2>2. CASE rawBody = NoBody
    <3>1. ApplyReturn(t)
      BY <1>4, <2>2 DEF ApplyReadRaw
    <3>2. /\ FileTypeOK'
          /\ job' \in [Thread -> Job]
          /\ \A u \in Thread : job'[u] = job[u] \/ job'[u].at = "idle"
      BY <3>1, ApplyReturnKeeps
    <3>3. CarriedOK'
      BY <2>1, <3>2 DEF CarriedOK
    <3>4. QED
      BY <2>1, <3>2, <3>3 DEF memory, DownIsIdle, RawIsDurable, TagNamesRaw, IndexIsOfItsHash
  <2>3. CASE rawBody # NoBody
    <3>1. /\ job' = [job EXCEPT ![t] = [job[t] EXCEPT !.at = "stat", !.raw = rawBody]]
          /\ UNCHANGED fileVars
      BY <1>4, <2>3 DEF ApplyReadRaw
    <3>2. JobOK([job[t] EXCEPT !.at = "stat", !.raw = rawBody])
      BY <1>1, <2>3 DEF Job, OrNone
    <3>3. job' \in [Thread -> Job] /\ CarriedOK'
      BY <1>3, <2>1, <3>1, <3>2
    <3>4. QED
      BY <2>1, <3>1, <3>3
         DEF memory, fileVars, FileTypeOK, DownIsIdle, RawIsDurable, TagNamesRaw, IndexIsOfItsHash
  <2>4. QED
    BY <2>2, <2>3
<1>5. CASE ApplyStat(t)
  <2>1. /\ job' = [job EXCEPT ![t] = [job[t] EXCEPT !.at = "load", !.mtime = file.mtime]]
        /\ job[t].at = "stat"
        /\ UNCHANGED <<fileVars, upstream, publishes, up, cacheFile, memory, refresh, watch, reader>>
    BY <1>5 DEF ApplyStat
  <2>2. job[t].raw \in Body
    BY <2>1 DEF CarriedOK
  <2>3. JobOK([job[t] EXCEPT !.at = "load", !.mtime = file.mtime])
    BY <1>1, <1>2, <2>2 DEF Job
  <2>4. job' \in [Thread -> Job] /\ CarriedOK'
    BY <1>3, <2>1, <2>3
  <2>5. QED
    BY <2>1, <2>4
       DEF memory, fileVars, FileTypeOK, DownIsIdle, RawIsDurable, TagNamesRaw, IndexIsOfItsHash
<1>6. CASE ApplyLoad(t)
  <2> DEFINE j == [job[t] EXCEPT !.at = "set",
                                 !.merged = MergedBody(job[t].raw, file.content),
                                 !.label = Versions(file.content)]
  <2>1. /\ job' = [job EXCEPT ![t] = j]
        /\ job[t].at = "load"
        /\ UNCHANGED <<fileVars, upstream, publishes, up, cacheFile, memory, refresh, watch, reader>>
    BY <1>6 DEF ApplyLoad
  <2>2. job[t].raw \in Body
    BY <2>1 DEF CarriedOK
  <2>3. MergedBody(job[t].raw, file.content) \in Merged /\ Versions(file.content) \in Label
    BY <1>2, <2>2, MergedFacts
  <2>4. JobOK(j)
    BY <1>1, <2>2, <2>3 DEF Job, OrNone
  <2>5. job' \in [Thread -> Job] /\ CarriedOK'
    BY <1>3, <2>1, <2>4
  <2>6. QED
    BY <2>1, <2>5
       DEF memory, fileVars, FileTypeOK, DownIsIdle, RawIsDurable, TagNamesRaw, IndexIsOfItsHash
<1>7. CASE ApplySetMerged(t)
  <2>1. /\ job' = [job EXCEPT ![t] = [job[t] EXCEPT !.at = "versions"]]
        /\ job[t].at = "set"
        /\ mergedBody' = job[t].merged /\ overridesMtime' = job[t].mtime
        /\ UNCHANGED <<fileVars, upstream, publishes, up, cacheFile, rawBody, remoteTag,
                       newSongVersions, index, refresh, watch, reader>>
    BY <1>7 DEF ApplySetMerged
  <2>2. job[t].raw \in Body /\ job[t].mtime \in Nat /\ job[t].merged \in OrNone(Merged)
    BY <1>1, <2>1 DEF CarriedOK, Job
  <2>3. JobOK([job[t] EXCEPT !.at = "versions"])
    BY <1>1, <2>2 DEF Job
  <2>4. job' \in [Thread -> Job] /\ CarriedOK'
    BY <1>3, <2>1, <2>3
  <2>5. QED
    BY <2>1, <2>2, <2>4
       DEF fileVars, FileTypeOK, DownIsIdle, RawIsDurable, TagNamesRaw, IndexIsOfItsHash
<1>8. CASE ApplySetVersions(t)
  <2>1. /\ ApplyReturn(t)
        /\ newSongVersions' = job[t].label
        /\ UNCHANGED <<upstream, publishes, up, cacheFile, rawBody, remoteTag, mergedBody,
                       overridesMtime, index, refresh, watch, reader>>
    BY <1>8 DEF ApplySetVersions
  <2>2. /\ FileTypeOK'
        /\ job' \in [Thread -> Job]
        /\ \A u \in Thread : job'[u] = job[u] \/ job'[u].at = "idle"
    BY <2>1, ApplyReturnKeeps
  <2>3. newSongVersions' \in Label
    BY <1>1, <2>1 DEF Job
  <2>4. CarriedOK'
    BY <2>1, <2>2 DEF CarriedOK
  <2>5. QED
    BY <2>1, <2>2, <2>3, <2>4 DEF DownIsIdle, RawIsDurable, TagNamesRaw, IndexIsOfItsHash
<1>9. QED
  BY <1>4, <1>5, <1>6, <1>7, <1>8 DEF ApplyStep

LEMMA MergeRequestKeeps ==
    ASSUME CacheInv, NEW m \in Merger, MergeRequest(m)
    PROVE  CacheInv'
<1> USE DEF CacheInv, TypeOK
<1>1. FileTypeOK'
  BY MergeWorkKeepsType DEF MergeRequest
<1>2. UNCHANGED <<upstream, publishes, up, cacheFile, memory, refresh, watch, reader>>
  BY DEF MergeRequest
<1>3. /\ job' \in [Thread -> Job]
      /\ \A t \in Thread : job'[t] = job[t] \/ job'[t].at = "raw"
  <2> DEFINE j == [job[m] EXCEPT !.at =
                      IF merge[m].at # "apply" /\ merge'[m].at = "apply" THEN "raw" ELSE @]
  <2>1. job' = [job EXCEPT ![m] = j]
    BY DEF MergeRequest
  <2>2. m \in Thread /\ job[m] \in Job
    BY MusicExFacts
  <2>3. j \in Job /\ (j = job[m] \/ j.at = "raw")
    BY <2>2 DEF Job
  <2>4. QED
    BY <2>1, <2>2, <2>3
<1>4. CarriedOK'
  BY <1>2, <1>3 DEF CarriedOK
<1>5. QED
  BY <1>1, <1>2, <1>3, <1>4
     DEF memory, DownIsIdle, RawIsDurable, TagNamesRaw, IndexIsOfItsHash

LEMMA EditKeeps ==
    ASSUME CacheInv, NEW c \in Saves, Edit(c)
    PROVE  CacheInv'
<1>1. FileTypeOK'
  BY OperatorEditKeepsType DEF CacheInv, TypeOK, Edit
<1>2. QED
  BY <1>1 DEF CacheInv, TypeOK, Edit, cacheVars, CarriedOK, DownIsIdle, RawIsDurable,
              TagNamesRaw, IndexIsOfItsHash

LEMMA SnapshotKeeps ==
    ASSUME CacheInv, NEW r \in Reader, SnapshotRead(r) \/ SnapshotStore(r)
    PROVE  CacheInv'
<1> USE DEF CacheInv, TypeOK
<1>1. /\ UNCHANGED <<fileVars, upstream, publishes, up, cacheFile, rawBody, remoteTag,
                     mergedBody, overridesMtime, newSongVersions, refresh, watch, job>>
  BY DEF SnapshotRead, SnapshotStore, memory
<1>2. reader[r] \in Read
  OBVIOUS
<1>3. index' \in Index /\ IndexIsOfItsHash'
  <2>1. CASE index' = index
    BY <2>1 DEF IndexIsOfItsHash
  <2>2. CASE index' # index
    <3>1. index' = [hash |-> reader[r].body, of |-> reader[r].body]
      BY <2>2 DEF SnapshotRead, SnapshotStore, memory
    <3>2. QED
      BY <1>2, <3>1 DEF Read, Index, IndexIsOfItsHash
  <2>3. QED
    BY <2>1, <2>2
<1>4. reader' \in [Reader -> Read]
  <2>1. PICK v \in Read : reader' = [reader EXCEPT ![r] = v]
    <3>1. CASE SnapshotRead(r)
      <4> DEFINE v == IF index.hash = mergedBody
                      THEN [at |-> "idle", body |-> NoBody, result |-> index.of]
                      ELSE [at |-> "parse", body |-> mergedBody, result |-> NoBody]
      <4>1. v \in Read
        BY DEF Read, Index, OrNone
      <4>2. reader' = [reader EXCEPT ![r] = v]
        BY <3>1 DEF SnapshotRead
      <4>3. QED
        BY <4>1, <4>2
    <3>2. CASE SnapshotStore(r)
      <4> DEFINE v == [at |-> "idle", body |-> NoBody,
                       result |-> IF \/ reader[r].body = NoBody
                                     \/ reader[r].body.raw \in Unmergeable
                                  THEN NoBody ELSE reader[r].body]
      <4>1. v \in Read
        BY <1>2 DEF Read, OrNone
      <4>2. reader' = [reader EXCEPT ![r] = v]
        BY <3>2 DEF SnapshotStore
      <4>3. QED
        BY <4>1, <4>2
    <3>3. QED
      BY <3>1, <3>2
  <2>2. QED
    BY <2>1
<1>5. QED
  BY <1>1, <1>3, <1>4
     DEF fileVars, FileTypeOK, CarriedOK, DownIsIdle, RawIsDurable, TagNamesRaw

LEMMA InitHasCacheInv == Init => CacheInv
<1> SUFFICES ASSUME Init PROVE CacheInv
  OBVIOUS
<1>1. FileTypeOK
  BY FileInitHasType DEF Init
<1>2. publishes \in 0 .. MaxPublishes /\ overridesMtime \in Nat
  <2>1. publishes = 0 /\ overridesMtime = 0
    BY DEF Init
  <2>2. MaxPublishes \in Nat
    BY MusicExCacheAssumption
  <2>3. QED
    BY <2>1, <2>2
<1>3. job \in [Thread -> Job] /\ reader \in [Reader -> Read]
  BY MusicExFacts DEF Init
<1>4. refresh \in Refresh /\ watch \in Watch /\ index \in Index
  BY MusicExFacts DEF Init
<1>5. TypeOK
  BY <1>1, <1>2, <1>3, <1>4, OverridesFileAssumption DEF Init, TypeOK, OrNone
<1>6. QED
  BY <1>5, MusicExFacts
     DEF CacheInv, Init, CarriedOK, DownIsIdle, RawIsDurable, TagNamesRaw, IndexIsOfItsHash

LEMMA NextKeeps ==
    ASSUME CacheInv, [Next]_vars
    PROVE  CacheInv'
<1>1. CASE UNCHANGED vars
  BY <1>1 DEF vars, fileVars, cacheVars, CacheInv, TypeOK, FileTypeOK, CarriedOK, DownIsIdle,
              RawIsDurable, TagNamesRaw, IndexIsOfItsHash
<1>2. CASE Next
  BY <1>2, PublishKeeps, CrashKeeps, StartKeeps, RefreshKeeps, WatchKeeps, ApplyKeeps,
     MergeRequestKeeps, EditKeeps, SnapshotKeeps DEF Next
<1>3. QED
  BY <1>1, <1>2

-----------------------------------------------------------------------------
(* The theorems. *)

LEMMA CacheInvariant == Spec => []CacheInv
<1>1. CacheInv /\ [Next]_vars => CacheInv'
  BY NextKeeps
<1>2. QED
  BY InitHasCacheInv, <1>1, PTL DEF Spec

\* Every variable keeps its type, whatever the goroutines interleave.
THEOREM TypeCorrect == Spec => []TypeOK
<1>1. CacheInv => TypeOK
  BY DEF CacheInv
<1>2. QED
  BY <1>1, CacheInvariant, PTL

\* The raw body in memory is the one on disk, for any number of restarts and
\* of writes that fail.
THEOREM RawIsAlwaysDurable == Spec => []RawIsDurable
<1>1. CacheInv => RawIsDurable
  BY DEF CacheInv
<1>2. QED
  BY <1>1, CacheInvariant, PTL

\* The conditional request never carries the tag of another body.
THEOREM TagAlwaysNamesRaw == Spec => []TagNamesRaw
<1>1. CacheInv => TagNamesRaw
  BY DEF CacheInv
<1>2. QED
  BY <1>1, CacheInvariant, PTL

\* The stored index is of the body that it is filed under, for any number of
\* overlapping Snapshot calls.
THEOREM IndexAlwaysOfItsHash == Spec => []IndexIsOfItsHash
<1>1. CacheInv => IndexIsOfItsHash
  BY DEF CacheInv
<1>2. QED
  BY <1>1, CacheInvariant, PTL

\* A Snapshot answered from the stored index is the index of what is served.
THEOREM HitsAreCurrent == Spec => SnapshotHitIsCurrent
<1> DEFINE A == \A r \in Reader :
                   (up' /\ reader'[r] # reader[r] /\ reader[r].at = "idle"
                        /\ reader'[r].at = "idle")
                      => reader'[r].result = mergedBody
<1>1. ASSUME CacheInv, Next
      PROVE  A
  <2> SUFFICES ASSUME NEW r \in Reader, up', reader'[r] # reader[r],
                      reader[r].at = "idle", reader'[r].at = "idle"
               PROVE  reader'[r].result = mergedBody
    OBVIOUS
  <2>1. reader \in [Reader -> Read] /\ IndexIsOfItsHash
    BY <1>1 DEF CacheInv, TypeOK
  <2>2. \E q \in Reader : SnapshotRead(q) \/ SnapshotStore(q)
    BY <1>1
       DEF Next, Publish, Crash, Start, RefreshSend, RefreshGets, RefreshNotModified,
           RefreshFails, RefreshCommit, RefreshCommitFails, WatchStat, WatchCompare,
           ApplyStep, ApplyReadRaw, ApplyStat, ApplyLoad, ApplySetMerged, ApplySetVersions,
           MergeRequest, Edit, cacheVars
  <2>3. PICK q \in Reader : SnapshotRead(q) \/ SnapshotStore(q)
    BY <2>2
  <2>4. q = r
    BY <2>1, <2>3 DEF SnapshotRead, SnapshotStore
  <2>5. SnapshotRead(r)
    BY <2>3, <2>4 DEF SnapshotStore
  <2>6. index.hash = mergedBody /\ reader'[r].result = index.of
    BY <2>1, <2>5 DEF SnapshotRead
  <2>7. QED
    BY <2>1, <2>6 DEF IndexIsOfItsHash
<1>2. CacheInv /\ [Next]_vars => [A]_vars
  BY <1>1
<1>3. QED
  BY <1>2, CacheInvariant, PTL DEF Spec, SnapshotHitIsCurrent

\* No step of a running server takes away the catalogue that it serves.
THEOREM AlwaysReady == Spec => ReadyStaysReady
<1> DEFINE A == (up /\ up' /\ Served # NoBody) => Served' # NoBody
<1>1. ASSUME CacheInv, Next
      PROVE  A
  <2> USE DEF CacheInv, TypeOK
  <2> SUFFICES ASSUME up, up', Served # NoBody
               PROVE  Served' # NoBody
    OBVIOUS
  <2>1. \A raw \in Body : AsServed(raw) # NoBody
    BY MusicExFacts DEF AsServed, Merged
  <2>2. CASE UNCHANGED <<rawBody, mergedBody>>
    BY <2>2 DEF Served
  <2>3. CASE RefreshCommit
    <3>1. rawBody' \in Body /\ mergedBody' = mergedBody
      BY <1>1, <2>3 DEF RefreshCommit, CarriedOK
    <3>2. QED
      BY <2>1, <3>1, MusicExFacts DEF Served
  <2>4. ASSUME NEW t \in Thread, ApplySetMerged(t)
        PROVE  Served' # NoBody
    <3>1. mergedBody' \in Merged
      BY <1>1, <2>4 DEF ApplySetMerged, CarriedOK
    <3>2. QED
      BY <3>1, MusicExFacts DEF Served
  <2>5. \/ UNCHANGED <<rawBody, mergedBody>>
        \/ RefreshCommit
        \/ \E t \in Thread : ApplySetMerged(t)
    BY <1>1
       DEF Next, Publish, Crash, Start, RefreshSend, RefreshGets, RefreshNotModified,
           RefreshFails, RefreshCommitFails, WatchStat, WatchCompare, ApplyStep,
           ApplyReadRaw, ApplyStat, ApplyLoad, ApplySetVersions, MergeRequest, Edit,
           SnapshotRead, SnapshotStore, cacheVars, memory
  <2>6. QED
    BY <2>2, <2>3, <2>4, <2>5
<1>2. CacheInv /\ [Next]_vars => [A]_vars
  BY <1>1
<1>3. QED
  BY <1>2, CacheInvariant, PTL DEF Spec, ReadyStaysReady
=============================================================================
