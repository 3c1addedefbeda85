-------------------------- MODULE CatalogCacheProofs --------------------------
(***************************************************************************)
(* Proofs about module CatalogCache, for any number of tabs, requests and  *)
(* songs and any ages of the caches.                                       *)
(***************************************************************************)
EXTENDS CatalogCache, FiniteSetTheorems, TLAPS

-----------------------------------------------------------------------------
(* What is pasted and what the server makes of it. *)

\* The last line of a chart is what the preview has for it.
LEMMA LastLineCounts ==
    ASSUME NEW p \in Paste, NEW i \in DOMAIN p.lines, Valid(p.lines[i]),
           \A j \in DOMAIN p.lines :
              Valid(p.lines[j]) /\ p.lines[j].title = p.lines[i].title
                  /\ p.lines[j].diff = p.lines[i].diff => j <= i
    PROVE  LET x == <<p.lines[i].title, p.lines[i].diff>> IN
             /\ x \in DOMAIN Entries(p.lines) /\ x \in Title \X Field
             /\ Entries(p.lines)[x] = p.lines[i].const
<1> DEFINE lines == p.lines
           good == {j \in DOMAIN lines : Valid(lines[j])}
           chart(j) == <<lines[j].title, lines[j].diff>>
           x == chart(i)
           Latest(k) == chart(k) = x /\ \A j \in good : chart(j) = x => j <= k
           k0 == CHOOSE k \in good : Latest(k)
<1>1. /\ \A j \in DOMAIN lines : j \in Nat
      /\ lines[i].title \in Title \cup {None} /\ lines[i].diff \in Field \cup {None}
  <2> DEFINE Line == [header : BOOLEAN, title : Title \cup {None},
                      diff : Field \cup {None}, const : Int \cup {NoConst}]
  <2>1. lines \in Seq(Line)
    BY PasteAssumption
  <2> HIDE DEF Line
  <2>2. DOMAIN lines = 1..Len(lines) /\ Len(lines) \in Nat /\ \A j \in DOMAIN lines : lines[j] \in Line
    BY <2>1
  <2> USE DEF Line
  <2>3. QED
    BY <2>2
<1>2. i \in good /\ Latest(i)
  OBVIOUS
<1>3. k0 \in good /\ Latest(k0)
  BY <1>2
<1>4. k0 = i
  <2>1. k0 <= i /\ i <= k0
    BY <1>2, <1>3
  <2>2. k0 \in Nat /\ i \in Nat
    BY <1>1, <1>3
  <2> HIDE DEF k0
  <2>3. QED
    BY <2>1, <2>2
<1>5. x \in {chart(j) : j \in good}
  BY <1>2
<1>6. Entries(lines) = [y \in {chart(j) : j \in good} |->
          lines[CHOOSE k \in good : chart(k) = y /\ \A j \in good : chart(j) = y => j <= k].const]
  BY DEF Entries
<1>7. Entries(lines)[x] = lines[k0].const
  BY <1>5, <1>6
<1>8. x \in Title \X Field
  BY <1>1 DEF Valid
<1>9. QED
  BY <1>4, <1>5, <1>6, <1>7, <1>8

-----------------------------------------------------------------------------
(* Submits. *)

StepNames == {"idle", "posting", "merged", "refreshing"}

\* A submit has merged no edition to come; entries is a sequence.
SubmitOK ==
    /\ edition \in Nat
    /\ Len(entries) \in Nat /\ entries = [i \in 1..Len(entries) |-> entries[i]]
    /\ added = [t \in Title |-> added[t]] /\ \A t \in Title : added[t].id = None
    /\ submit = [t \in Tab |-> [step |-> submit[t].step, paste |-> submit[t].paste,
                                edition |-> submit[t].edition, promise |-> submit[t].promise]]
    /\ \A t \in Tab : /\ submit[t].step \in StepNames
                      /\ submit[t].step # "idle" => submit[t].paste \in Paste
                      /\ submit[t].edition \in Nat /\ submit[t].edition <= edition

\* The charts that one entry or none has a constant for.
Lone == {x \in Title \X Field : OneEntry(x)}

\* What submit s counts on at edition e, with catalogue c.
ServedOne(s, e, c, lone) ==
    s.step \in {"merged", "refreshing"} /\ s.edition = e =>
        \A i \in DOMAIN s.paste.lines :
            LET x == <<s.paste.lines[i].title, s.paste.lines[i].diff>> IN
            Counts(s.paste, i) /\ x \in lone => c[x] = s.paste.lines[i].const

SubmitInv == SubmitOK /\ \A t \in Tab : ServedOne(submit[t], edition, Served, Lone)

LEMMA ServedOneOfPaste ==
    ASSUME NEW s, NEW r, NEW e, NEW c, NEW lone, ServedOne(s, e, c, lone), r.paste = s.paste,
           r.edition = s.edition,
           r.step \in {"merged", "refreshing"} => s.step \in {"merged", "refreshing"}
    PROVE  ServedOne(r, e, c, lone)
BY DEF ServedOne

LEMMA SameCatalogue ==
    ASSUME UNCHANGED <<entries, added>> PROVE Served' = Served /\ Lone' = Lone
BY DEF Served, Lone, OneEntry, Const, Giving, Listed, SongOf

\* A step that merges nothing and starts nothing.
LEMMA SubmitKept ==
    ASSUME SubmitInv, UNCHANGED <<entries, added, edition>>,
           submit' = [t \in Tab |-> [step |-> submit'[t].step, paste |-> submit'[t].paste,
                                    edition |-> submit'[t].edition, promise |-> submit'[t].promise]],
           \A t \in Tab : /\ submit'[t].paste = submit[t].paste
                         /\ submit'[t].edition = submit[t].edition
                         /\ \/ submit'[t].step = submit[t].step
                            \/ submit[t].step = "merged" /\ submit'[t].step = "refreshing"
    PROVE  SubmitInv'
<1>1. Served' = Served /\ Lone' = Lone
  BY SameCatalogue
<1>2. SubmitOK'
  BY DEF SubmitInv, SubmitOK, StepNames
<1>3. ASSUME NEW t \in Tab PROVE ServedOne(submit'[t], edition', Served', Lone')
  <2>1. ServedOne(submit[t], edition, Served, Lone)
    BY DEF SubmitInv
  <2>2. ServedOne(submit'[t], edition, Served, Lone)
    BY <2>1, ServedOneOfPaste
  <2>3. QED
    BY <1>1, <2>2
<1>4. QED
  BY <1>2, <1>3 DEF SubmitInv

\* A step that starts or ends a submit.
LEMMA SubmitSet ==
    ASSUME SubmitInv, UNCHANGED <<entries, added, edition>>, NEW t \in Tab,
           NEW step \in {"idle", "posting"}, NEW paste, step # "idle" => paste \in Paste,
           submit' = [submit EXCEPT ![t] =
                        [step |-> step, paste |-> paste, edition |-> 0, promise |-> None]]
    PROVE  SubmitInv'
<1>1. Served' = Served /\ Lone' = Lone
  BY SameCatalogue
<1>2. \A u \in Tab : submit'[u] = IF u = t THEN [step |-> step, paste |-> paste, edition |-> 0,
                                                 promise |-> None] ELSE submit[u]
  BY DEF SubmitInv, SubmitOK
<1>3. SubmitOK'
  <2> DEFINE s == [step |-> step, paste |-> paste, edition |-> 0, promise |-> None]
  <2>1. /\ s.step = step /\ s.paste = paste /\ s.edition = 0
        /\ s = [step |-> s.step, paste |-> s.paste, edition |-> s.edition, promise |-> s.promise]
    OBVIOUS
  <2>2. submit' = [submit EXCEPT ![t] = s]
    OBVIOUS
  <2> HIDE DEF s
  <2>3. submit' = [u \in Tab |-> [step |-> submit'[u].step, paste |-> submit'[u].paste,
                                  edition |-> submit'[u].edition, promise |-> submit'[u].promise]]
    <3>1. \A u \in Tab : submit'[u] = IF u = t THEN s ELSE submit[u]
      BY <2>2 DEF SubmitInv, SubmitOK
    <3>2. \A u \in Tab : submit[u] = [step |-> submit[u].step, paste |-> submit[u].paste,
                                      edition |-> submit[u].edition,
                                      promise |-> submit[u].promise]
      BY DEF SubmitInv, SubmitOK
    <3>3. submit' = [u \in Tab |-> submit'[u]]
      BY <2>2 DEF SubmitInv, SubmitOK
    <3>4. \A u \in Tab : submit'[u] = [step |-> submit'[u].step, paste |-> submit'[u].paste,
                                       edition |-> submit'[u].edition,
                                       promise |-> submit'[u].promise]
      BY <2>1, <3>1, <3>2
    <3>5. QED
      BY <3>3, <3>4
  <2>4. ASSUME NEW u \in Tab
        PROVE  /\ submit'[u].step \in StepNames
               /\ submit'[u].step # "idle" => submit'[u].paste \in Paste
               /\ submit'[u].edition \in Nat /\ submit'[u].edition <= edition
    <3>1. submit'[u] = IF u = t THEN s ELSE submit[u]
      BY <2>2 DEF SubmitInv, SubmitOK
    <3>2. QED
      BY <2>1, <3>1 DEF SubmitInv, SubmitOK, StepNames
  <2>5. QED
    BY <2>3, <2>4 DEF SubmitInv, SubmitOK
<1>4. ASSUME NEW u \in Tab PROVE ServedOne(submit'[u], edition', Served', Lone')
  <2>1. CASE u = t
    <3>1. submit'[u].step = step
      BY <1>2, <2>1
    <3>2. step \notin {"merged", "refreshing"}
      OBVIOUS
    <3>3. QED
      BY <3>1, <3>2 DEF ServedOne
  <2>2. CASE u # t
    BY <1>1, <1>2, <2>2 DEF SubmitInv
  <2>3. QED
    BY <2>1, <2>2
<1>5. QED
  BY <1>3, <1>4 DEF SubmitInv

\* What the pasted entry of a title is merged into gives its constants then,
\* and is the only one that does for a lone chart.
LEMMA MergeGives ==
    ASSUME NEW t \in Title, NEW f \in Field, NEW new, NEW force,
           Upserts(new, force), <<t, f>> \in DOMAIN new, new[<<t, f>>] # NoConst,
           Len(entries) \in Nat, entries = [i \in 1..Len(entries) |-> entries[i]],
           added = [u \in Title |-> added[u]], \A u \in Title : added[u].id = None,
           <<t, f>> \in Lone', force \/ Upstream[<<t, f>>] = NoConst
    PROVE  Served'[<<t, f>>] = new[<<t, f>>]
<1> DEFINE x == <<t, f>>
           n == Len(entries)
<1>1. t \in Titles(new) /\ t # None
  BY FilesAssumption DEF Titles
<1>2. DOMAIN entries = 1..n /\ DOMAIN entries' = 1..n /\ Len(entries') = n
  BY DEF Upserts
<1>3. /\ DOMAIN Listed(t)' = 1..(n + 1)
      /\ \A i \in 1..n : Listed(t)'[i] = entries'[i]
      /\ Listed(t)'[n + 1] = added'[t]
  <2> DEFINE S == {entries'[i] : i \in 1..n} \cup {added'[t]}
  <2>1. entries' \in Seq(S) /\ added'[t] \in S
    <3>1. entries' = [i \in 1..n |-> entries'[i]]
      BY <1>2 DEF Upserts
    <3>2. QED
      BY <3>1
  <2> HIDE DEF S
  <2>2. QED
    BY <1>2, <2>1 DEF Listed
<1>4. PICK k \in 1..(n + 1) : \E e : Listed(t)'[k] = With(e, t, new, force) /\ e.id = None
  <2>1. CASE \E i \in DOMAIN entries : IsEntryOf(t, i)
    <3>1. PICK i \in DOMAIN entries : IsEntryOf(t, i)
      BY <2>1
    <3>2. entries[i].id = None /\ entries[i].title = t
      BY <3>1 DEF IsEntryOf, KeyOf
    <3>3. entries'[i] = With(entries[i], t, new, force)
      BY <1>1, <3>1, <3>2 DEF Upserts
    <3>4. QED
      BY <1>2, <1>3, <3>2, <3>3
  <2>2. CASE ~\E i \in DOMAIN entries : IsEntryOf(t, i)
    <3>1. added'[t] = With(added[t], t, new, force)
      BY <1>1, <2>2 DEF Upserts
    <3>2. n + 1 \in 1..(n + 1)
      OBVIOUS
    <3>3. QED
      BY <1>3, <3>1, <3>2
  <2>3. QED
    BY <2>1, <2>2
<1>9. PICK e : Listed(t)'[k] = With(e, t, new, force) /\ e.id = None
  BY <1>4
<1> DEFINE w == With(e, t, new, force)
<1>5. /\ Listed(t)'[k] = w
      /\ w.id = None /\ w.title = t /\ w.consts[f] = new[x]
      /\ w.force \/ Upstream[x] = NoConst
  <2>1. /\ w.id = e.id /\ w.title = t /\ w.force = (e.force \/ force)
        /\ w.consts = [g \in Field |-> IF <<t, g>> \in DOMAIN new THEN new[<<t, g>>] ELSE e.consts[g]]
    BY DEF With
  <2>2. QED
    BY <1>9, <2>1
<1> HIDE DEF w
<1>6. k \in Giving(x)'
  <2>1. SongOf(w) = t
    BY <1>5, FilesAssumption DEF SongOf
  <2>2. k \in DOMAIN Listed(t)' /\ Listed(t)'[k].consts[f] # NoConst /\ SongOf(Listed(t)'[k]) = t
    BY <1>3, <1>5, <2>1
  <2>3. QED
    BY <2>2 DEF Giving
<1>7. Giving(x)' = {k}
  BY <1>6 DEF Lone, OneEntry
<1>8. Const(x)' = new[x]
  <2> DEFINE given == [i \in Giving(x)' |-> Listed(t)'[i].consts[f]]
             forced == {i \in Giving(x)' : Listed(t)'[i].force}
  <2>1. given[k] = new[x]
    BY <1>5, <1>7
  <2>2. k \in Nat /\ k <= k
    BY <1>4
  <2>3. CASE w.force
    <3>1. forced = {k}
      BY <1>5, <1>7, <2>3
    <3>2. (CHOOSE i \in forced : \A j \in forced : j <= i) = k
      BY <2>2, <3>1
    <3>3. Const(x)' = given[CHOOSE i \in forced : \A j \in forced : j <= i]
      BY <3>1 DEF Const
    <3>4. QED
      BY <2>1, <3>2, <3>3
  <2>4. CASE ~w.force
    <3>1. forced = {} /\ Upstream[x] = NoConst /\ Giving(x)' # {}
      BY <1>5, <1>7, <2>4
    <3>2. (CHOOSE i \in Giving(x)' : \A j \in Giving(x)' : i <= j) = k
      BY <1>7, <2>2
    <3>3. Const(x)' = given[CHOOSE i \in Giving(x)' : \A j \in Giving(x)' : i <= j]
      BY <3>1 DEF Const
    <3>4. QED
      BY <2>1, <3>2, <3>3
  <2>5. QED
    BY <2>3, <2>4
<1>10. QED
  BY <1>8 DEF Served

LEMMA UpsertsKeep ==
    ASSUME NEW new, NEW force, Upserts(new, force), Len(entries) \in Nat,
           entries = [i \in 1..Len(entries) |-> entries[i]],
           added = [u \in Title |-> added[u]], \A u \in Title : added[u].id = None
    PROVE  /\ Len(entries') \in Nat /\ entries' = [i \in 1..Len(entries') |-> entries'[i]]
           /\ added' = [u \in Title |-> added'[u]] /\ \A u \in Title : added'[u].id = None
<1>1. DOMAIN entries = 1..Len(entries) /\ DOMAIN entries' = DOMAIN entries
  BY DEF Upserts
<1>2. Len(entries') = Len(entries)
  BY <1>1
<1>3. entries' = [i \in DOMAIN entries' |-> entries'[i]] /\ added' = [u \in Title |-> added'[u]]
  BY DEF Upserts
<1>4. ASSUME NEW u \in Title PROVE added'[u].id = None
  <2>1. added'[u] = added[u] \/ added'[u] = With(added[u], u, new, force)
    BY DEF Upserts
  <2>2. With(added[u], u, new, force).id = added[u].id
    BY DEF With
  <2>3. QED
    BY <2>1, <2>2
<1>5. QED
  BY <1>1, <1>2, <1>3, <1>4

LEMMA SubmitMerges ==
    ASSUME SubmitInv, NEW t \in Tab, Merge(t)
    PROVE  SubmitInv'
<1> DEFINE p == submit[t].paste
<1>1. p \in Paste
  BY DEF Merge, SubmitInv, SubmitOK
<1>2. edition' = edition + 1 /\ Upserts(Entries(p.lines), p.force)
  BY DEF Merge
<1>3. /\ \A u \in Tab \ {t} : submit'[u] = submit[u]
      /\ submit'[t].step = "merged" /\ submit'[t].paste = p /\ submit'[t].edition = edition + 1
      /\ submit' = [u \in Tab |-> [step |-> submit'[u].step, paste |-> submit'[u].paste,
                                  edition |-> submit'[u].edition, promise |-> submit'[u].promise]]
  <2> DEFINE s == [step |-> "merged", paste |-> p, edition |-> edition + 1,
                   promise |-> None]
  <2>1. submit' = [submit EXCEPT ![t] = s]
    BY DEF Merge
  <2>2. s.step = "merged" /\ s.paste = p /\ s.edition = edition + 1
        /\ s = [step |-> s.step, paste |-> s.paste, edition |-> s.edition, promise |-> s.promise]
    OBVIOUS
  <2> HIDE DEF s
  <2>3. QED
    BY <2>1, <2>2 DEF SubmitInv, SubmitOK
<1>4. SubmitOK'
  <2> HIDE DEF p
  <2>1. /\ Len(entries') \in Nat /\ entries' = [i \in 1..Len(entries') |-> entries'[i]]
        /\ added' = [u \in Title |-> added'[u]] /\ \A u \in Title : added'[u].id = None
    BY <1>2, UpsertsKeep DEF SubmitInv, SubmitOK
  <2>2. QED
    <3>1. edition \in Nat /\ edition' \in Nat
      BY <1>2 DEF SubmitInv, SubmitOK
    <3>2. ASSUME NEW u \in Tab
          PROVE  /\ submit'[u].step \in StepNames
                 /\ submit'[u].step # "idle" => submit'[u].paste \in Paste
                 /\ submit'[u].edition \in Nat /\ submit'[u].edition <= edition'
      <4>1. CASE u = t
        BY <1>1, <1>2, <1>3, <3>1, <4>1 DEF StepNames
      <4>2. CASE u # t
        <5>1. /\ submit[u].step \in StepNames
              /\ submit[u].step # "idle" => submit[u].paste \in Paste
              /\ submit[u].edition \in Nat /\ submit[u].edition <= edition
          BY DEF SubmitInv, SubmitOK
        <5>2. QED
          BY <1>2, <1>3, <3>1, <4>2, <5>1
      <4>3. QED
        BY <4>1, <4>2
    <3>3. QED
      BY <1>3, <2>1, <3>1, <3>2 DEF SubmitOK
<1>5. ASSUME NEW u \in Tab PROVE ServedOne(submit'[u], edition', Served', Lone')
  <2>1. CASE u # t
    <3>1. submit[u].edition \in Nat /\ submit[u].edition <= edition /\ edition \in Nat
      BY DEF SubmitInv, SubmitOK
    <3>2. submit'[u].edition = submit[u].edition /\ edition' = edition + 1
      BY <1>2, <1>3, <2>1
    <3> HIDE DEF p
    <3>3. submit'[u].edition # edition'
      BY <3>1, <3>2
    <3>4. QED
      BY <3>3 DEF ServedOne
  <2>2. CASE u = t
    <3>0. submit'[u].paste = p
      BY <1>3, <2>2
    <3> SUFFICES ASSUME NEW i \in DOMAIN p.lines, Counts(p, i),
                        <<p.lines[i].title, p.lines[i].diff>> \in Lone'
                 PROVE  Served'[<<p.lines[i].title, p.lines[i].diff>>] = p.lines[i].const
      BY <3>0 DEF ServedOne
    <3> DEFINE x == <<p.lines[i].title, p.lines[i].diff>>
    <3>1. x \in DOMAIN Entries(p.lines) /\ x \in Title \X Field /\ Entries(p.lines)[x] = p.lines[i].const
      BY <1>1, LastLineCounts DEF Counts
    <3>2. p.lines[i].const # NoConst /\ (p.force \/ Upstream[x] = NoConst)
      BY DEF Counts, Valid
    <3>3. p.lines[i].title \in Title /\ p.lines[i].diff \in Field
      BY <3>1
    <3>4. Served'[x] = Entries(p.lines)[x]
      <4> DEFINE new == Entries(p.lines)
                 tt == p.lines[i].title
                 ff == p.lines[i].diff
      <4>1. /\ tt \in Title /\ ff \in Field /\ Upserts(new, p.force) /\ <<tt, ff>> \in DOMAIN new
            /\ new[<<tt, ff>>] # NoConst /\ <<tt, ff>> \in Lone'
            /\ p.force \/ Upstream[<<tt, ff>>] = NoConst
        BY <1>2, <3>1, <3>2, <3>3
      <4> HIDE DEF new, tt, ff, p
      <4>2. Served'[<<tt, ff>>] = new[<<tt, ff>>]
        BY <4>1, MergeGives DEF SubmitInv, SubmitOK
      <4>3. QED
        BY <4>2 DEF new, tt, ff
    <3>5. QED
      BY <3>1, <3>4
  <2>3. QED
    BY <2>1, <2>2
<1>6. QED
  BY <1>4, <1>5 DEF SubmitInv

LEMMA SubmitStep == ASSUME SubmitInv, [Next]_vars PROVE SubmitInv'
<1> USE DEF server
<1>1. ASSUME UNCHANGED <<entries, added, edition, submit>> PROVE SubmitInv'
  BY <1>1, SubmitKept DEF SubmitInv, SubmitOK
<1>2. CASE UNCHANGED vars
  BY <1>1, <1>2 DEF vars
<1>3. ASSUME NEW t \in Tab, Open(t) \/ Leave(t) PROVE SubmitInv'
  BY <1>1, <1>3 DEF Open, Leave
<1>4. ASSUME NEW t \in Tab, Reload(t) PROVE SubmitInv'
  BY <1>4, SubmitSet DEF Reload, NoSubmit
<1>5. ASSUME NEW k \in Call, Serve(k) PROVE SubmitInv'
  BY <1>1, <1>5 DEF Serve
<1>6. ASSUME NEW k \in Call, NEW r, Settle(k, r), UNCHANGED <<entries, added, edition>>
      PROVE  SubmitInv'
  <2>1. submit' = [t \in Tab |-> [step |-> submit[t].step, paste |-> submit[t].paste,
                                 edition |-> submit[t].edition,
                                 promise |-> Settled(submit[t].promise, k, r)]]
    BY <1>6 DEF Settle, SubmitInv, SubmitOK
  <2>2. QED
    BY <1>6, <2>1, SubmitKept
<1>7. ASSUME NEW k \in Call, Arrive(k) \/ FallBack(k) \/ Fail(k) PROVE SubmitInv'
  BY <1>6, <1>7 DEF Arrive, FallBack, Fail
<1>8. ASSUME NEW t \in Tab, Submit(t) PROVE SubmitInv'
  BY <1>8, SubmitSet DEF Submit
<1>9. ASSUME NEW t \in Tab, Merge(t) PROVE SubmitInv'
  BY <1>9, SubmitMerges
<1>10. ASSUME NEW t \in Tab, MergeFails(t) PROVE SubmitInv'
  BY <1>10, SubmitSet DEF MergeFails, NoSubmit
<1>11. ASSUME NEW t \in Tab, Refresh(t) PROVE SubmitInv'
  <2> DEFINE q == Fetch(t, TRUE).memo.promise
             s == [step |-> "refreshing", paste |-> submit[t].paste,
                   edition |-> submit[t].edition, promise |-> q]
  <2>1. submit' = [submit EXCEPT ![t] = s]
    BY <1>11 DEF Refresh
  <2>2. submit[t].step = "merged" /\ UNCHANGED <<entries, added, edition>>
    BY <1>11 DEF Refresh
  <2> HIDE DEF q
  <2>3. QED
    BY <2>1, <2>2, SubmitKept DEF SubmitInv, SubmitOK
<1>12. CASE Publish
  <2>1. edition' = edition + 1 /\ submit' = submit /\ UNCHANGED <<entries, added>>
    BY <1>12 DEF Publish
  <2>2. SubmitOK'
    BY <2>1 DEF SubmitInv, SubmitOK
  <2>3. \A t \in Tab : submit'[t].edition # edition'
    BY <2>1 DEF SubmitInv, SubmitOK
  <2>4. \A t \in Tab : ServedOne(submit'[t], edition', Served', Lone')
    BY <2>3 DEF ServedOne
  <2>5. QED
    BY <2>2, <2>4 DEF SubmitInv
<1>13. CASE Tick
  BY <1>1, <1>13 DEF Tick
<1>14. CASE Load
  BY <1>1, <1>14 DEF Load
<1>15. QED
  BY <1>2, <1>3, <1>4, <1>5, <1>7, <1>8, <1>9, <1>10, <1>11, <1>12, <1>13, <1>14 DEF Next

LEMMA SubmitInit == Init => SubmitInv
<1> SUFFICES ASSUME Init PROVE SubmitInv
  OBVIOUS
<1>1. entries \in Seq(Entry)
  BY FilesAssumption DEF Init
<1> HIDE DEF Entry
<1>2. Len(entries) \in Nat /\ entries = [i \in 1..Len(entries) |-> entries[i]]
  BY <1>1
<1>3. added = [t \in Title |-> added[t]] /\ \A t \in Title : added[t].id = None
  BY DEF Init, Blank
<1>4. SubmitOK
  BY <1>2, <1>3 DEF Init, NoSubmit, SubmitOK, StepNames
<1>5. \A t \in Tab : submit[t].step = "idle"
  BY DEF Init, NoSubmit
<1>6. QED
  BY <1>4, <1>5 DEF SubmitInv, ServedOne

\* When the page reports success and the server's catalogue has not changed
\* since, each chart of the preview has its last constant there, if upstream
\* had none or the paste was forced, unless another entry of the song has one:
\* whatever entries the operator has, and however many pastes came before
\* (MergeOverrideSongs, applyMusicExOverrides).
THEOREM SubmitsAreServed == Spec => []SubmittedIsServed
<1>1. Spec => []SubmitInv
  BY SubmitInit, SubmitStep, PTL DEF Spec
<1>2. SubmitInv => SubmittedIsServed
  <2> SUFFICES ASSUME SubmitInv, NEW t \in Tab, Reports(submit[t]),
                      NEW i \in DOMAIN submit[t].paste.lines, Counts(submit[t].paste, i),
                      OneEntry(<<submit[t].paste.lines[i].title, submit[t].paste.lines[i].diff>>)
               PROVE  Served[<<submit[t].paste.lines[i].title, submit[t].paste.lines[i].diff>>]
                          = submit[t].paste.lines[i].const
    BY DEF SubmittedIsServed
  <2> DEFINE p == submit[t].paste
             x == <<p.lines[i].title, p.lines[i].diff>>
  <2>1. p \in Paste
    BY DEF SubmitInv, SubmitOK, Reports
  <2>2. x \in Lone
    BY <2>1, LastLineCounts DEF Counts, Lone
  <2>3. QED
    BY <2>2 DEF SubmitInv, ServedOne, Reports
<1>3. QED
  BY <1>1, <1>2, PTL
-----------------------------------------------------------------------------
(* How old what is kept can be. *)

\* Result p, if it took the place of no error, was the server's at most
\* limit ticks before time c.
Made(p, c, limit) ==
    /\ p = [edition |-> p.edition, at |-> p.at, stale |-> p.stale]
    /\ p.at \in Nat
    /\ ~p.stale => c - p.at <= limit

Fresh(p, c, limit) == IsResult(p) => Made(p, c, limit)

CallsFresh ==
    \A k \in Call : calls[k] # None =>
        /\ calls[k] = [tab |-> calls[k].tab, answer |-> calls[k].answer]
        /\ calls[k].answer # None =>
              calls[k].answer.at \in Nat /\ now - calls[k].answer.at <= HttpAge - 1

KeptFresh(entry) ==
    entry # None =>
        /\ entry = [promise |-> entry.promise, cachedAt |-> entry.cachedAt]
        /\ entry.cachedAt \in Nat /\ entry.cachedAt <= now
        /\ Fresh(entry.promise, entry.cachedAt, HttpAge - 1)

StoredFresh ==
    storage # None =>
        /\ storage.cachedAt \in Nat /\ storage.cachedAt <= now
        /\ Made(storage.result, storage.cachedAt, HttpAge - 1)

PageFresh(p) ==
    p # None =>
        /\ p = [promise |-> p.promise, since |-> p.since]
        /\ p.since \in Nat /\ p.since <= now
        /\ Fresh(p.promise, p.since, (MaxAge - 1) + (HttpAge - 1))

FreshInv ==
    /\ now \in Nat
    /\ httpCache # None => httpCache.at \in Nat
    /\ CallsFresh /\ StoredFresh
    /\ calls = [k \in Call |-> calls[k]]
    /\ memory = [t \in Tab |-> memory[t]] /\ \A t \in Tab : KeptFresh(memory[t])
    /\ page = [t \in Tab |-> page[t]] /\ \A t \in Tab : PageFresh(page[t])

LEMMA PendingIsFresh == ASSUME NEW k, NEW c, NEW limit PROVE Fresh([call |-> k], c, limit)
BY DEF Fresh, IsResult

LEMMA ErrorIsFresh == ASSUME NEW c, NEW limit PROVE Fresh([error |-> TRUE], c, limit)
BY DEF Fresh, IsResult

\* More time is allowed later.
LEMMA FreshLater ==
    ASSUME NEW p, NEW c \in Int, NEW limit \in Int, Fresh(p, c, limit),
           NEW d \in Int, NEW more \in Int, d - c <= more - limit
    PROVE  Fresh(p, d, more)
BY DEF Fresh, Made

LEMMA SettledIsFresh ==
    ASSUME NEW p, NEW k, NEW r, NEW c, NEW limit, Fresh(p, c, limit),
           Fresh(r, c, limit)
    PROVE  Fresh(Settled(p, k, r), c, limit)
BY DEF Settled

\* What fetchMusicExJson gives a page that opens, and what it leaves.
LEMMA FetchIsFresh ==
    ASSUME FreshInv, NEW t \in Tab, NEW force \in BOOLEAN, Fetches(t, force)
    PROVE  /\ Fresh(Fetch(t, FALSE).memo.promise, now, (MaxAge - 1) + (HttpAge - 1))
           /\ memory' = [u \in Tab |-> memory'[u]] /\ \A u \in Tab : KeptFresh(memory'[u])
           /\ calls' = [k \in Call |-> calls'[k]]
           /\ now' = now => CallsFresh'
<1> DEFINE cached == httpCache # None /\ now - httpCache.at < HttpAge
           memo == [promise |-> [call |-> NextCall], cachedAt |-> now]
           call == [tab |-> t, answer |-> IF cached THEN httpCache ELSE None]
           full == (MaxAge - 1) + (HttpAge - 1)
<1>1. /\ now \in Nat /\ MaxAge \in Nat /\ HttpAge \in Nat /\ MaxAge - 1 \in Int
      /\ HttpAge - 1 \in Int /\ full \in Int
  BY AgesAssumption DEF FreshInv
<1>2. KeptFresh(memo)
  <2>1. memo.promise = [call |-> NextCall] /\ memo.cachedAt = now
        /\ memo = [promise |-> memo.promise, cachedAt |-> memo.cachedAt]
    OBVIOUS
  <2> HIDE DEF memo
  <2>2. QED
    BY <1>1, <2>1, PendingIsFresh DEF KeptFresh
<1>3. Young(storage) => KeptFresh(Remembered)
  <2>1. Remembered.promise = storage.result /\ Remembered.cachedAt = storage.cachedAt
        /\ Remembered = [promise |-> Remembered.promise, cachedAt |-> Remembered.cachedAt]
    BY DEF Remembered
  <2>2. QED
    BY <2>1 DEF Young, FreshInv, StoredFresh, KeptFresh, Fresh
<1>4. ASSUME NEW entry, KeptFresh(entry), entry # None, now - entry.cachedAt < MaxAge
      PROVE  Fresh(entry.promise, now, full)
  <2>1. entry.cachedAt \in Int /\ Fresh(entry.promise, entry.cachedAt, HttpAge - 1)
    BY <1>4 DEF KeptFresh
  <2>2. now - entry.cachedAt <= full - (HttpAge - 1)
    BY <1>1, <1>4, <2>1
  <2>3. QED
    BY <1>1, <2>1, <2>2, FreshLater
<1>5. Young(storage) => Fresh(Remembered.promise, now, full)
  <2>1. Remembered.promise = storage.result /\ Remembered.cachedAt = storage.cachedAt
    BY DEF Remembered
  <2>2. CASE Young(storage)
    <3>1. /\ storage.cachedAt \in Int /\ Fresh(storage.result, storage.cachedAt, HttpAge - 1)
          /\ now - storage.cachedAt < MaxAge
      BY <2>2 DEF Young, FreshInv, StoredFresh, Fresh
    <3>2. now - storage.cachedAt <= full - (HttpAge - 1)
      BY <1>1, <3>1
    <3>3. QED
      BY <1>1, <2>1, <3>1, <3>2, FreshLater
  <2>3. QED
    BY <2>2
<1>6. \A g \in BOOLEAN :
        \/ Young(memory[t]) /\ Fetch(t, g) = [memo |-> memory[t], memory |-> memory, calls |-> calls]
        \/ Young(storage) /\ Fetch(t, g) = [memo |-> Remembered,
                memory |-> [memory EXCEPT ![t] = Remembered], calls |-> calls]
        \/ Fetch(t, g) = [memo |-> memo, memory |-> [memory EXCEPT ![t] = memo],
                          calls |-> [calls EXCEPT ![NextCall] = call]]
  BY Zenon DEF Fetch
<1>7. Fresh(Fetch(t, FALSE).memo.promise, now, full)
  <2>1. \/ Fetch(t, FALSE).memo = memory[t] /\ Young(memory[t])
        \/ Fetch(t, FALSE).memo = Remembered /\ Young(storage)
        \/ Fetch(t, FALSE).memo = memo
    <3> DEFINE f == Fetch(t, FALSE)
               n == [calls EXCEPT ![NextCall] = call]
               m == [memory EXCEPT ![t] = Remembered]
               o == [memory EXCEPT ![t] = memo]
    <3>1. \/ Young(memory[t]) /\ f = [memo |-> memory[t], memory |-> memory, calls |-> calls]
          \/ Young(storage) /\ f = [memo |-> Remembered, memory |-> m, calls |-> calls]
          \/ f = [memo |-> memo, memory |-> o, calls |-> n]
      BY <1>6
    <3> HIDE DEF f, n, m, o, memo
    <3>2. \/ f.memo = memory[t] /\ Young(memory[t])
          \/ f.memo = Remembered /\ Young(storage)
          \/ f.memo = memo
      BY <3>1
    <3>3. QED
      BY <3>2 DEF f
  <2>2. Young(memory[t]) => Fresh(memory[t].promise, now, full)
    BY <1>4 DEF Young, FreshInv
  <2>3. Fresh(memo.promise, now, full)
    BY PendingIsFresh
  <2> HIDE DEF memo
  <2>4. QED
    BY <1>5, <2>1, <2>2, <2>3
<1>8. memory' = Fetch(t, force).memory /\ calls' = Fetch(t, force).calls
  BY DEF Fetches
<1>9. /\ \/ memory' = memory
         \/ Young(storage) /\ memory' = [memory EXCEPT ![t] = Remembered]
         \/ memory' = [memory EXCEPT ![t] = memo]
      /\ (calls' = calls) \/ (calls' = [calls EXCEPT ![NextCall] = call])
  <2> DEFINE f == Fetch(t, force)
             n == [calls EXCEPT ![NextCall] = call]
             m == [memory EXCEPT ![t] = Remembered]
             o == [memory EXCEPT ![t] = memo]
  <2>1. \/ Young(memory[t]) /\ f = [memo |-> memory[t], memory |-> memory, calls |-> calls]
        \/ Young(storage) /\ f = [memo |-> Remembered, memory |-> m, calls |-> calls]
        \/ f = [memo |-> memo, memory |-> o, calls |-> n]
    BY <1>6
  <2>2. memory' = f.memory /\ calls' = f.calls
    BY <1>8
  <2> HIDE DEF f, n, m, o, memo
  <2>3. /\ \/ memory' = memory
           \/ Young(storage) /\ memory' = m
           \/ memory' = o
        /\ (calls' = calls) \/ (calls' = n)
    <3>1. CASE f = [memo |-> memory[t], memory |-> memory, calls |-> calls]
      BY <2>2, <3>1
    <3>2. CASE Young(storage) /\ f = [memo |-> Remembered, memory |-> m, calls |-> calls]
      BY <2>2, <3>2
    <3>3. CASE f = [memo |-> memo, memory |-> o, calls |-> n]
      BY <2>2, <3>3
    <3>4. QED
      BY <2>1, <3>1, <3>2, <3>3
  <2>4. QED
    BY <2>3 DEF n, m, o
<1>10. calls' = calls \/ calls' = [calls EXCEPT ![NextCall] = call]
  BY <1>9
<1>11. memory' = [u \in Tab |-> memory'[u]] /\ \A u \in Tab : KeptFresh(memory'[u])
  <2> HIDE DEF memo
  <2>1. QED
    BY <1>2, <1>3, <1>9 DEF FreshInv
<1>12. calls' = [k \in Call |-> calls'[k]]
  <2> HIDE DEF call
  <2>1. QED
    BY <1>10 DEF FreshInv
<1>13. ASSUME now' = now PROVE CallsFresh'
  <2>1. /\ call = [tab |-> call.tab, answer |-> call.answer]
        /\ call.answer # None => call.answer.at \in Nat /\ now - call.answer.at <= HttpAge - 1
    <3>1. call.answer = IF cached THEN httpCache ELSE None
      OBVIOUS
    <3>2. cached => httpCache.at \in Nat /\ now - httpCache.at <= HttpAge - 1
      BY <1>1 DEF FreshInv
    <3>3. QED
      BY <3>1, <3>2
  <2> HIDE DEF call
  <2>2. \A k \in Call : calls'[k] = calls[k] \/ calls'[k] = call
    BY <1>10 DEF FreshInv
  <2>3. QED
    BY <1>13, <2>1, <2>2 DEF FreshInv, CallsFresh
<1>14. QED
  BY <1>7, <1>11, <1>12, <1>13

\* A promise settled with r in all the tabs.
LEMMA SettleIsFresh ==
    ASSUME FreshInv, NEW k \in Call, NEW r, Settle(k, r), now' = now,
           \A c \in Nat : c <= now => Fresh(r, c, HttpAge - 1)
    PROVE  /\ page' = [t \in Tab |-> page'[t]] /\ \A t \in Tab : PageFresh(page'[t])
           /\ calls' = [j \in Call |-> calls'[j]] /\ CallsFresh'
           /\ MemorySettles(k, r) =>
                memory' = [t \in Tab |-> memory'[t]] /\ \A t \in Tab : KeptFresh(memory'[t])
<1> DEFINE full == (MaxAge - 1) + (HttpAge - 1)
<1>1. /\ now \in Nat /\ HttpAge - 1 \in Int /\ full \in Int /\ HttpAge - 1 <= full
  BY AgesAssumption DEF FreshInv
<1>2. /\ page' = [t \in Tab |-> IF page[t] = None THEN None
                                ELSE [page[t] EXCEPT !.promise = Settled(page[t].promise, k, r)]]
      /\ calls' = [calls EXCEPT ![k] = None]
  BY DEF Settle
<1>3. ASSUME NEW t \in Tab PROVE PageFresh(page'[t])
  <2>1. CASE page[t] = None
    BY <1>2, <2>1 DEF PageFresh
  <2>2. CASE page[t] # None
    <3> DEFINE p == page[t]
               q == Settled(p.promise, k, r)
    <3>1. /\ p = [promise |-> p.promise, since |-> p.since]
          /\ p.since \in Nat /\ p.since <= now /\ Fresh(p.promise, p.since, full)
      BY <2>2 DEF FreshInv, PageFresh
    <3>2. Fresh(q, p.since, full)
      <4>1. Fresh(r, p.since, HttpAge - 1)
        BY <3>1
      <4>2. Fresh(r, p.since, full)
        BY <1>1, <3>1, <4>1, FreshLater
      <4>3. QED
        BY <3>1, <4>2, SettledIsFresh
    <3>3. page'[t] = [p EXCEPT !.promise = q]
      BY <1>2, <2>2
    <3> HIDE DEF p, q
    <3>4. page'[t] = [promise |-> q, since |-> p.since]
      BY <3>1, <3>3
    <3>5. QED
      BY <3>1, <3>2, <3>4 DEF PageFresh
  <2>3. QED
    BY <2>1, <2>2
<1>4. CallsFresh' /\ calls' = [j \in Call |-> calls'[j]]
  BY <1>2 DEF FreshInv, CallsFresh
<1>5. ASSUME MemorySettles(k, r), NEW t \in Tab PROVE KeptFresh(memory'[t])
  <2>1. memory'[t] = IF memory[t] = None THEN None
                     ELSE [memory[t] EXCEPT !.promise = Settled(memory[t].promise, k, r)]
    BY <1>5 DEF MemorySettles
  <2>2. CASE memory[t] = None
    BY <2>1, <2>2 DEF KeptFresh
  <2>3. CASE memory[t] # None
    <3> DEFINE e == memory[t]
               q == Settled(e.promise, k, r)
    <3>1. /\ e = [promise |-> e.promise, cachedAt |-> e.cachedAt]
          /\ e.cachedAt \in Nat /\ e.cachedAt <= now
          /\ Fresh(e.promise, e.cachedAt, HttpAge - 1)
      BY <2>3 DEF FreshInv, KeptFresh
    <3>2. Fresh(q, e.cachedAt, HttpAge - 1)
      BY <3>1, SettledIsFresh
    <3>3. memory'[t] = [e EXCEPT !.promise = q]
      BY <2>1, <2>3
    <3> HIDE DEF e, q
    <3>4. memory'[t] = [promise |-> q, cachedAt |-> e.cachedAt]
      BY <3>1, <3>3
    <3>5. QED
      BY <3>1, <3>2, <3>4 DEF KeptFresh
  <2>4. QED
    BY <2>2, <2>3
<1>6. MemorySettles(k, r) => memory' = [t \in Tab |-> memory'[t]]
  BY DEF MemorySettles
<1>7. page' = [t \in Tab |-> page'[t]]
  BY <1>2
<1>8. QED
  BY <1>3, <1>4, <1>5, <1>6, <1>7

LEMMA FreshStep == ASSUME FreshInv, [Next]_vars PROVE FreshInv'
<1> DEFINE full == (MaxAge - 1) + (HttpAge - 1)
<1>a. ASSUME UNCHANGED <<now, httpCache, storage, memory, calls, page>> PROVE FreshInv'
  BY <1>a DEF FreshInv, CallsFresh, StoredFresh, KeptFresh, PageFresh
<1>b. ASSUME now' = now, NEW e, KeptFresh(e) PROVE KeptFresh(e)'
  BY <1>b DEF KeptFresh
<1>1. CASE UNCHANGED vars
  BY <1>a, <1>1 DEF vars
<1>2. ASSUME NEW t \in Tab, Open(t) PROVE FreshInv'
  <2> DEFINE q == Fetch(t, FALSE).memo.promise
             p == [promise |-> q, since |-> now]
  <2>1. Fetches(t, FALSE) /\ UNCHANGED <<now, httpCache, storage>>
        /\ page' = [page EXCEPT ![t] = p]
    BY <1>2 DEF Open
  <2>2. Fresh(q, now, full) /\ now \in Nat
    BY <2>1, FetchIsFresh DEF FreshInv
  <2>3. p.promise = q /\ p.since = now /\ p = [promise |-> p.promise, since |-> p.since]
    OBVIOUS
  <2> HIDE DEF p, q
  <2>4. PageFresh(p)
    BY <2>2, <2>3 DEF PageFresh
  <2>5. /\ memory' = [u \in Tab |-> memory'[u]] /\ \A u \in Tab : KeptFresh(memory'[u])
        /\ calls' = [k \in Call |-> calls'[k]] /\ CallsFresh'
    BY <2>1, FetchIsFresh
  <2>6. page' = [u \in Tab |-> page'[u]] /\ \A u \in Tab : PageFresh(page'[u])
    BY <2>1, <2>4 DEF FreshInv
  <2>7. QED
    BY <2>1, <2>5, <2>6 DEF FreshInv, StoredFresh, KeptFresh, PageFresh
<1>3. ASSUME NEW t \in Tab, Leave(t) PROVE FreshInv'
  BY <1>3 DEF Leave, FreshInv, CallsFresh, StoredFresh, KeptFresh, PageFresh
<1>4. ASSUME NEW t \in Tab, Reload(t) PROVE FreshInv'
  BY <1>4 DEF Reload, FreshInv, CallsFresh, StoredFresh, KeptFresh, PageFresh
<1>5. ASSUME NEW k \in Call, Serve(k) PROVE FreshInv'
  <2> DEFINE answer == [edition |-> edition, at |-> now]
             c == [calls[k] EXCEPT !.answer = answer]
  <2>1. /\ calls[k] # None /\ calls' = [calls EXCEPT ![k] = c] /\ httpCache' = answer
        /\ UNCHANGED <<now, storage, memory, page>>
    BY <1>5 DEF Serve
  <2>2. answer.at = now /\ now \in Nat
    BY DEF FreshInv
  <2> HIDE DEF answer
  <2>3. c = [tab |-> c.tab, answer |-> answer] /\ c.answer = answer
    BY <2>1 DEF FreshInv, CallsFresh
  <2> HIDE DEF c
  <2>4. CallsFresh'
    BY <2>1, <2>2, <2>3, AgesAssumption DEF FreshInv, CallsFresh
  <2>5. QED
    BY <2>1, <2>2, <2>4 DEF FreshInv, StoredFresh, KeptFresh, PageFresh
<1>6. ASSUME NEW k \in Call, Arrive(k) PROVE FreshInv'
  <2> DEFINE r == [edition |-> calls[k].answer.edition, at |-> calls[k].answer.at, stale |-> FALSE]
             e == [result |-> r, cachedAt |-> now]
  <2>1. /\ Settle(k, r) /\ MemorySettles(k, r) /\ UNCHANGED <<now, httpCache>>
        /\ storage' \in {e, storage} /\ calls[k] # None /\ calls[k].answer # None
    BY <1>6 DEF Arrive
  <2>2. /\ r.at \in Nat /\ now - r.at <= HttpAge - 1 /\ now \in Nat
        /\ r = [edition |-> r.edition, at |-> r.at, stale |-> r.stale]
    BY <2>1 DEF FreshInv, CallsFresh
  <2>3. e.result = r /\ e.cachedAt = now
    OBVIOUS
  <2> HIDE DEF r
  <2>4. \A c \in Nat : c <= now => Made(r, c, HttpAge - 1)
    BY <2>2, AgesAssumption DEF Made
  <2> HIDE DEF e
  <2>5. StoredFresh'
    <3>1. CASE storage' = storage
      BY <2>1, <3>1 DEF FreshInv, StoredFresh
    <3>2. CASE storage' = e
      BY <2>1, <2>2, <2>3, <2>4, <3>2 DEF StoredFresh
    <3>3. QED
      BY <2>1, <3>1, <3>2
  <2>6. \A c \in Nat : c <= now => Fresh(r, c, HttpAge - 1)
    BY <2>4 DEF Fresh
  <2>7. /\ page' = [t \in Tab |-> page'[t]] /\ \A t \in Tab : PageFresh(page'[t])
        /\ calls' = [j \in Call |-> calls'[j]] /\ CallsFresh'
        /\ memory' = [t \in Tab |-> memory'[t]] /\ \A t \in Tab : KeptFresh(memory'[t])
    BY <2>1, <2>6, SettleIsFresh
  <2>8. QED
    BY <2>1, <2>5, <2>7 DEF FreshInv, KeptFresh, PageFresh
<1>7. ASSUME NEW k \in Call, FallBack(k) PROVE FreshInv'
  <2> DEFINE s == storage.result
             r == [s EXCEPT !.stale = TRUE]
  <2>1. /\ Settle(k, r) /\ MemorySettles(k, r) /\ UNCHANGED <<now, httpCache, storage>>
        /\ storage # None
    BY <1>7 DEF FallBack
  <2>2. s = [edition |-> s.edition, at |-> s.at, stale |-> s.stale] /\ s.at \in Nat
    BY <2>1 DEF FreshInv, StoredFresh, Made
  <2> HIDE DEF s
  <2>3. r = [edition |-> s.edition, at |-> s.at, stale |-> TRUE]
    <3>1. \A d : [s EXCEPT !.stale = d] = [edition |-> s.edition, at |-> s.at, stale |-> d]
      BY <2>2
    <3>2. QED
      BY <3>1, Zenon
  <2>4. r.stale /\ r.at \in Nat /\ r = [edition |-> r.edition, at |-> r.at, stale |-> r.stale]
    BY <2>2, <2>3
  <2> HIDE DEF r
  <2>5. \A c \in Nat : c <= now => Fresh(r, c, HttpAge - 1)
    BY <2>4 DEF Fresh, Made
  <2>6. /\ page' = [t \in Tab |-> page'[t]] /\ \A t \in Tab : PageFresh(page'[t])
        /\ calls' = [j \in Call |-> calls'[j]] /\ CallsFresh'
        /\ memory' = [t \in Tab |-> memory'[t]] /\ \A t \in Tab : KeptFresh(memory'[t])
    BY <2>1, <2>5, SettleIsFresh
  <2>7. QED
    BY <2>1, <2>6 DEF FreshInv, StoredFresh, KeptFresh, PageFresh
<1>8. ASSUME NEW k \in Call, Fail(k) PROVE FreshInv'
  <2> DEFINE r == [error |-> TRUE]
             u == calls[k].tab
  <2>1. /\ Settle(k, r) /\ UNCHANGED <<now, httpCache, storage>>
        /\ memory' = [memory EXCEPT ![u] = None]
    BY <1>8 DEF Fail
  <2>2. \A c \in Nat : c <= now => Fresh(r, c, HttpAge - 1)
    BY ErrorIsFresh
  <2> HIDE DEF r, u
  <2>3. /\ page' = [t \in Tab |-> page'[t]] /\ \A t \in Tab : PageFresh(page'[t])
        /\ calls' = [j \in Call |-> calls'[j]] /\ CallsFresh'
    BY <2>1, <2>2, SettleIsFresh
  <2>4. memory' = [t \in Tab |-> memory'[t]] /\ \A t \in Tab : KeptFresh(memory'[t])
    BY <2>1 DEF FreshInv, KeptFresh
  <2>5. QED
    BY <2>1, <2>3, <2>4 DEF FreshInv, StoredFresh, KeptFresh, PageFresh
<1>9. ASSUME NEW t \in Tab, Submit(t) \/ Merge(t) \/ MergeFails(t) PROVE FreshInv'
  BY <1>a, <1>9 DEF Submit, Merge, MergeFails
<1>10. ASSUME NEW t \in Tab, Refresh(t) PROVE FreshInv'
  <2>1. Fetches(t, TRUE) /\ UNCHANGED <<now, httpCache, storage, page>>
    BY <1>10 DEF Refresh
  <2>2. /\ memory' = [u \in Tab |-> memory'[u]] /\ \A u \in Tab : KeptFresh(memory'[u])
        /\ calls' = [k \in Call |-> calls'[k]] /\ CallsFresh'
    BY <2>1, FetchIsFresh
  <2>3. QED
    BY <2>1, <2>2 DEF FreshInv, StoredFresh, KeptFresh, PageFresh
<1>11. CASE Publish
  BY <1>a, <1>11 DEF Publish
<1>12. CASE Tick
  <2>1. /\ now' = now + 1 /\ \A k \in Call : calls[k] = None
        /\ UNCHANGED <<httpCache, storage, memory, calls, page>>
    BY <1>12 DEF Tick, UnderWay
  <2>2. QED
    BY <2>1 DEF FreshInv, CallsFresh, StoredFresh, KeptFresh, PageFresh
<1>13. CASE Load
  BY <1>a, <1>13 DEF Load
<1>14. QED
  BY <1>1, <1>2, <1>3, <1>4, <1>5, <1>6, <1>7, <1>8, <1>9, <1>10, <1>11, <1>12, <1>13 DEF Next

LEMMA FreshInit == Init => FreshInv
BY DEF Init, FreshInv, CallsFresh, StoredFresh, KeptFresh, PageFresh

\* A catalogue a page is given, unless it took the place of an error, was the
\* server's less than MaxAge and HttpAge before the page opened.
THEOREM CataloguesAreFresh == Spec => []GivenIsFresh
<1>1. Spec => []FreshInv
  BY FreshInit, FreshStep, PTL DEF Spec
<1>2. FreshInv => GivenIsFresh
  BY DEF FreshInv, PageFresh, Fresh, Made, GivenIsFresh
<1>3. QED
  BY <1>1, <1>2, PTL

-----------------------------------------------------------------------------
(* Which catalogue follows which. *)

\* A set of natural numbers has a least one.
LEMMA LeastOf ==
    ASSUME NEW S, S \subseteq Nat, S # {}
    PROVE  \E x \in S : \A y \in S : x <= y
<1> DEFINE R == OpToRel(<, Nat)
<1>1. \E x \in S : \A y \in S : ~(<<y, x>> \in R)
  <2>1. IsWellFoundedOn(R, Nat)
    BY NatLessThanWellFounded
  <2> HIDE DEF R
  <2>2. QED
    BY <2>1, WFMin
<1>2. \A x, y \in S : <<y, x>> \in R <=> y < x
  BY DEF OpToRel
<1> HIDE DEF R
<1>3. PICK x \in S : \A y \in S : ~(<<y, x>> \in R)
  BY <1>1
<1>4. ASSUME NEW y \in S PROVE x <= y
  <2>1. ~(y < x) /\ x \in Nat /\ y \in Nat
    BY <1>2, <1>3
  <2>2. QED
    BY <2>1
<1>5. QED
  BY <1>4

\* Two calls under way are more than one.
LEMMA TwoAreMore ==
    ASSUME NEW S, NEW a, NEW b, S \subseteq {a, b}, a \in S, b \in S, a # b
    PROVE  Cardinality(S) > 1
<1>1. S = {a} \cup {b}
  OBVIOUS
<1>2. IsFiniteSet({a}) /\ Cardinality({a}) = 1
  BY FS_Singleton
<1>3. Cardinality({a} \cup {b}) = IF b \in {a} THEN Cardinality({a}) ELSE Cardinality({a}) + 1
  BY <1>2, FS_AddElement
<1>4. QED
  BY <1>1, <1>2, <1>3

\* The largest of at most three numbers.
LEMMA LargestOfThree ==
    ASSUME NEW a \in Int, NEW b \in Int, NEW c \in Int, NEW S, S \subseteq {a, b, c}, a \in S
    PROVE  Max(S) \in S /\ \A y \in S : y <= Max(S)
<1>1. \E x \in S : \A y \in S : x >= y
  OBVIOUS
<1>2. QED
  BY <1>1 DEF Max

\* The edition of the newest catalogue there has been.
Newest == IF httpCache = None THEN 0 ELSE httpCache.edition

\* What a tab remembers is as new as what it has seen, unless it took the
\* place of an error, or it is its call's and younger than what is stored.
MemoryOrdered(t) ==
    memory[t] # None =>
        /\ IsResult(memory[t].promise) =>
              LET e == memory[t].promise.edition IN
              e \in 0..Newest /\ (memory[t].promise.stale \/ seen[t] <= e)
        /\ \A k \in Call : memory[t].promise = [call |-> k] =>
              /\ calls[k] # None /\ calls[k].tab = t
              /\ storage # None => storage.cachedAt <= memory[t].cachedAt

\* The page and the submit of a tab wait for what it remembers.
Waits(t, k) == \/ page[t] # None /\ page[t].promise = [call |-> k]
               \/ submit[t].promise = [call |-> k]

WaitingOrdered(t) ==
    \A k \in Call : Waits(t, k) => memory[t] # None /\ memory[t].promise = [call |-> k]

\* What a tab was given is no newer than what it has seen.
SeenOrdered(t) == seen[t] \in 0..Newest /\ \A r \in Given(t) : r.edition \in 0..seen[t]

\* What is stored expires before what a tab remembers, or is as new.
StorageOrdered(t) ==
    storage # None =>
        \/ memory[t] # None /\ storage.cachedAt <= memory[t].cachedAt
        \/ /\ seen[t] <= storage.result.edition
           /\ memory[t] # None /\ IsResult(memory[t].promise) =>
                 memory[t].promise.edition <= storage.result.edition

OneCall == \A j, k \in Call : calls[j] # None /\ calls[k] # None => j = k
AnswersAreCached == \A k \in Call : calls[k] # None /\ calls[k].answer # None => calls[k].answer = httpCache
StoredOrdered == storage # None => ~storage.result.stale /\ storage.result.edition \in 0..Newest

Ordered(t) == MemoryOrdered(t) /\ WaitingOrdered(t) /\ SeenOrdered(t) /\ StorageOrdered(t)

\* Until two calls overlap, each answer is the newest there has been.
OrderInv ==
    /\ edition \in Nat /\ Newest \in 0..edition /\ overlapped \in BOOLEAN
    /\ seen = [t \in Tab |-> seen[t]]
    /\ ~overlapped =>
          /\ OneCall /\ AnswersAreCached /\ StoredOrdered
          /\ \A t \in Tab : Ordered(t)

-----------------------------------------------------------------------------
(* What kind of thing each is. *)

Result == [edition : Nat, at : Nat, stale : BOOLEAN]

KindInv ==
    /\ edition \in Nat /\ httpCache \in Answer \cup {None}
    /\ storage # None => storage.result \in Result
    /\ \A t \in Tab : memory[t] # None => memory[t].promise \in Promise
    /\ \A k \in Call : calls[k] # None => calls[k].tab \in Tab /\ calls[k].answer \in Answer \cup {None}

LEMMA ResultIsPromise == Result \subseteq Promise /\ \A r \in Result : IsResult(r) <=> r # None
BY DEF Result, Promise, IsResult

LEMMA CallIsPromise == \A k \in Call : [call |-> k] \in Promise /\ ~IsResult([call |-> k])
BY DEF Promise, IsResult

\* The number of the next call is free.
LEMMA NextCallIsFree ==
    ASSUME FreeCalls # {}
    PROVE  NextCall \in Call /\ calls[NextCall] = None
<1>1. FreeCalls \subseteq Nat
  BY AgesAssumption DEF FreeCalls
<1> DEFINE Least(k) == \A j \in FreeCalls : k <= j
<1>2. \E k \in FreeCalls : Least(k)
  BY <1>1, LeastOf
<1>3. NextCall \in FreeCalls
  BY <1>2 DEF NextCall
<1>4. QED
  BY <1>3 DEF FreeCalls

\* What fetchMusicExJson gives and leaves: the tab's memory when it is young,
\* or else what is stored when that is, or else a new call.
LEMMA FetchFacts ==
    ASSUME FreshInv, KindInv, NEW t \in Tab, NEW force \in BOOLEAN, Fetches(t, force),
           NEW f, f = Fetch(t, force).memo
    PROVE  /\ f # None /\ f.promise \in Promise
           /\ memory'[t] = f /\ \A u \in Tab \ {t} : memory'[u] = memory[u]
           /\ \/ calls' = calls /\ Young(memory[t]) /\ f = memory[t]
              \/ /\ calls' = calls /\ ~Young(memory[t]) /\ Young(storage)
                 /\ f.promise = storage.result /\ f.cachedAt = storage.cachedAt
              \/ /\ NextCall \in Call /\ calls[NextCall] = None
                 /\ f.promise = [call |-> NextCall] /\ f.cachedAt = now
                 /\ calls'[NextCall] # None /\ calls'[NextCall].tab = t
                 /\ calls'[NextCall].answer \in {httpCache, None}
                 /\ \A k \in Call \ {NextCall} : calls'[k] = calls[k]
<1> DEFINE cached == httpCache # None /\ now - httpCache.at < HttpAge
           memo == [promise |-> [call |-> NextCall], cachedAt |-> now]
           call == [tab |-> t, answer |-> IF cached THEN httpCache ELSE None]
           g == Fetch(t, force)
           m == [memory EXCEPT ![t] = Remembered]
           n == [memory EXCEPT ![t] = memo]
           c == [calls EXCEPT ![NextCall] = call]
<1>1. \/ Young(memory[t]) /\ g = [memo |-> memory[t], memory |-> memory, calls |-> calls]
      \/ /\ ~Young(memory[t]) /\ Young(storage)
         /\ g = [memo |-> Remembered, memory |-> m, calls |-> calls]
      \/ g = [memo |-> memo, memory |-> n, calls |-> c]
  BY Zenon DEF Fetch
<1>2. NextCall \in Call /\ calls[NextCall] = None
  BY NextCallIsFree DEF Fetches
<1>3. memory' = g.memory /\ calls' = g.calls /\ f = g.memo
  BY DEF Fetches
<1> HIDE DEF g
<1>4. CASE Young(memory[t]) /\ g = [memo |-> memory[t], memory |-> memory, calls |-> calls]
  <2>1. f = memory[t] /\ memory' = memory /\ calls' = calls
    BY <1>3, <1>4
  <2>2. QED
    BY <1>4, <2>1 DEF Young, KindInv
<1>5. CASE /\ ~Young(memory[t]) /\ Young(storage)
           /\ g = [memo |-> Remembered, memory |-> m, calls |-> calls]
  <2>1. f = Remembered /\ memory' = m /\ calls' = calls
    BY <1>3, <1>5
  <2>2. f.promise = storage.result /\ f.cachedAt = storage.cachedAt
    BY <2>1 DEF Remembered
  <2>3. storage.result \in Promise /\ storage.cachedAt \in Nat
    BY <1>5, ResultIsPromise DEF Young, KindInv, FreshInv, StoredFresh
  <2>4. f # None
    BY <2>1, <2>3, NoneAssumption DEF Remembered
  <2>5. QED
    BY <1>5, <2>1, <2>2, <2>3, <2>4 DEF FreshInv
<1>6. CASE g = [memo |-> memo, memory |-> n, calls |-> c]
  <2>1. f = memo /\ memory' = n /\ calls' = c
    BY <1>3, <1>6
  <2>2. f.promise = [call |-> NextCall] /\ f.cachedAt = now /\ f.promise \in Promise
    BY <1>2, <2>1, CallIsPromise
  <2>3. f # None
    BY <1>2, <2>1, CallIsPromise, NoneAssumption DEF FreshInv
  <2>4. call # None /\ call.tab = t /\ call.answer \in {httpCache, None}
    <3>1. (IF cached THEN httpCache ELSE None) \in Answer \cup {None}
      BY DEF KindInv
    <3>2. QED
      BY <3>1, NoneAssumption
  <2> HIDE DEF call, memo
  <2>5. QED
    BY <1>2, <2>1, <2>2, <2>3, <2>4 DEF FreshInv
<1>7. QED
  BY <1>1, <1>4, <1>5, <1>6

LEMMA SettledKinds ==
    ASSUME FreshInv, KindInv, NEW k \in Call, NEW r \in Promise,
           MemorySettles(k, r), NEW t \in Tab
    PROVE  /\ memory'[t] = None <=> memory[t] = None
           /\ memory[t] # None => /\ memory'[t].promise = Settled(memory[t].promise, k, r)
                                  /\ memory'[t].cachedAt = memory[t].cachedAt
                                  /\ memory'[t].promise \in Promise
<1> DEFINE e == memory[t]
           q == Settled(e.promise, k, r)
<1>1. memory'[t] = IF e = None THEN None ELSE [e EXCEPT !.promise = q]
  BY DEF MemorySettles
<1>2. CASE e = None
  BY <1>1, <1>2
<1>3. CASE e # None
  <2>1. e = [promise |-> e.promise, cachedAt |-> e.cachedAt] /\ e.cachedAt \in Nat
    BY <1>3 DEF FreshInv, KeptFresh
  <2>2. q \in Promise
    BY <1>3 DEF KindInv, Settled
  <2> HIDE DEF e, q
  <2>3. memory'[t] = [promise |-> q, cachedAt |-> e.cachedAt]
    BY <1>1, <1>3, <2>1
  <2>4. memory'[t] # None
    BY <2>1, <2>2, <2>3, NoneAssumption
  <2>5. QED
    BY <1>3, <2>2, <2>3, <2>4 DEF e, q
<1>4. QED
  BY <1>2, <1>3

LEMMA KindInit == Init => KindInv
BY DEF Init, KindInv

LEMMA KindStep == ASSUME FreshInv, KindInv, [Next]_vars PROVE KindInv'
<1>a. ASSUME UNCHANGED <<httpCache, storage, memory, calls>>, edition' \in Nat PROVE KindInv'
  BY <1>a DEF KindInv
<1>1. CASE UNCHANGED vars
  BY <1>1 DEF vars, server, KindInv
<1>b. ASSUME NEW t \in Tab, NEW force \in BOOLEAN, Fetches(t, force),
             UNCHANGED <<edition, httpCache, storage>>
      PROVE  KindInv'
  <2> DEFINE f == Fetch(t, force).memo
  <2>1. f = Fetch(t, force).memo
    OBVIOUS
  <2> HIDE DEF f
  <2>2. \A u \in Tab : memory'[u] # None => memory'[u].promise \in Promise
    BY <1>b, <2>1, FetchFacts DEF KindInv
  <2>3. \A k \in Call : calls'[k] # None => calls'[k].tab \in Tab /\ calls'[k].answer \in Answer \cup {None}
    BY <1>b, <2>1, FetchFacts DEF KindInv
  <2>4. QED
    BY <1>b, <2>2, <2>3 DEF KindInv
<1>2. ASSUME NEW t \in Tab, Open(t) PROVE KindInv'
  BY <1>2, <1>b DEF Open, server
<1>3. ASSUME NEW t \in Tab, Leave(t) PROVE KindInv'
  BY <1>3 DEF Leave, server, KindInv
<1>4. ASSUME NEW t \in Tab, Reload(t) PROVE KindInv'
  BY <1>4 DEF Reload, server, KindInv, FreshInv
<1>5. ASSUME NEW k \in Call, Serve(k) PROVE KindInv'
  <2> DEFINE answer == [edition |-> edition, at |-> now]
             c == [calls[k] EXCEPT !.answer = answer]
  <2>1. /\ calls[k] # None /\ calls' = [calls EXCEPT ![k] = c] /\ httpCache' = answer
        /\ UNCHANGED <<edition, storage, memory>>
    BY <1>5 DEF Serve, server
  <2>2. answer \in Answer
    BY DEF KindInv, FreshInv, Answer
  <2> HIDE DEF answer
  <2>3. c.tab \in Tab /\ c.answer = answer
    BY <2>1 DEF FreshInv, CallsFresh, KindInv
  <2> HIDE DEF c
  <2>4. QED
    BY <2>1, <2>2, <2>3 DEF KindInv, FreshInv
<1>c. ASSUME NEW k \in Call, NEW r, Settle(k, r)
      PROVE  \A j \in Call : calls'[j] # None => calls'[j].tab \in Tab /\ calls'[j].answer \in Answer \cup {None}
  BY <1>c DEF Settle, KindInv, FreshInv
<1>6. ASSUME NEW k \in Call, Arrive(k) PROVE KindInv'
  <2> DEFINE r == [edition |-> calls[k].answer.edition, at |-> calls[k].answer.at, stale |-> FALSE]
             e == [result |-> r, cachedAt |-> now]
  <2>1. /\ Settle(k, r) /\ MemorySettles(k, r) /\ UNCHANGED <<edition, httpCache>>
        /\ storage' \in {e, storage} /\ calls[k] # None /\ calls[k].answer # None
    BY <1>6 DEF Arrive, server
  <2>2. r \in Result
    BY <2>1 DEF KindInv, Answer, Result
  <2>3. e.result = r
    OBVIOUS
  <2> HIDE DEF r, e
  <2>4. \A t \in Tab : memory'[t] # None => memory'[t].promise \in Promise
    BY <2>1, <2>2, ResultIsPromise, SettledKinds
  <2>5. storage' # None => storage'.result \in Result
    BY <2>1, <2>2, <2>3 DEF KindInv
  <2>6. QED
    BY <1>c, <2>1, <2>4, <2>5 DEF KindInv
<1>7. ASSUME NEW k \in Call, FallBack(k) PROVE KindInv'
  <2> DEFINE r == [storage.result EXCEPT !.stale = TRUE]
  <2>1. /\ Settle(k, r) /\ MemorySettles(k, r) /\ UNCHANGED <<edition, httpCache, storage>>
        /\ storage # None
    BY <1>7 DEF FallBack, server
  <2>2. r \in Result
    BY <2>1 DEF KindInv, Result
  <2> HIDE DEF r
  <2>3. \A t \in Tab : memory'[t] # None => memory'[t].promise \in Promise
    BY <2>1, <2>2, ResultIsPromise, SettledKinds
  <2>4. QED
    BY <1>c, <2>1, <2>3 DEF KindInv
<1>8. ASSUME NEW k \in Call, Fail(k) PROVE KindInv'
  <2> DEFINE u == calls[k].tab
  <2>1. /\ Settle(k, [error |-> TRUE]) /\ UNCHANGED <<edition, httpCache, storage>>
        /\ memory' = [memory EXCEPT ![u] = None]
    BY <1>8 DEF Fail, server
  <2> HIDE DEF u
  <2>2. \A t \in Tab : memory'[t] # None => memory'[t].promise \in Promise
    BY <2>1 DEF KindInv, FreshInv
  <2>3. QED
    BY <1>c, <2>1, <2>2 DEF KindInv
<1>9. ASSUME NEW t \in Tab, Submit(t) \/ Merge(t) \/ MergeFails(t) PROVE KindInv'
  <2>1. UNCHANGED <<httpCache, storage, memory, calls>> /\ (edition' = edition \/ edition' = edition + 1)
    BY <1>9 DEF Submit, Merge, MergeFails, server
  <2>2. QED
    BY <1>a, <2>1 DEF KindInv
<1>10. ASSUME NEW t \in Tab, Refresh(t) PROVE KindInv'
  BY <1>10, <1>b DEF Refresh, server
<1>11. CASE Publish
  BY <1>11 DEF Publish, KindInv
<1>12. CASE Tick
  BY <1>12 DEF Tick, server, KindInv
<1>13. CASE Load
  BY <1>a, <1>13 DEF Load, KindInv, server
<1>14. QED
  BY <1>1, <1>2, <1>3, <1>4, <1>5, <1>6, <1>7, <1>8, <1>9, <1>10, <1>11, <1>12, <1>13 DEF Next

-----------------------------------------------------------------------------
(* What a tab has seen. *)

LEMMA SeenFacts ==
    ASSUME NEW t \in Tab, Sees, seen[t] \in Nat, \A r \in Given(t)' : r.edition \in Nat
    PROVE  /\ seen'[t] \in Nat /\ seen[t] <= seen'[t] /\ \A r \in Given(t)' : r.edition <= seen'[t]
           /\ seen'[t] = seen[t] \/ \E r \in Given(t)' : seen'[t] = r.edition
<1> DEFINE p == IF page'[t] = None THEN None ELSE page'[t].promise
           q == submit'[t].promise
           a == IF IsResult(p) THEN p.edition ELSE 0
           b == IF IsResult(q) THEN q.edition ELSE 0
           S == {seen[t]} \cup {r.edition : r \in Given(t)'}
<1>1. Given(t)' = {x \in {p, q} : IsResult(x)}
  BY DEF Given
<1> HIDE DEF p, q
<1>2. a \in Int /\ b \in Int
  BY <1>1
<1>3. S \subseteq {seen[t], a, b} /\ seen[t] \in S
  BY <1>1
<1>4. seen'[t] = Max(S)
  BY DEF Sees
<1> HIDE DEF S, a, b
<1>5. Max(S) \in S /\ \A y \in S : y <= Max(S)
  BY <1>2, <1>3, LargestOfThree
<1>6. QED
  BY <1>4, <1>5 DEF S

LEMMA GivenOf ==
    ASSUME NEW t
    PROVE  /\ \A r : r \in Given(t) <=>
                 IsResult(r) /\ ((page[t] # None /\ r = page[t].promise) \/ r = submit[t].promise)
           /\ \A r : r \in Given(t)' <=>
                 IsResult(r) /\ ((page'[t] # None /\ r = page'[t].promise) \/ r = submit'[t].promise)
BY DEF Given, IsResult

\* A tab that is given r, or nothing.
LEMMA SeesOne ==
    ASSUME NEW t \in Tab, NEW r, Sees, SeenOrdered(t), Given(t)' \subseteq Given(t) \cup {r},
           Newest \in Nat, Newest' = Newest, IsResult(r) => r.edition \in 0..Newest
    PROVE  /\ SeenOrdered(t)' /\ seen'[t] \in Nat /\ seen[t] <= seen'[t]
           /\ seen'[t] = seen[t] \/ (r \in Given(t)' /\ IsResult(r) /\ seen'[t] = r.edition)
<1>1. \A x \in Given(t)' : IsResult(x) /\ (x \in Given(t) \/ x = r)
  BY GivenOf
<1>2. seen[t] \in 0..Newest /\ \A x \in Given(t) : x.edition \in 0..seen[t]
  BY DEF SeenOrdered
<1>3. \A x \in Given(t)' : x.edition \in 0..Newest /\ (x = r \/ x.edition <= seen[t])
  BY <1>1, <1>2
<1>4. /\ seen'[t] \in Nat /\ seen[t] <= seen'[t] /\ \A x \in Given(t)' : x.edition <= seen'[t]
      /\ seen'[t] = seen[t] \/ \E x \in Given(t)' : seen'[t] = x.edition
  <2>1. seen[t] \in Nat /\ \A x \in Given(t)' : x.edition \in Nat
    BY <1>2, <1>3
  <2>2. QED
    BY <2>1, SeenFacts
<1>5. seen'[t] = seen[t] \/ (r \in Given(t)' /\ IsResult(r) /\ seen'[t] = r.edition)
  BY <1>1, <1>2, <1>3, <1>4
<1>6. SeenOrdered(t)'
  BY <1>2, <1>3, <1>4, <1>5 DEF SeenOrdered
<1>7. QED
  BY <1>4, <1>5, <1>6

\* A tab that is given nothing.
LEMMA SeesNone ==
    ASSUME NEW t \in Tab, Sees, SeenOrdered(t), Given(t)' \subseteq Given(t),
           Newest \in Nat, Newest' = Newest
    PROVE  SeenOrdered(t)' /\ seen'[t] = seen[t]
<1>1. ~IsResult(None)
  BY DEF IsResult
<1>2. Given(t)' \subseteq Given(t) \cup {None}
  OBVIOUS
<1>3. QED
  BY <1>1, <1>2, SeesOne

\* A page that opens, or a refresh, is given no older catalogue.
LEMMA FetchOrder ==
    ASSUME FreshInv, KindInv, OrderInv, NEW t \in Tab, NEW force \in BOOLEAN,
           Fetches(t, force), ~overlapped', Sees, UNCHANGED <<edition, httpCache, storage>>,
           NEW f, f = Fetch(t, force).memo,
           \A u \in Tab \ {t} : page'[u] = page[u] /\ submit'[u] = submit[u],
           Given(t)' \subseteq Given(t) \cup {f.promise},
           \A k \in Call : Waits(t, k)' => Waits(t, k) \/ f.promise = [call |-> k]
    PROVE  /\ OneCall' /\ AnswersAreCached' /\ StoredOrdered'
           /\ \A u \in Tab : Ordered(u)'
           /\ \A u \in Tab : \A r \in Given(u)' \ Given(u) : r.stale \/ seen[u] <= r.edition
<1>1. overlapped' = (overlapped \/ Cardinality(UnderWay(calls')) > 1)
  BY DEF Fetches
<1>2. ~overlapped /\ ~(Cardinality(UnderWay(calls')) > 1)
  BY <1>1
<1>3. /\ OneCall /\ AnswersAreCached /\ StoredOrdered /\ Newest \in Nat /\ Newest' = Newest
      /\ \A u \in Tab : MemoryOrdered(u) /\ WaitingOrdered(u) /\ SeenOrdered(u) /\ StorageOrdered(u)
  BY <1>2 DEF OrderInv, Ordered, Newest
<1>4. StoredOrdered'
  BY <1>3 DEF StoredOrdered
<1>f. /\ f # None /\ f.promise \in Promise
      /\ memory'[t] = f /\ \A u \in Tab \ {t} : memory'[u] = memory[u]
  BY FetchFacts
<1>5. ASSUME NEW u \in Tab \ {t}
      PROVE  SeenOrdered(u)' /\ seen'[u] = seen[u] /\ Given(u)' \subseteq Given(u)
  <2>1. Given(u)' \subseteq Given(u)
    BY DEF Given
  <2>2. QED
    BY <1>3, <2>1, SeesNone
<1>6. ASSUME NEW u \in Tab \ {t}, \A k \in Call : calls[k] # None => calls'[k] = calls[k]
      PROVE  Ordered(u)'
  <2>1. MemoryOrdered(u) /\ WaitingOrdered(u) /\ StorageOrdered(u)
    BY <1>3
  <2>2. memory'[u] = memory[u] /\ seen'[u] = seen[u] /\ storage' = storage
    BY <1>5, <1>f
  <2>3. MemoryOrdered(u)'
    BY <1>3, <1>6, <2>1, <2>2 DEF MemoryOrdered
  <2>4. WaitingOrdered(u)'
    BY <2>1, <2>2 DEF WaitingOrdered, Waits
  <2>5. StorageOrdered(u)'
    BY <2>1, <2>2 DEF StorageOrdered
  <2>6. QED
    BY <1>5, <2>3, <2>4, <2>5 DEF Ordered
<1>7. ASSUME IsResult(f.promise) => f.promise.edition \in 0..Newest
                                    /\ (f.promise.stale \/ seen[t] <= f.promise.edition)
      PROVE  /\ SeenOrdered(t)' /\ seen'[t] \in Nat
             /\ IsResult(f.promise) => f.promise.edition \in 0..Newest'
                                       /\ (f.promise.stale \/ seen'[t] <= f.promise.edition)
             /\ seen'[t] = seen[t] \/ (IsResult(f.promise) /\ seen'[t] = f.promise.edition)
             /\ \A u \in Tab : \A r \in Given(u)' \ Given(u) : r.stale \/ seen[u] <= r.edition
  <2>1. /\ SeenOrdered(t)' /\ seen'[t] \in Nat /\ seen[t] <= seen'[t]
        /\ seen'[t] = seen[t] \/ (IsResult(f.promise) /\ seen'[t] = f.promise.edition)
    BY <1>3, <1>7, SeesOne
  <2>2. IsResult(f.promise) => f.promise.edition \in 0..Newest'
                                    /\ (f.promise.stale \/ seen'[t] <= f.promise.edition)
    BY <1>3, <1>7, <2>1
  <2>3. \A r \in Given(t)' \ Given(t) : r = f.promise /\ IsResult(r)
    BY GivenOf
  <2>4. QED
    BY <1>5, <1>7, <2>1, <2>2, <2>3
<1>8. CASE calls' = calls /\ Young(memory[t]) /\ f = memory[t]
  <2>1. MemoryOrdered(t) /\ WaitingOrdered(t) /\ StorageOrdered(t) /\ memory'[t] = memory[t]
    BY <1>3, <1>8, <1>f
  <2>2. IsResult(f.promise) => f.promise.edition \in 0..Newest
                                    /\ (f.promise.stale \/ seen[t] <= f.promise.edition)
    BY <1>8, <1>f, <2>1 DEF MemoryOrdered
  <2>3. MemoryOrdered(t)'
    BY <1>7, <1>8, <1>f, <2>1, <2>2 DEF MemoryOrdered
  <2>4. WaitingOrdered(t)'
    BY <1>8, <1>f, <2>1 DEF WaitingOrdered
  <2>5. StorageOrdered(t)'
    BY <1>7, <1>8, <1>f, <2>1, <2>2 DEF StorageOrdered
  <2>6. OneCall' /\ AnswersAreCached'
    BY <1>3, <1>8 DEF OneCall, AnswersAreCached
  <2>7. QED
    BY <1>4, <1>6, <1>7, <1>8, <2>2, <2>3, <2>4, <2>5, <2>6 DEF Ordered
<1>9. CASE /\ calls' = calls /\ ~Young(memory[t]) /\ Young(storage)
           /\ f.promise = storage.result /\ f.cachedAt = storage.cachedAt
  <2>1. storage # None /\ storage.cachedAt \in Nat /\ storage.result \in Promise
        /\ now \in Nat /\ MaxAge \in Nat /\ IsResult(storage.result) /\ storage.result \in Result
    BY <1>9, ResultIsPromise, NoneAssumption, AgesAssumption DEF Young, FreshInv, StoredFresh, KindInv
  <2>2. ~(memory[t] # None /\ storage.cachedAt <= memory[t].cachedAt)
    BY <1>9, <2>1 DEF Young, FreshInv, KeptFresh
  <2>3. seen[t] <= storage.result.edition /\ storage.result.edition \in 0..Newest
    BY <1>3, <2>1, <2>2 DEF StorageOrdered, StoredOrdered
  <2>4. IsResult(f.promise) => f.promise.edition \in 0..Newest
                                    /\ (f.promise.stale \/ seen[t] <= f.promise.edition)
    BY <1>9, <2>3
  <2>5. \A k \in Call : f.promise # [call |-> k]
    BY <1>9, <2>1, CallIsPromise
  <2>6. MemoryOrdered(t)'
    BY <1>7, <1>f, <2>4, <2>5 DEF MemoryOrdered
  <2>7. WaitingOrdered(t)'
    <3>1. \A k \in Call : ~Waits(t, k)
      BY <1>3, <2>1, <2>2 DEF WaitingOrdered, MemoryOrdered
    <3>2. QED
      BY <2>5, <3>1 DEF WaitingOrdered
  <2>8. StorageOrdered(t)'
    BY <1>9, <1>f, <2>1 DEF StorageOrdered
  <2>9. OneCall' /\ AnswersAreCached'
    BY <1>3, <1>9 DEF OneCall, AnswersAreCached
  <2>10. QED
    BY <1>4, <1>6, <1>7, <1>9, <2>4, <2>6, <2>7, <2>8, <2>9 DEF Ordered
<1>10. CASE /\ NextCall \in Call /\ calls[NextCall] = None
            /\ f.promise = [call |-> NextCall] /\ f.cachedAt = now
            /\ calls'[NextCall] # None /\ calls'[NextCall].tab = t
            /\ calls'[NextCall].answer \in {httpCache, None}
            /\ \A k \in Call \ {NextCall} : calls'[k] = calls[k]
  <2> DEFINE n == NextCall
  <2>1. /\ n \in Call /\ calls[n] = None /\ f.promise = [call |-> n] /\ f.cachedAt = now
        /\ calls'[n] # None /\ calls'[n].tab = t /\ calls'[n].answer \in {httpCache, None}
        /\ \A k \in Call \ {n} : calls'[k] = calls[k]
    BY <1>10
  <2> HIDE DEF n
  <2>2. \A k \in Call : calls[k] = None
    <3> SUFFICES ASSUME NEW k \in Call, calls[k] # None PROVE FALSE
      OBVIOUS
    <3>1. k # n /\ calls'[k] # None
      BY <2>1
    <3>2. UnderWay(calls') \subseteq {k, n}
      BY <1>3, <2>1 DEF UnderWay, OneCall
    <3>3. k \in UnderWay(calls') /\ n \in UnderWay(calls')
      BY <2>1, <3>1 DEF UnderWay
    <3>4. QED
      BY <1>2, <3>1, <3>2, <3>3, TwoAreMore
  <2>3. OneCall'
    BY <2>1, <2>2 DEF OneCall
  <2>4. AnswersAreCached'
    BY <2>1, <2>2 DEF AnswersAreCached
  <2>5. ~IsResult(f.promise)
    BY <2>1, CallIsPromise
  <2>6. \A k \in Call : f.promise = [call |-> k] => k = n
    BY <2>1
  <2>7. MemoryOrdered(t)'
    BY <1>f, <2>1, <2>5, <2>6 DEF MemoryOrdered, FreshInv, StoredFresh
  <2>8. WaitingOrdered(t)'
    <3>1. ASSUME NEW k \in Call, Waits(t, k) PROVE FALSE
      <4>1. memory[t] # None /\ memory[t].promise = [call |-> k]
        BY <1>3, <3>1 DEF WaitingOrdered
      <4>2. calls[k] # None
        BY <1>3, <4>1 DEF MemoryOrdered
      <4>3. QED
        BY <2>2, <4>2
    <3>2. QED
      BY <1>f, <3>1 DEF WaitingOrdered
  <2>9. StorageOrdered(t)'
    BY <1>f, <2>1 DEF StorageOrdered, FreshInv, StoredFresh
  <2>10. QED
    BY <1>4, <1>6, <1>7, <2>2, <2>3, <2>4, <2>5, <2>7, <2>8, <2>9 DEF Ordered
<1>11. QED
  BY <1>8, <1>9, <1>10, FetchFacts

\* A tab whose memory, page and submit stay, and whose calls stay its own.
LEMMA TabStays ==
    ASSUME NEW t \in Tab, Ordered(t), memory'[t] = memory[t], page'[t] = page[t],
           submit'[t].promise = submit[t].promise, seen'[t] = seen[t], storage' = storage,
           Newest \in Nat, Newest' \in Nat, Newest <= Newest',
           \A k \in Call : calls[k] # None /\ calls[k].tab = t =>
                              calls'[k] # None /\ calls'[k].tab = t
    PROVE  Ordered(t)' /\ Given(t)' = Given(t)
<1>1. Given(t)' = Given(t)
  BY DEF Given
<1>2. MemoryOrdered(t)'
  BY DEF Ordered, MemoryOrdered
<1>3. WaitingOrdered(t)'
  BY DEF Ordered, WaitingOrdered, Waits
<1>4. SeenOrdered(t)'
  BY <1>1 DEF Ordered, SeenOrdered
<1>5. StorageOrdered(t)'
  BY DEF Ordered, StorageOrdered
<1>6. QED
  BY <1>1, <1>2, <1>3, <1>4, <1>5 DEF Ordered

\* A tab that only drops a page or a submit.
LEMMA TabDrops ==
    ASSUME NEW t \in Tab, Ordered(t), memory'[t] = memory[t], seen'[t] = seen[t],
           page'[t] \in {page[t], None},
           submit'[t].promise \in {submit[t].promise, None},
           UNCHANGED <<storage, httpCache, calls>>
    PROVE  Ordered(t)' /\ Given(t)' \subseteq Given(t)
<1>1. Given(t)' \subseteq Given(t)
  BY DEF Given, IsResult
<1>2. Newest' = Newest
  BY DEF Newest
<1>3. MemoryOrdered(t)'
  BY <1>2 DEF Ordered, MemoryOrdered
<1>4. WaitingOrdered(t)'
  <2>1. \A k \in Call : None # [call |-> k]
    BY CallIsPromise, NoneAssumption
  <2>2. \A k \in Call : Waits(t, k)' => Waits(t, k)
    BY <2>1 DEF Waits
  <2>3. QED
    BY <2>2 DEF Ordered, WaitingOrdered
<1>5. SeenOrdered(t)'
  BY <1>1, <1>2 DEF Ordered, SeenOrdered
<1>6. StorageOrdered(t)'
  BY DEF Ordered, StorageOrdered
<1>7. QED
  BY <1>1, <1>3, <1>4, <1>5, <1>6 DEF Ordered

\* What the one call there is ends with.
LEMMA SettleOrder ==
    ASSUME FreshInv, SubmitOK, OrderInv, ~overlapped, NEW k \in Call, calls[k] # None,
           NEW r \in Promise, Settle(k, r), httpCache' = httpCache,
           \A j \in Call : r # [call |-> j],
           IsResult(r) => r.edition \in 0..Newest /\ (r.stale \/ r.edition = Newest),
           NEW t \in Tab
    PROVE  /\ OneCall' /\ AnswersAreCached'
           /\ WaitingOrdered(t)' /\ SeenOrdered(t)' /\ seen'[t] \in Nat /\ seen[t] <= seen'[t]
           /\ \A x \in Given(t)' \ Given(t) : x.stale \/ seen[t] <= x.edition
           /\ \/ seen'[t] = seen[t]
              \/ /\ memory[t] # None /\ memory[t].promise = [call |-> k]
                 /\ IsResult(r) /\ seen'[t] = r.edition
<1>1. /\ OneCall /\ AnswersAreCached /\ Ordered(t) /\ Newest \in Nat /\ Newest' = Newest
  BY DEF OrderInv, Newest
<1>2. \A j \in Call : calls'[j] = None
  BY <1>1 DEF Settle, FreshInv, OneCall
<1>3. OneCall' /\ AnswersAreCached'
  BY <1>2 DEF OneCall, AnswersAreCached
<1>4. /\ page'[t] # None => page[t] # None /\ page'[t].promise = Settled(page[t].promise, k, r)
      /\ submit'[t].promise = Settled(submit[t].promise, k, r)
  <2> DEFINE q == Settled(page[t].promise, k, r)
             s == Settled(submit[t].promise, k, r)
  <2>1. /\ page'[t] = IF page[t] = None THEN None ELSE [page[t] EXCEPT !.promise = q]
        /\ submit'[t] = [submit[t] EXCEPT !.promise = s]
    BY DEF Settle
  <2> HIDE DEF q, s
  <2>2. page'[t] # None => page[t] # None /\ page'[t].promise = q
    BY <2>1 DEF FreshInv, PageFresh
  <2>3. submit'[t].promise = s
    BY <2>1 DEF SubmitOK
  <2>4. QED
    BY <2>2, <2>3 DEF q, s
<1>5. Given(t)' \subseteq Given(t) \cup {r} /\ (~Waits(t, k) => Given(t)' \subseteq Given(t))
  BY <1>4, GivenOf DEF Settled, Waits
<1>6. WaitingOrdered(t)'
  <2> SUFFICES ASSUME NEW j \in Call, Waits(t, j)' PROVE FALSE
    BY DEF WaitingOrdered
  <2>1. Waits(t, j) /\ j # k
    BY <1>4 DEF Waits, Settled
  <2>2. memory[t] # None /\ memory[t].promise = [call |-> j]
    BY <1>1, <2>1 DEF Ordered, WaitingOrdered
  <2>3. calls[j] # None
    BY <1>1, <2>2 DEF Ordered, MemoryOrdered
  <2>4. QED
    BY <1>1, <2>1, <2>3 DEF OneCall
<1>7. SeenOrdered(t) /\ Sees /\ seen[t] \in 0..Newest
  BY <1>1 DEF Ordered, SeenOrdered, Settle
<1>8. \A x \in Given(t)' \ Given(t) : x.stale \/ seen[t] <= x.edition
  <2>1. \A x \in Given(t)' \ Given(t) : x = r /\ IsResult(r)
    BY <1>5, GivenOf
  <2>2. QED
    BY <1>1, <1>7, <2>1
<1>9. CASE Waits(t, k)
  <2>1. memory[t] # None /\ memory[t].promise = [call |-> k]
    BY <1>1, <1>9 DEF Ordered, WaitingOrdered
  <2>2. /\ SeenOrdered(t)' /\ seen'[t] \in Nat /\ seen[t] <= seen'[t]
        /\ seen'[t] = seen[t] \/ (IsResult(r) /\ seen'[t] = r.edition)
    BY <1>1, <1>5, <1>7, SeesOne
  <2>3. QED
    BY <1>3, <1>6, <1>8, <2>1, <2>2
<1>10. CASE ~Waits(t, k)
  <2>1. SeenOrdered(t)' /\ seen'[t] = seen[t]
    BY <1>1, <1>5, <1>7, <1>10, SeesNone
  <2>2. QED
    BY <1>3, <1>6, <1>7, <1>8, <2>1
<1>11. QED
  BY <1>9, <1>10

\* The memory of a tab when that happens.
LEMMA SettledMemory ==
    ASSUME FreshInv, KindInv, OrderInv, ~overlapped, NEW k \in Call, calls[k] # None,
           NEW r \in Promise, MemorySettles(k, r), httpCache' = httpCache,
           \A j \in Call : r # [call |-> j],
           IsResult(r) => r.edition \in 0..Newest /\ (r.stale \/ r.edition = Newest),
           NEW t \in Tab, seen'[t] \in 0..Newest,
           \/ seen'[t] = seen[t]
           \/ memory[t] # None /\ memory[t].promise = [call |-> k]
    PROVE  MemoryOrdered(t)'
<1>1. /\ OneCall /\ MemoryOrdered(t) /\ Newest \in Nat /\ Newest' = Newest
  BY DEF OrderInv, Newest, Ordered
<1>2. CASE memory'[t] = None
  BY <1>2 DEF MemoryOrdered
<1>3. CASE memory'[t] # None
  <2>1. memory[t] # None /\ memory'[t].promise = Settled(memory[t].promise, k, r)
    BY <1>3, SettledKinds
  <2>2. CASE memory[t].promise = [call |-> k]
    <3>1. memory'[t].promise = r
      BY <2>1, <2>2 DEF Settled
    <3>2. QED
      BY <1>1, <3>1 DEF MemoryOrdered
  <2>3. CASE memory[t].promise # [call |-> k]
    <3>1. memory'[t].promise = memory[t].promise /\ seen'[t] = seen[t]
      BY <2>1, <2>3 DEF Settled
    <3>2. \A j \in Call : memory[t].promise # [call |-> j]
      BY <1>1, <2>1, <2>3 DEF MemoryOrdered, OneCall
    <3>3. QED
      BY <1>1, <2>1, <3>1, <3>2 DEF MemoryOrdered
  <2>4. QED
    BY <2>2, <2>3
<1>4. QED
  BY <1>2, <1>3

\* The storage of a tab when a call succeeds, or falls back on it.
LEMMA SettledStorage ==
    ASSUME FreshInv, KindInv, OrderInv, ~overlapped, NEW k \in Call, calls[k] # None,
           NEW r \in Promise, MemorySettles(k, r), storage' = storage, NEW t \in Tab,
           \/ seen'[t] = seen[t]
           \/ memory[t] # None /\ memory[t].promise = [call |-> k]
    PROVE  StorageOrdered(t)'
<1>1. MemoryOrdered(t) /\ StorageOrdered(t)
  BY DEF OrderInv, Ordered
<1>2. CASE storage = None
  BY <1>2 DEF StorageOrdered
<1>3. CASE storage # None /\ memory[t] = None
  <2>1. memory'[t] = None /\ seen'[t] = seen[t]
    BY <1>3, SettledKinds
  <2>2. QED
    BY <1>1, <1>3, <2>1 DEF StorageOrdered
<1>4. CASE storage # None /\ memory[t] # None
  <2>1. /\ memory'[t] # None /\ memory'[t].cachedAt = memory[t].cachedAt
        /\ memory'[t].promise = Settled(memory[t].promise, k, r)
    BY <1>4, SettledKinds
  <2>2. CASE memory[t].promise = [call |-> k]
    BY <1>1, <1>4, <2>1, <2>2 DEF MemoryOrdered, StorageOrdered
  <2>3. CASE memory[t].promise # [call |-> k]
    BY <1>1, <1>4, <2>1, <2>3 DEF Settled, StorageOrdered
  <2>4. QED
    BY <2>2, <2>3
<1>5. QED
  BY <1>2, <1>3, <1>4

\* No page and no submit of a tab is given an older catalogue.
Forwards == \A t \in Tab : \A r \in Given(t)' \ Given(t) :
                r.stale \/ overlapped' \/ seen[t] <= r.edition

LEMMA OrderInit == Init => OrderInv
<1> SUFFICES ASSUME Init PROVE OrderInv
  OBVIOUS
<1>1. /\ edition = 0 /\ httpCache = None /\ storage = None /\ overlapped = FALSE
      /\ memory = [t \in Tab |-> None] /\ calls = [k \in Call |-> None]
      /\ page = [t \in Tab |-> None] /\ seen = [t \in Tab |-> 0]
      /\ \A t \in Tab : submit[t].promise = None
  BY DEF Init, NoSubmit
<1>2. Newest = 0
  BY <1>1 DEF Newest
<1>3. OneCall /\ AnswersAreCached /\ StoredOrdered
  BY <1>1 DEF OneCall, AnswersAreCached, StoredOrdered
<1>4. ASSUME NEW t \in Tab PROVE Ordered(t)
  <2>1. \A k \in Call : ~Waits(t, k)
    BY <1>1, CallIsPromise, NoneAssumption DEF Waits
  <2>2. Given(t) = {}
    BY <1>1 DEF Given, IsResult
  <2>3. QED
    BY <1>1, <1>2, <2>1, <2>2
       DEF Ordered, MemoryOrdered, WaitingOrdered, SeenOrdered, StorageOrdered
<1>5. /\ edition \in Nat /\ Newest \in 0..edition /\ overlapped \in BOOLEAN
      /\ seen = [t \in Tab |-> seen[t]]
  <2>1. edition \in Nat /\ Newest \in 0..edition
    BY <1>1, <1>2
  <2>2. overlapped \in BOOLEAN
    BY <1>1
  <2>3. seen = [t \in Tab |-> seen[t]]
    BY <1>1
  <2>4. QED
    BY <2>1, <2>2, <2>3
<1>6. QED
  BY <1>3, <1>4, <1>5 DEF OrderInv

LEMMA OrderStep ==
    ASSUME FreshInv, KindInv, SubmitInv, OrderInv, [Next]_vars
    PROVE  OrderInv' /\ Forwards
<1> USE DEF server
<1>0. /\ edition \in Nat /\ Newest \in 0..edition /\ overlapped \in BOOLEAN
      /\ seen = [t \in Tab |-> seen[t]] /\ SubmitOK
      /\ ~overlapped => /\ OneCall /\ AnswersAreCached /\ StoredOrdered
                        /\ \A t \in Tab : Ordered(t)
      /\ httpCache' = httpCache => Newest' = Newest
  BY DEF OrderInv, SubmitInv, Newest
<1>a. ASSUME \A t \in Tab : Given(t)' \subseteq Given(t) PROVE Forwards
  BY <1>a DEF Forwards
<1>s. ASSUME NEW t \in Tab, Sees, ~overlapped, httpCache' = httpCache,
             Given(t)' \subseteq Given(t)
      PROVE  seen'[t] = seen[t]
  BY <1>0, <1>s, SeesNone DEF Ordered
<1>g. ASSUME \A t \in Tab : page'[t] \in {page[t], None}
                            /\ submit'[t].promise \in {submit[t].promise, None}
      PROVE  \A t \in Tab : Given(t)' \subseteq Given(t)
  BY <1>g DEF Given, IsResult
\* Pages and submits that end.
<1>d. ASSUME UNCHANGED <<httpCache, storage, memory, calls, overlapped>>,
             \/ edition' = edition
             \/ edition' = edition + 1,
             seen' = seen \/ Sees,
             \A t \in Tab : page'[t] \in {page[t], None}
                            /\ submit'[t].promise \in {submit[t].promise, None}
      PROVE  OrderInv' /\ Forwards
  <2>1. Forwards
    BY <1>a, <1>d, <1>g
  <2>2. ASSUME NEW t \in Tab, ~overlapped PROVE Ordered(t)'
    <3>1. seen'[t] = seen[t]
      BY <1>d, <1>g, <1>s, <2>2
    <3>2. QED
      BY <1>0, <1>d, <2>2, <3>1, TabDrops
  <2>3. seen' = [t \in Tab |-> seen'[t]]
    BY <1>0, <1>d DEF Sees
  <2>4. ~overlapped => OneCall' /\ AnswersAreCached' /\ StoredOrdered'
    BY <1>0, <1>d DEF OneCall, AnswersAreCached, StoredOrdered
  <2>5. QED
    BY <1>0, <1>d, <2>1, <2>2, <2>3, <2>4 DEF OrderInv
\* Pages that open and refreshes.
<1>f. ASSUME NEW t \in Tab, NEW force \in BOOLEAN, Fetches(t, force), Sees,
             UNCHANGED <<edition, httpCache, storage>>,
             NEW f, f = Fetch(t, force).memo,
             \A u \in Tab \ {t} : page'[u] = page[u] /\ submit'[u] = submit[u],
             Given(t)' \subseteq Given(t) \cup {f.promise},
             \A k \in Call : Waits(t, k)' => Waits(t, k) \/ f.promise = [call |-> k]
      PROVE  OrderInv' /\ Forwards
  <2>1. overlapped' = (overlapped \/ Cardinality(UnderWay(calls')) > 1)
    BY <1>f DEF Fetches
  <2>2. overlapped' \in BOOLEAN /\ (overlapped => overlapped')
    BY <1>0, <2>1
  <2>3. seen' = [u \in Tab |-> seen'[u]]
    BY <1>f DEF Sees
  <2>4. CASE overlapped'
    BY <1>0, <1>f, <2>2, <2>3, <2>4 DEF OrderInv, Forwards
  <2>5. CASE ~overlapped'
    <3>1. /\ OneCall' /\ AnswersAreCached' /\ StoredOrdered'
          /\ \A u \in Tab : Ordered(u)'
          /\ \A u \in Tab : \A r \in Given(u)' \ Given(u) : r.stale \/ seen[u] <= r.edition
      BY <1>f, <2>5, FetchOrder
    <3>2. QED
      BY <1>0, <1>f, <2>2, <2>3, <2>5, <3>1 DEF OrderInv, Forwards
  <2>6. QED
    BY <2>2, <2>4, <2>5
\* Calls that end.
<1>e. ASSUME NEW k \in Call, calls[k] # None, NEW r \in Promise, Settle(k, r),
             UNCHANGED <<edition, httpCache, overlapped>>, \A j \in Call : r # [call |-> j],
             ~overlapped /\ IsResult(r) => r.edition \in 0..Newest /\ (r.stale \/ r.edition = Newest),
             ~overlapped => StoredOrdered',
             \A t \in Tab : /\ ~overlapped /\ seen'[t] \in 0..Newest /\ seen[t] <= seen'[t]
                            /\ \/ seen'[t] = seen[t]
                               \/ /\ memory[t] # None /\ memory[t].promise = [call |-> k]
                                  /\ IsResult(r) /\ seen'[t] = r.edition
                            => MemoryOrdered(t)' /\ StorageOrdered(t)'
      PROVE  OrderInv' /\ Forwards
  <2>1. seen' = [t \in Tab |-> seen'[t]]
    BY <1>e DEF Settle, Sees
  <2>2. CASE overlapped
    BY <1>0, <1>e, <2>1, <2>2 DEF OrderInv, Forwards
  <2>3. CASE ~overlapped
    <3>1. ASSUME NEW t \in Tab
          PROVE  /\ OneCall' /\ AnswersAreCached'
                 /\ WaitingOrdered(t)' /\ SeenOrdered(t)' /\ seen'[t] \in Nat /\ seen[t] <= seen'[t]
                 /\ \A x \in Given(t)' \ Given(t) : x.stale \/ seen[t] <= x.edition
                 /\ \/ seen'[t] = seen[t]
                    \/ /\ memory[t] # None /\ memory[t].promise = [call |-> k]
                       /\ IsResult(r) /\ seen'[t] = r.edition
      BY <1>0, <1>e, <2>3, SettleOrder
    <3>2. ASSUME NEW t \in Tab PROVE Ordered(t)'
      <4>1. seen'[t] \in 0..Newest
        BY <1>0, <1>e, <3>1 DEF SeenOrdered
      <4>2. MemoryOrdered(t)' /\ StorageOrdered(t)'
        BY <1>e, <2>3, <3>1, <4>1
      <4>3. QED
        BY <3>1, <4>2 DEF Ordered
    <3>3. OneCall' /\ AnswersAreCached'
      <4>1. \A j \in Call : calls'[j] = None
        BY <1>0, <1>e, <2>3 DEF Settle, FreshInv, OneCall
      <4>2. QED
        BY <4>1 DEF OneCall, AnswersAreCached
    <3>4. QED
      BY <1>0, <1>e, <2>1, <2>3, <3>1, <3>2, <3>3 DEF OrderInv, Forwards
  <2>4. QED
    BY <2>2, <2>3
<1>1. CASE UNCHANGED vars
  BY <1>1, <1>d DEF vars
<1>2. ASSUME NEW t \in Tab, Open(t) PROVE OrderInv' /\ Forwards
  <2> DEFINE f == Fetch(t, FALSE).memo
             p == [promise |-> f.promise, since |-> now]
  <2>1. /\ Fetches(t, FALSE) /\ Sees /\ UNCHANGED <<edition, httpCache, storage, submit>>
        /\ page' = [page EXCEPT ![t] = p] /\ f = Fetch(t, FALSE).memo
    BY <1>2 DEF Open
  <2> HIDE DEF f
  <2>2. p.promise = f.promise
    OBVIOUS
  <2> HIDE DEF p
  <2>3. page'[t] = p /\ \A u \in Tab \ {t} : page'[u] = page[u]
    BY <2>1 DEF FreshInv
  <2>4. Given(t)' \subseteq Given(t) \cup {f.promise}
    BY <2>1, <2>2, <2>3 DEF Given, IsResult
  <2>5. \A k \in Call : Waits(t, k)' => Waits(t, k) \/ f.promise = [call |-> k]
    BY <2>1, <2>2, <2>3 DEF Waits
  <2>6. QED
    BY <1>f, <2>1, <2>3, <2>4, <2>5
<1>3. ASSUME NEW t \in Tab, Leave(t) PROVE OrderInv' /\ Forwards
  BY <1>3, <1>d DEF Leave, FreshInv
<1>4. ASSUME NEW t \in Tab, Reload(t) PROVE OrderInv' /\ Forwards
  <2>1. /\ UNCHANGED <<edition, httpCache, storage, overlapped>>
        /\ memory'[t] = None /\ page'[t] = None /\ seen'[t] = 0
        /\ submit'[t].promise = None
        /\ \A u \in Tab \ {t} : /\ memory'[u] = memory[u] /\ page'[u] = page[u]
                                /\ seen'[u] = seen[u] /\ submit'[u] = submit[u]
        /\ \A k \in Call : calls'[k] = IF calls[k] # None /\ calls[k].tab = t THEN None
                                       ELSE calls[k]
        /\ seen' = [u \in Tab |-> seen'[u]]
    BY <1>0, <1>4 DEF Reload, NoSubmit, FreshInv, SubmitOK
  <2>2. Forwards
    BY <1>a, <1>g, <2>1
  <2>3. ASSUME ~overlapped, NEW u \in Tab \ {t} PROVE Ordered(u)'
    <3>1. \A k \in Call : calls[k] # None /\ calls[k].tab = u =>
                              calls'[k] # None /\ calls'[k].tab = u
      BY <2>1, <2>3
    <3>2. QED
      BY <1>0, <2>1, <2>3, <3>1, TabStays
  <2>4. ASSUME ~overlapped PROVE Ordered(t)'
    <3>1. \A k \in Call : ~Waits(t, k)'
      BY <2>1, CallIsPromise, NoneAssumption DEF Waits
    <3>2. Given(t)' = {}
      BY <2>1 DEF Given, IsResult
    <3>3. storage # None => storage.result.edition \in Nat
      BY <1>0, <2>4 DEF StoredOrdered
    <3>4. QED
      BY <1>0, <2>1, <3>1, <3>2, <3>3
         DEF Ordered, MemoryOrdered, WaitingOrdered, SeenOrdered, StorageOrdered
  <2>5. ~overlapped => OneCall' /\ AnswersAreCached' /\ StoredOrdered'
    BY <1>0, <2>1 DEF OneCall, AnswersAreCached, StoredOrdered
  <2>6. QED
    BY <1>0, <2>1, <2>2, <2>3, <2>4, <2>5 DEF OrderInv
<1>5. ASSUME NEW k \in Call, Serve(k) PROVE OrderInv' /\ Forwards
  <2> DEFINE answer == [edition |-> edition, at |-> now]
             c == [calls[k] EXCEPT !.answer = answer]
  <2>1. /\ calls[k] # None /\ calls' = [calls EXCEPT ![k] = c] /\ httpCache' = answer
        /\ UNCHANGED <<edition, storage, memory, page, submit, seen, overlapped>>
    BY <1>5 DEF Serve
  <2>2. answer # None /\ answer.edition = edition /\ answer \in Answer
    BY <1>0, NoneAssumption DEF Answer, FreshInv
  <2> HIDE DEF answer
  <2>3. c.tab = calls[k].tab /\ c.answer = answer
    BY <2>1 DEF FreshInv, CallsFresh
  <2>4. c # None
    <3>1. c = [tab |-> calls[k].tab, answer |-> answer]
      BY <2>1 DEF FreshInv, CallsFresh
    <3>2. calls[k].tab \in Tab /\ answer \in Answer
      BY <2>1, <2>2 DEF KindInv
    <3>3. QED
      BY <3>1, <3>2, NoneAssumption
  <2> HIDE DEF c
  <2>5. Newest' = edition
    BY <2>1, <2>2 DEF Newest
  <2>6. calls'[k] = c /\ \A j \in Call \ {k} : calls'[j] = calls[j]
    BY <2>1 DEF FreshInv
  <2>7. Forwards
    BY <1>a, <1>g, <2>1
  <2>8. ASSUME ~overlapped, NEW t \in Tab PROVE Ordered(t)'
    <3>1. \A j \in Call : calls[j] # None /\ calls[j].tab = t =>
                              calls'[j] # None /\ calls'[j].tab = t
      BY <2>3, <2>4, <2>6
    <3>2. QED
      BY <1>0, <2>1, <2>5, <2>8, <3>1, TabStays
  <2>9. ~overlapped => OneCall' /\ AnswersAreCached' /\ StoredOrdered'
    BY <1>0, <2>1, <2>3, <2>5, <2>6 DEF OneCall, AnswersAreCached, StoredOrdered
  <2>10. QED
    BY <1>0, <2>1, <2>5, <2>7, <2>8, <2>9 DEF OrderInv
<1>6. ASSUME NEW k \in Call, Arrive(k) PROVE OrderInv' /\ Forwards
  <2> DEFINE r == [edition |-> calls[k].answer.edition, at |-> calls[k].answer.at, stale |-> FALSE]
             e == [result |-> r, cachedAt |-> now]
  <2>1. /\ Settle(k, r) /\ MemorySettles(k, r) /\ UNCHANGED <<edition, httpCache, overlapped>>
        /\ storage' \in {e, storage} /\ calls[k] # None /\ calls[k].answer # None
    BY <1>6 DEF Arrive
  <2>2. r \in Result /\ r.edition = calls[k].answer.edition /\ r.stale = FALSE
    BY <2>1 DEF KindInv, Answer, Result
  <2>3. e.result = r /\ e.cachedAt = now
    OBVIOUS
  <2> HIDE DEF r, e
  <2>4. r \in Promise /\ \A j \in Call : r # [call |-> j]
    BY <2>2, ResultIsPromise, NoneAssumption, CallIsPromise
  <2>5. ~overlapped => r.edition = Newest /\ Newest \in 0..Newest
    BY <1>0, <2>1, <2>2 DEF AnswersAreCached, Newest
  <2>6. ~overlapped => StoredOrdered'
    BY <1>0, <2>1, <2>2, <2>3, <2>5 DEF StoredOrdered
  <2>7. ASSUME NEW t \in Tab, ~overlapped, seen'[t] \in 0..Newest,
               \/ seen'[t] = seen[t]
               \/ memory[t] # None /\ memory[t].promise = [call |-> k]
        PROVE  MemoryOrdered(t)' /\ StorageOrdered(t)'
    <3>1. MemoryOrdered(t)'
      BY <2>1, <2>4, <2>5, <2>7, SettledMemory
    <3>2. CASE storage' = storage
      BY <2>1, <2>4, <2>7, <3>1, <3>2, SettledStorage
    <3>3. CASE storage' = e
      BY <1>0, <2>1, <2>3, <2>5, <2>7, <3>1, <3>3 DEF MemoryOrdered, StorageOrdered
    <3>4. QED
      BY <2>1, <3>1, <3>2, <3>3
  <2>8. QED
    BY <1>e, <2>1, <2>4, <2>5, <2>6, <2>7
<1>7. ASSUME NEW k \in Call, FallBack(k) PROVE OrderInv' /\ Forwards
  <2> DEFINE r == [storage.result EXCEPT !.stale = TRUE]
  <2>1. /\ Settle(k, r) /\ MemorySettles(k, r) /\ storage # None /\ calls[k] # None
        /\ UNCHANGED <<edition, httpCache, storage, overlapped>>
    BY <1>7 DEF FallBack
  <2>2. r \in Result /\ r.edition = storage.result.edition /\ r.stale = TRUE
    BY <2>1 DEF KindInv, Result
  <2> HIDE DEF r
  <2>3. r \in Promise /\ \A j \in Call : r # [call |-> j]
    BY <2>2, ResultIsPromise, NoneAssumption, CallIsPromise
  <2>4. ~overlapped => r.edition \in 0..Newest /\ StoredOrdered'
    BY <1>0, <2>1, <2>2 DEF StoredOrdered
  <2>5. ASSUME NEW t \in Tab, ~overlapped, seen'[t] \in 0..Newest,
               \/ seen'[t] = seen[t]
               \/ memory[t] # None /\ memory[t].promise = [call |-> k]
        PROVE  MemoryOrdered(t)' /\ StorageOrdered(t)'
    BY <2>1, <2>2, <2>3, <2>4, <2>5, SettledMemory, SettledStorage
  <2>6. QED
    BY <1>e, <2>1, <2>2, <2>3, <2>4, <2>5
<1>8. ASSUME NEW k \in Call, Fail(k) PROVE OrderInv' /\ Forwards
  <2> DEFINE r == [error |-> TRUE]
             u == calls[k].tab
  <2>1. /\ Settle(k, r) /\ storage = None /\ calls[k] # None
        /\ memory' = [memory EXCEPT ![u] = None]
        /\ UNCHANGED <<edition, httpCache, storage, overlapped>>
    BY <1>8 DEF Fail
  <2>2. r \in Promise /\ (\A j \in Call : r # [call |-> j]) /\ ~IsResult(r)
    BY DEF Promise, IsResult
  <2> HIDE DEF r
  <2>3. ~overlapped => StoredOrdered'
    BY <2>1 DEF StoredOrdered
  <2>4. ASSUME NEW t \in Tab, ~overlapped, seen'[t] = seen[t]
        PROVE  MemoryOrdered(t)' /\ StorageOrdered(t)'
    <3>1. StorageOrdered(t)'
      BY <2>1 DEF StorageOrdered
    <3>2. memory'[t] = IF t = u THEN None ELSE memory[t]
      BY <2>1 DEF FreshInv
    <3>3. CASE memory'[t] = None
      BY <3>1, <3>3 DEF MemoryOrdered
    <3>4. CASE memory'[t] = memory[t] /\ t # u
      <4>1. \A j \in Call : memory[t] # None => memory[t].promise # [call |-> j]
        BY <1>0, <2>1, <2>4, <3>4 DEF Ordered, MemoryOrdered, OneCall
      <4>2. QED
        BY <1>0, <2>1, <2>4, <3>1, <3>4, <4>1 DEF Ordered, MemoryOrdered
    <3>5. QED
      BY <3>2, <3>3, <3>4
  <2>5. QED
    BY <1>e, <2>1, <2>2, <2>3, <2>4
<1>9. ASSUME NEW t \in Tab, Submit(t) PROVE OrderInv' /\ Forwards
  <2>1. PICK p : submit' = [submit EXCEPT ![t] = [step |-> "posting", paste |-> p, edition |-> 0,
                                                  promise |-> None]]
    BY <1>9 DEF Submit
  <2>2. \A u \in Tab : submit'[u].promise \in {submit[u].promise, None}
    BY <1>0, <2>1 DEF SubmitOK
  <2>3. QED
    BY <1>9, <1>d, <2>2 DEF Submit
<1>10. ASSUME NEW t \in Tab, Merge(t) PROVE OrderInv' /\ Forwards
  <2>1. \A u \in Tab : submit'[u].promise \in {submit[u].promise, None}
    BY <1>0, <1>10 DEF Merge, SubmitOK
  <2>2. QED
    BY <1>10, <1>d, <2>1 DEF Merge
<1>11. ASSUME NEW t \in Tab, MergeFails(t) PROVE OrderInv' /\ Forwards
  <2>1. \A u \in Tab : submit'[u].promise \in {submit[u].promise, None}
    BY <1>0, <1>11 DEF MergeFails, NoSubmit, SubmitOK
  <2>2. QED
    BY <1>11, <1>d, <2>1 DEF MergeFails
<1>12. ASSUME NEW t \in Tab, Refresh(t) PROVE OrderInv' /\ Forwards
  <2> DEFINE f == Fetch(t, TRUE).memo
             s == [step |-> "refreshing", paste |-> submit[t].paste,
                   edition |-> submit[t].edition, promise |-> f.promise]
  <2>1. /\ Fetches(t, TRUE) /\ Sees /\ UNCHANGED <<edition, httpCache, storage, page>>
        /\ submit' = [submit EXCEPT ![t] = s] /\ f = Fetch(t, TRUE).memo
    BY <1>12 DEF Refresh
  <2> HIDE DEF f
  <2>2. s.promise = f.promise
    OBVIOUS
  <2> HIDE DEF s
  <2>3. submit'[t] = s /\ \A u \in Tab \ {t} : submit'[u] = submit[u]
    BY <1>0, <2>1 DEF SubmitOK
  <2>4. Given(t)' \subseteq Given(t) \cup {f.promise}
    BY <2>1, <2>2, <2>3 DEF Given, IsResult
  <2>5. \A k \in Call : Waits(t, k)' => Waits(t, k) \/ f.promise = [call |-> k]
    BY <2>1, <2>2, <2>3 DEF Waits
  <2>6. QED
    BY <1>f, <2>1, <2>3, <2>4, <2>5
<1>13. CASE Publish
  BY <1>13, <1>d DEF Publish
<1>14. CASE Tick
  BY <1>14, <1>d DEF Tick
<1>15. CASE Load
  BY <1>15, <1>d DEF Load
<1>16. QED
  BY <1>1, <1>2, <1>3, <1>4, <1>5, <1>6, <1>7, <1>8, <1>9, <1>10, <1>11, <1>12, <1>13, <1>14, <1>15 DEF Next

\* Until two requests overlap, no page of a tab is given an older catalogue
\* than an earlier one was: what memory and storage hold is as new as what
\* the tab has seen, or expires no later than what is.
THEOREM NeverGoesBack == Spec => NeverBackwards
<1> DEFINE Inv == FreshInv /\ KindInv /\ SubmitInv /\ OrderInv
<1>1. Init => Inv
  BY FreshInit, KindInit, SubmitInit, OrderInit
<1>2. Inv /\ [Next]_vars => Inv'
  BY FreshStep, KindStep, SubmitStep, OrderStep
<1>3. Inv /\ [Next]_vars => [\A t \in Tab : \A r \in Given(t)' \ Given(t) :
                                 r.stale \/ overlapped' \/ seen[t] <= r.edition]_vars
  BY OrderStep DEF Forwards
<1> HIDE DEF Inv
<1>4. QED
  BY <1>1, <1>2, <1>3, PTL DEF Spec, NeverBackwards
=============================================================================
