--------------------------- MODULE FileAppsProofs ---------------------------
(***************************************************************************)
(* The file manager and the editor show what is on the disk, for every     *)
(* number of entries, rows and levels, every alphabet and every length of  *)
(* text.                                                                   *)
(***************************************************************************)
EXTENDS FileApps, SequenceTheorems, FiniteSetTheorems, TLAPS

USE SizesAssumption

EntType == [type : {"FREE", "FILE", "DIR"}, name : Names, parent : Ents, text : Texts]
FmType ==
  [win : Windows, dir : Ents, nav : Seq(Ents), rows : Seq(RowType), last : 0 .. MaxRows,
   scroll : 0 .. MaxRows, folders : 1 .. MaxFolders, files : 1 .. MaxFiles]
EdType == [win : Windows, text : Texts, dirty : BOOLEAN, hasFile : BOOLEAN,
           file : Ents, name : Names, awaiting : BOOLEAN]

Types == TypeOK /\ fm \in FmType

(* The root is a directory, and no other entry is its own parent.          *)
TreeInv ==
  /\ store[Root].type = "DIR"
  /\ \A e \in Live \ {Root} : store[e].parent # e

(* A menu of a row that is open remembers the row that was clicked.        *)
MenuInv ==
  menu.open /\ menu.mode = "ROW" /\ menu.target \in DOMAIN fm.rows =>
    menu.chosen = fm.rows[menu.target].index

RowsInv ==
  /\ \A i \in DOMAIN fm.rows :
       LET r == fm.rows[i] IN
         /\ store[r.index].type = r.type /\ store[r.index].name = r.name
         /\ store[r.index].parent = fm.dir
  /\ fm.scroll > 0 => fm.scroll + VisibleRows <= Len(fm.rows)

IInv == Types /\ TreeInv /\ MenuInv /\ RowsInv /\ NavIntact /\ EditorShowsItsFile

-----------------------------------------------------------------------------
(* Texts.                                                                  *)

LEMMA TextFacts ==
  /\ \A t \in Texts : t \in Seq(Chars) /\ Len(t) \in 0 .. MaxText
                      /\ DOMAIN t = 1 .. Len(t)
  /\ \A t \in Seq(Chars) : Len(t) <= MaxText => t \in Texts
  /\ <<>> \in Texts /\ Len(<<>>) = 0
<1>1. ASSUME NEW t \in Texts
      PROVE  t \in Seq(Chars) /\ Len(t) \in 0 .. MaxText /\ DOMAIN t = 1 .. Len(t)
  <2>1. PICK n \in 0 .. MaxText : t \in [1 .. n -> Chars]
    BY <1>1 DEF Texts
  <2>2. n \in Nat /\ t \in Seq(Chars)
    BY <2>1, SeqDef
  <2>3. Len(t) = n
    BY <2>1, <2>2, LenProperties
  <2> QED BY <2>1, <2>2, <2>3
<1>2. ASSUME NEW t \in Seq(Chars), Len(t) <= MaxText PROVE t \in Texts
  <2>1. t \in [1 .. Len(t) -> Chars] /\ Len(t) \in Nat
    BY <1>2, LenProperties
  <2>2. Len(t) \in 0 .. MaxText
    BY <1>2, <2>1
  <2> QED BY <2>1, <2>2 DEF Texts
<1>3. <<>> \in Seq(Chars) /\ Len(<<>>) = 0
  BY EmptySeq
<1>4. <<>> \in Texts
  <2>1. PICK t \in Seq(Chars) : t = <<>> /\ Len(t) = 0
    BY <1>3
  <2>2. Len(t) <= MaxText
    BY <2>1
  <2> QED BY <1>2, <2>1, <2>2
<1> QED BY <1>1, <1>2, <1>3, <1>4

LEMMA OverwrittenFacts ==
  ASSUME NEW a \in Texts, NEW b \in Texts, NEW m, m = Len(a), NEW n, n = Len(b),
         NEW t, t = Overwritten(a, b)
  PROVE  /\ t \in Texts /\ Len(t) = IF m < n THEN n ELSE m
         /\ \A i \in 1 .. n : t[i] = b[i]
<1>1. /\ m \in 0 .. MaxText /\ n \in 0 .. MaxText
      /\ a \in [1 .. m -> Chars] /\ b \in [1 .. n -> Chars]
  BY TextFacts, LenProperties
<1>2. PICK k \in 0 .. MaxText : k = IF m < n THEN n ELSE m
  BY <1>1
<1>3. t = [i \in 1 .. k |-> IF i <= n THEN b[i] ELSE a[i]]
  BY <1>2 DEF Overwritten
<1>4. t \in [1 .. k -> Chars]
  <2>1. ASSUME NEW i \in 1 .. k PROVE (IF i <= n THEN b[i] ELSE a[i]) \in Chars
    <3>1. CASE i <= n
      BY <1>1, <1>2, <3>1
    <3>2. CASE ~(i <= n)
      <4>1. i \in 1 .. m
        BY <1>1, <1>2, <3>2
      <4> QED BY <1>1, <3>2, <4>1
    <3> QED BY <3>1, <3>2
  <2> QED BY <1>3, <2>1
<1>5. t \in Texts
  BY <1>4 DEF Texts
<1>6. t \in Seq(Chars) /\ Len(t) = k
  <2>1. t \in Seq(Chars)
    BY <1>5, TextFacts
  <2> QED BY <1>2, <1>4, <2>1, LenProperties
<1>7. \A i \in 1 .. n : t[i] = b[i]
  BY <1>1, <1>2, <1>3
<1> QED BY <1>2, <1>5, <1>6, <1>7

LEMMA TruncatedFacts ==
  ASSUME NEW a \in Texts, NEW n \in Nat, NEW t, t = Truncated(a, n)
  PROVE  /\ t \in Texts /\ Len(t) = IF n < Len(a) THEN n ELSE Len(a)
         /\ \A i \in 1 .. Len(t) : t[i] = a[i]
<1>1. a \in Seq(Chars) /\ Len(a) \in 0 .. MaxText /\ a \in [1 .. Len(a) -> Chars]
  BY TextFacts, LenProperties
<1>2. CASE n < Len(a)
  <2>1. t = SubSeq(a, 1, n)
    BY <1>2 DEF Truncated
  <2>2. \A i \in 1 .. n : a[i] \in Chars
    BY <1>1, <1>2
  <2>3. /\ t \in Seq(Chars) /\ Len(t) = IF 1 <= n THEN n - 1 + 1 ELSE 0
        /\ \A i \in 1 .. n - 1 + 1 : t[i] = a[1 + i - 1]
    BY <2>1, <2>2, SubSeqProperties
  <2>4. Len(t) = n /\ \A i \in 1 .. n : t[i] = a[i]
    BY <2>3
  <2>5. t \in Texts
    BY <1>1, <1>2, <2>3, <2>4, TextFacts
  <2> QED BY <1>2, <2>4, <2>5
<1>3. CASE ~(n < Len(a))
  BY <1>3 DEF Truncated
<1> QED BY <1>2, <1>3

(* What a save leaves in the file is the text.                             *)
LEMMA SavedIsText ==
  ASSUME NEW a \in Texts, NEW b \in Texts
  PROVE  Truncated(Overwritten(a, b), Len(b)) = b
<1>1. PICK t, u, n : t = Overwritten(a, b) /\ u = Truncated(t, n) /\ n = Len(b)
  OBVIOUS
<1>2. /\ t \in Texts /\ Len(t) >= n /\ n \in Nat
      /\ \A i \in 1 .. n : t[i] = b[i]
  <2>1. /\ t \in Texts /\ \A i \in 1 .. n : t[i] = b[i]
        /\ Len(t) = IF Len(a) < n THEN n ELSE Len(a)
    BY <1>1, OverwrittenFacts
  <2>2. Len(a) \in Nat /\ n \in Nat
    BY <1>1, TextFacts
  <2> QED BY <2>1, <2>2
<1>3. /\ u \in Texts /\ Len(u) = n /\ \A i \in 1 .. Len(u) : u[i] = t[i]
  <2>1. /\ u \in Texts /\ Len(u) = IF n < Len(t) THEN n ELSE Len(t)
        /\ \A i \in 1 .. Len(u) : u[i] = t[i]
    BY <1>1, <1>2, TruncatedFacts
  <2>2. Len(t) \in Nat
    BY <1>2, TextFacts
  <2> QED BY <1>2, <2>1, <2>2
<1>4. u \in Seq(Chars) /\ b \in Seq(Chars) /\ Len(u) = Len(b)
  BY <1>1, <1>3, TextFacts
<1>5. \A i \in 1 .. Len(u) : u[i] = b[i]
  BY <1>2, <1>3
<1>6. u = b
  BY <1>4, <1>5, SeqEqual
<1> QED BY <1>1, <1>6

-----------------------------------------------------------------------------
(* A listing.                                                              *)

(* The rank of the members of a finite set of numbers: every rank below    *)
(* the number of members is the rank of one.                               *)
LEMMA RankTaken ==
  ASSUME NEW C \in SUBSET Ents, NEW i \in 1 .. Cardinality(C)
  PROVE  \E e \in C : Cardinality({c \in C : c < e}) = i - 1
<1> DEFINE rank == [e \in C |-> Cardinality({c \in C : c < e})]
<1>1. IsFiniteSet(Ents)
  <2>1. NumEntries - 1 \in Int
    OBVIOUS
  <2> QED BY <2>1, FS_Interval DEF Ents
<1>2. IsFiniteSet(C) /\ Cardinality(C) \in Nat
  BY <1>1, FS_Subset, FS_CardinalityType
<1>3. PICK n \in Nat : n = Cardinality(C)
  BY <1>2
<1>4. ASSUME NEW e \in C
      PROVE  /\ IsFiniteSet({c \in C : c < e}) /\ rank[e] \in 0 .. n - 1
             /\ rank[e] = Cardinality({c \in C : c < e})
  <2>1. {c \in C : c < e} \in SUBSET C /\ e \notin {c \in C : c < e} /\ e \in C
    BY <1>4 DEF Ents
  <2>2. IsFiniteSet({c \in C : c < e}) /\ Cardinality({c \in C : c < e}) \in Nat
        /\ Cardinality({c \in C : c < e}) <= n
        /\ Cardinality({c \in C : c < e}) # n
    BY <1>2, <1>3, <2>1, FS_Subset, FS_CardinalityType
  <2> QED BY <1>3, <1>4, <2>2
<1>5. ASSUME NEW d \in C, NEW e \in C, d < e
      PROVE  rank[d] # rank[e]
  <2>1. {c \in C : c < d} \in SUBSET {c \in C : c < e}
    <3>1. ASSUME NEW c \in C, c < d PROVE c < e
      <4>1. c \in Int /\ d \in Int /\ e \in Int
        BY DEF Ents
      <4> QED BY <1>5, <3>1, <4>1
    <3> QED BY <3>1
  <2>2. d \in {c \in C : c < e} /\ d \notin {c \in C : c < d}
    BY <1>5 DEF Ents
  <2> QED BY <1>4, <2>1, <2>2, FS_Subset
<1>6. rank \in Injection(C, 0 .. n - 1)
  <2>1. rank \in [C -> 0 .. n - 1]
    BY <1>4
  <2>2. ASSUME NEW d \in C, NEW e \in C, rank[d] = rank[e] PROVE d = e
    <3>1. ~(d < e) /\ ~(e < d)
      BY <1>5, <2>2
    <3> QED BY <3>1 DEF Ents
  <2> QED BY <2>1, <2>2 DEF Injection, IsInjective
<1>7. IsFiniteSet(0 .. n - 1) /\ Cardinality(0 .. n - 1) = n
  <2>1. /\ IsFiniteSet(0 .. n - 1)
        /\ Cardinality(0 .. n - 1) = IF 0 > n - 1 THEN 0 ELSE n - 1 - 0 + 1
    BY FS_Interval
  <2> QED BY <2>1
<1>8. rank \in Surjection(C, 0 .. n - 1)
  BY <1>3, <1>6, <1>7, FS_Injection
<1>9. i - 1 \in 0 .. n - 1
  BY <1>3
<1>10. PICK e \in C : rank[e] = i - 1
  BY <1>8, <1>9 DEF Surjection
<1> QED BY <1>4, <1>10

RowOf(r, s, d) == /\ r.index \in Ents \ {d} /\ s[r.index].parent = d
                  /\ r.name = s[r.index].name /\ r.type = s[r.index].type

LEMMA ListedFacts ==
  ASSUME NEW s \in [Ents -> EntType], NEW d \in Ents, NEW rows, rows = Listed(s, d)
  PROVE  /\ rows \in Seq(RowType) /\ Len(rows) <= MaxRows
         /\ \A i \in DOMAIN rows : RowOf(rows[i], s, d)
<1> DEFINE C == Children(s, d)
           Nth(i) == CHOOSE e \in C : Cardinality({c \in C : c < e}) = i - 1
<1>1. C \in SUBSET Ents
  BY DEF Children
<1>2. Cardinality(C) \in Nat
  <2>1. IsFiniteSet(Ents)
    <3>1. NumEntries - 1 \in Int
      OBVIOUS
    <3> QED BY <3>1, FS_Interval DEF Ents
  <2> QED BY <1>1, <2>1, FS_Subset, FS_CardinalityType
<1>3. ASSUME NEW i \in 1 .. Cardinality(C) PROVE Nth(i) \in C
  <2>1. \E e \in C : Cardinality({c \in C : c < e}) = i - 1
    BY <1>1, RankTaken
  <2> QED BY <2>1
<1>4. PICK k \in Nat : k = IF Cardinality(C) < MaxRows THEN Cardinality(C) ELSE MaxRows
  BY <1>2
<1>5. rows = [i \in 1 .. k |-> Row(s, Nth(i))]
  BY <1>4 DEF Listed
<1>6. ASSUME NEW e \in C PROVE Row(s, e) \in RowType /\ RowOf(Row(s, e), s, d)
  <2>1. e \in Ents \ {d} /\ s[e].type # "FREE" /\ s[e].parent = d /\ s[e] \in EntType
    BY <1>6 DEF Children
  <2>2. s[e].type \in {"FILE", "DIR"} /\ s[e].name \in Names
    BY <2>1 DEF EntType
  <2> QED BY <2>1, <2>2 DEF Row, RowType, RowOf
<1>7. ASSUME NEW i \in 1 .. k PROVE rows[i] \in RowType /\ RowOf(rows[i], s, d)
  <2>1. i \in 1 .. Cardinality(C)
    BY <1>2, <1>4
  <2>2. Nth(i) \in C
    BY <1>3, <2>1
  <2> QED BY <1>5, <1>6, <2>2
<1> HIDE DEF C, Nth
<1>8. rows \in [1 .. k -> RowType]
  BY <1>5, <1>7
<1>9. rows \in Seq(RowType) /\ Len(rows) = k
  BY <1>8, SeqDef, LenProperties
<1>10. k <= MaxRows
  BY <1>2, <1>4
<1> QED BY <1>7, <1>8, <1>9, <1>10

-----------------------------------------------------------------------------
(* What the operations do to the table.                                    *)

SameEntry(a, b) == a.type = b.type /\ a.name = b.name /\ a.parent = b.parent

(* The entries in use stay what they are, and a new one is under another.  *)
Grown(s, t) ==
  \A e \in Ents :
    /\ s[e].type # "FREE" => SameEntry(t[e], s[e])
    /\ s[e].type = "FREE" => t[e].type = "FREE" \/ t[e].parent # e

LEMMA TypesFacts ==
  ASSUME Types
  PROVE  /\ store \in [Ents -> EntType] /\ fm \in FmType /\ ed \in EdType
         /\ menu \in [open : BOOLEAN, mode : {"ROW", "EMPTY"}, target : 0 .. MaxRows,
                      chosen : Ents]
         /\ lost \in BOOLEAN /\ failed \in BOOLEAN
         /\ Len(fm.nav) <= MaxDepth /\ Len(fm.rows) <= MaxRows
         /\ Root \in Ents
<1>1. Root \in Ents
  BY DEF Root, Ents
<1> QED BY <1>1 DEF Types, TypeOK, EntType, EdType

LEMMA NameFacts ==
  /\ NoName \in Names /\ TypedNames \subseteq Names
  /\ \A n \in 1 .. MaxFolders : Folder(n) \in Names
  /\ \A n \in 1 .. MaxFiles : File(n) \in Names
BY DEF Names

LEMMA FreeFacts ==
  Free \in EntType /\ Free.type = "FREE"
<1>1. NoName \in Names /\ <<>> \in Texts /\ Root \in Ents
  BY NameFacts, TextFacts DEF Root, Ents
<1> QED BY <1>1 DEF Free, EntType

(* An entry that is created takes the place of a free one.                 *)
LEMMA CreatedFacts ==
  ASSUME store \in [Ents -> EntType], NEW d \in Ents, NEW n \in Names,
         NEW ty \in {"FILE", "DIR"}, NEW e \in NewEntry(d, n), NEW s,
         s = Created(e, d, n, ty)
  PROVE  /\ s \in [Ents -> EntType] /\ Grown(store, s) /\ e \in Ents
         /\ s[e].type = ty /\ s[e].name = n /\ s[e].text = <<>> /\ s[e].parent = d
         /\ \A x \in Ents : store[x].type # "FREE" => s[x] = store[x]
<1>1. /\ e \in Ents /\ store[e].type = "FREE" /\ store[d].type = "DIR"
  BY DEF NewEntry
<1>2. PICK new : new = [type |-> ty, name |-> n, parent |-> d, text |-> <<>>]
  OBVIOUS
<1>3. /\ new \in EntType /\ new.type = ty /\ new.name = n /\ new.parent = d
      /\ new.text = <<>>
  BY <1>2, TextFacts DEF EntType
<1>4. s = [store EXCEPT ![e] = new]
  BY <1>2 DEF Created
<1>5. s \in [Ents -> EntType] /\ s[e] = new /\ \A x \in Ents \ {e} : s[x] = store[x]
  BY <1>1, <1>3, <1>4
<1>6. Grown(store, s)
  <2>1. e # d
    BY <1>1
  <2> QED BY <1>1, <1>3, <1>5, <2>1 DEF Grown, SameEntry
<1> QED BY <1>1, <1>3, <1>5, <1>6

LEMMA WithTextFacts ==
  ASSUME NEW s \in [Ents -> EntType], NEW f \in Ents, NEW t \in Texts,
         NEW u, u = WithText(s, f, t)
  PROVE  /\ u \in [Ents -> EntType]
         /\ \A e \in Ents : SameEntry(u[e], s[e])
         /\ s[f].type = "FILE" => u[f].text = t
<1>1. CASE s[f].type = "FILE"
  <2>1. PICK new : new = [s[f] EXCEPT !.text = t]
    OBVIOUS
  <2>2. new \in EntType /\ SameEntry(new, s[f]) /\ new.text = t
    <3>1. s[f] \in EntType
      OBVIOUS
    <3> QED BY <2>1, <3>1 DEF EntType, SameEntry
  <2>3. u = [s EXCEPT ![f] = new]
    BY <1>1, <2>1 DEF WithText
  <2> QED BY <2>2, <2>3 DEF SameEntry
<1>2. CASE s[f].type # "FILE"
  BY <1>2 DEF WithText, SameEntry
<1> QED BY <1>1, <1>2

(* A save changes texts only; one that is not marked as failed leaves the  *)
(* text of the editor in the file.                                         *)
LEMMA SaveFacts ==
  ASSUME NEW s \in [Ents -> EntType], NEW f \in Ents, NEW e \in EdType,
         ed \in EdType, e.text = ed.text, Save(s, f, e)
  PROVE  /\ store' \in [Ents -> EntType]
         /\ \A x \in Ents : SameEntry(store'[x], s[x])
         /\ ed' \in EdType
         /\ ed'.hasFile = e.hasFile /\ ed'.file = e.file /\ ed'.name = e.name
         /\ failed' \in BOOLEAN
         /\ ~failed' => ed'.text = store'[f].text
<1> DEFINE old == s[f].text
           Saved(t, d, bad) == /\ store' = WithText(s, f, t)
                               /\ ed' = [e EXCEPT !.dirty = d]
                               /\ failed' = bad
<1>1. s[f] \in EntType /\ old \in Texts /\ ed.text \in Texts
  <2>1. s[f] \in EntType
    OBVIOUS
  <2> QED BY <2>1 DEF EntType, EdType
<1>2. ASSUME NEW t \in Texts, NEW d \in BOOLEAN, NEW bad \in BOOLEAN, Saved(t, d, bad)
      PROVE  /\ store' \in [Ents -> EntType]
             /\ \A x \in Ents : SameEntry(store'[x], s[x])
             /\ ed' \in EdType /\ ed'.text = e.text
             /\ ed'.hasFile = e.hasFile /\ ed'.file = e.file /\ ed'.name = e.name
             /\ failed' = bad
             /\ s[f].type = "FILE" => store'[f].text = t
  <2>1. /\ store' \in [Ents -> EntType]
        /\ \A x \in Ents : SameEntry(store'[x], s[x])
        /\ s[f].type = "FILE" => store'[f].text = t
    BY <1>2, WithTextFacts
  <2>2. /\ ed' \in EdType /\ ed'.text = e.text
        /\ ed'.hasFile = e.hasFile /\ ed'.file = e.file /\ ed'.name = e.name
    BY <1>2 DEF EdType
  <2> QED BY <1>2, <2>1, <2>2
<1>3. ASSUME NEW b \in Texts, NEW k \in Nat
      PROVE  Truncated(Overwritten(old, b), k) \in Texts /\ Overwritten(old, b) \in Texts
  <2>1. Overwritten(old, b) \in Texts
    BY <1>1, OverwrittenFacts
  <2> QED BY <2>1, TruncatedFacts
<1>4. Len(ed.text) \in Nat /\ Len(old) \in Nat
  BY <1>1, TextFacts
<1>5. CASE s[f].type = "FILE" /\ Saved(SavedText(old), FALSE, FALSE)
  <2>1. SavedText(old) = ed.text
    BY <1>1, SavedIsText DEF SavedText
  <2>2. Saved(ed.text, FALSE, FALSE)
    BY <1>5, <2>1, Zenon
  <2> HIDE DEF Saved
  <2> QED BY <1>1, <1>2, <1>5, <2>2
<1>6. CASE Saved(Overwritten(old, ed.text), FALSE, TRUE)
  <2>1. Overwritten(old, ed.text) \in Texts
    BY <1>1, <1>3
  <2> HIDE DEF Saved
  <2> QED BY <1>2, <1>6, <2>1
<1>7. CASE \E k \in 0 .. Len(ed.text) :
             Saved(Truncated(Overwritten(old, Truncated(ed.text, k)), Len(old)), e.dirty, TRUE)
  <2>1. PICK k \in 0 .. Len(ed.text) :
          Saved(Truncated(Overwritten(old, Truncated(ed.text, k)), Len(old)), e.dirty, TRUE)
    BY <1>7
  <2>2. k \in Nat /\ Truncated(ed.text, k) \in Texts
    BY <1>1, <1>4, TruncatedFacts
  <2>3. Truncated(Overwritten(old, Truncated(ed.text, k)), Len(old)) \in Texts
    BY <1>3, <1>4, <2>2
  <2>4. e.dirty \in BOOLEAN
    BY DEF EdType
  <2> HIDE DEF Saved
  <2> QED BY <1>2, <2>1, <2>3, <2>4
<1>8. \/ s[f].type = "FILE" /\ Saved(SavedText(old), FALSE, FALSE)
      \/ Saved(Overwritten(old, ed.text), FALSE, TRUE)
      \/ \E k \in 0 .. Len(ed.text) :
           Saved(Truncated(Overwritten(old, Truncated(ed.text, k)), Len(old)), e.dirty, TRUE)
  BY Zenon DEF Save
<1> QED BY <1>5, <1>6, <1>7, <1>8

-----------------------------------------------------------------------------
(* The steps, by what they do to the listing.                              *)

FmTypes == /\ fm \in FmType /\ Len(fm.nav) <= MaxDepth /\ Len(fm.rows) <= MaxRows
           /\ menu \in [open : BOOLEAN, mode : {"ROW", "EMPTY"}, target : 0 .. MaxRows,
                        chosen : Ents]

(* Directory d is listed, with the stack nav, and no menu stays open.      *)
Shows(d, nav) ==
  /\ \E rows \in {Listed(store', d), <<>>} : fm'.rows = rows
  /\ fm'.scroll = 0 /\ fm'.dir = d /\ fm'.nav = nav
  /\ ~menu'.open

(* The rows stay; the menu may open, on one of them.                       *)
Stays ==
  /\ Grown(store, store')
  /\ fm'.rows = fm.rows /\ fm'.dir = fm.dir /\ fm'.nav = fm.nav
  /\ fm'.scroll > 0 => fm'.scroll + VisibleRows <= Len(fm.rows)
  /\ menu'.open /\ menu'.mode = "ROW" /\ menu'.target \in DOMAIN fm.rows =>
       menu'.chosen = fm.rows[menu'.target].index

Lists  == Grown(store, store') /\ Shows(fm.dir, fm.nav)
Enters == \E i \in DOMAIN fm.rows :
            /\ store' = store /\ fm.rows[i].type = "DIR"
            /\ Shows(fm.rows[i].index, Append(fm.nav, fm.dir))
Leaves == /\ store' = store /\ fm.nav # <<>>
          /\ Shows(fm.nav[Len(fm.nav)], SubSeq(fm.nav, 1, Len(fm.nav) - 1))
Empties == /\ OnRow /\ Deletable(Target.index)
           /\ store' = [store EXCEPT ![Target.index] = Free]
           /\ Shows(fm.dir, fm.nav)

LEMMA ClosedMenuFacts ==
  /\ ClosedMenu \in [open : BOOLEAN, mode : {"ROW", "EMPTY"}, target : 0 .. MaxRows,
                     chosen : Ents]
  /\ ~ClosedMenu.open /\ RefreshedMenu = ClosedMenu
<1>1. Root \in Ents /\ NoRow \in 0 .. MaxRows
  BY DEF Root, Ents, NoRow
<1> QED BY <1>1 DEF ClosedMenu, RefreshedMenu

Moved(rows, d, nav) == [Relisted(rows) EXCEPT !.dir = d, !.nav = nav]

LEMMA RelistedFacts ==
  ASSUME NEW s \in [Ents -> EntType], fm \in FmType, NEW d \in Ents,
         NEW nav \in Seq(Ents), NEW rows \in {Listed(s, d), <<>>}, NEW x,
         x = Moved(rows, d, nav)
  PROVE  /\ x \in FmType /\ Len(x.rows) <= MaxRows
         /\ x.rows = rows /\ x.scroll = 0 /\ x.dir = d /\ x.nav = nav
         /\ x.win = fm.win /\ x.folders = fm.folders /\ x.files = fm.files
<1>1. rows \in Seq(RowType) /\ Len(rows) <= MaxRows
  <2>1. CASE rows = Listed(s, d)
    BY <2>1, ListedFacts
  <2>2. CASE rows = <<>>
    <3>1. PICK r \in Seq(RowType) : r = <<>> /\ Len(r) = 0
      BY EmptySeq
    <3>2. r \in Seq(RowType) /\ Len(r) <= MaxRows
      BY <3>1
    <3> QED BY <2>2, <3>1, <3>2, Zenon
  <2> QED BY <2>1, <2>2
<1>2. NoRow \in 0 .. MaxRows /\ 0 \in 0 .. MaxRows
  BY DEF NoRow
<1>3. x \in FmType
  BY <1>1, <1>2 DEF Moved, Relisted, FmType
<1>4. /\ x.rows = rows /\ x.scroll = 0 /\ x.dir = d /\ x.nav = nav
      /\ x.win = fm.win /\ x.folders = fm.folders /\ x.files = fm.files
  BY DEF Moved, Relisted, FmType
<1> QED BY <1>1, <1>3, <1>4

LEMMA RefreshFacts ==
  ASSUME Types, store' = store, NEW d \in Ents, NEW nav \in Seq(Ents),
         Len(nav) <= MaxDepth, Refresh(store, d, nav)
  PROVE  FmTypes' /\ Shows(d, nav)
<1>1. PICK rows \in {Listed(store, d), <<>>} :
        fm' = [Relisted(rows) EXCEPT !.dir = d, !.nav = nav]
  BY Zenon DEF Refresh
<1>2. /\ fm' \in FmType /\ Len(fm'.rows) <= MaxRows
      /\ fm'.rows = rows /\ fm'.scroll = 0 /\ fm'.dir = d /\ fm'.nav = nav
  <2>1. store \in [Ents -> EntType] /\ fm \in FmType
    BY TypesFacts
  <2>2. PICK x : x = Moved(rows, d, nav)
    OBVIOUS
  <2>3. /\ x \in FmType /\ Len(x.rows) <= MaxRows
        /\ x.rows = rows /\ x.scroll = 0 /\ x.dir = d /\ x.nav = nav
    BY <2>1, <2>2, RelistedFacts
  <2>4. fm' = x
    BY <1>1, <2>2 DEF Moved
  <2> QED BY <2>3, <2>4
<1>3. menu' = ClosedMenu
  BY ClosedMenuFacts DEF Refresh
<1> QED BY <1>1, <1>2, <1>3, ClosedMenuFacts DEF FmTypes, Shows

(* A row is an entry of the directory shown.                               *)
LEMMA RowFacts ==
  ASSUME Types, RowsInv, NEW i \in DOMAIN fm.rows, NEW r, r = fm.rows[i]
  PROVE  /\ r \in RowType /\ r.index \in Ents /\ r.name \in Names
         /\ r.type \in {"DIR", "FILE"} /\ i \in 1 .. MaxRows
         /\ store[r.index].type = r.type /\ store[r.index].name = r.name
         /\ store[r.index].parent = fm.dir
<1>1. PICK rows \in Seq(RowType) : rows = fm.rows
  BY TypesFacts DEF FmType
<1>2. DOMAIN rows = 1 .. Len(rows) /\ rows[i] \in RowType /\ Len(rows) \in Nat
  BY <1>1
<1>3. r \in RowType /\ i \in 1 .. MaxRows
  BY <1>1, <1>2, TypesFacts
<1>4. r.index \in Ents /\ r.name \in Names /\ r.type \in {"DIR", "FILE"}
  BY <1>3 DEF RowType
<1> QED BY <1>3, <1>4 DEF RowsInv

LEMMA EnterDirFacts ==
  ASSUME Types, RowsInv, NEW i \in DOMAIN fm.rows, EnterDir(fm.rows[i])
  PROVE  FmTypes' /\ Enters /\ UNCHANGED <<store, ed, lost, failed>>
<1>1. PICK r : r = fm.rows[i]
  OBVIOUS
<1>2. r.index \in Ents
  BY <1>1, RowFacts
<1>3. PICK nav : nav = Append(fm.nav, fm.dir)
  OBVIOUS
<1>4. /\ r.type = "DIR" /\ Len(fm.nav) < MaxDepth
      /\ Refresh(store, r.index, nav) /\ UNCHANGED <<store, ed, lost, failed>>
  BY <1>1, <1>3 DEF EnterDir, Pushed
<1>5. nav \in Seq(Ents) /\ Len(nav) <= MaxDepth
  <2>1. PICK v \in Seq(Ents), d \in Ents : v = fm.nav /\ d = fm.dir
    BY TypesFacts DEF FmType
  <2>2. nav = Append(v, d) /\ Len(v) < MaxDepth
    BY <1>3, <1>4, <2>1
  <2> QED BY <2>1, <2>2
<1>6. FmTypes' /\ Shows(r.index, nav)
  BY <1>2, <1>4, <1>5, RefreshFacts
<1>7. Enters
  BY <1>1, <1>3, <1>4, <1>6 DEF Enters
<1> QED BY <1>4, <1>6, <1>7

Kinds == Stays \/ Lists \/ Enters \/ Leaves \/ Empties
FmShape == FmTypes' /\ store' \in [Ents -> EntType] /\ Kinds
FmInv == Types /\ RowsInv /\ MenuInv

(* A step that leaves the listing alone.                                   *)
LEMMA StaysFacts ==
  ASSUME FmInv, Grown(store, store'), store' \in [Ents -> EntType],
         fm' \in FmType, fm'.rows = fm.rows, fm'.dir = fm.dir, fm'.nav = fm.nav,
         fm'.scroll = fm.scroll, menu' = menu \/ menu' = ClosedMenu
  PROVE  FmShape
<1>1. FmTypes'
  BY TypesFacts, ClosedMenuFacts DEF FmTypes, FmInv
<1>2. Stays
  BY ClosedMenuFacts DEF Stays, FmInv, RowsInv, MenuInv
<1> QED BY <1>1, <1>2 DEF FmShape, Kinds

LEMMA Same == store' = store => Grown(store, store')
BY DEF Grown, SameEntry

LEMMA WindowFacts ==
  ASSUME FmInv, FmClose \/ FmMinimize \/ MenuDismiss \/ (\E i : SelectRow(i))
  PROVE  FmShape /\ UNCHANGED <<store, ed, lost, failed>>
<1>1. /\ fm \in FmType /\ store \in [Ents -> EntType]
      /\ \A i \in DOMAIN fm.rows : i \in 0 .. MaxRows
  <2>1. \A i \in DOMAIN fm.rows : i \in 1 .. MaxRows
    BY RowFacts DEF FmInv
  <2> QED BY <2>1, TypesFacts DEF FmInv
<1>2. UNCHANGED <<store, ed, lost, failed>> /\ (menu' = menu \/ menu' = ClosedMenu)
  BY Zenon DEF FmClose, FmMinimize, MenuDismiss, SelectRow
<1>3. /\ fm' \in FmType /\ fm'.rows = fm.rows /\ fm'.dir = fm.dir /\ fm'.nav = fm.nav
      /\ fm'.scroll = fm.scroll
  <2>1. CASE FmClose
    BY <1>1, <2>1 DEF FmClose, FmType, Windows
  <2>2. CASE FmMinimize
    BY <1>1, <2>2 DEF FmMinimize, FmType, Windows
  <2>3. CASE MenuDismiss
    BY <1>1, <2>3 DEF MenuDismiss
  <2>4. CASE \E i : SelectRow(i)
    <3>1. PICK i \in DOMAIN fm.rows : fm' = [fm EXCEPT !.last = i]
      BY <2>4 DEF SelectRow
    <3>2. i \in 0 .. MaxRows
      BY <1>1, <3>1
    <3> QED BY <1>1, <3>1, <3>2 DEF FmType
  <2> QED BY <2>1, <2>2, <2>3, <2>4
<1>4. Grown(store, store')
  BY <1>2, Same
<1> QED BY <1>1, <1>2, <1>3, <1>4, StaysFacts

LEMMA ScrollFacts ==
  ASSUME FmInv, NEW delta \in {-1, 2}, FmScroll(delta)
  PROVE  FmShape /\ UNCHANGED <<store, ed, lost, failed>>
<1>1. fm \in FmType /\ store \in [Ents -> EntType] /\ Len(fm.rows) <= MaxRows
  BY TypesFacts DEF FmInv
<1>2. PICK n : n = Len(fm.rows)
  OBVIOUS
<1>3. n \in Nat /\ n <= MaxRows /\ fm.scroll \in 0 .. MaxRows
  <2>1. PICK rows \in Seq(RowType) : rows = fm.rows
    BY <1>1 DEF FmType
  <2> QED BY <1>1, <1>2, <2>1 DEF FmType
<1>4. PICK k : k = Scrolled(delta)
  OBVIOUS
<1>5. k \in 0 .. MaxRows /\ (k > 0 => k + VisibleRows <= n)
  <2>1. PICK most : most = IF n > VisibleRows THEN n - VisibleRows ELSE 0
    OBVIOUS
  <2>2. most \in 0 .. n /\ (most > 0 => most + VisibleRows = n)
    BY <1>3, <2>1
  <2>3. k = CASE fm.scroll + delta < 0    -> 0
              [] fm.scroll + delta > most -> most
              [] OTHER                    -> fm.scroll + delta
    BY <1>2, <1>4, <2>1 DEF Scrolled
  <2>4. fm.scroll + delta \in Int
    BY <1>3
  <2>5. k \in 0 .. most
    BY <2>2, <2>3, <2>4
  <2> QED BY <1>3, <2>2, <2>5
<1>6. fm' = [fm EXCEPT !.scroll = k] /\ UNCHANGED <<store, menu, ed, lost, failed>>
  BY <1>4 DEF FmScroll
<1>7. /\ fm' \in FmType /\ fm'.rows = fm.rows /\ fm'.dir = fm.dir /\ fm'.nav = fm.nav
      /\ fm'.scroll = k
  BY <1>1, <1>5, <1>6 DEF FmType
<1>8. FmTypes'
  BY <1>6, <1>7, TypesFacts DEF FmTypes, FmInv
<1>9. Stays
  <2>1. Grown(store, store')
    BY <1>6, Same
  <2> QED BY <1>2, <1>5, <1>6, <1>7, <2>1 DEF Stays, FmInv, MenuInv
<1> QED BY <1>1, <1>6, <1>8, <1>9 DEF FmShape, Kinds

LEMMA RightClickFacts ==
  ASSUME FmInv, NEW i, RightClick(i)
  PROVE  FmShape /\ UNCHANGED <<store, ed, lost, failed>>
<1>1. UNCHANGED <<store, fm, ed, lost, failed>>
  BY DEF RightClick
<1>2. /\ menu' \in [open : BOOLEAN, mode : {"ROW", "EMPTY"}, target : 0 .. MaxRows,
                    chosen : Ents]
      /\ menu'.mode = "ROW" => menu'.chosen = fm.rows[menu'.target].index
  <2>1. CASE i \in DOMAIN fm.rows
    <3>1. PICK c : c = fm.rows[i].index
      OBVIOUS
    <3>2. c \in Ents /\ i \in 0 .. MaxRows
      <4>1. c \in Ents /\ i \in 1 .. MaxRows
        BY <2>1, <3>1, RowFacts DEF FmInv
      <4> QED BY <4>1
    <3>3. menu' = [open |-> TRUE, mode |-> "ROW", target |-> i, chosen |-> c]
      BY <2>1, <3>1 DEF RightClick
    <3> QED BY <3>1, <3>2, <3>3
  <2>2. CASE i \notin DOMAIN fm.rows
    <3>1. menu' = [ClosedMenu EXCEPT !.open = TRUE]
      BY <2>2 DEF RightClick
    <3> QED BY <3>1, ClosedMenuFacts DEF ClosedMenu
  <2> QED BY <2>1, <2>2
<1>3. FmTypes'
  BY <1>1, <1>2, TypesFacts DEF FmTypes, FmInv
<1>4. Stays
  <2>1. Grown(store, store')
    BY <1>1, Same
  <2> QED BY <1>1, <1>2, <2>1 DEF Stays, FmInv, RowsInv
<1>5. store' \in [Ents -> EntType]
  BY <1>1, TypesFacts DEF FmInv
<1> QED BY <1>1, <1>3, <1>4, <1>5 DEF FmShape, Kinds

LEMMA ListAgain ==
  ASSUME FmInv, store' \in [Ents -> EntType], NEW rows \in {Listed(store', fm.dir), <<>>}
  PROVE  /\ Relisted(rows) \in FmType /\ Len(Relisted(rows).rows) <= MaxRows
         /\ Relisted(rows).rows = rows /\ Relisted(rows).scroll = 0
         /\ Relisted(rows).dir = fm.dir /\ Relisted(rows).nav = fm.nav
         /\ Relisted(rows).folders = fm.folders /\ Relisted(rows).files = fm.files
<1>1. fm \in FmType /\ fm.dir \in Ents /\ fm.nav \in Seq(Ents)
  <2>1. fm \in FmType
    BY TypesFacts DEF FmInv
  <2> QED BY <2>1 DEF FmType
<1>2. PICK x, s : x = Moved(rows, fm.dir, fm.nav) /\ s = store'
  OBVIOUS
<1>3. /\ x \in FmType /\ Len(x.rows) <= MaxRows
      /\ x.rows = rows /\ x.scroll = 0 /\ x.dir = fm.dir /\ x.nav = fm.nav
      /\ x.folders = fm.folders /\ x.files = fm.files
  <2>1. s \in [Ents -> EntType] /\ rows \in {Listed(s, fm.dir), <<>>}
    BY <1>2
  <2> QED BY <1>1, <1>2, <2>1, RelistedFacts
<1>4. x = Relisted(rows)
  BY <1>1, <1>2 DEF Moved, Relisted, FmType
<1> QED BY <1>3, <1>4

LEMMA FmOpenFacts ==
  ASSUME FmInv, FmOpen
  PROVE  FmShape /\ UNCHANGED <<store, ed, lost, failed>>
<1>1. UNCHANGED <<store, ed, lost, failed>> /\ fm \in FmType
      /\ store' \in [Ents -> EntType] /\ Grown(store, store')
  <2>1. UNCHANGED <<store, ed, lost, failed>>
    BY DEF FmOpen
  <2> QED BY <2>1, TypesFacts, Same DEF FmInv
<1>2. CASE fm.win = "minimized"
  <2>1. fm' = [fm EXCEPT !.win = "open"] /\ UNCHANGED menu
    BY <1>2 DEF FmOpen
  <2>2. /\ fm' \in FmType /\ fm'.rows = fm.rows /\ fm'.dir = fm.dir /\ fm'.nav = fm.nav
        /\ fm'.scroll = fm.scroll
    BY <1>1, <2>1 DEF FmType, Windows
  <2> QED BY <1>1, <2>1, <2>2, StaysFacts
<1>3. CASE fm.win # "minimized"
  <2>1. PICK rows \in {Listed(store, fm.dir), <<>>} :
          /\ fm' = [Relisted(rows) EXCEPT !.win = "open"]
          /\ menu' = ClosedMenu
    BY <1>3, ClosedMenuFacts DEF FmOpen
  <2>2. PICK x : x = Relisted(rows)
    OBVIOUS
  <2>3. /\ x \in FmType /\ Len(x.rows) <= MaxRows /\ x.rows = rows /\ x.scroll = 0
        /\ x.dir = fm.dir /\ x.nav = fm.nav
    <3>1. rows \in {Listed(store', fm.dir), <<>>}
      BY <1>1, <2>1
    <3> QED BY <1>1, <2>2, <3>1, ListAgain
  <2>4. /\ fm' \in FmType /\ fm'.rows = rows /\ fm'.scroll = 0
        /\ fm'.dir = fm.dir /\ fm'.nav = fm.nav /\ Len(fm'.rows) <= MaxRows
    BY <2>1, <2>2, <2>3 DEF FmType, Windows
  <2>5. FmTypes'
    BY <2>1, <2>4, ClosedMenuFacts, TypesFacts DEF FmTypes, FmInv
  <2>6. Lists
    <3>1. \E r \in {Listed(store', fm.dir), <<>>} : fm'.rows = r
      BY <1>1, <2>1, <2>4
    <3> QED BY <1>1, <2>1, <2>4, <3>1, ClosedMenuFacts DEF Lists, Shows
  <2> QED BY <1>1, <2>5, <2>6 DEF FmShape, Kinds
<1> QED BY <1>1, <1>2, <1>3

LEMMA BackFacts ==
  ASSUME FmInv, Back
  PROVE  FmShape /\ UNCHANGED <<store, ed, lost, failed>>
<1>1. UNCHANGED <<store, ed, lost, failed>> /\ fm.nav # <<>>
      /\ store' \in [Ents -> EntType]
  <2>1. UNCHANGED <<store, ed, lost, failed>> /\ fm.nav # <<>>
    BY DEF Back
  <2> QED BY <2>1, TypesFacts DEF FmInv
<1>2. PICK v \in Seq(Ents), n \in Nat : v = fm.nav /\ n = Len(v) /\ n <= MaxDepth
  <2>1. fm.nav \in Seq(Ents) /\ Len(fm.nav) <= MaxDepth
    BY TypesFacts DEF FmInv, FmType
  <2> QED BY <2>1
<1>3. n > 0 /\ v[n] \in Ents
  BY <1>1, <1>2
<1>4. PICK w : w = SubSeq(v, 1, n - 1)
  OBVIOUS
<1>5. w \in Seq(Ents) /\ Len(w) = n - 1
  <2>1. \A i \in 1 .. n - 1 : v[i] \in Ents
    BY <1>2
  <2>2. PICK m \in Nat : m = n - 1
    BY <1>3
  <2>3. /\ w \in Seq(Ents) /\ Len(w) = IF 1 <= m THEN m - 1 + 1 ELSE 0
    BY <1>4, <2>1, <2>2, SubSeqProperties
  <2> QED BY <2>2, <2>3
<1>6. Refresh(store, v[n], w)
  BY <1>2, <1>4 DEF Back
<1>7. FmTypes' /\ Shows(v[n], w)
  <2>1. Len(w) <= MaxDepth
    BY <1>2, <1>5
  <2> QED BY <1>1, <1>3, <1>5, <1>6, <2>1, RefreshFacts DEF FmInv
<1>8. Leaves
  BY <1>1, <1>2, <1>4, <1>7 DEF Leaves
<1> QED BY <1>1, <1>7, <1>8 DEF FmShape, Kinds

(* A new folder or file: the table has one entry more, or is as it was.    *)
Extended(s, t) == \A e \in Ents : s[e].type # "FREE" => t[e] = s[e]

LEMMA CreateNewFacts ==
  ASSUME FmInv, NewFolder \/ NewFile
  PROVE  /\ FmShape /\ UNCHANGED <<ed, lost, failed>>
         /\ Extended(store, store')
<1>1. fm \in FmType /\ store \in [Ents -> EntType] /\ fm.dir \in Ents
  <2>1. fm \in FmType /\ store \in [Ents -> EntType]
    BY TypesFacts DEF FmInv
  <2> QED BY <2>1 DEF FmType
<1>2. PICK name \in Names, ty \in {"FILE", "DIR"} :
        \/ CreateNew(name, ty, "folders", MaxFolders)
        \/ CreateNew(name, ty, "files", MaxFiles)
  <2>1. fm.folders \in 1 .. MaxFolders /\ fm.files \in 1 .. MaxFiles
    BY <1>1 DEF FmType
  <2>2. Folder(fm.folders) \in Names /\ File(fm.files) \in Names
    BY <2>1, NameFacts
  <2>3. CASE NewFolder
    BY <2>2, <2>3 DEF NewFolder
  <2>4. CASE NewFile
    BY <2>2, <2>4 DEF NewFile
  <2> QED BY <2>3, <2>4
<1>3. UNCHANGED <<ed, lost, failed>> /\ menu' = ClosedMenu
  BY <1>2 DEF CreateNew
<1>4. CASE UNCHANGED <<store, fm>>
  <2>1. Grown(store, store') /\ store' \in [Ents -> EntType] /\ Extended(store, store')
    BY <1>1, <1>4, Same DEF Extended
  <2> QED BY <1>1, <1>3, <1>4, <2>1, StaysFacts
<1>5. ASSUME NEW e \in NewEntry(fm.dir, name), NEW s, s = Created(e, fm.dir, name, ty),
             store' = s, NEW rows \in {Listed(s, fm.dir), <<>>},
             \/ /\ fm.folders < MaxFolders
                /\ fm' = [Relisted(rows) EXCEPT !.folders = @ + 1]
             \/ /\ fm.files < MaxFiles
                /\ fm' = [Relisted(rows) EXCEPT !.files = @ + 1]
      PROVE  FmShape /\ Extended(store, store')
  <2>1. store' \in [Ents -> EntType] /\ Grown(store, store') /\ Extended(store, store')
    <3>1. s \in [Ents -> EntType] /\ Grown(store, s) /\ Extended(store, s)
      BY <1>1, <1>5, CreatedFacts DEF Extended
    <3> QED BY <1>5, <3>1
  <2>2. PICK x : x = Relisted(rows)
    OBVIOUS
  <2>3. /\ x \in FmType /\ Len(x.rows) <= MaxRows /\ x.rows = rows /\ x.scroll = 0
        /\ x.dir = fm.dir /\ x.nav = fm.nav
        /\ x.folders = fm.folders /\ x.files = fm.files
    <3>1. rows \in {Listed(store', fm.dir), <<>>}
      BY <1>5
    <3> QED BY <2>1, <2>2, <3>1, ListAgain
  <2>4. /\ fm' \in FmType /\ fm'.rows = rows /\ fm'.scroll = 0
        /\ fm'.dir = fm.dir /\ fm'.nav = fm.nav /\ Len(fm'.rows) <= MaxRows
    <3>1. x.folders \in 1 .. MaxFolders /\ x.files \in 1 .. MaxFiles
      BY <2>3 DEF FmType
    <3>2. \/ x.folders + 1 \in 1 .. MaxFolders /\ fm' = [x EXCEPT !.folders = x.folders + 1]
          \/ x.files + 1 \in 1 .. MaxFiles /\ fm' = [x EXCEPT !.files = x.files + 1]
      <4>0. x.folders = fm.folders /\ x.files = fm.files
        BY <2>3
      <4>1. CASE fm.folders < MaxFolders /\ fm' = [x EXCEPT !.folders = @ + 1]
        BY <3>1, <4>0, <4>1
      <4>2. CASE fm.files < MaxFiles /\ fm' = [x EXCEPT !.files = @ + 1]
        BY <3>1, <4>0, <4>2
      <4> QED BY <1>5, <2>2, <4>1, <4>2
    <3>3. CASE x.folders + 1 \in 1 .. MaxFolders /\ fm' = [x EXCEPT !.folders = x.folders + 1]
      BY <2>3, <3>3 DEF FmType
    <3>4. CASE x.files + 1 \in 1 .. MaxFiles /\ fm' = [x EXCEPT !.files = x.files + 1]
      BY <2>3, <3>4 DEF FmType
    <3> QED BY <3>2, <3>3, <3>4
  <2>5. FmTypes'
    <3>1. Len(fm'.nav) <= MaxDepth
      BY <2>4, TypesFacts DEF FmInv
    <3>2. menu' \in [open : BOOLEAN, mode : {"ROW", "EMPTY"}, target : 0 .. MaxRows,
                     chosen : Ents]
      BY <1>3, ClosedMenuFacts
    <3> QED BY <2>4, <3>1, <3>2 DEF FmTypes
  <2>6. Lists
    <3>1. \E r \in {Listed(store', fm.dir), <<>>} : fm'.rows = r
      BY <1>5, <2>4
    <3> QED BY <1>3, <2>1, <2>4, <3>1, ClosedMenuFacts DEF Lists, Shows
  <2> QED BY <2>1, <2>5, <2>6 DEF FmShape, Kinds
<1>6. \/ UNCHANGED <<store, fm>>
      \/ \E e \in NewEntry(fm.dir, name) :
           LET s == Created(e, fm.dir, name, ty) IN
             /\ store' = s
             /\ \E rows \in {Listed(s, fm.dir), <<>>} :
                  \/ /\ fm.folders < MaxFolders
                     /\ fm' = [Relisted(rows) EXCEPT !.folders = @ + 1]
                  \/ /\ fm.files < MaxFiles
                     /\ fm' = [Relisted(rows) EXCEPT !.files = @ + 1]
  BY <1>2 DEF CreateNew
<1> QED BY <1>3, <1>4, <1>5, <1>6

LEMMA MenuDeleteFacts ==
  ASSUME FmInv, MenuDelete
  PROVE  /\ FmShape /\ UNCHANGED <<ed, failed>>
         /\ Stays \/ Lists \/ Empties
         /\ \/ Extended(store, store') /\ UNCHANGED lost
            \/ /\ Empties
               /\ lost' = (lost \/ (ed.hasFile /\ ed.file = Target.index))
<1>1. fm \in FmType /\ store \in [Ents -> EntType] /\ fm.dir \in Ents
  <2>1. fm \in FmType /\ store \in [Ents -> EntType]
    BY TypesFacts DEF FmInv
  <2> QED BY <2>1 DEF FmType
<1>2. Target.index \in Ents
  <2>1. menu.target \in DOMAIN fm.rows
    BY DEF MenuDelete, OnRow
  <2> QED BY <2>1, RowFacts DEF Target, FmInv
<1>3. PICK t \in Ents : t = Target.index
  BY <1>2
<1>4. /\ OnRow /\ UNCHANGED <<ed, failed>> /\ menu' = ClosedMenu
      /\ \/ /\ Deletable(t) /\ store' = [store EXCEPT ![t] = Free]
            /\ lost' = (lost \/ (ed.hasFile /\ ed.file = t))
         \/ UNCHANGED <<store, lost>>
  BY <1>3, Zenon DEF MenuDelete
<1>5. store' \in [Ents -> EntType]
  BY <1>1, <1>4, FreeFacts
<1>6. PICK rows \in {Listed(store', fm.dir), <<>>} : fm' = Relisted(rows)
  BY DEF MenuDelete, RowsAfterDelete
<1>7. /\ fm' \in FmType /\ fm'.rows = rows /\ fm'.scroll = 0
      /\ fm'.dir = fm.dir /\ fm'.nav = fm.nav /\ Len(fm'.rows) <= MaxRows
  BY <1>5, <1>6, ListAgain
<1>8. FmTypes'
  BY <1>4, <1>7, ClosedMenuFacts, TypesFacts DEF FmTypes, FmInv
<1>9. Shows(fm.dir, fm.nav)
  <2>1. \E r \in {Listed(store', fm.dir), <<>>} : fm'.rows = r
    BY <1>6, <1>7
  <2> QED BY <1>4, <1>7, <2>1, ClosedMenuFacts DEF Shows
<1>10. CASE UNCHANGED <<store, lost>>
  <2>1. Lists /\ Extended(store, store')
    BY <1>9, <1>10, Same DEF Lists, Extended
  <2> QED BY <1>4, <1>5, <1>8, <1>10, <2>1 DEF FmShape, Kinds
<1>11. CASE /\ Deletable(t) /\ store' = [store EXCEPT ![t] = Free]
            /\ lost' = (lost \/ (ed.hasFile /\ ed.file = t))
  <2>1. Empties
    BY <1>3, <1>4, <1>9, <1>11 DEF Empties
  <2> QED BY <1>3, <1>4, <1>5, <1>8, <1>11, <2>1 DEF FmShape, Kinds
<1> QED BY <1>4, <1>10, <1>11

-----------------------------------------------------------------------------
(* The steps, by what they do to the editor.                               *)

EdTypes == ed \in EdType /\ lost \in BOOLEAN /\ failed \in BOOLEAN
EdShape == EdTypes' /\ EditorShowsItsFile'

LEMMA EditorKept ==
  ASSUME Types, EditorShowsItsFile, UNCHANGED <<ed, lost, failed>>,
         Extended(store, store')
  PROVE  EdShape
<1>1. EdTypes' /\ ed.file \in Ents
  BY TypesFacts DEF EdTypes, EdType
<1>2. EditorShowsItsFile'
  <2>1. ASSUME ed.hasFile, ~lost PROVE store'[ed.file] = store[ed.file]
    BY <1>1, <2>1 DEF EditorShowsItsFile, Extended
  <2> QED BY <2>1 DEF EditorShowsItsFile
<1> QED BY <1>1, <1>2 DEF EdShape

(* The file that is opened is the one of its row.                          *)
LEMMA OpenFacts ==
  ASSUME FmInv, NEW i \in DOMAIN fm.rows, OpenInEditor(fm.rows[i])
  PROVE  EdShape /\ store' = store
<1>1. PICK r : r = fm.rows[i]
  OBVIOUS
<1>2. /\ r.index \in Ents /\ r.name \in Names
      /\ store[r.index].type = r.type /\ store[r.index].name = r.name
  BY <1>1, RowFacts DEF FmInv
<1>3. ed \in EdType /\ store[r.index] \in EntType
  BY <1>2, TypesFacts DEF FmInv
<1>4. PICK t \in Texts : t = store[r.index].text
  BY <1>3 DEF EntType
<1>5. Truncated(t, MaxText) = t /\ <<>> \in Texts
  <2>1. Len(t) \in 0 .. MaxText
    BY TextFacts
  <2>2. ~(MaxText < Len(t))
    BY <2>1
  <2> QED BY <2>2, TextFacts DEF Truncated
<1>6. /\ store' = store /\ r.type = "FILE" /\ lost' = FALSE
      /\ \/ ed' = OpenedOn(r, t) /\ failed' = FALSE
         \/ ed' = OpenedOn(r, <<>>) /\ failed' = TRUE
  <2>1. /\ store' = store /\ r.type = "FILE" /\ lost' = FALSE
        /\ \/ ed' = OpenedOn(r, Truncated(t, MaxText)) /\ failed' = FALSE
           \/ ed' = OpenedOn(r, <<>>) /\ failed' = TRUE
    BY <1>1, <1>4 DEF OpenInEditor
  <2> QED BY <1>5, <2>1
<1>7. ASSUME NEW u \in Texts, ed' = OpenedOn(r, u)
      PROVE  ed' \in EdType /\ ed'.file = r.index /\ ed'.name = r.name /\ ed'.text = u
  BY <1>2, <1>3, <1>7 DEF OpenedOn, EdType, Windows
<1>8. /\ ed' \in EdType /\ ed'.file = r.index /\ ed'.name = r.name
      /\ failed' \in BOOLEAN /\ (~failed' => ed'.text = t)
  BY <1>5, <1>6, <1>7
<1>9. EdTypes'
  BY <1>6, <1>8 DEF EdTypes
<1>10. EditorShowsItsFile'
  BY <1>2, <1>4, <1>6, <1>8 DEF EditorShowsItsFile
<1> QED BY <1>6, <1>9, <1>10 DEF EdShape

(* Deleting the attached file is remembered; deleting another is nothing   *)
(* to the editor.                                                          *)
LEMMA DeleteFacts ==
  ASSUME FmInv, EditorShowsItsFile, MenuDelete
  PROVE  EdShape
<1>1. CASE Extended(store, store') /\ UNCHANGED lost
  <2>1. UNCHANGED <<ed, failed>>
    BY MenuDeleteFacts
  <2> QED BY <1>1, <2>1, EditorKept DEF FmInv
<1>2. CASE Empties /\ lost' = (lost \/ (ed.hasFile /\ ed.file = Target.index))
  <2>1. PICK t : t = Target.index
    OBVIOUS
  <2>2. /\ UNCHANGED <<ed, failed>> /\ store' = [store EXCEPT ![t] = Free]
        /\ lost' = (lost \/ (ed.hasFile /\ ed.file = t))
    BY <1>2, <2>1, MenuDeleteFacts DEF Empties
  <2>3. ed \in EdType /\ lost \in BOOLEAN /\ failed \in BOOLEAN /\ ed.hasFile \in BOOLEAN
        /\ store \in [Ents -> EntType]
    <3>1. ed \in EdType /\ lost \in BOOLEAN /\ failed \in BOOLEAN
          /\ store \in [Ents -> EntType]
      BY TypesFacts DEF FmInv
    <3> QED BY <3>1 DEF EdType
  <2>4. EdTypes'
    BY <2>2, <2>3 DEF EdTypes
  <2>5. EditorShowsItsFile'
    <3>1. ASSUME ed.hasFile, ~lost' PROVE ~lost /\ store'[ed.file] = store[ed.file]
      <4>1. ~lost /\ ~(ed.hasFile /\ ed.file = t)
        BY <2>2, <3>1, Zenon
      <4>2. ed.file # t /\ ed.file \in Ents
        BY <2>3, <3>1, <4>1 DEF EdType
      <4> QED BY <2>2, <2>3, <4>1, <4>2
    <3> QED BY <2>2, <3>1 DEF EditorShowsItsFile
  <2> QED BY <2>4, <2>5 DEF EdShape
<1> QED BY <1>1, <1>2, MenuDeleteFacts

(* The steps of the editor that leave the disk alone.                      *)
LEMMA EditorFacts ==
  ASSUME Types, EditorShowsItsFile,
         \/ EdNew \/ EdClose \/ EdMinimize \/ CancelName \/ Backspace
         \/ (\E c \in Chars : Type(c))
         \/ SaveButton /\ ~ed.hasFile
         \/ ed' = [ed EXCEPT !.awaiting = FALSE] /\ UNCHANGED <<store, fm, menu, lost, failed>>
  PROVE  EdShape /\ UNCHANGED <<store, fm, menu>>
<1>1. ed \in EdType /\ lost \in BOOLEAN /\ failed \in BOOLEAN /\ ed.text \in Texts
      /\ <<>> \in Texts /\ NoName \in Names
  <2>1. ed \in EdType /\ lost \in BOOLEAN /\ failed \in BOOLEAN
    BY TypesFacts
  <2> QED BY <2>1, TextFacts, NameFacts DEF EdType
<1>2. ASSUME NEW t \in Texts, Edit(t)
      PROVE  EdShape /\ UNCHANGED <<store, fm, menu>>
  <2>1. ed' = [ed EXCEPT !.text = t, !.dirty = TRUE] /\ UNCHANGED <<store, fm, menu, lost, failed>>
    BY <1>2 DEF Edit
  <2>2. /\ ed' \in EdType /\ ed'.hasFile = ed.hasFile /\ ed'.file = ed.file
        /\ ed'.name = ed.name /\ ed'.dirty
    BY <1>1, <2>1 DEF EdType
  <2>3. EdTypes'
    BY <1>1, <2>1, <2>2 DEF EdTypes
  <2>4. EditorShowsItsFile'
    BY <2>1, <2>2 DEF EditorShowsItsFile
  <2> QED BY <2>1, <2>3, <2>4 DEF EdShape
<1>3. ASSUME NEW w \in Windows, NEW a \in BOOLEAN,
             ed' = [ed EXCEPT !.win = w, !.awaiting = a],
             UNCHANGED <<store, fm, menu, lost, failed>>
      PROVE  EdShape /\ UNCHANGED <<store, fm, menu>>
  <2>1. /\ ed' \in EdType /\ ed'.hasFile = ed.hasFile /\ ed'.file = ed.file
        /\ ed'.name = ed.name /\ ed'.dirty = ed.dirty /\ ed'.text = ed.text
    BY <1>1, <1>3 DEF EdType
  <2>2. EdTypes'
    BY <1>1, <1>3, <2>1 DEF EdTypes
  <2>3. EditorShowsItsFile'
    BY <1>3, <2>1 DEF EditorShowsItsFile
  <2> QED BY <1>3, <2>2, <2>3 DEF EdShape
<1>4. ed.win \in Windows /\ ed.awaiting \in BOOLEAN /\ "open" \in Windows
      /\ "closed" \in Windows /\ "minimized" \in Windows
  BY <1>1 DEF EdType, Windows
<1>5. ASSUME NEW w \in Windows, ed' = [ed EXCEPT !.win = w]
      PROVE  ed' = [ed EXCEPT !.win = w, !.awaiting = ed.awaiting]
  BY <1>1, <1>5 DEF EdType
<1>6. ASSUME NEW a \in BOOLEAN, ed' = [ed EXCEPT !.awaiting = a]
      PROVE  ed' = [ed EXCEPT !.win = ed.win, !.awaiting = a]
  BY <1>1, <1>6 DEF EdType
<1>7. CASE EdNew
  <2>1. CASE ed.win = "minimized"
    <3>1. ed' = [ed EXCEPT !.win = "open"] /\ UNCHANGED <<store, fm, menu, lost, failed>>
      BY <1>7, <2>1 DEF EdNew
    <3> QED BY <1>3, <1>4, <1>5, <3>1
  <2>2. CASE ed.win # "minimized"
    <3>1. /\ ed' = [ed EXCEPT !.win = "open", !.text = <<>>, !.dirty = FALSE,
                              !.hasFile = FALSE, !.name = NoName, !.awaiting = FALSE]
          /\ failed' = FALSE /\ UNCHANGED <<store, fm, menu, lost>>
      BY <1>7, <2>2 DEF EdNew
    <3>2. ed' \in EdType /\ ~ed'.hasFile
      BY <1>1, <1>4, <3>1 DEF EdType
    <3> QED BY <1>1, <3>1, <3>2 DEF EdShape, EdTypes, EditorShowsItsFile
  <2> QED BY <2>1, <2>2
<1>8. CASE EdClose
  <2>1. ed' = [ed EXCEPT !.win = "closed"] /\ UNCHANGED <<store, fm, menu, lost, failed>>
    BY <1>8 DEF EdClose
  <2> QED BY <1>3, <1>4, <1>5, <2>1
<1>9. CASE EdMinimize
  <2>1. ed' = [ed EXCEPT !.win = "minimized"] /\ UNCHANGED <<store, fm, menu, lost, failed>>
    BY <1>9 DEF EdMinimize
  <2> QED BY <1>3, <1>4, <1>5, <2>1
<1>10. CASE ed' = [ed EXCEPT !.awaiting = FALSE] /\ UNCHANGED <<store, fm, menu, lost, failed>>
  BY <1>3, <1>4, <1>6, <1>10
<1>11. CASE CancelName
  BY <1>10, <1>11 DEF CancelName
<1>12. CASE SaveButton /\ ~ed.hasFile
  <2>1. ed' = [ed EXCEPT !.awaiting = TRUE] /\ UNCHANGED <<store, fm, menu, lost, failed>>
    BY <1>12 DEF SaveButton
  <2> QED BY <1>3, <1>4, <1>6, <2>1
<1>13. CASE Backspace
  <2>1. PICK t, n : t = Truncated(ed.text, n) /\ n = Len(ed.text) - 1 /\ n \in Nat /\ Edit(t)
    <3>1. Len(ed.text) \in Nat
      BY <1>1, TextFacts
    <3> QED BY <1>13, <3>1 DEF Backspace
  <2>2. t \in Texts
    BY <1>1, <2>1, TruncatedFacts
  <2> QED BY <1>2, <2>1, <2>2
<1>14. CASE \E c \in Chars : Type(c)
  <2>1. PICK c \in Chars : Type(c)
    BY <1>14
  <2>2. PICK v \in Seq(Chars) : v = ed.text
    BY <1>1, TextFacts
  <2>3. PICK t : t = Append(v, c) /\ Edit(t) /\ Len(v) < MaxText
    BY <2>1, <2>2 DEF Type, Fits
  <2>4. t \in Seq(Chars) /\ Len(t) <= MaxText
    BY <2>3
  <2> QED BY <1>2, <2>3, <2>4, TextFacts
<1> QED BY <1>7, <1>8, <1>9, <1>10, <1>11, <1>12, <1>13, <1>14

(* A save, of the attached file or of the one just created for it.         *)
LEMMA SaveSteps ==
  ASSUME Types, EditorShowsItsFile, SaveButton /\ ed.hasFile
  PROVE  /\ EdShape /\ UNCHANGED <<fm, menu>>
         /\ store' \in [Ents -> EntType] /\ Grown(store, store')
<1>1. /\ ed \in EdType /\ lost \in BOOLEAN /\ store \in [Ents -> EntType] /\ ed.file \in Ents
  <2>1. /\ ed \in EdType /\ lost \in BOOLEAN /\ store \in [Ents -> EntType]
    BY TypesFacts
  <2> QED BY <2>1 DEF EdType
<1>2. Save(store, ed.file, ed) /\ UNCHANGED <<fm, menu, lost>>
  BY DEF SaveButton
<1>3. /\ store' \in [Ents -> EntType]
      /\ \A x \in Ents : SameEntry(store'[x], store[x])
      /\ ed' \in EdType
      /\ ed'.hasFile = ed.hasFile /\ ed'.file = ed.file /\ ed'.name = ed.name
      /\ failed' \in BOOLEAN
      /\ ~failed' => ed'.text = store'[ed.file].text
  BY <1>1, <1>2, SaveFacts
<1>4. EditorShowsItsFile'
  BY <1>1, <1>2, <1>3 DEF EditorShowsItsFile, SameEntry
<1>5. EdTypes'
  BY <1>1, <1>2, <1>3 DEF EdTypes
<1>6. Grown(store, store')
  BY <1>3 DEF Grown, SameEntry
<1> QED BY <1>2, <1>3, <1>4, <1>5, <1>6 DEF EdShape

LEMMA EnterNameFacts ==
  ASSUME Types, EditorShowsItsFile, NEW n \in TypedNames, EnterName(n)
  PROVE  /\ EdShape /\ UNCHANGED <<fm, menu>>
         /\ store' \in [Ents -> EntType] /\ Grown(store, store')
<1>1. /\ ed \in EdType /\ lost \in BOOLEAN /\ store \in [Ents -> EntType]
      /\ Root \in Ents /\ n \in Names
  BY TypesFacts, NameFacts
<1>2. CASE ed' = [ed EXCEPT !.awaiting = FALSE] /\ UNCHANGED <<store, lost, failed>>
  <2>1. UNCHANGED <<fm, menu>>
    BY DEF EnterName
  <2>2. EdShape
    BY <1>2, <2>1, EditorFacts
  <2>3. store' \in [Ents -> EntType] /\ Grown(store, store')
    BY <1>1, <1>2, Same
  <2> QED BY <2>1, <2>2, <2>3
<1>3. CASE /\ \E e \in NewEntry(Root, n) :
                Save(Created(e, Root, n, "FILE"), e, Attached(e, n))
           /\ lost' = FALSE
  <2>1. PICK e \in NewEntry(Root, n) : Save(Created(e, Root, n, "FILE"), e, Attached(e, n))
    BY <1>3
  <2>2. PICK s, d : s = Created(e, Root, n, "FILE") /\ d = Attached(e, n)
    OBVIOUS
  <2>3. /\ s \in [Ents -> EntType] /\ Grown(store, s) /\ e \in Ents
        /\ s[e].type = "FILE" /\ s[e].name = n
    BY <1>1, <2>2, CreatedFacts
  <2>4. /\ d \in EdType /\ d.text = ed.text /\ d.hasFile /\ d.file = e /\ d.name = n
    BY <1>1, <2>2, <2>3 DEF Attached, EdType
  <2>5. Save(s, e, d)
    BY <2>1, <2>2
  <2>6. /\ store' \in [Ents -> EntType]
        /\ \A x \in Ents : SameEntry(store'[x], s[x])
        /\ ed' \in EdType
        /\ ed'.hasFile = d.hasFile /\ ed'.file = d.file /\ ed'.name = d.name
        /\ failed' \in BOOLEAN
        /\ ~failed' => ed'.text = store'[e].text
    BY <1>1, <2>3, <2>4, <2>5, SaveFacts
  <2>7. EditorShowsItsFile'
    BY <1>3, <2>3, <2>4, <2>6 DEF EditorShowsItsFile, SameEntry
  <2>8. EdTypes'
    BY <1>3, <2>6 DEF EdTypes
  <2>9. Grown(store, store')
    BY <2>3, <2>6 DEF Grown, SameEntry
  <2>10. UNCHANGED <<fm, menu>>
    BY DEF EnterName
  <2> QED BY <2>6, <2>7, <2>8, <2>9, <2>10 DEF EdShape
<1> QED BY <1>2, <1>3 DEF EnterName

-----------------------------------------------------------------------------
(* Every step.                                                             *)

LEMMA StepFacts ==
  ASSUME IInv, [Next]_vars
  PROVE  FmShape /\ EdShape
<1>1. FmInv /\ Types /\ EditorShowsItsFile
  BY DEF IInv, FmInv
<1>2. ASSUME UNCHANGED <<ed, lost, failed>>, store' = store PROVE EdShape
  BY <1>1, <1>2, EditorKept DEF Extended
<1>3. ASSUME UNCHANGED <<fm, menu>>, Grown(store, store'), store' \in [Ents -> EntType]
      PROVE  FmShape
  <2>1. fm' \in FmType
    BY <1>1, <1>3, TypesFacts
  <2> QED BY <1>1, <1>3, <2>1, StaysFacts
<1>4. ASSUME UNCHANGED <<store, fm, menu>> PROVE FmShape
  BY <1>1, <1>3, <1>4, TypesFacts, Same
<1>5. ASSUME NEW i \in DOMAIN fm.rows, EnterDir(fm.rows[i]) PROVE FmShape /\ EdShape
  <2>1. FmTypes' /\ Enters /\ UNCHANGED <<store, ed, lost, failed>>
    BY <1>1, <1>5, EnterDirFacts DEF FmInv
  <2> QED BY <1>1, <1>2, <2>1, TypesFacts DEF FmShape, Kinds
<1>6. ASSUME NEW i \in DOMAIN fm.rows, OpenInEditor(fm.rows[i]),
             \/ fm' = [fm EXCEPT !.last = NoRow] /\ UNCHANGED menu
             \/ UNCHANGED fm /\ menu' = ClosedMenu
      PROVE  FmShape /\ EdShape
  <2>1. EdShape /\ store' = store
    BY <1>1, <1>6, OpenFacts
  <2>2. fm \in FmType /\ store' \in [Ents -> EntType] /\ NoRow \in 0 .. MaxRows
    BY <1>1, <2>1, TypesFacts DEF NoRow
  <2>3. /\ fm' \in FmType /\ fm'.rows = fm.rows /\ fm'.dir = fm.dir /\ fm'.nav = fm.nav
        /\ fm'.scroll = fm.scroll
    BY <1>6, <2>2 DEF FmType
  <2>4. FmShape
    BY <1>1, <1>6, <2>1, <2>2, <2>3, Same, StaysFacts
  <2> QED BY <2>1, <2>4
<1>7. CASE UNCHANGED vars
  BY <1>2, <1>4, <1>7 DEF vars
<1>8. CASE FmOpen
  BY <1>1, <1>2, <1>8, FmOpenFacts
<1>9. CASE FmClose \/ FmMinimize \/ MenuDismiss \/ (\E i : SelectRow(i))
  BY <1>1, <1>2, <1>9, WindowFacts
<1>10. CASE Back
  BY <1>1, <1>2, <1>10, BackFacts
<1>11. CASE NewFolder \/ NewFile
  BY <1>1, <1>11, CreateNewFacts, EditorKept
<1>12. CASE \E i : DoubleClick(i)
  BY <1>5, <1>6, <1>12 DEF DoubleClick
<1>13. CASE \E i : RightClick(i)
  BY <1>1, <1>2, <1>13, RightClickFacts
<1>14. CASE \E delta \in {-1, 2} : FmScroll(delta)
  BY <1>1, <1>2, <1>14, ScrollFacts
<1>15. CASE MenuOpenDir
  BY <1>5, <1>15 DEF MenuOpenDir, OnRow, Target
<1>16. CASE MenuOpenFile
  BY <1>6, <1>16 DEF MenuOpenFile, OnRow, Target
<1>17. CASE MenuDelete
  BY <1>1, <1>17, MenuDeleteFacts, DeleteFacts
<1>18. CASE \/ EdNew \/ EdClose \/ EdMinimize \/ CancelName \/ Backspace
            \/ (\E c \in Chars : Type(c))
            \/ SaveButton /\ ~ed.hasFile
  BY <1>1, <1>4, <1>18, EditorFacts
<1>19. CASE SaveButton /\ ed.hasFile
  BY <1>1, <1>3, <1>19, SaveSteps
<1>20. CASE \E n \in TypedNames : EnterName(n)
  BY <1>1, <1>3, <1>20, EnterNameFacts
<1> HIDE DEF FmShape, EdShape
<1> QED BY <1>7, <1>8, <1>9, <1>10, <1>11, <1>12, <1>13, <1>14, <1>15, <1>16, <1>17,
           <1>18, <1>19, <1>20 DEF Next

LEMMA TreeStep ==
  ASSUME IInv, FmShape
  PROVE  TreeInv'
<1>1. TreeInv /\ Types /\ store' \in [Ents -> EntType] /\ store \in [Ents -> EntType]
      /\ Root \in Ents
  BY TypesFacts DEF IInv, FmShape
<1>2. CASE Grown(store, store')
  <2>1. store'[Root].type = "DIR"
    BY <1>1, <1>2 DEF Grown, SameEntry, TreeInv
  <2>2. ASSUME NEW e \in Ents, e # Root, store'[e].type # "FREE" PROVE store'[e].parent # e
    BY <1>1, <1>2, <2>2 DEF Grown, SameEntry, TreeInv, Live
  <2> QED BY <2>1, <2>2 DEF TreeInv, Live
<1>3. CASE Empties
  <2>1. PICK t : t = Target.index
    OBVIOUS
  <2>2. t # Root /\ store' = [store EXCEPT ![t] = Free]
    BY <1>3, <2>1 DEF Empties, Deletable
  <2>3. store'[Root].type = "DIR"
    BY <1>1, <2>2 DEF TreeInv
  <2>4. ASSUME NEW e \in Ents, e # Root, store'[e].type # "FREE" PROVE store'[e].parent # e
    <3>1. e # t
      BY <1>1, <2>2, <2>4, FreeFacts
    <3>2. store'[e] = store[e]
      BY <1>1, <2>2, <3>1
    <3> QED BY <1>1, <2>4, <3>2 DEF TreeInv, Live
  <2> QED BY <2>3, <2>4 DEF TreeInv, Live
<1>4. ASSUME store' = store PROVE TreeInv'
  BY <1>1, <1>2, <1>4, Same
<1> QED BY <1>2, <1>3, <1>4 DEF FmShape, Kinds, Stays, Lists, Enters, Leaves

LEMMA ShownFacts ==
  ASSUME store' \in [Ents -> EntType], NEW d \in Ents, NEW nav, Shows(d, nav)
  PROVE  RowsInv' /\ MenuInv'
<1>1. PICK rows, s : /\ rows \in {Listed(s, d), <<>>} /\ fm'.rows = rows /\ s = store'
                     /\ fm'.scroll = 0 /\ fm'.dir = d /\ ~menu'.open
  BY DEF Shows
<1>2. ASSUME NEW i \in DOMAIN rows PROVE RowOf(rows[i], s, d)
  <2>1. CASE rows = <<>>
    BY <1>2, <2>1
  <2>2. CASE rows = Listed(s, d)
    <3>1. s \in [Ents -> EntType]
      BY <1>1
    <3> QED BY <1>2, <2>2, <3>1, ListedFacts
  <2> QED BY <1>1, <2>1, <2>2
<1>3. RowsInv'
  <2>1. \A i \in DOMAIN rows : /\ s[rows[i].index].type = rows[i].type
                               /\ s[rows[i].index].name = rows[i].name
                               /\ s[rows[i].index].parent = d
    BY <1>2 DEF RowOf
  <2> QED BY <1>1, <2>1 DEF RowsInv
<1>4. MenuInv'
  BY <1>1 DEF MenuInv
<1> QED BY <1>3, <1>4

LEMMA RowsStep ==
  ASSUME IInv, FmShape
  PROVE  RowsInv' /\ MenuInv'
<1>1. /\ Types /\ RowsInv /\ store' \in [Ents -> EntType]
      /\ fm.dir \in Ents /\ fm.nav \in Seq(Ents)
  <2>1. Types /\ RowsInv /\ store' \in [Ents -> EntType]
    BY DEF IInv, FmShape
  <2>2. fm \in FmType
    BY <2>1, TypesFacts
  <2> QED BY <2>1, <2>2 DEF FmType
<1>2. CASE Stays
  <2>1. MenuInv'
    BY <1>2 DEF Stays, MenuInv
  <2>2. ASSUME NEW i \in DOMAIN fm.rows, NEW r, r = fm.rows[i]
        PROVE  /\ store'[r.index].type = r.type /\ store'[r.index].name = r.name
               /\ store'[r.index].parent = fm.dir
    <3>1. /\ r.index \in Ents /\ r.type \in {"DIR", "FILE"}
          /\ store[r.index].type = r.type /\ store[r.index].name = r.name
          /\ store[r.index].parent = fm.dir
      BY <1>1, <2>2, RowFacts
    <3> QED BY <1>2, <3>1 DEF Stays, Grown, SameEntry
  <2>3. RowsInv'
    BY <1>2, <2>2 DEF Stays, RowsInv
  <2> QED BY <2>1, <2>3
<1>3. CASE Lists \/ Empties
  BY <1>1, <1>3, ShownFacts DEF Lists, Empties
<1>4. CASE Enters
  <2>1. PICK i \in DOMAIN fm.rows : Shows(fm.rows[i].index, Append(fm.nav, fm.dir))
    BY <1>4 DEF Enters
  <2>2. fm.rows[i].index \in Ents
    BY <1>1, RowFacts
  <2> QED BY <1>1, <2>1, <2>2, ShownFacts
<1>5. CASE Leaves
  <2>1. PICK v \in Seq(Ents), n \in Nat : v = fm.nav /\ v # <<>> /\ n = Len(v)
    BY <1>1, <1>5 DEF Leaves
  <2>2. v[n] \in Ents
    BY <2>1
  <2>3. Shows(v[n], SubSeq(v, 1, n - 1))
    BY <1>5, <2>1 DEF Leaves
  <2> QED BY <1>1, <2>2, <2>3, ShownFacts
<1> QED BY <1>2, <1>3, <1>4, <1>5 DEF FmShape, Kinds

-----------------------------------------------------------------------------
(* The stack of visited directories.                                       *)

PathOK(s, p) ==
  /\ p[1] = Root
  /\ \A i \in DOMAIN p : s[p[i]].type = "DIR"
  /\ \A i \in 2 .. Len(p) : s[p[i]].parent = p[i - 1]

LEMMA PathFacts ==
  ASSUME NEW v \in Seq(Ents), NEW d \in Ents, NEW p, p = Append(v, d)
  PROVE  /\ p \in Seq(Ents) /\ Len(p) = Len(v) + 1 /\ Len(v) \in Nat
         /\ DOMAIN p = 1 .. Len(v) + 1
         /\ \A i \in 1 .. Len(v) : p[i] = v[i]
         /\ p[Len(v) + 1] = d
OBVIOUS

(* A path goes through directories that have a child: none can be deleted. *)
LEMMA PathNotEmptied ==
  ASSUME Types, TreeInv, NEW p \in Seq(Ents), NEW n \in Nat, n = Len(p),
         PathOK(store, p), NEW t \in Ents, Deletable(t), t # p[n], NEW i \in 1 .. n
  PROVE  p[i] # t
<1>1. DOMAIN p = 1 .. n
  OBVIOUS
<1>2. SUFFICES ASSUME p[i] = t PROVE FALSE
  OBVIOUS
<1>3. i + 1 \in 2 .. n /\ i + 1 \in 1 .. n
  BY <1>2
<1>4. PICK c \in Ents : c = p[i + 1]
  BY <1>3
<1>5. store[c].type = "DIR" /\ store[c].parent = t /\ store[t].type = "DIR"
  <2>1. store[p[i + 1]].parent = p[i + 1 - 1]
    BY <1>3 DEF PathOK
  <2>2. i + 1 - 1 = i
    OBVIOUS
  <2> QED BY <1>1, <1>2, <1>3, <1>4, <2>1, <2>2 DEF PathOK
<1>6. Children(store, t) = {} /\ t # Root
  BY <1>5 DEF Deletable
<1>7. c # t
  <2>1. CASE c = Root
    BY <1>6, <2>1
  <2>2. CASE c # Root
    BY <1>5, <2>2 DEF TreeInv, Live
  <2> QED BY <2>1, <2>2
<1> QED BY <1>5, <1>6, <1>7 DEF Children

LEMMA NavStep ==
  ASSUME IInv, FmShape
  PROVE  NavIntact'
<1>1. /\ Types /\ RowsInv /\ TreeInv /\ store' \in [Ents -> EntType]
      /\ store \in [Ents -> EntType]
  BY TypesFacts DEF IInv, FmShape
<1>2. PICK v \in Seq(Ents), d \in Ents, n \in Nat : v = fm.nav /\ d = fm.dir /\ n = Len(v)
  <2>1. fm \in FmType
    BY <1>1, TypesFacts
  <2>2. fm.nav \in Seq(Ents) /\ fm.dir \in Ents
    BY <2>1 DEF FmType
  <2> QED BY <2>2
<1>3. PICK p : p = Append(v, d)
  OBVIOUS
<1>4. /\ p \in Seq(Ents) /\ Len(p) = n + 1 /\ DOMAIN p = 1 .. n + 1
      /\ \A i \in 1 .. n : p[i] = v[i]
      /\ p[n + 1] = d
  BY <1>2, <1>3, PathFacts
<1>5. PathOK(store, p)
  BY <1>2, <1>3 DEF IInv, NavIntact, PathOK
<1>6. \A i \in 1 .. n + 1 : p[i] \in Ents
  BY <1>4
<1>7. ASSUME NEW q, q = Append(fm'.nav, fm'.dir), PathOK(store', q)
      PROVE  NavIntact'
  BY <1>7 DEF NavIntact, PathOK
<1>8. ASSUME fm'.nav = fm.nav, fm'.dir = fm.dir,
             \A i \in 1 .. n + 1 : SameEntry(store'[p[i]], store[p[i]])
      PROVE  NavIntact'
  <2>1. p = Append(fm'.nav, fm'.dir)
    BY <1>2, <1>3, <1>8
  <2>2. \A i \in 2 .. n + 1 : i \in 1 .. n + 1
    OBVIOUS
  <2>3. PathOK(store', p)
    BY <1>4, <1>5, <1>8, <2>2 DEF PathOK, SameEntry
  <2> QED BY <1>7, <2>1, <2>3
<1>9. CASE Stays \/ Lists
  <2>1. fm'.nav = fm.nav /\ fm'.dir = fm.dir /\ Grown(store, store')
    BY <1>9 DEF Stays, Lists, Shows
  <2>2. ASSUME NEW i \in 1 .. n + 1 PROVE SameEntry(store'[p[i]], store[p[i]])
    <3>1. store[p[i]].type = "DIR" /\ p[i] \in Ents
      BY <1>4, <1>5, <1>6 DEF PathOK
    <3> QED BY <2>1, <3>1 DEF Grown
  <2> QED BY <1>8, <2>1, <2>2
<1>10. CASE Empties
  <2>1. PICK t : t = Target.index
    OBVIOUS
  <2>2. /\ Deletable(t) /\ store' = [store EXCEPT ![t] = Free]
        /\ fm'.nav = fm.nav /\ fm'.dir = fm.dir /\ menu.target \in DOMAIN fm.rows
    BY <1>10, <2>1 DEF Empties, Shows, OnRow
  <2>3. t \in Ents /\ store[t].parent = d
    BY <1>1, <1>2, <2>1, <2>2, RowFacts DEF Target
  <2>4. t # d
    BY <1>1, <2>2, <2>3 DEF Deletable, TreeInv, Live
  <2>5. ASSUME NEW i \in 1 .. n + 1 PROVE SameEntry(store'[p[i]], store[p[i]])
    <3>1. PICK m \in Nat : m = n + 1
      OBVIOUS
    <3>2. p[i] # t
      <4>1. t # p[m] /\ m = Len(p) /\ i \in 1 .. m
        BY <1>4, <2>4, <3>1
      <4> QED BY <1>1, <1>4, <1>5, <2>2, <2>3, <4>1, PathNotEmptied
    <3>3. store'[p[i]] = store[p[i]]
      BY <1>1, <1>6, <2>2, <3>2
    <3> QED BY <3>3 DEF SameEntry
  <2> QED BY <1>8, <2>2, <2>5
<1>11. CASE Enters
  <2>1. PICK j \in DOMAIN fm.rows :
          /\ store' = store /\ fm.rows[j].type = "DIR"
          /\ Shows(fm.rows[j].index, Append(fm.nav, fm.dir))
    BY <1>11 DEF Enters
  <2>2. PICK c : c = fm.rows[j].index
    OBVIOUS
  <2>3. c \in Ents /\ store[c].type = "DIR" /\ store[c].parent = d
    BY <1>1, <1>2, <2>1, <2>2, RowFacts
  <2>4. PICK q : q = Append(p, c)
    OBVIOUS
  <2>5. q = Append(fm'.nav, fm'.dir)
    BY <1>2, <1>3, <2>1, <2>2, <2>4 DEF Shows
  <2>6. PICK m \in Nat : m = Len(p) /\ m = n + 1
    BY <1>4
  <2>7. /\ Len(q) = m + 1 /\ DOMAIN q = 1 .. m + 1
        /\ \A i \in 1 .. m : q[i] = p[i]
        /\ q[m + 1] = c
    BY <1>4, <2>3, <2>4, <2>6, PathFacts
  <2>8. q[1] = Root
    BY <1>5, <2>6, <2>7 DEF PathOK
  <2>9. ASSUME NEW i \in 1 .. m + 1 PROVE store[q[i]].type = "DIR"
    <3>1. CASE i \in 1 .. m
      BY <1>4, <1>5, <2>6, <2>7, <3>1 DEF PathOK
    <3>2. CASE i = m + 1
      BY <2>3, <2>7, <3>2
    <3> QED BY <3>1, <3>2
  <2>10. ASSUME NEW i \in 2 .. m + 1 PROVE store[q[i]].parent = q[i - 1]
    <3>1. CASE i \in 2 .. m
      <4>1. q[i] = p[i] /\ q[i - 1] = p[i - 1]
        BY <2>7, <3>1
      <4> QED BY <1>5, <2>6, <3>1, <4>1 DEF PathOK
    <3>2. CASE i = m + 1
      <4>1. i - 1 = m /\ m \in 1 .. m
        BY <2>6, <3>2
      <4>2. q[i - 1] = d
        BY <1>4, <2>6, <2>7, <4>1
      <4> QED BY <2>3, <2>7, <3>2, <4>2
    <3> QED BY <3>1, <3>2
  <2>11. PathOK(store', q)
    BY <2>1, <2>7, <2>8, <2>9, <2>10 DEF PathOK
  <2> QED BY <1>7, <2>5, <2>11
<1>12. CASE Leaves
  <2>1. /\ store' = store /\ v # <<>> /\ n > 0
        /\ Shows(v[n], SubSeq(v, 1, n - 1))
    BY <1>2, <1>12 DEF Leaves
  <2>2. PICK m \in Nat : m = n - 1
    BY <2>1
  <2>3. PICK w, q : w = SubSeq(v, 1, m) /\ q = Append(w, v[n])
    OBVIOUS
  <2>4. w \in Seq(Ents) /\ Len(w) = m /\ \A i \in 1 .. m : w[i] = v[i]
    <3>1. \A i \in 1 .. m : v[i] \in Ents
      BY <1>2, <2>2
    <3>2. /\ w \in Seq(Ents) /\ Len(w) = IF 1 <= m THEN m - 1 + 1 ELSE 0
          /\ \A i \in 1 .. m - 1 + 1 : w[i] = v[1 + i - 1]
      BY <2>3, <3>1, SubSeqProperties
    <3> QED BY <3>2
  <2>5. v[n] \in Ents
    BY <1>2, <2>1
  <2>6. Len(q) = n /\ DOMAIN q = 1 .. n /\ \A i \in 1 .. n : q[i] = v[i]
    <3>1. /\ Len(q) = m + 1 /\ DOMAIN q = 1 .. m + 1
          /\ \A i \in 1 .. m : q[i] = w[i]
          /\ q[m + 1] = v[n]
      BY <2>3, <2>4, <2>5, PathFacts
    <3>2. m + 1 = n
      BY <2>2
    <3>3. \A i \in 1 .. n : i \in 1 .. m \/ i = n
      BY <2>2
    <3> QED BY <2>4, <3>1, <3>2, <3>3
  <2>7. \A i \in 1 .. n : q[i] = p[i] /\ i \in 1 .. n + 1
    BY <1>4, <2>6
  <2>8. ASSUME NEW i \in 2 .. n PROVE store[q[i]].parent = q[i - 1]
    <3>1. i \in 2 .. n + 1 /\ i \in 1 .. n /\ i - 1 \in 1 .. n
      OBVIOUS
    <3>2. store[p[i]].parent = p[i - 1]
      BY <1>4, <1>5, <3>1 DEF PathOK
    <3> QED BY <2>7, <3>1, <3>2
  <2>9. PathOK(store', q)
    <3>1. 1 \in 1 .. n
      BY <2>1
    <3> QED BY <1>4, <1>5, <2>1, <2>6, <2>7, <2>8, <3>1 DEF PathOK
  <2>10. q = Append(fm'.nav, fm'.dir)
    BY <2>1, <2>2, <2>3 DEF Shows
  <2> QED BY <1>7, <2>9, <2>10
<1> QED BY <1>9, <1>10, <1>11, <1>12 DEF FmShape, Kinds

-----------------------------------------------------------------------------
(* The invariant, and what it gives.                                       *)

LEMMA InitHolds == Init => IInv
<1> SUFFICES ASSUME Init PROVE IInv
  OBVIOUS
<1>1. PICK old \in {Free, [Free EXCEPT !.type = "FILE", !.name = File(1)]} :
        store = [e \in Ents |-> CASE e = Root -> [Free EXCEPT !.type = "DIR"]
                                  [] e = 1    -> old
                                  [] OTHER    -> Free]
  BY DEF Init
<1>2. Root \in Ents /\ NoName \in Names /\ File(1) \in Names /\ <<>> \in Texts
      /\ NoRow \in 0 .. MaxRows /\ Root # 1
  BY NameFacts, TextFacts DEF Root, Ents, NoRow
<1>3. PICK d : d = [Free EXCEPT !.type = "DIR"]
  OBVIOUS
<1>4. /\ d \in EntType /\ d.type = "DIR" /\ old \in EntType /\ old.parent = Root
      /\ Free \in EntType /\ Free.parent = Root
  <2>1. Free \in EntType /\ Free.parent = Root
    BY FreeFacts DEF Free
  <2>2. d \in EntType /\ d.type = "DIR"
    BY <1>3, <2>1 DEF EntType
  <2>3. PICK f : f = [Free EXCEPT !.type = "FILE", !.name = File(1)]
    OBVIOUS
  <2>4. f \in EntType /\ f.parent = Root
    BY <1>2, <2>1, <2>3 DEF EntType
  <2> QED BY <1>1, <2>1, <2>2, <2>3, <2>4
<1>5. store = [e \in Ents |-> IF e = Root THEN d ELSE IF e = 1 THEN old ELSE Free]
  BY <1>1, <1>2, <1>3
<1>6. /\ store \in [Ents -> EntType] /\ store[Root].type = "DIR"
      /\ \A e \in Ents \ {Root} : store[e].parent = Root
  BY <1>2, <1>4, <1>5
<1>7. PICK none : none = <<>> /\ none \in Seq(Ents) /\ none \in Seq(RowType) /\ Len(none) = 0
                  /\ DOMAIN none = {}
  <2>1. <<>> \in Seq(Ents) /\ <<>> \in Seq(RowType) /\ Len(<<>>) = 0
    BY EmptySeq
  <2>2. DOMAIN <<>> = {}
    OBVIOUS
  <2> QED BY <2>1, <2>2, Zenon
<1>8. fm = [win |-> "closed", dir |-> Root, nav |-> none, rows |-> none,
            last |-> NoRow, scroll |-> 0, folders |-> 1, files |-> 1]
  BY <1>7 DEF Init
<1>9. /\ fm \in FmType /\ Len(fm.nav) <= MaxDepth /\ Len(fm.rows) <= MaxRows
      /\ fm.scroll = 0 /\ fm.rows = none /\ fm.nav = none /\ fm.dir = Root
  BY <1>2, <1>7, <1>8 DEF FmType, Windows
<1>10. /\ ed \in EdType /\ ~ed.hasFile /\ lost \in BOOLEAN /\ failed \in BOOLEAN
  BY <1>2 DEF Init, EdType, Windows
<1>11. menu = ClosedMenu
  BY DEF Init
<1>12. Types
  BY <1>6, <1>9, <1>10, <1>11, ClosedMenuFacts DEF Types, TypeOK, EntType, FmType, EdType
<1>13. TreeInv
  <2>1. \A e \in Live \ {Root} : e \in Ents \ {Root}
    BY DEF Live
  <2> QED BY <1>6, <2>1 DEF TreeInv
<1>14. MenuInv /\ RowsInv /\ EditorShowsItsFile
  <2>1. MenuInv /\ EditorShowsItsFile
    BY <1>10, <1>11, ClosedMenuFacts DEF MenuInv, EditorShowsItsFile
  <2>2. RowsInv
    BY <1>7, <1>9 DEF RowsInv
  <2> QED BY <2>1, <2>2
<1>15. NavIntact
  <2>1. PICK p : p = Append(none, Root)
    OBVIOUS
  <2>2. Len(p) = 1 /\ DOMAIN p = 1 .. 1 /\ p[1] = Root
    <3>1. /\ Len(p) = Len(none) + 1 /\ DOMAIN p = 1 .. Len(none) + 1
          /\ p[Len(none) + 1] = Root
      BY <1>2, <1>7, <2>1, PathFacts
    <3> QED BY <1>7, <3>1
  <2>3. p = Append(fm.nav, fm.dir)
    BY <1>9, <2>1
  <2>4. \A i \in 2 .. 1 : FALSE
    OBVIOUS
  <2>5. \A i \in 1 .. 1 : i = 1
    OBVIOUS
  <2> QED BY <1>6, <2>2, <2>3, <2>4, <2>5 DEF NavIntact
<1> QED BY <1>12, <1>13, <1>14, <1>15 DEF IInv

LEMMA NextHolds == IInv /\ [Next]_vars => IInv'
<1> SUFFICES ASSUME IInv, [Next]_vars PROVE IInv'
  OBVIOUS
<1>1. FmShape /\ EdShape
  BY StepFacts
<1>2. TreeInv' /\ RowsInv' /\ MenuInv' /\ NavIntact' /\ EditorShowsItsFile'
  BY <1>1, TreeStep, RowsStep, NavStep DEF EdShape
<1>3. Types'
  <2>1. FmTypes' /\ EdTypes' /\ store' \in [Ents -> EntType]
    BY <1>1 DEF FmShape, EdShape
  <2> QED BY <2>1 DEF FmTypes, EdTypes, Types, TypeOK, EntType, FmType, EdType
<1> QED BY <1>2, <1>3 DEF IInv

LEMMA Always == Spec => []IInv
<1> QED BY InitHolds, NextHolds, PTL DEF Spec

(* The rows of the file manager are entries of the directory it shows,     *)
(* with the name and the type they were listed with, and the window is not *)
(* scrolled past them: every step that frees an entry or changes directory *)
(* lists again (fm_refresh), and an entry in use is never given out.       *)
THEOREM RowsStayLive == Spec => []RowsLive
<1>1. IInv => RowsLive
  BY DEF IInv, Types, RowsInv, RowsLive
<1> QED BY Always, <1>1, PTL

(* The stack of "Geri" is a path of directories that exist, from the root  *)
(* to the one shown: what vtx2_delete accepts is an empty directory, and   *)
(* each directory of the path has the next one in it.                      *)
THEOREM NavStaysIntact == Spec => []NavIntact
<1>1. IInv => NavIntact
  BY DEF IInv
<1> QED BY Always, <1>1, PTL

(* The editor's attached entry is the file it names, until that is deleted,*)
(* and a text not marked as changed is what vtx2_read would give, whatever *)
(* editor_save_to_attached_file overwrote, as long as no call failed.      *)
THEOREM EditorStaysAttached == Spec => []EditorShowsItsFile
<1>1. IInv => EditorShowsItsFile
  BY DEF IInv
<1> QED BY Always, <1>1, PTL

(* "Sil" deletes the entry of the row that was clicked to open the menu:   *)
(* a menu of a row does not outlive the listing it was opened on.          *)
THEOREM OnlyTheChosenIsDeleted == Spec => DeletesTheChosen
<1>1. ASSUME IInv, [Next]_vars, NEW e \in Ents, store[e].type # "FREE", store'[e].type = "FREE"
      PROVE  menu.open /\ e = menu.chosen
  <2>1. Kinds /\ store \in [Ents -> EntType]
    BY <1>1, StepFacts, TypesFacts DEF FmShape, IInv
  <2>2. ~Grown(store, store') /\ store' # store
    BY <1>1 DEF Grown, SameEntry
  <2>3. Empties
    BY <2>1, <2>2 DEF Kinds, Stays, Lists, Enters, Leaves
  <2>4. OnRow /\ store' = [store EXCEPT ![Target.index] = Free]
    BY <2>3 DEF Empties
  <2>5. e = Target.index
    BY <1>1, <2>1, <2>4
  <2>6. menu.chosen = Target.index
    BY <1>1, <2>4 DEF IInv, MenuInv, OnRow, Target
  <2> QED BY <2>4, <2>5, <2>6 DEF OnRow
<1>2. IInv /\ [Next]_vars =>
        [\A e \in Ents : store[e].type # "FREE" /\ store'[e].type = "FREE"
           => menu.open /\ e = menu.chosen]_vars
  BY <1>1
<1> QED BY Always, <1>2, PTL DEF Spec, DeletesTheChosen
=============================================================================
