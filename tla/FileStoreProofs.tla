-------------------------- MODULE FileStoreProofs --------------------------
(***************************************************************************)
(* The file store keeps its tree, for every number of entries and every    *)
(* set of names, keys and contents.  Vtx2fs implements the file store.     *)
(***************************************************************************)
EXTENDS FileStore, SequenceTheorems, TLAPS

(* Whatever becomes of an entry, it keeps the type of an entry.            *)
LEMMA BecomesTyped ==
  ASSUME TypeOK, 0 \in Ents, Data \subseteq Values,
         NEW e \in Ents, NEW new, Becomes(e, files[e], new)
  PROVE  new \in EntryType \cup {Absent}
<1> DEFINE old == files[e]
<1>1. old \in EntryType \cup {Absent}
  BY DEF TypeOK
<1>2. e \in Here => old \in EntryType
  BY <1>1 DEF Here, Absent
<1>3. Dirs \subseteq Ents
  BY DEF Dirs, Here
<1>4. << >> \in Seq(Items)
  BY EmptySeq
<1>5. CASE Formatted(e, new)
  BY <1>5, <1>4 DEF Formatted, Entry, EntryType
<1>6. CASE Created(old, new)
  <2>1. PICK d \in Dirs, n \in Names, ty \in {"FILE", "DIR"} : new = Entry(ty, n, d)
    BY <1>6 DEF Created
  <2> QED BY <2>1, <1>3, <1>4 DEF Entry, EntryType
<1>7. CASE e \in Here \ {0} /\ Encrypted(old, new)
  <2>1. PICK key \in Keys : new = [old EXCEPT !.key = key]
    BY <1>7 DEF Encrypted
  <2> QED BY <2>1, <1>2, <1>7 DEF EntryType
<1>8. CASE e \in Here \ {0} /\ Removed(e, new)
  BY <1>8 DEF Removed
<1>9. CASE e \in Here /\ Overwritten(old, new)
  <2>1. PICK k \in DOMAIN old.data, v \in Data : new = [old EXCEPT !.data[k] = Item(v)]
    BY <1>9 DEF Overwritten
  <2>2. old.data \in Seq(Items)
    BY <1>2, <1>9 DEF EntryType
  <2>3. k \in 1 .. Len(old.data) /\ Item(v) \in Items
    BY <2>2, LenProperties DEF Item, Items
  <2>4. [old.data EXCEPT ![k] = Item(v)] \in Seq(Items)
    BY <2>2, <2>3, ExceptSeq
  <2> QED BY <2>1, <2>4, <1>2, <1>9 DEF EntryType
<1>10. CASE e \in Here /\ Extended(old, new)
  BY <1>10, <1>2 DEF Extended, EntryType
<1>11. CASE e \in Here /\ Shortened(old, new)
  <2>1. PICK n \in 0 .. Len(old.data) : new = [old EXCEPT !.data = SubSeq(@, 1, n)]
    BY <1>11 DEF Shortened
  <2>2. old.data \in Seq(Items)
    BY <1>2, <1>11 DEF EntryType
  <2>3. SubSeq(old.data, 1, n) \in Seq(Items)
    BY <2>2, SubSeqProperties
  <2> QED BY <2>1, <2>3, <1>2, <1>11 DEF EntryType
<1> QED
  BY <1>5, <1>6, <1>7, <1>8, <1>9, <1>10, <1>11 DEF Becomes

(* A step that keeps the type, name and parent of an entry, and gives it a *)
(* key at most, keeps the tree.                                            *)
LEMMA SameShape ==
  ASSUME TypeOK, TypeOK', TreeOK, NEW e \in Here,
         \A x \in Ents \ {e} : files'[x] = files[x],
         files'[e].type = files[e].type, files'[e].parent = files[e].parent,
         files'[e].name = files[e].name,
         files'[e].key = NoKey => files[e].key = NoKey
  PROVE  TreeOK'
<1>1. \A x \in Ents : /\ files'[x].type = files[x].type
                      /\ x \in Here => /\ files'[x].parent = files[x].parent
                                       /\ files'[x].name = files[x].name
                                       /\ files'[x].key = NoKey => files[x].key = NoKey
  BY DEF Here
<1>2. Here' = Here /\ Dirs' = Dirs
  BY <1>1 DEF Here, Dirs
<1>3. Here' # {} => 0 \in Dirs' /\ files'[0].parent = 0
  BY <1>1, <1>2 DEF TreeOK, Dirs, Here
<1>4. \A x \in Here' : files'[x].parent \in Dirs'
  BY <1>1, <1>2 DEF TreeOK, Here
<1>5. ASSUME NEW x \in Here' \ {0}, NEW y \in Here' \ {0},
             files'[x].key = NoKey, files'[y].key = NoKey,
             files'[x].parent = files'[y].parent, files'[x].name = files'[y].name
      PROVE  x = y
  <2>1. /\ x \in Here \ {0} /\ y \in Here \ {0}
        /\ files[x].key = NoKey /\ files[y].key = NoKey
        /\ files[x].parent = files[y].parent /\ files[x].name = files[y].name
    BY <1>1, <1>2, <1>5 DEF Here
  <2> QED BY <2>1 DEF TreeOK
<1> QED BY <1>3, <1>4, <1>5 DEF TreeOK

LEMMA CreateKeepsTree ==
  ASSUME TypeOK, TypeOK', TreeOK, 0 \in Ents, NEW e \in Ents,
         \A x \in Ents \ {e} : files'[x] = files[x],
         Created(files[e], files'[e])
  PROVE  TreeOK'
<1>1. PICK d \in Dirs, n \in Names, ty \in {"FILE", "DIR"} :
        /\ files'[e] = Entry(ty, n, d)
        /\ \A c \in In(d) : files[c].key = NoKey => files[c].name # n
  BY DEF Created
<1>2. /\ files'[e].type \in {"FILE", "DIR"} /\ files'[e].parent = d
      /\ files'[e].name = n
  BY <1>1 DEF Entry
<1>3. e \notin Here
  BY DEF Created, Here, Absent
<1>4. Here' = Here \cup {e} /\ Dirs \subseteq Dirs'
  BY <1>2, <1>3 DEF Here, Dirs
<1>5. 0 \in Dirs' /\ files'[0].parent = 0
  BY <1>1, <1>3, <1>4 DEF TreeOK, Dirs
<1>6. ASSUME NEW x \in Here' PROVE files'[x].parent \in Dirs'
  <2>1. CASE x = e
    BY <2>1, <1>1, <1>2, <1>4
  <2>2. CASE x # e
    BY <2>2, <1>4 DEF TreeOK, Here
  <2> QED BY <2>1, <2>2
<1>7. ASSUME NEW x \in Here' \ {0}, x # e,
             files'[e].key = NoKey, files'[x].key = NoKey,
             files'[x].parent = files'[e].parent
      PROVE  files'[x].name # files'[e].name
  <2>1. x \in In(d)
    BY <1>7, <1>2, <1>4 DEF In, Here
  <2> QED BY <2>1, <1>1, <1>2, <1>7 DEF In, Here
<1>8. ASSUME NEW x \in Here' \ {0}, NEW y \in Here' \ {0}, x # e, y # e,
             files'[x].key = NoKey, files'[y].key = NoKey,
             files'[x].parent = files'[y].parent, files'[x].name = files'[y].name
      PROVE  x = y
  BY <1>8, <1>4 DEF TreeOK, Here
<1> QED BY <1>5, <1>6, <1>7, <1>8 DEF TreeOK

LEMMA RemoveKeepsTree ==
  ASSUME TypeOK, TypeOK', TreeOK, NEW e \in Here \ {0},
         \A x \in Ents \ {e} : files'[x] = files[x],
         Removed(e, files'[e])
  PROVE  TreeOK'
<1>1. Here' = Here \ {e}
  BY DEF Removed, Absent, Here
<1>2. Dirs' = Dirs \ {e}
  BY <1>1 DEF Dirs, Here
<1>3. ASSUME NEW x \in Here' PROVE files'[x].parent \in Dirs'
  <2>1. CASE x = 0
    <3>1. files'[0].parent = 0 /\ 0 \in Dirs
      BY <2>1, <1>1 DEF TreeOK, Here
    <3> QED BY <3>1, <2>1, <1>2
  <2>2. CASE x # 0
    <3>1. x \in Here \ {0} /\ x # e /\ files'[x] = files[x]
      BY <2>2, <1>1 DEF Here
    <3>2. files[x].parent # e
      BY <3>1 DEF Removed, In
    <3> QED BY <3>1, <3>2, <1>2 DEF TreeOK
  <2> QED BY <2>1, <2>2
<1>4. Here' # {} => 0 \in Dirs' /\ files'[0].parent = 0
  BY <1>1, <1>2 DEF TreeOK, Dirs, Here
<1>5. \A x \in Here' : x \in Here /\ files'[x] = files[x]
  BY <1>1 DEF Here
<1> QED BY <1>3, <1>4, <1>5 DEF TreeOK

LEMMA InitSound == Init => TypeOK /\ TreeOK
BY DEF Init, TypeOK, TreeOK, Here, Absent

LEMMA NextSound ==
  ASSUME TypeOK, TreeOK, 0 \in Ents, Data \subseteq Values, [Next]_files
  PROVE  TypeOK' /\ TreeOK'
<1>1. CASE UNCHANGED files
  BY <1>1 DEF TypeOK, TreeOK, Here, Dirs
<1>2. ASSUME NEW e \in Ents, files' = [files EXCEPT ![e] = files'[e]],
             Becomes(e, files[e], files'[e])
      PROVE  TypeOK' /\ TreeOK'
  <2>1. files'[e] \in EntryType \cup {Absent}
    BY <1>2, BecomesTyped
  <2>2. \A x \in Ents \ {e} : files'[x] = files[x]
    BY <1>2 DEF TypeOK
  <2>3. TypeOK'
    BY <1>2, <2>1 DEF TypeOK
  <2>4. CASE Formatted(e, files'[e])
    <3>1. e = 0 /\ files'[0].type = "DIR" /\ files'[0].parent = 0
      BY <2>4 DEF Formatted, Entry
    <3>2. \A x \in Ents \ {0} : files'[x].type = "NONE"
      BY <2>2, <2>4, <3>1 DEF Formatted, Here
    <3>3. Here' = {0}
      BY <3>1, <3>2 DEF Here
    <3>4. Dirs' = {0}
      BY <3>1, <3>3 DEF Dirs
    <3> QED BY <2>3, <3>1, <3>3, <3>4 DEF TreeOK
  <2>5. CASE Created(files[e], files'[e])
    BY <2>5, <2>2, <2>3, CreateKeepsTree
  <2>6. CASE e \in Here \ {0} /\ Removed(e, files'[e])
    BY <2>6, <2>2, <2>3, RemoveKeepsTree
  <2>7. ASSUME e \in Here,
               \/ e # 0 /\ Encrypted(files[e], files'[e])
               \/ Overwritten(files[e], files'[e])
               \/ Extended(files[e], files'[e])
               \/ Shortened(files[e], files'[e])
        PROVE  TreeOK'
    <3>1. files[e] \in EntryType
      BY <2>7 DEF TypeOK, Here, Absent
    <3>2. /\ files'[e].type = files[e].type /\ files'[e].parent = files[e].parent
          /\ files'[e].name = files[e].name
          /\ files'[e].key = NoKey => files[e].key = NoKey
      BY <2>7, <3>1 DEF EntryType, Encrypted, Overwritten, Extended, Shortened
    <3> QED BY <2>7, <3>2, <2>2, <2>3, SameShape
  <2> QED BY <1>2, <2>3, <2>4, <2>5, <2>6, <2>7 DEF Becomes
<1> QED BY <1>1, <1>2 DEF Next

(* The entries of the file store always form a tree: no sequence of        *)
(* creations, writes and deletions leaves an entry without its directory,  *)
(* or two plain entries of one name in a directory.                        *)
THEOREM StoreKeepsItsTree ==
  ASSUME 0 \in Ents, Data \subseteq Values
  PROVE  Spec => []TreeOK
<1>1. TypeOK /\ TreeOK /\ [Next]_files => TypeOK' /\ TreeOK'
  BY NextSound
<1> QED BY <1>1, InitSound, PTL DEF Spec

Honest(d) == \A k \in DOMAIN d : d[k].put # Nothing => d[k].val = d[k].put

LEMMA BecomesHonest ==
  ASSUME TypeOK, ReadsWhatWasPut, NEW e \in Ents, NEW new, Becomes(e, files[e], new),
         new \in EntryType
  PROVE  Honest(new.data)
<1> DEFINE old == files[e]
<1>1. CASE Formatted(e, new) \/ Created(old, new)
  <2>1. new.data = << >>
    BY <1>1 DEF Formatted, Created, Entry
  <2>2. DOMAIN << >> = {}
    OBVIOUS
  <2> QED BY <2>1, <2>2 DEF Honest
<1>2. CASE e \in Here
  <2>1. old \in EntryType /\ old.data \in Seq(Items) /\ Honest(old.data)
    BY <1>2 DEF TypeOK, EntryType, Here, Absent, ReadsWhatWasPut, Honest
  <2>2. CASE Encrypted(old, new)
    BY <2>1, <2>2 DEF Encrypted, EntryType
  <2>3. CASE Removed(e, new)
    BY <2>3 DEF Removed, Absent, EntryType
  <2>4. CASE Overwritten(old, new)
    <3>1. PICK k \in DOMAIN old.data, v \in Data : new = [old EXCEPT !.data[k] = Item(v)]
      BY <2>4 DEF Overwritten
    <3>2. new.data = [old.data EXCEPT ![k] = Item(v)]
      BY <2>1, <3>1 DEF EntryType
    <3> QED BY <2>1, <3>1, <3>2 DEF Honest, Item
  <2>5. CASE Extended(old, new)
    <3>1. new.data \in Seq(Items) /\ Appended(old.data, new.data)
      BY <2>5 DEF Extended
    <3>2. DOMAIN new.data = 1 .. Len(new.data) /\ DOMAIN old.data = 1 .. Len(old.data)
          /\ Len(old.data) \in Nat
      BY <2>1, <3>1, LenProperties
    <3>3. PICK from \in Len(old.data) .. Len(new.data) - 1, v \in Data :
            \A k \in 1 .. Len(new.data) :
              /\ k <= Len(old.data)               => new.data[k] = old.data[k]
              /\ k > Len(old.data) /\ k <= from   => new.data[k].put = Nothing
              /\ k > from                         => new.data[k] = Item(v)
      BY <3>1 DEF Appended
    <3>4. ASSUME NEW k \in 1 .. Len(new.data), k <= Len(old.data)
          PROVE  new.data[k] = old.data[k] /\ k \in DOMAIN old.data
      BY <3>2, <3>3, <3>4
    <3>5. ASSUME NEW k \in 1 .. Len(new.data), new.data[k].put # Nothing
          PROVE  new.data[k].val = new.data[k].put
      <4>1. CASE k <= Len(old.data)
        BY <2>1, <3>4, <3>5, <4>1 DEF Honest
      <4>2. CASE k > from
        BY <3>3, <4>2 DEF Item
      <4> QED BY <3>2, <3>3, <3>5, <4>1, <4>2
    <3> QED BY <3>2, <3>5 DEF Honest
  <2>6. CASE Shortened(old, new)
    <3>1. PICK n \in 0 .. Len(old.data) : new = [old EXCEPT !.data = SubSeq(@, 1, n)]
      BY <2>6 DEF Shortened
    <3>2. PICK d : d = SubSeq(old.data, 1, n)
      OBVIOUS
    <3>3. Len(old.data) \in Nat /\ DOMAIN old.data = 1 .. Len(old.data)
      BY <2>1, LenProperties
    <3>4. /\ d \in Seq(Items) /\ Len(d) = n
          /\ \A k \in 1 .. n : d[k] = old.data[k]
      BY <2>1, <3>2, <3>3, SubSeqProperties
    <3>5. new.data = d /\ DOMAIN d = 1 .. n
      BY <2>1, <3>1, <3>2, <3>4, LenProperties DEF EntryType
    <3>6. \A k \in 1 .. n : k \in DOMAIN old.data
      BY <3>3
    <3> QED BY <2>1, <3>4, <3>5, <3>6 DEF Honest
  <2> QED BY <1>2, <2>2, <2>3, <2>4, <2>5, <2>6 DEF Becomes, Formatted, Created, Here, Absent
<1> QED BY <1>1, <1>2 DEF Becomes

(* Reading a block of the file store gives what the last write of it put   *)
(* there, in whatever order files were written, extended, shortened and    *)
(* removed: only blocks that a write went past hold anything else.         *)
THEOREM StoreReadsBack ==
  ASSUME 0 \in Ents, Data \subseteq Values
  PROVE  Spec => []ReadsWhatWasPut
<1> DEFINE Inv == TypeOK /\ TreeOK /\ ReadsWhatWasPut
<1>1. ASSUME Init PROVE TypeOK /\ TreeOK /\ ReadsWhatWasPut
  <2>1. Here = {}
    BY <1>1 DEF Init, Here, Absent
  <2>2. ReadsWhatWasPut
    BY <2>1 DEF ReadsWhatWasPut
  <2> QED BY <1>1, <2>2, InitSound
<1>2. ASSUME Inv, [Next]_files PROVE Inv'
  <2>1. TypeOK' /\ TreeOK'
    BY <1>2, NextSound
  <2>2. ASSUME UNCHANGED files PROVE ReadsWhatWasPut'
    BY <1>2, <2>2 DEF ReadsWhatWasPut, Here
  <2>3. ASSUME NEW e \in Ents, files' = [files EXCEPT ![e] = files'[e]],
               Becomes(e, files[e], files'[e])
        PROVE  ReadsWhatWasPut'
    <3>1. \A x \in Ents \ {e} : files'[x] = files[x]
      BY <1>2, <2>3 DEF TypeOK
    <3>2. ASSUME e \in Here' PROVE Honest(files'[e].data)
      <4>1. files'[e] \in EntryType
        BY <2>1, <3>2 DEF TypeOK, Here, Absent
      <4> QED BY <1>2, <2>3, <4>1, BecomesHonest
    <3>3. \A x \in Ents \ {e} : x \in Here' => x \in Here
      BY <3>1 DEF Here
    <3>4. ASSUME NEW x \in Here'
          PROVE  \A k \in DOMAIN files'[x].data :
                   files'[x].data[k].put # Nothing => files'[x].data[k].val = files'[x].data[k].put
      <4>1. CASE x = e
        BY <3>2, <4>1 DEF Honest
      <4>2. CASE x # e
        BY <1>2, <3>1, <3>3, <4>2 DEF ReadsWhatWasPut, Here
      <4> QED BY <4>1, <4>2
    <3> QED BY <3>4 DEF ReadsWhatWasPut
  <2> QED BY <1>2, <2>1, <2>2, <2>3 DEF Next
<1> QED BY <1>1, <1>2, PTL DEF Spec
=============================================================================
