---------------------------- MODULE Vtx2fsProofs ----------------------------
(***************************************************************************)
(* The file system keeps its tree, its files' blocks apart and its data    *)
(* readable, and implements the abstract one of FileStore, for every       *)
(* number of entries and blocks, every set of names and every bound.       *)
(*                                                                         *)
(* The inductive invariant says, beside the properties themselves, what    *)
(* the operation in progress holds at each of its program points.  It is   *)
(* proved in layers: CoreInv, of the tree and the stages of an operation,  *)
(* stands alone; SpaceInv rests on it, and ReadInv and LeakInv on both;    *)
(* SecretInv rests on CoreInv.                                             *)
(***************************************************************************)
EXTENDS Vtx2fs, SequenceTheorems, FiniteSetTheorems, TLAPS

Held(s) == {s[i] : i \in DOMAIN s}
Distinct(s) == \A i, j \in DOMAIN s : s[i] = s[j] => i = j

Pcs == {"idle", "alloc", "append", "zero", "data", "entry", "undo",
        "chunk", "seal", "free", "clear"}
OpType == [pc : Pcs, ent : Ents, img : EntryType, run : Seq(Blocks), pos : Nat,
           end : Nat, last : Nat, key : Nat]

Types == TypeOK /\ op \in OpType

Before  == {"alloc", "append", "zero"}       \* the run is not the image's yet
After   == {"data", "entry"}                 \* the image is complete
Writing == Before \cup After
Deletes == {"free", "clear"}

(* What each stage of formatting has reached.  Nothing is in progress and  *)
(* there is no file before the superblock is valid.                        *)
BootInv ==
  /\ phase # Mounted => op = Idle
  /\ phase = Mounted => super
  /\ phase \in 1 .. Len(Stages) => ~super
  /\ ~super => secret = {} /\ \A e \in Ents : entries[e].type # "FILE"
  /\ phase = 2 => \A e \in Ents : entries[e] = Free
  /\ phase \in {3, 4} => /\ entries[Root] = NewEntry(Root, "/", "DIR")
                         /\ \A e \in Ents \ {Root} : entries[e] = Free
  /\ phase = 4 => used = {}

(* Only files have blocks, and the keys given so far are the numbers of    *)
(* operations.                                                             *)
EntriesInv ==
  \A e \in Ents : /\ entries[e].type # "FILE" =>
                       entries[e].blocks = <<>> /\ entries[e].ind = NoBlock
                  /\ entries[e].key <= ops
                  /\ entries[e].size <= Len(entries[e].blocks)

Parented ==
  /\ entries[Root].type = "DIR"
  /\ \A e \in Live : /\ entries[e].type # "GARBAGE"
                     /\ entries[entries[e].parent].type = "DIR"
UniqueNames ==
  \A e, x \in Live \ {Root} :
    (/\ entries[e].parent = entries[x].parent
     /\ entries[e].name = entries[x].name /\ entries[e].key = entries[x].key)
      => e = x
Rooted ==
  \A S \in SUBSET (Live \ {Root}) : S # {} => \E e \in S : entries[e].parent \notin S

TreeInv == super => Parented /\ UniqueNames /\ Rooted

(* The index block of the operation is one it has just allocated.          *)
NewIndex == op.img.ind # entries[op.ent].ind

(* What is known of the operation at its program point.                    *)
SealInv ==
  op.pc = "seal" =>
    /\ op.ent \in Live \ {Root} /\ op.ent \in secret
    /\ entries[op.ent].key = NoKey /\ entries[op.ent].blocks = <<>>
    /\ op.key = ops /\ \A e \in Ents : entries[e].key < ops

DeleteInv ==
  op.pc \in Deletes => op.ent \in Deletable

WriteInv ==
  LET e == entries[op.ent] IN
  /\ op.pc \in Writing \cup {"chunk"} => /\ e.type = "FILE"
                                         /\ op.key \in {NoKey, e.key}
  /\ op.pc \in Writing => /\ op.img.type = "FILE" /\ op.img.name = e.name
                          /\ op.img.key = e.key /\ op.img.parent = e.parent
                          /\ op.img.size = e.size
                          /\ op.img.ind # e.ind => e.ind = NoBlock
  /\ op.pc \in Before => /\ op.img.blocks = e.blocks
                         /\ Distinct(op.run)
                         /\ op.end = Len(op.img.blocks) + Len(op.run)
                         /\ op.run # <<>>
  /\ op.pc = "alloc" => op.img = e
  /\ op.pc \in Before /\ NewIndex =>
       op.img.exts >= DirectExtents /\ ~IndexFull
  /\ op.pc = "zero" => NewIndex
  /\ op.pc \in After => /\ Len(e.blocks) <= Len(op.img.blocks)
                        /\ \A k \in 1 .. Len(e.blocks) : op.img.blocks[k] = e.blocks[k]
  /\ op.pc \in {"free", "undo"} => op.run # <<>>

(* How far the history of a file reaches.                                  *)
Cur(f) == IF op.pc \in After /\ op.ent = f THEN op.img ELSE entries[f]

Reach(f)   == Len(Cur(f).blocks)
Written(f) == Len(saved[f])

(* It ends with the file, or with what the write in progress has written.  *)
Histories ==
  \A f \in Ents : /\ entries[f].size <= Written(f) /\ Written(f) <= Reach(f)
                  /\ Written(f) = entries[f].size \/ (op.pc \in After /\ op.ent = f)

SavedInv ==
  /\ Histories
  /\ op.pc \in Before \cup {"data"} => op.pos < op.end
  /\ op.pc \in After => op.end <= Reach(op.ent)
  /\ op.pc = "data" => Written(op.ent) \in {entries[op.ent].size, op.pos}
  /\ op.pc = "entry" => op.pos = op.end /\ Written(op.ent) = FinalSize

(* The blocks of the files, and those the operation holds.                 *)
Apart(b, B) == \A e \in Ents \ {b} : OwnedBy(entries[e]) \cap B = {}

FilesInv ==
  \A e \in Ents :
    /\ Apart(e, OwnedBy(entries[e]))
    /\ Distinct(entries[e].blocks) /\ entries[e].ind \notin InFile(entries[e])
    /\ (Deleting(e) /\ op.pos # 0) \/ OwnedBy(entries[e]) \subseteq used

RunInv ==
  op.pc \in Before \cup {"undo"} =>
    \A e \in Ents : OwnedBy(entries[e]) \cap Held(op.run) = {}

BeforeInv ==
  op.pc \in {"append", "zero"} =>
    /\ Held(op.run) \subseteq used
    /\ NewIndex => /\ op.img.ind \in used \ Held(op.run)
                   /\ \A e \in Ents : op.img.ind \notin OwnedBy(entries[e])

AfterInv ==
  op.pc \in After =>
    /\ Distinct(op.img.blocks) /\ op.img.ind \notin InFile(op.img)
    /\ OwnedBy(op.img) \subseteq used
    /\ Apart(op.ent, OwnedBy(op.img))

FreeInv ==
  /\ op.pc \in Deletes => op.pos \in {0, 1}
  /\ op.pc = "free" => Distinct(op.run) /\ Held(op.run) \subseteq OwnedBy(entries[op.ent])
  /\ op.pc = "clear" /\ op.pos = 0 => OwnedBy(entries[op.ent]) = {}

SpaceInv ==
  ~torn => FilesInv /\ RunInv /\ BeforeInv /\ AfterInv /\ FreeInv

Matches(c, s, key, pos) ==
  IF s.key = NoKey THEN c = Plain(s.val) ELSE Deciphered(c, key, pos) = s.val

Reads(f) ==
  /\ \A k \in 1 .. Written(f) :
       saved[f][k].val # 0 =>
         Matches(content[Cur(f).blocks[k]], saved[f][k], entries[f].key, k - 1)
  /\ Cur(f).ind # NoBlock => content[Cur(f).ind] = Index

ReadInv == ~torn => \A f \in Ents : Reads(f)

(* Which used blocks belong to no file yet, or no longer.                  *)
HeldByOp(b) ==
  \/ op.pc \in Before \cup {"undo"} /\ b \in Held(op.run)
  \/ op.pc \in Writing /\ b \in OwnedBy(op.img)

LeakInv ==
  /\ torn => failed
  /\ super /\ ~failed =>
       /\ \A b \in used : HeldByOp(b) \/ \E e \in Ents : b \in OwnedBy(entries[e])
       /\ op.pc = "clear" => used \cap OwnedBy(entries[op.ent]) = {}
       /\ op.pc = "free" => used \cap OwnedBy(entries[op.ent]) \subseteq Held(op.run)

Unsealed == {e \in secret : entries[e].key = NoKey}
SecretInv ==
  /\ Cardinality(Unsealed) <= crashes + errors + (IF op.pc = "seal" THEN 1 ELSE 0)
  /\ \A e \in secret : entries[e].type # "FREE"

-----------------------------------------------------------------------------
(* What the model's operators give.                                        *)

USE SizesAssumption, BoundsAssumption

LEMMA Constants0 ==
  /\ Root \in Ents /\ NoBlock \notin Blocks /\ Len(Stages) = 4 /\ Mounted = 5
  /\ Free \in EntryType /\ Garbage \in EntryType /\ Idle \in OpType
  /\ \A p \in Ents, n \in Names \cup {"/"}, ty \in {"FILE", "DIR"} :
       NewEntry(p, n, ty) \in EntryType
<1>1. Root \in Ents /\ NoBlock \notin Blocks /\ <<>> \in Seq(Blocks)
  BY EmptySeq DEF Root, Ents, NoBlock, Blocks
<1>2. Free \in EntryType
  BY <1>1 DEF Free, EntryType, NoKey, Root, Ents
<1>3. Garbage \in EntryType
  BY <1>2 DEF Free, Garbage, EntryType
<1>4. Idle \in OpType
  BY <1>1, <1>2 DEF Idle, OpType, Pcs, NoKey
<1>5. ASSUME NEW p \in Ents, NEW n \in Names \cup {"/"}, NEW ty \in {"FILE", "DIR"}
      PROVE  NewEntry(p, n, ty) \in EntryType
  BY <1>2, <1>5 DEF Free, NewEntry, EntryType
<1> QED BY <1>1, <1>2, <1>3, <1>4, <1>5 DEF Stages, Mounted

LEMMA EntryFields ==
  /\ Free.type = "FREE" /\ Free.blocks = <<>> /\ Free.ind = NoBlock
  /\ Free.key = NoKey /\ Free.size = 0 /\ Free.parent = Root
  /\ \A p, n, ty : LET new == NewEntry(p, n, ty) IN
       /\ new.type = ty /\ new.name = n /\ new.parent = p /\ new.key = NoKey
       /\ new.blocks = <<>> /\ new.ind = NoBlock /\ new.size = 0
BY DEF Free, NewEntry, Root

LEMMA Typed ==
  ASSUME Types
  PROVE  /\ ops \in Nat /\ super \in BOOLEAN /\ used \subseteq Blocks
         /\ op \in OpType /\ op.pc \in Pcs /\ op.ent \in Ents /\ op.img \in EntryType
         /\ op.run \in Seq(Blocks) /\ op.pos \in Nat /\ op.end \in Nat /\ op.last \in Nat
         /\ op.key \in Nat
         /\ \A x \in Ents : /\ entries[x] \in EntryType /\ entries[x].key \in Nat
                            /\ entries[x].parent \in Ents /\ entries[x].size \in Nat
                            /\ entries[x].blocks \in Seq(Blocks)
                            /\ Len(entries[x].blocks) \in Nat
<1>1. op \in OpType /\ ops \in Nat /\ super \in BOOLEAN /\ used \subseteq Blocks
  BY DEF Types, TypeOK
<1>2. ASSUME NEW x \in Ents
      PROVE  /\ entries[x] \in EntryType /\ entries[x].key \in Nat
             /\ entries[x].parent \in Ents /\ entries[x].size \in Nat
             /\ entries[x].blocks \in Seq(Blocks)
             /\ Len(entries[x].blocks) \in Nat
  <2>1. entries[x] \in EntryType
    BY DEF Types, TypeOK
  <2>2. entries[x].blocks \in Seq(Blocks)
    BY <2>1 DEF EntryType
  <2> QED BY <2>1, <2>2, LenProperties DEF EntryType
<1>3. /\ op.pc \in Pcs /\ op.ent \in Ents /\ op.img \in EntryType
      /\ op.run \in Seq(Blocks) /\ op.pos \in Nat /\ op.end \in Nat /\ op.last \in Nat
      /\ op.key \in Nat
  BY <1>1 DEF OpType
<1> QED BY <1>1, <1>2, <1>3

LEMMA PlainType ==
  ASSUME NEW v \in 0 .. MaxOps + 1
  PROVE  Plain(v) \in Contents
BY DEF Plain, Contents, NoKey

LEMMA RunFacts ==
  ASSUME NEW n \in Nat \ {0}, NEW s \in FirstFit(n), used \subseteq Blocks
  PROVE  /\ Run(s, n) \in Seq(Blocks) /\ Len(Run(s, n)) = n
         /\ Distinct(Run(s, n)) /\ Held(Run(s, n)) \cap used = {}
         /\ Run(s, n) # <<>> /\ s \in Blocks \ used
         /\ \A i \in 1 .. n : Run(s, n)[i] \in Blocks \ used
<1>1. s \in Blocks /\ \A i \in 1 .. n : s + i - 1 \in Blocks \ used
  BY DEF FirstFit, IsFree
<1>2. Run(s, n) = [i \in 1 .. n |-> s + i - 1]
  BY DEF Run
<1>3. Run(s, n) \in [1 .. n -> Blocks]
  BY <1>1, <1>2
<1>4. Run(s, n) \in Seq(Blocks)
  BY <1>3, SeqDef
<1>5. Len(Run(s, n)) = n
  BY <1>3, <1>4, LenProperties
<1>6. Distinct(Run(s, n))
  BY <1>1, <1>2 DEF Distinct, Blocks
<1>7. \A i \in 1 .. n : Run(s, n)[i] \in Blocks \ used
  BY <1>1, <1>2
<1>8. s \in Blocks \ used
  BY <1>1, 1 \in 1 .. n DEF Blocks
<1> QED BY <1>3, <1>4, <1>5, <1>6, <1>7, <1>8 DEF Held

LEMMA PutFacts ==
  ASSUME NEW s \in Seq(Record), NEW v \in Record, NEW i \in Nat \ {0}
  PROVE  /\ Put(s, i, v) \in Seq(Record)
         /\ Len(Put(s, i, v)) = Max2(Len(s), i)
         /\ \A k \in 1 .. Max2(Len(s), i) :
              Put(s, i, v)[k] = IF k = i THEN v ELSE IF k <= Len(s) THEN s[k] ELSE Unwritten
<1>1. Len(s) \in Nat /\ \A k \in 1 .. Len(s) : s[k] \in Record
  BY LenProperties, ElementOfSeq
<1> DEFINE n == Max2(Len(s), i)
           p == [k \in 1 .. n |-> IF k = i THEN v ELSE IF k <= Len(s) THEN s[k] ELSE Unwritten]
<1>2. n \in Nat
  BY <1>1 DEF Max2
<1>3. \A k \in 1 .. n : p[k] = IF k = i THEN v ELSE IF k <= Len(s) THEN s[k] ELSE Unwritten
  OBVIOUS
<1>0. Unwritten \in Record
  BY DEF Unwritten, Record, NoKey
<1>4. p \in [1 .. n -> Record]
  <2>1. ASSUME NEW k \in 1 .. n
        PROVE  (IF k = i THEN v ELSE IF k <= Len(s) THEN s[k] ELSE Unwritten) \in Record
    <3>1. k <= Len(s) => k \in 1 .. Len(s)
      BY <1>1, <1>2
    <3> QED BY <1>0, <1>1, <3>1
  <2> QED BY <2>1
<1>5. p \in Seq(Record)
  BY <1>4, <1>2, SeqDef
<1>6. Len(p) = n
  BY <1>4, <1>5, <1>2, LenProperties
<1> QED BY <1>3, <1>5, <1>6 DEF Put

LEMMA ToFreeFacts ==
  ASSUME NEW e \in EntryType, Distinct(e.blocks), e.ind \notin InFile(e)
  PROVE  /\ BlocksToFree(e) \in Seq(Blocks)
         /\ Held(BlocksToFree(e)) = OwnedBy(e)
         /\ Distinct(BlocksToFree(e))
<1>1. e.blocks \in Seq(Blocks) /\ e.ind \in Blocks \cup {NoBlock}
  BY DEF EntryType
<1>2. DOMAIN e.blocks = 1 .. Len(e.blocks) /\ Len(e.blocks) \in Nat
  BY <1>1, LenProperties
<1>3. CASE e.ind = NoBlock
  <2>1. BlocksToFree(e) = e.blocks
    BY <1>1, <1>3, ConcatEmptySeq DEF BlocksToFree
  <2>2. OwnedBy(e) = InFile(e)
    BY <1>3, <1>1, <1>2, ElementOfSeq, Constants0 DEF OwnedBy, InFile
  <2> QED BY <2>1, <2>2, <1>1 DEF InFile, Held
<1>4. CASE e.ind # NoBlock
  <2> DEFINE one == <<e.ind>>
             all == e.blocks \o one
  <2>1. one \in Seq(Blocks) /\ Len(one) = 1 /\ one[1] = e.ind
    BY <1>1, <1>4
  <2>2. /\ all \in Seq(Blocks) /\ Len(all) = Len(e.blocks) + 1
        /\ \A i \in 1 .. Len(e.blocks) + 1 :
             all[i] = IF i <= Len(e.blocks) THEN e.blocks[i] ELSE one[i - Len(e.blocks)]
    BY <2>1, <1>1, ConcatProperties
  <2> HIDE DEF all, one
  <2>3. /\ DOMAIN all = 1 .. Len(e.blocks) + 1
        /\ \A i \in 1 .. Len(e.blocks) : all[i] = e.blocks[i]
        /\ all[Len(e.blocks) + 1] = e.ind
    <3>1. DOMAIN all = 1 .. Len(e.blocks) + 1
      BY <2>2, LenProperties
    <3>2. \A i \in 1 .. Len(e.blocks) : all[i] = e.blocks[i]
      BY <1>2, <2>2
    <3>3. all[Len(e.blocks) + 1] = e.ind
      <4>1. /\ Len(e.blocks) + 1 \in 1 .. Len(e.blocks) + 1 /\ ~(Len(e.blocks) + 1 <= Len(e.blocks))
            /\ (Len(e.blocks) + 1) - Len(e.blocks) = 1
        BY <1>2
      <4> QED BY <2>1, <2>2, <4>1
    <3> QED BY <3>1, <3>2, <3>3
  <2>4. \A i \in 1 .. Len(e.blocks) : e.blocks[i] # e.ind
    BY <1>2 DEF InFile
  <2>5. Distinct(all)
    BY <2>3, <2>4, <1>2 DEF Distinct
  <2>6. Held(all) = OwnedBy(e)
    BY <2>3, <1>2, <1>4 DEF Held, OwnedBy, InFile
  <2> QED BY <2>2, <2>5, <2>6, <1>4 DEF BlocksToFree, all, one
<1> QED BY <1>3, <1>4

LEMMA ToFreeType ==
  ASSUME NEW e \in EntryType
  PROVE  BlocksToFree(e) \in Seq(Blocks)
<1>1. e.blocks \in Seq(Blocks) /\ e.ind \in Blocks \cup {NoBlock}
  BY DEF EntryType
<1>2. (IF e.ind = NoBlock THEN <<>> ELSE <<e.ind>>) \in Seq(Blocks)
  BY <1>1, EmptySeq
<1> QED BY <1>1, <1>2, ConcatProperties DEF BlocksToFree

(* A history that is cut.                                                  *)
LEMMA CutFacts ==
  ASSUME NEW s \in Seq(Record), NEW n \in Nat, n <= Len(s)
  PROVE  /\ SubSeq(s, 1, n) \in Seq(Record) /\ Len(SubSeq(s, 1, n)) = n
         /\ \A k \in 1 .. n : SubSeq(s, 1, n)[k] = s[k]
<1>1. Len(s) \in Nat
  BY LenProperties
<1>2. \A k \in 1 .. n : s[k] \in Record
  <2>1. \A k \in 1 .. n : k \in 1 .. Len(s)
    BY <1>1
  <2> QED BY <2>1, ElementOfSeq
<1> QED BY <1>2, SubSeqProperties

(* What survives of a file's history when an operation is cut short.       *)
LEMMA ForgottenFacts ==
  ASSUME Types, SavedInv
  PROVE  /\ Forgotten \in [Ents -> Seq(Record)]
         /\ \A e \in Ents :
              /\ Len(Forgotten[e]) = entries[e].size
              /\ \A k \in 1 .. entries[e].size : Forgotten[e][k] = saved[e][k]
<1> SUFFICES ASSUME NEW e \in Ents
             PROVE  /\ Forgotten[e] \in Seq(Record) /\ Len(Forgotten[e]) = entries[e].size
                    /\ \A k \in 1 .. entries[e].size : Forgotten[e][k] = saved[e][k]
  BY DEF Forgotten
<1>1. Forgotten[e] = SubSeq(saved[e], 1, entries[e].size)
  BY DEF Forgotten
<1>2. saved[e] \in Seq(Record) /\ entries[e].size \in Nat
  BY DEF Types, TypeOK, EntryType
<1>3. entries[e].size <= Len(saved[e])
  BY DEF SavedInv, Histories, Written
<1> QED BY <1>1, <1>2, <1>3, CutFacts

(* A sequence of blocks that loses its first one.                          *)
LEMMA TailFacts ==
  ASSUME NEW s \in Seq(Blocks), s # <<>>
  PROVE  /\ Head(s) \in Held(s) /\ Tail(s) \in Seq(Blocks)
         /\ Held(s) = Held(Tail(s)) \cup {Head(s)}
         /\ Len(s) # 1 => Tail(s) # <<>>
         /\ Len(s) = 1 => Held(s) = {Head(s)}
         /\ Distinct(s) => Distinct(Tail(s)) /\ Head(s) \notin Held(Tail(s))
<1> DEFINE t == Tail(s)
           h == Head(s)
<1>1. Len(s) \in Nat \ {0} /\ DOMAIN s = 1 .. Len(s)
  BY EmptySeq, LenProperties
<1>2. h = s[1]
  OBVIOUS
<1>3. /\ t \in Seq(Blocks) /\ Len(t) = Len(s) - 1
      /\ \A i \in 1 .. Len(t) : t[i] = s[i + 1]
  BY HeadTailProperties
<1>4. DOMAIN t = 1 .. Len(t)
  BY <1>3, LenProperties
<1> HIDE DEF t, h
<1>5. Len(s) # 1 => t # <<>>
  BY <1>1, <1>3, Len(<<>>) = 0
<1>6. ASSUME NEW i \in DOMAIN s
      PROVE  i = 1 \/ (i - 1 \in DOMAIN t /\ s[i] = t[i - 1])
  <2>1. CASE i # 1
    <3>1. i \in 1 .. Len(s) /\ i - 1 \in 1 .. Len(t) /\ (i - 1) + 1 = i
      BY <2>1, <1>1, <1>3
    <3> QED BY <3>1, <1>3, <1>4
  <2> QED BY <2>1
<1>7. ASSUME NEW i \in DOMAIN t
      PROVE  i + 1 \in DOMAIN s /\ t[i] = s[i + 1] /\ i + 1 # 1
  BY <1>1, <1>3, <1>4
<1>8. 1 \in DOMAIN s
  BY <1>1
<1>9. \A b : b \in Held(s) <=> b \in Held(t) \/ b = h
  BY <1>2, <1>6, <1>7, <1>8 DEF Held
<1>10. ASSUME Distinct(s) PROVE Distinct(t) /\ h \notin Held(t)
  <2>1. ASSUME NEW i \in DOMAIN t, NEW j \in DOMAIN t, t[i] = t[j] PROVE i = j
    <3>1. i + 1 = j + 1
      BY <2>1, <1>7, <1>10 DEF Distinct
    <3> QED BY <3>1, <1>3, <1>4
  <2>2. ASSUME NEW i \in DOMAIN t PROVE t[i] # h
    BY <1>7, <1>8, <1>10, <1>2 DEF Distinct
  <2> QED BY <2>1, <2>2 DEF Distinct, Held
<1>11. Len(s) = 1 => Held(t) = {}
  BY <1>3, <1>4 DEF Held
<1> QED BY <1>3, <1>5, <1>9, <1>10, <1>11 DEF t, h

Joined(s, t) == s \o t
LEMMA ConcatFacts ==
  ASSUME NEW s \in Seq(Blocks), NEW t \in Seq(Blocks), NEW u, u = Joined(s, t)
  PROVE  /\ u \in Seq(Blocks) /\ Len(u) = Len(s) + Len(t)
         /\ \A k \in 1 .. Len(s) : u[k] = s[k]
         /\ Held(u) = Held(s) \cup Held(t)
         /\ Distinct(s) /\ Distinct(t) /\ Held(s) \cap Held(t) = {} => Distinct(u)
<1>1. /\ Len(s) \in Nat /\ Len(t) \in Nat
      /\ DOMAIN s = 1 .. Len(s) /\ DOMAIN t = 1 .. Len(t)
  BY LenProperties
<1>2. /\ u \in Seq(Blocks) /\ Len(u) = Len(s) + Len(t)
      /\ \A i \in 1 .. Len(s) + Len(t) : u[i] = IF i <= Len(s) THEN s[i] ELSE t[i - Len(s)]
  BY ConcatProperties DEF Joined
<1>3. DOMAIN u = 1 .. Len(s) + Len(t)
  BY <1>2, LenProperties
<1>4. ASSUME NEW k \in 1 .. Len(s) PROVE k \in DOMAIN u /\ u[k] = s[k]
  BY <1>1, <1>2, <1>3
<1>5. ASSUME NEW k \in 1 .. Len(t) PROVE Len(s) + k \in DOMAIN u /\ u[Len(s) + k] = t[k]
  <2>1. Len(s) + k \in 1 .. Len(s) + Len(t) /\ ~(Len(s) + k <= Len(s)) /\ (Len(s) + k) - Len(s) = k
    BY <1>1
  <2> QED BY <2>1, <1>2, <1>3
<1>6. ASSUME NEW k \in DOMAIN u
      PROVE  \/ k \in DOMAIN s /\ u[k] = s[k]
             \/ k - Len(s) \in DOMAIN t /\ u[k] = t[k - Len(s)]
  BY <1>1, <1>2, <1>3
<1>7. Held(u) = Held(s) \cup Held(t)
  <2>1. Held(u) \subseteq Held(s) \cup Held(t)
    BY <1>6 DEF Held
  <2>2. Held(s) \subseteq Held(u)
    BY <1>1, <1>4 DEF Held
  <2>3. Held(t) \subseteq Held(u)
    BY <1>1, <1>5 DEF Held
  <2> QED BY <2>1, <2>2, <2>3
<1>8. ASSUME Distinct(s), Distinct(t), Held(s) \cap Held(t) = {} PROVE Distinct(u)
  <2> SUFFICES ASSUME NEW i \in DOMAIN u, NEW j \in DOMAIN u, u[i] = u[j] PROVE i = j
    BY DEF Distinct
  <2>1. CASE i \in DOMAIN s /\ j \in DOMAIN s /\ u[i] = s[i] /\ u[j] = s[j]
    BY <2>1, <1>8 DEF Distinct
  <2>2. CASE /\ i - Len(s) \in DOMAIN t /\ u[i] = t[i - Len(s)]
             /\ j - Len(s) \in DOMAIN t /\ u[j] = t[j - Len(s)]
    <3>1. i - Len(s) = j - Len(s)
      BY <2>2, <1>8 DEF Distinct
    <3> QED BY <3>1, <1>1, <1>3
  <2>3. \A k, l : k \in DOMAIN s /\ l \in DOMAIN t => s[k] # t[l]
    BY <1>8 DEF Held
  <2> QED BY <2>1, <2>2, <2>3, <1>6
<1> QED BY <1>2, <1>4, <1>5, <1>7, <1>8

(* The image of a file with the run at its end.                            *)
LEMMA WithRunFacts ==
  ASSUME NEW img \in EntryType, op.run \in Seq(Blocks), NEW new, new = WithRun(img)
  PROVE  /\ new \in EntryType
         /\ new.type = img.type /\ new.name = img.name /\ new.key = img.key
         /\ new.parent = img.parent /\ new.size = img.size /\ new.ind = img.ind
         /\ Len(new.blocks) = Len(img.blocks) + Len(op.run)
         /\ \A k \in 1 .. Len(img.blocks) : new.blocks[k] = img.blocks[k]
         /\ InFile(new) = InFile(img) \cup Held(op.run)
         /\ OwnedBy(new) = OwnedBy(img) \cup Held(op.run)
         /\ Distinct(img.blocks) /\ Distinct(op.run) /\ InFile(img) \cap Held(op.run) = {}
              => Distinct(new.blocks)
<1>1. img.blocks \in Seq(Blocks) /\ img.exts \in Nat
  BY DEF EntryType
<1>2. PICK s, t, all : s = img.blocks /\ t = op.run /\ all = s \o t
  OBVIOUS
<1>3. /\ all \in Seq(Blocks) /\ Len(all) = Len(s) + Len(t)
      /\ \A k \in 1 .. Len(s) : all[k] = s[k]
      /\ Held(all) = Held(s) \cup Held(t)
      /\ Distinct(s) /\ Distinct(t) /\ Held(s) \cap Held(t) = {} => Distinct(all)
  <2>1. s \in Seq(Blocks) /\ t \in Seq(Blocks)
    BY <1>1, <1>2
  <2>2. all = Joined(s, t)
    BY <1>2 DEF Joined
  <2>3. all \in Seq(Blocks) /\ Len(all) = Len(s) + Len(t)
    BY <2>1, <2>2, ConcatFacts
  <2>4. \A k \in 1 .. Len(s) : all[k] = s[k]
    BY <2>1, <2>2, LenProperties DEF Joined
  <2>5. /\ Held(all) = Held(s) \cup Held(t)
        /\ Distinct(s) /\ Distinct(t) /\ Held(s) \cap Held(t) = {} => Distinct(all)
    BY <2>1, <2>2, ConcatFacts
  <2> QED BY <2>3, <2>4, <2>5
<1>4. new = [img EXCEPT !.blocks = all, !.exts = img.exts + 1]
  BY <1>2 DEF WithRun
<1>5. new.blocks = all /\ new.ind = img.ind
  BY <1>4 DEF EntryType
<1>6. new \in EntryType
  <2>1. all \in Seq(Blocks) /\ img.exts + 1 \in Nat
    BY <1>1, <1>3
  <2> QED BY <2>1, <1>4 DEF EntryType
<1>7. /\ new.type = img.type /\ new.name = img.name /\ new.key = img.key
      /\ new.parent = img.parent /\ new.size = img.size
  BY <1>4 DEF EntryType
<1>8. InFile(new) = Held(all) /\ InFile(img) = Held(s)
  BY <1>2, <1>5 DEF InFile, Held
<1>9. InFile(new) = InFile(img) \cup Held(op.run)
  BY <1>2, <1>3, <1>8
<1>10. OwnedBy(new) = OwnedBy(img) \cup Held(op.run)
  BY <1>5, <1>9 DEF OwnedBy
<1> QED BY <1>2, <1>3, <1>5, <1>6, <1>7, <1>8, <1>9, <1>10

(* What a write starts with.                                               *)
Begun(w, f, pos, end, last, key) ==
  /\ w \in OpType
  /\ w.pc \in {"alloc", "data"} /\ w.ent = f /\ w.img = entries[f]
  /\ w.pos = pos /\ w.end = end /\ w.last = last /\ w.key = key
  /\ w.pc = "data" => end <= Len(entries[f].blocks) /\ w.run = <<>>
  /\ w.pc = "alloc" => /\ end = Len(entries[f].blocks) + Len(w.run)
                       /\ w.run # <<>> /\ Distinct(w.run)
                       /\ Held(w.run) \cap used = {}

LEMMA WritesFacts ==
  ASSUME Types, NEW f \in Ents, NEW pos \in Nat, NEW end \in Nat, NEW last \in Nat,
         NEW key \in Nat, NEW w \in Writes(f, pos, end, last, key)
  PROVE  Begun(w, f, pos, end, last, key)
<1>1. entries[f] \in EntryType /\ used \subseteq Blocks
  BY DEF Types, TypeOK
<1>2. entries[f].blocks \in Seq(Blocks) /\ Len(entries[f].blocks) \in Nat
  BY <1>1, LenProperties DEF EntryType
<1> USE DEF Begun
<1> DEFINE begun == [pc |-> "data", ent |-> f, img |-> entries[f], run |-> <<>>,
                     pos |-> pos, end |-> end, last |-> last, key |-> key]
           extra == end - Len(entries[f].blocks)
<1>3. begun \in OpType
  BY <1>1, EmptySeq DEF OpType, Pcs
<1>4. CASE end <= Len(entries[f].blocks)
  <2>1. w = begun
    BY <1>4 DEF Writes
  <2> QED BY <2>1, <1>3, <1>4
<1>5. CASE ~(end <= Len(entries[f].blocks))
  <2>1. PICK s \in FirstFit(extra) : w = [begun EXCEPT !.pc = "alloc", !.run = Run(s, extra)]
    BY <1>5 DEF Writes
  <2>2. extra \in Nat \ {0}
    BY <1>2, <1>5
  <2>3. /\ Run(s, extra) \in Seq(Blocks) /\ Len(Run(s, extra)) = extra
        /\ Distinct(Run(s, extra)) /\ Held(Run(s, extra)) \cap used = {}
        /\ Run(s, extra) # <<>>
    BY <2>2, <1>1, RunFacts
  <2>4. w.run = Run(s, extra) /\ w.pc = "alloc" /\ w.ent = f /\ w.img = entries[f]
        /\ w.pos = pos /\ w.end = end /\ w.last = last /\ w.key = key
    BY <2>1
  <2>5. w \in OpType
    BY <2>1, <2>3, <1>1 DEF OpType, Pcs
  <2>6. end = Len(entries[f].blocks) + extra
    BY <1>2
  <2> HIDE DEF extra, begun
  <2> QED BY <2>3, <2>4, <2>5, <2>6
<1> QED BY <1>4, <1>5


-----------------------------------------------------------------------------
(* The types.                                                              *)

LEMMA InitTypes == Init => Types
<1> SUFFICES ASSUME Init PROVE Types
  OBVIOUS
<1>1. \A b \in Blocks : Junk \in Contents
  BY PlainType DEF Junk
<1>2. <<>> \in Seq(Record)
  BY EmptySeq
<1>3. Idle.pc = "idle" /\ Idle.ent = Root /\ Idle.img = Free /\ Idle.run = <<>>
  BY DEF Idle
<1>4. Idle.run \in Seq(Blocks)
  BY <1>3, EmptySeq
<1>5. op \in OpType /\ op.pc = "idle" /\ op.ent \in Ents /\ op.img \in EntryType
        /\ op.run \in Seq(Blocks)
  BY <1>3, <1>4, Constants0 DEF Init
<1>6. entries \in [Ents -> EntryType] /\ content \in [Blocks -> Contents]
  BY <1>1, Constants0 DEF Init
<1>7. super \in BOOLEAN /\ used \subseteq Blocks
  BY DEF Init
<1>8. phase \in Off .. Mounted
  BY Constants0 DEF Init, Off
<1>9. saved \in [Ents -> Seq(Record)]
  BY <1>2 DEF Init
<1>10. secret \subseteq Ents /\ torn \in BOOLEAN /\ failed \in BOOLEAN
  BY DEF Init
<1>11. ops \in 0 .. MaxOps /\ crashes \in 0 .. MaxCrashes /\ errors \in 0 .. MaxErrors
  BY DEF Init
<1> QED BY <1>5, <1>6, <1>7, <1>8, <1>9, <1>10, <1>11 DEF Types, TypeOK

LEMMA TypesNext ==
  ASSUME Types, WriteInv, SavedInv, [Next]_vars
  PROVE  Types'
<1> USE Constants0 DEF Types, TypeOK, Off
<1>1. CASE UNCHANGED vars
  BY <1>1 DEF vars, disk, history, counters
<1>2. CASE Boot
  BY <1>2 DEF Boot, disk, history, counters
<1>3. CASE FormatStage
  <2>1. entries' \in [Ents -> EntryType]
    BY <1>3 DEF FormatStage
  <2>2. super' \in BOOLEAN
    BY <1>3 DEF FormatStage
  <2>3. used' \subseteq Blocks
    BY <1>3 DEF FormatStage
  <2>4. phase \in 1 .. 4 /\ phase' = phase + 1
    BY <1>3 DEF FormatStage
  <2>5. phase' \in 0 .. 5
    BY <2>4
  <2>6. UNCHANGED <<content, op, history, counters>>
    BY <1>3 DEF FormatStage
  <2> QED BY <2>1, <2>2, <2>3, <2>5, <2>6 DEF history, counters
<1>4. ASSUME Ready, Counted PROVE ops' \in 0 .. MaxOps /\ UNCHANGED <<crashes, errors>>
  BY <1>4 DEF Ready, Counted, Bound
<1>5. ASSUME NEW d \in Ents, NEW n \in Names, NEW ty \in {"FILE", "DIR"}, Create(d, n, ty)
      PROVE  Types'
  <2>1. entries' \in [Ents -> EntryType]
    BY <1>5 DEF Create, FreeEntry
  <2> QED BY <1>4, <1>5, <2>1 DEF Create, history
<1>6. ASSUME NEW d \in Ents, NEW n \in Names, NEW ty \in {"FILE", "DIR"},
             CreateEncrypted(d, n, ty)
      PROVE  Types'
  <2>1. PICK e \in Ents : /\ entries' = [entries EXCEPT ![e] = NewEntry(d, n, ty)]
                          /\ secret' = secret \cup {e}
                          /\ op' = [Idle EXCEPT !.pc = "seal", !.ent = e, !.key = ops + 1]
    BY <1>6 DEF CreateEncrypted, FreeEntry
  <2>2. entries' \in [Ents -> EntryType]
    BY <2>1
  <2>3. op' \in OpType
    <3>1. ops + 1 \in Nat
      OBVIOUS
    <3> QED BY <2>1, <3>1 DEF OpType, Pcs
  <2> QED BY <1>4, <1>6, <2>1, <2>2, <2>3 DEF CreateEncrypted, OpType, Pcs
<1>7. CASE SealEntry
  <2>1. Sealed(entries[op.ent]) \in EntryType
    <3>1. op.key \in Nat /\ entries[op.ent] \in EntryType
      BY DEF OpType
    <3> QED BY <3>1 DEF Sealed, EntryType
  <2>2. entries' \in [Ents -> EntryType]
    BY <1>7, <2>1 DEF SealEntry
  <2> QED BY <1>7, <2>2 DEF SealEntry, history, counters, OpType, Idle
<1>8. ASSUME NEW f \in Ents, NEW size \in 0 .. NumBlocks, Truncate(f, size)
      PROVE  Types'
  <2>1. [entries[f] EXCEPT !.size = size] \in EntryType
    <3>1. size \in Nat /\ entries[f] \in EntryType
      OBVIOUS
    <3> QED BY <3>1 DEF EntryType
  <2>2. entries' \in [Ents -> EntryType]
    BY <1>8, <2>1 DEF Truncate
  <2>3. SubSeq(saved[f], 1, size) \in Seq(Record)
    <3>1. size \in Nat /\ entries[f].size \in Nat /\ saved[f] \in Seq(Record)
      BY Typed
    <3>2. Len(saved[f]) \in Nat /\ entries[f].size <= Len(saved[f]) /\ size <= entries[f].size
      BY <1>8, <3>1, LenProperties DEF Truncate, SavedInv, Histories, Written
    <3>3. size <= Len(saved[f])
      BY <3>1, <3>2
    <3> QED BY <3>1, <3>3, CutFacts
  <2>4. saved' \in [Ents -> Seq(Record)]
    BY <1>8, <2>3 DEF Truncate
  <2> QED BY <1>4, <1>8, <2>2, <2>4 DEF Truncate
<1>9. ASSUME NEW f \in Ents, NEW pos \in Nat, NEW end \in Nat, NEW last \in Nat,
             NEW key \in Nat, op' \in Writes(f, pos, end, last, key)
      PROVE  op' \in OpType
  BY <1>9, WritesFacts DEF Begun
<1>10. ASSUME NEW f \in Ents, NEW pos \in 0 .. NumBlocks, NEW len \in 1 .. MaxLen,
              BeginWrite(f, pos, len)
       PROVE  Types'
  <2>1. op' \in OpType
    BY <1>9, <1>10 DEF BeginWrite, NoKey
  <2> QED BY <1>4, <1>10, <2>1 DEF BeginWrite, disk, history, OpType, Pcs
<1>11. ASSUME NEW f \in Ents, NEW pos \in 0 .. NumBlocks, NEW len \in 1 .. MaxLen,
              BeginWriteEncrypted(f, pos, len)
       PROVE  Types'
  <2>1. entries[f].key \in Nat
    BY DEF EntryType
  <2>2. pos \in Nat /\ pos + 1 \in Nat /\ pos + len \in Nat
    OBVIOUS
  <2>3. op' \in Writes(f, pos, pos + 1, pos + len, entries[f].key)
    BY <1>11 DEF BeginWriteEncrypted
  <2>4. op' \in OpType
    BY <1>9, <2>1, <2>2, <2>3
  <2> QED BY <1>4, <1>11, <2>4 DEF BeginWriteEncrypted, disk, history, OpType, Pcs
<1>12. CASE NextChunk
  <2>1. op.ent \in Ents /\ op.end \in Nat /\ op.last \in Nat /\ op.key \in Nat
    BY DEF OpType
  <2>2. CASE op' \in Writes(op.ent, op.end, op.end + 1, op.last, op.key)
    <3>1. op' \in OpType
      BY <2>1, <2>2, <1>9
    <3> QED BY <3>1, <1>12 DEF NextChunk, Later, disk, counters, OpType, Pcs
  <2>3. CASE op' = Idle
    BY <2>3, <1>12 DEF NextChunk, Later, disk, counters, OpType, Idle
  <2> QED BY <2>2, <2>3, <1>12 DEF NextChunk
<1>13. CASE AllocBit
  <2>1. PICK i \in Unset : /\ used' = used \cup {op.run[i]}
                           /\ op' = [op EXCEPT !.pc = IF Unset = {i} THEN "append" ELSE "alloc"]
    BY <1>13 DEF AllocBit, Allocated
  <2>2. op.run[i] \in Blocks
    BY LenProperties DEF Unset, OpType
  <2>3. op' \in OpType
    BY <2>1 DEF OpType, Pcs
  <2> QED BY <1>13, <2>1, <2>2, <2>3 DEF AllocBit, Later, counters, OpType, Pcs
<1>14. CASE AppendDirect
  <2>1. WithRun(op.img) \in EntryType
    BY WithRunFacts DEF OpType
  <2>2. op' \in OpType
    BY <2>1, <1>14 DEF AppendDirect, OpType, Pcs
  <2> QED BY <1>14, <2>2 DEF AppendDirect, Later, disk, counters, OpType, Pcs
<1>15. CASE AppendRefused
  <2>1. op' \in OpType
    BY <1>15 DEF AppendRefused, OpType, Pcs
  <2> QED BY <1>15, <2>1 DEF AppendRefused, Later, disk, counters, OpType, Pcs
<1>16. CASE AllocIndex
  <2>1. PICK b \in FirstFit(1) : /\ used' = used \cup {b}
                                 /\ op' = [op EXCEPT !.pc = "zero", !.img.ind = b]
    BY <1>16 DEF AllocIndex, Allocated
  <2>2. b \in Blocks
    BY RunFacts
  <2>3. op' \in OpType
    BY <2>1, <2>2 DEF OpType, Pcs, EntryType
  <2> QED BY <1>16, <2>1, <2>2, <2>3 DEF AllocIndex, Later, counters, OpType, Pcs
<1>17. ASSUME NEW b, content' = [content EXCEPT ![b] = Index]
       PROVE  content' \in [Blocks -> Contents]
  <2>1. Index \in Contents
    BY PlainType DEF Index
  <2> QED BY <1>17, <2>1
<1>18. CASE ZeroIndex
  <2>1. op' \in OpType
    BY <1>18 DEF ZeroIndex, OpType, Pcs
  <2> QED BY <1>17, <1>18, <2>1 DEF ZeroIndex, Later, counters, OpType, Pcs
<1>19. CASE AppendIndexed
  <2>1. WithRun(op.img) \in EntryType
    BY WithRunFacts DEF OpType
  <2>2. op' \in OpType
    BY <2>1, <1>19 DEF AppendIndexed, OpType, Pcs
  <2> QED BY <1>17, <1>19, <2>2 DEF AppendIndexed, Later, counters, OpType, Pcs
<1>20. CASE WriteData
  <2>1. op' \in OpType
    <3>1. op.pos + 1 \in Nat
      BY DEF OpType
    <3> QED BY <1>20, <3>1 DEF WriteData, OpType, Pcs
  <2>2. Cipher(ops, op.pos) \in Contents
    <3>1. [val |-> ops, key |-> op.key, at |-> op.pos] \in Contents
      BY DEF Contents, OpType
    <3> QED BY <3>1, PlainType DEF Cipher
  <2>3. content' \in [Blocks -> Contents]
    BY <1>20, <2>2 DEF WriteData
  <2>4. saved[op.ent] \in Seq(Record) /\ op.pos + 1 \in Nat \ {0}
    BY DEF OpType
  <2>6. [val |-> ops, key |-> op.key] \in Record
    BY DEF OpType, Record
  <2>7. Put(saved[op.ent], op.pos + 1, [val |-> ops, key |-> op.key]) \in Seq(Record)
    BY <2>4, <2>6, PutFacts
  <2>8. saved' \in [Ents -> Seq(Record)]
    BY <1>20, <2>7 DEF WriteData
  <2> QED BY <1>20, <2>1, <2>3, <2>8 DEF WriteData, Later, counters, OpType, Pcs
<1>21. CASE WriteEntry
  <2>1. FinalSize \in Nat
    BY DEF FinalSize, Max2, OpType, EntryType
  <2>2. entries' \in [Ents -> EntryType]
    BY <1>21, <2>1 DEF WriteEntry, EntryType, OpType
  <2>3. op' \in OpType
    BY <1>21 DEF WriteEntry, OpType, Pcs
  <2> QED BY <1>21, <2>2, <2>3 DEF WriteEntry, Later, counters, OpType, Pcs
<1>22. CASE Undo
  <2>1. op.run # <<>>
    BY <1>22 DEF Undo, Step, WriteInv
  <2>2. [op EXCEPT !.run = Tail(op.run)] \in OpType
    BY <2>1, TailFacts DEF OpType
  <2>3. op' \in OpType
    BY <1>22, <2>2 DEF Undo
  <2> QED BY <1>22, <2>3 DEF Undo, Later, counters, OpType, Pcs
<1>23. ASSUME NEW e \in Ents, BeginDelete(e) PROVE Types'
  <2>1. BlocksToFree(entries[e]) \in Seq(Blocks)
    BY ToFreeType
  <2>2. op' \in OpType
    BY <1>23, <2>1 DEF BeginDelete, OpType, Pcs
  <2> QED BY <1>4, <1>23, <2>2 DEF BeginDelete, disk, history, OpType, Pcs
<1>24. CASE FreeBit
  <2>1. op.run # <<>>
    BY <1>24 DEF FreeBit, Step, WriteInv
  <2>2. Tail(op.run) \in Seq(Blocks)
    BY <2>1, TailFacts DEF OpType
  <2>3. op' \in OpType
    BY <1>24, <2>2 DEF FreeBit, OpType, Pcs
  <2> QED BY <1>24, <2>3 DEF FreeBit, Later, counters, OpType, Pcs
<1>25. CASE ClearEntry
  <2>1. <<>> \in Seq(Record)
    BY EmptySeq
  <2> QED BY <1>25, <2>1 DEF ClearEntry, counters, OpType, Pcs, Idle
<1>26. Forgotten \in [Ents -> Seq(Record)]
  BY ForgottenFacts
<1>27. CASE Crash
  BY <1>26, <1>27 DEF Crash, disk, OpType, Pcs, Idle
<1>28. CASE DeviceError
  <2>1. op' \in OpType
    <3>1. [op EXCEPT !.pc = "undo"] \in OpType
      BY DEF OpType, Pcs
    <3>2. Idle \in OpType
      BY Constants0
    <3> QED BY <1>28, <3>1, <3>2 DEF DeviceError
  <2>2. errors' \in 0 .. MaxErrors
    <3>1. errors' = errors + 1 /\ errors < MaxErrors
      BY <1>28 DEF DeviceError
    <3>2. errors \in 0 .. MaxErrors
      BY DEF Types, TypeOK
    <3> QED BY <3>1, <3>2
  <2>3. op'.pc \in Pcs /\ op'.ent \in Ents /\ op'.img \in EntryType /\ op'.run \in Seq(Blocks)
    BY <2>1 DEF OpType
  <2>4. torn' \in BOOLEAN
    BY <1>28 DEF DeviceError
  <2> QED BY <1>26, <1>28, <2>1, <2>2, <2>3, <2>4 DEF DeviceError, disk, Pcs
<1> HIDE DEF Types, TypeOK
<1> QED
  BY <1>1, <1>2, <1>3, <1>5, <1>6, <1>7, <1>8, <1>10, <1>11, <1>12, <1>13, <1>14,
     <1>15, <1>16, <1>18, <1>19, <1>20, <1>21, <1>22, <1>23, <1>24, <1>25, <1>27,
     <1>28 DEF Next

-----------------------------------------------------------------------------
(* The tree.                                                               *)

(* A step of a mounted disk that leaves the entries alone.                 *)
Quiet ==
  /\ phase = Mounted
  /\ UNCHANGED <<super, entries, phase, secret>>
  /\ ops' \in {ops, ops + 1}
  /\ op'.pc # "seal"
  /\ op'.pc \in Deletes => \/ op.pc \in Deletes /\ op'.ent = op.ent
                           \/ op'.ent \in Deletable

LEMMA StepKinds ==
  ASSUME Types, [Next]_vars
  PROVE  \/ UNCHANGED vars \/ Boot \/ FormatStage \/ Crash \/ Quiet
         \/ \E d \in Ents, n \in Names, ty \in {"FILE", "DIR"} :
              Create(d, n, ty) \/ CreateEncrypted(d, n, ty)
         \/ \E f \in Ents, size \in 0 .. NumBlocks : Truncate(f, size)
         \/ SealEntry \/ WriteEntry \/ ClearEntry
<1> USE DEF Quiet, Deletes, Step, Later, disk, counters, history
<1>1. ASSUME NEW f \in Ents, NEW pos \in Nat, NEW end \in Nat, NEW last \in Nat,
             NEW key \in Nat, op' \in Writes(f, pos, end, last, key)
      PROVE  op'.pc \in {"alloc", "data"}
  BY <1>1, WritesFacts DEF Begun
<1>2. ASSUME NEW f \in Ents, NEW pos \in Nat, NEW len \in Nat,
             BeginWrite(f, pos, len) \/ BeginWriteEncrypted(f, pos, len)
      PROVE  Quiet
  <2>1. entries[f].key \in Nat /\ NoKey \in Nat
    BY DEF Types, TypeOK, EntryType, NoKey
  <2>2. pos + len \in Nat /\ pos + 1 \in Nat
    OBVIOUS
  <2>3. op'.pc \in {"alloc", "data"}
    BY <1>1, <1>2, <2>1, <2>2 DEF BeginWrite, BeginWriteEncrypted
  <2> QED BY <1>2, <2>3 DEF BeginWrite, BeginWriteEncrypted, Ready, Counted
<1>3. CASE NextChunk
  <2>1. op.ent \in Ents /\ op.end \in Nat /\ op.end + 1 \in Nat /\ op.last \in Nat /\ op.key \in Nat
    BY DEF Types, OpType
  <2>2. op' \in Writes(op.ent, op.end, op.end + 1, op.last, op.key) \/ op' = Idle
    BY <1>3 DEF NextChunk
  <2>3. op'.pc \in {"idle", "alloc", "data"}
    BY <1>1, <2>1, <2>2 DEF Idle
  <2> QED BY <1>3, <2>3 DEF NextChunk
<1>4. ASSUME NEW e \in Ents, BeginDelete(e) PROVE Quiet
  BY <1>4 DEF BeginDelete, Ready, Counted, Idle
<1>5. CASE AllocBit \/ AppendDirect \/ AppendRefused \/ AllocIndex \/ ZeroIndex
           \/ AppendIndexed \/ WriteData \/ Undo
  <2>1. AllocBit => op'.pc \in {"alloc", "append"}
    BY DEF AllocBit, Types, OpType
  <2>2. AppendDirect \/ AppendRefused \/ AppendIndexed => op'.pc \in {"data", "undo"}
    BY DEF AppendDirect, AppendRefused, AppendIndexed, Types, OpType
  <2>3. AllocIndex => op'.pc = "zero"
    BY DEF AllocIndex, Types, OpType
  <2>4. ZeroIndex => op'.pc = "append"
    BY DEF ZeroIndex, Types, OpType
  <2>5. WriteData => op'.pc \in {"data", "entry"}
    BY DEF WriteData, Types, OpType
  <2>6. Undo => op'.pc \in {"undo", "idle"}
    BY DEF Undo, Types, OpType, Idle
  <2>7. op'.pc \in {"idle", "alloc", "append", "zero", "data", "entry", "undo"}
    BY <1>5, <2>1, <2>2, <2>3, <2>4, <2>5, <2>6
  <2> QED
    BY <1>5, <2>7 DEF AllocBit, AppendDirect, AppendRefused, AllocIndex, ZeroIndex,
                      AppendIndexed, WriteData, Undo
<1>7. CASE FreeBit
  BY <1>7 DEF FreeBit, Types, OpType
<1>6. CASE DeviceError
  BY <1>6 DEF DeviceError, Types, OpType, Idle
<1> QED BY <1>2, <1>3, <1>4, <1>5, <1>6, <1>7 DEF Next

(* A creation takes an entry that is free.                                 *)
Added(e, new) == /\ entries[e].type = "FREE" /\ entries'[e] = new
                 /\ \A x \in Ents \ {e} : entries'[x] = entries[x]

Sealing(e) == /\ op'.pc = "seal" /\ op'.ent = e /\ op'.key = ops + 1
              /\ op'.pos = 0 /\ secret' = secret \cup {e}

LEMMA CreateFacts ==
  ASSUME Types, NEW d \in Ents, NEW n \in Names, NEW ty \in {"FILE", "DIR"},
         Create(d, n, ty) \/ CreateEncrypted(d, n, ty)
  PROVE  /\ phase = Mounted /\ op.pc = "idle"
         /\ UNCHANGED <<phase, super, used, content, saved, torn, failed, crashes, errors>>
         /\ ops' = ops + 1
         /\ entries[d].type = "DIR" /\ ~HasChild(d, n)
         /\ \E e \in Ents : /\ Added(e, NewEntry(d, n, ty))
                            /\ (op' = op /\ secret' = secret) \/ Sealing(e)
<1>1. ASSUME NEW e \in FreeEntry, entries' = [entries EXCEPT ![e] = NewEntry(d, n, ty)]
      PROVE  e \in Ents /\ Added(e, NewEntry(d, n, ty))
  BY <1>1 DEF FreeEntry, Added, Types, TypeOK
<1>2. CASE Create(d, n, ty)
  <2>1. PICK e \in FreeEntry : entries' = [entries EXCEPT ![e] = NewEntry(d, n, ty)]
    BY <1>2 DEF Create
  <2>2. e \in Ents /\ Added(e, NewEntry(d, n, ty))
    BY <1>1, <2>1
  <2> QED BY <1>2, <2>2 DEF Create, Ready, Counted, Parents, history
<1>3. CASE CreateEncrypted(d, n, ty)
  <2>1. PICK e \in FreeEntry :
          /\ entries' = [entries EXCEPT ![e] = NewEntry(d, n, ty)]
          /\ secret' = secret \cup {e}
          /\ op' = [Idle EXCEPT !.pc = "seal", !.ent = e, !.key = ops + 1]
    BY <1>3 DEF CreateEncrypted
  <2>2. e \in Ents /\ Added(e, NewEntry(d, n, ty))
    BY <1>1, <2>1
  <2>3. Sealing(e)
    BY <2>1 DEF Sealing, Idle
  <2> QED BY <1>3, <2>2, <2>3 DEF CreateEncrypted, Ready, Counted, Parents
<1> QED BY <1>2, <1>3

(* The new content of an entry that keeps its place in the tree.           *)
SameHead(e, x) == /\ x.type = e.type /\ x.name = e.name /\ x.key = e.key
                  /\ x.parent = e.parent

(* A truncation, or the end of a write.                                    *)
LEMMA UpdateFacts ==
  ASSUME Types, WriteInv, EntriesInv, SavedInv,
         \/ WriteEntry
         \/ \E f \in Ents, size \in 0 .. NumBlocks : Truncate(f, size)
  PROVE  /\ phase = Mounted /\ phase' = phase /\ super' = super /\ secret' = secret
         /\ used' = used /\ ops' \in {ops, ops + 1} /\ op'.pc \in {"idle", "chunk"}
         /\ \E e \in Ents, new \in EntryType :
              /\ entries' = [entries EXCEPT ![e] = new]
              /\ entries'[e] = new /\ \A x \in Ents \ {e} : entries'[x] = entries[x]
              /\ SameHead(entries[e], new) /\ entries[e].type = "FILE"
              /\ new.size <= Len(new.blocks)
<1>1. CASE WriteEntry
  <2> DEFINE new == [op.img EXCEPT !.size = FinalSize]
             e   == op.ent
  <2>1. op.pc = "entry" /\ op.img \in EntryType /\ e \in Ents /\ op.end \in Nat
    BY <1>1 DEF WriteEntry, Step, Types, OpType
  <2>2. FinalSize \in Nat /\ FinalSize \in {op.img.size, op.end}
    BY <2>1 DEF FinalSize, Max2, EntryType
  <2>3. /\ new \in EntryType /\ SameHead(op.img, new) /\ new.size = FinalSize
        /\ new.blocks = op.img.blocks
    BY <2>1, <2>2 DEF EntryType, SameHead
  <2>4. SameHead(entries[e], op.img) /\ entries[e].type = "FILE"
    BY <2>1 DEF WriteInv, Writing, After, SameHead
  <2>5. op.end <= Len(op.img.blocks)
    BY <2>1 DEF SavedInv, Histories, After, Reach, Cur
  <2>6. /\ op.img.size = entries[e].size /\ Len(entries[e].blocks) <= Len(op.img.blocks)
        /\ entries[e].size <= Len(entries[e].blocks)
    BY <2>1 DEF WriteInv, Writing, After, EntriesInv
  <2>7. /\ entries[e].size \in Nat /\ Len(entries[e].blocks) \in Nat
        /\ Len(op.img.blocks) \in Nat
    BY <2>1, LenProperties DEF Types, TypeOK, EntryType
  <2>8. new.size <= Len(new.blocks)
    <3>1. FinalSize <= Len(op.img.blocks)
      <4>1. PICK s, n, m, z, d : /\ s = entries[e].size /\ n = Len(entries[e].blocks)
                                 /\ m = Len(op.img.blocks) /\ z = FinalSize /\ d = op.end
        OBVIOUS
      <4>2. s \in Nat /\ n \in Nat /\ m \in Nat /\ z \in Nat /\ d \in Nat
        BY <2>1, <2>2, <2>7, <4>1
      <4>3. d <= m /\ n <= m /\ s <= n /\ z \in {s, d}
        BY <2>2, <2>5, <2>6, <4>1
      <4>4. z <= m
        BY <4>2, <4>3
      <4> QED BY <4>1, <4>4
    <3> QED BY <2>3, <3>1
  <2>9. entries' = [entries EXCEPT ![e] = new]
    BY <1>1 DEF WriteEntry
  <2>10. entries'[e] = new /\ \A x \in Ents \ {e} : entries'[x] = entries[x]
    BY <2>9, <2>1 DEF Types, TypeOK
  <2>11. op'.pc \in {"idle", "chunk"}
    BY <1>1 DEF WriteEntry, Idle, Types, OpType
  <2>12. SameHead(entries[e], new)
    BY <2>3, <2>4 DEF SameHead
  <2> HIDE DEF new
  <2>13. \E x \in Ents, y \in EntryType :
              /\ entries' = [entries EXCEPT ![x] = y]
              /\ entries'[x] = y /\ \A z \in Ents \ {x} : entries'[z] = entries[z]
              /\ SameHead(entries[x], y) /\ entries[x].type = "FILE"
              /\ y.size <= Len(y.blocks)
    BY <2>1, <2>3, <2>4, <2>8, <2>9, <2>10, <2>12
  <2> QED BY <1>1, <2>11, <2>13 DEF WriteEntry, Step, Later, counters
<1>2. ASSUME NEW f \in Ents, NEW size \in 0 .. NumBlocks, Truncate(f, size)
      PROVE  /\ phase = Mounted /\ phase' = phase /\ super' = super /\ secret' = secret
             /\ used' = used /\ ops' \in {ops, ops + 1} /\ op'.pc \in {"idle", "chunk"}
             /\ \E e \in Ents, new \in EntryType :
                  /\ entries' = [entries EXCEPT ![e] = new]
                  /\ entries'[e] = new /\ \A x \in Ents \ {e} : entries'[x] = entries[x]
                  /\ SameHead(entries[e], new) /\ entries[e].type = "FILE"
                  /\ new.size <= Len(new.blocks)
  <2> DEFINE new == [entries[f] EXCEPT !.size = size]
  <2>1. entries[f] \in EntryType /\ size \in Nat
    BY DEF Types, TypeOK
  <2>2. /\ new \in EntryType /\ SameHead(entries[f], new) /\ new.size = size
        /\ new.blocks = entries[f].blocks
    BY <2>1 DEF EntryType, SameHead
  <2>3. /\ entries[f].size <= Len(entries[f].blocks) /\ size <= entries[f].size
        /\ entries[f].size \in Nat /\ Len(entries[f].blocks) \in Nat
    BY <2>1, <1>2, LenProperties DEF Truncate, EntriesInv, EntryType
  <2>4. entries' = [entries EXCEPT ![f] = new]
    BY <1>2 DEF Truncate
  <2>5. entries'[f] = new /\ \A x \in Ents \ {f} : entries'[x] = entries[x]
    BY <2>4 DEF Types, TypeOK
  <2>6. new.size <= Len(new.blocks)
    BY SMTT(60), <2>2, <2>3
  <2>7. entries[f].type = "FILE"
    BY <1>2 DEF Truncate, Files
  <2> HIDE DEF new
  <2>8. \E x \in Ents, y \in EntryType :
              /\ entries' = [entries EXCEPT ![x] = y]
              /\ entries'[x] = y /\ \A z \in Ents \ {x} : entries'[z] = entries[z]
              /\ SameHead(entries[x], y) /\ entries[x].type = "FILE"
              /\ y.size <= Len(y.blocks)
    BY <2>2, <2>4, <2>5, <2>6, <2>7
  <2> QED BY <1>2, <2>8 DEF Truncate, Ready, Counted, history
<1> QED BY <1>1, <1>2

LEMMA BootNext ==
  ASSUME Types, BootInv, EntriesInv, WriteInv, SavedInv, [Next]_vars
  PROVE  BootInv'
<1> USE Constants0
<1>1. CASE UNCHANGED vars
  BY <1>1 DEF vars, disk, history, counters, BootInv
<1>2. CASE Boot
  BY <1>2 DEF Boot, BootInv, disk, history, Off
<1>3. CASE FormatStage
  <2>1. /\ phase \in 1 .. 4 /\ phase' = phase + 1 /\ op' = op /\ ~super /\ op = Idle
        /\ secret' = {} /\ \A e \in Ents : entries[e].type # "FILE"
    BY <1>3 DEF FormatStage, BootInv, history
  <2>0. /\ Stages[1] = "table" /\ Stages[2] = "root" /\ Stages[3] = "bitmap"
        /\ Stages[4] = "super"
    BY DEF Stages
  <2>2. CASE phase = 1
    <3>1. entries' = [e \in Ents |-> Free]
      BY <1>3, <2>2, <2>0 DEF FormatStage
    <3>2. ~super'
      BY <1>3, <2>1, <2>2, <2>0 DEF FormatStage
    <3>3. Free.type = "FREE"
      BY DEF Free
    <3>4. \A e \in Ents : entries'[e] = Free /\ entries'[e].type # "FILE"
      BY <3>1, <3>3
    <3> QED BY <2>1, <2>2, <3>2, <3>4 DEF BootInv
  <2>3. CASE phase = 2
    <3>1. entries' = [entries EXCEPT ![Root] = NewEntry(Root, "/", "DIR")] /\ ~super'
      BY <1>3, <2>1, <2>3, <2>0 DEF FormatStage
    <3>2. entries'[Root] = NewEntry(Root, "/", "DIR") /\ \A e \in Ents \ {Root} : entries'[e] = Free
      BY <2>3, <3>1 DEF BootInv, Types, TypeOK
    <3>3. NewEntry(Root, "/", "DIR").type = "DIR" /\ Free.type = "FREE"
      BY DEF NewEntry, Free
    <3>4. \A e \in Ents : entries'[e].type # "FILE"
      BY <3>2, <3>3
    <3> QED BY <2>1, <2>3, <3>1, <3>2, <3>4 DEF BootInv
  <2>4. CASE phase = 3
    <3>1. entries' = entries /\ ~super' /\ used' = {}
      BY <1>3, <2>1, <2>4, <2>0 DEF FormatStage
    <3> QED BY <2>1, <2>4, <3>1 DEF BootInv
  <2>5. CASE phase = 4
    <3>1. entries' = entries /\ super'
      BY <1>3, <2>5, <2>0 DEF FormatStage
    <3> QED BY <2>1, <2>5, <3>1 DEF BootInv
  <2> QED BY <2>1, <2>2, <2>3, <2>4, <2>5
<1>4. CASE Crash
  BY <1>4 DEF Crash, BootInv, disk, Off
<1>5. ASSUME phase = Mounted, phase' = phase, super' = super PROVE BootInv'
  BY <1>5 DEF BootInv
<1>6. CASE Quiet
  BY <1>5, <1>6 DEF Quiet
<1>7. CASE SealEntry
  BY <1>5, <1>7 DEF SealEntry
<1>8. CASE ClearEntry
  BY <1>5, <1>8 DEF ClearEntry, Step
<1>9. CASE WriteEntry \/ \E f \in Ents, size \in 0 .. NumBlocks : Truncate(f, size)
  BY <1>5, <1>9, UpdateFacts
<1>10. ASSUME NEW d \in Ents, NEW n \in Names, NEW ty \in {"FILE", "DIR"},
              Create(d, n, ty) \/ CreateEncrypted(d, n, ty)
       PROVE  BootInv'
  BY <1>5, <1>10, CreateFacts
<1> QED BY <1>1, <1>2, <1>3, <1>4, <1>6, <1>7, <1>8, <1>9, <1>10, StepKinds

(* An entry that becomes new, in a table of entries that are all sound.    *)
LEMMA EntriesStep ==
  ASSUME Types, EntriesInv, ops' \in {ops, ops + 1}, NEW e \in Ents,
         \A x \in Ents \ {e} : entries'[x] = entries[x],
         entries'[e].type # "FILE" =>
           entries'[e].blocks = <<>> /\ entries'[e].ind = NoBlock,
         entries'[e].key <= ops', entries'[e].size <= Len(entries'[e].blocks)
  PROVE  EntriesInv'
<1>1. ASSUME NEW x \in Ents \ {e} PROVE entries[x].key <= ops'
  <2>1. entries[x] \in EntryType /\ ops \in Nat
    BY DEF Types, TypeOK
  <2>2. entries[x].key \in Nat /\ entries[x].key <= ops
    BY <2>1 DEF EntryType, EntriesInv
  <2> QED BY <2>1, <2>2
<1> QED BY <1>1 DEF EntriesInv

LEMMA EntriesNext ==
  ASSUME Types, BootInv, EntriesInv, WriteInv, SavedInv, SealInv, [Next]_vars
  PROVE  EntriesInv'
<1> USE Constants0
<1>1. /\ Free.type = "FREE" /\ Free.blocks = <<>> /\ Free.ind = NoBlock
      /\ Free.key = 0 /\ Free.size = 0 /\ Len(Free.blocks) = 0
  BY DEF Free, NoKey
<1>2. ASSUME NEW d \in Ents, NEW n \in Names \cup {"/"}, NEW ty \in {"FILE", "DIR"},
             NEW new, new = NewEntry(d, n, ty)
      PROVE  /\ new.blocks = <<>> /\ new.ind = NoBlock
             /\ new.key = 0 /\ new.size = 0 /\ Len(new.blocks) = 0
  BY <1>2 DEF NewEntry, Free, NoKey
<1>3. ops \in Nat
  BY DEF Types, TypeOK
<1>4. ASSUME entries' = entries, ops' \in {ops, ops + 1} PROVE EntriesInv'
  <2>1. \A e \in Ents : entries[e].key \in Nat
    BY DEF Types, TypeOK, EntryType
  <2>2. \A e \in Ents : entries[e].key <= ops'
    BY <1>3, <1>4, <2>1 DEF EntriesInv
  <2> QED BY <1>4, <2>2 DEF EntriesInv
<1>5. CASE UNCHANGED vars \/ Boot \/ Crash \/ Quiet
  BY <1>4, <1>5 DEF vars, disk, history, counters, Boot, Crash, Quiet
<1>6. CASE FormatStage
  <2>1. phase \in 1 .. 4 /\ ops' = ops
    BY <1>6 DEF FormatStage, counters
  <2>2. /\ Stages[1] = "table" /\ Stages[2] = "root" /\ Stages[3] = "bitmap"
        /\ Stages[4] = "super"
    BY DEF Stages
  <2>3. CASE phase = 1
    <3>1. \A e \in Ents : entries'[e] = Free
      BY <1>6, <2>2, <2>3 DEF FormatStage
    <3> QED BY <1>1, <1>3, <2>1, <3>1 DEF EntriesInv
  <2>4. CASE phase = 2
    <3>1. entries' = [entries EXCEPT ![Root] = NewEntry(Root, "/", "DIR")]
      BY <1>6, <2>2, <2>4 DEF FormatStage
    <3>2. /\ entries'[Root] = NewEntry(Root, "/", "DIR")
          /\ \A x \in Ents \ {Root} : entries'[x] = entries[x]
      BY <3>1 DEF Types, TypeOK
    <3>3. /\ entries'[Root].blocks = <<>> /\ entries'[Root].ind = NoBlock
          /\ entries'[Root].key <= ops' /\ entries'[Root].size <= Len(entries'[Root].blocks)
      BY <1>2, <1>3, <2>1, <3>2
    <3> QED BY <2>1, <3>2, <3>3, EntriesStep
  <2>5. CASE phase \in {3, 4}
    <3>1. entries' = entries
      BY <1>6, <2>2, <2>5 DEF FormatStage
    <3> QED BY <1>4, <2>1, <3>1
  <2> QED BY <2>1, <2>3, <2>4, <2>5
<1>7. CASE SealEntry
  <2>1. /\ op.pc = "seal" /\ op.ent \in Ents /\ op.key \in Nat /\ ops' = ops
        /\ entries' = [entries EXCEPT ![op.ent] = Sealed(entries[op.ent])]
    BY <1>7 DEF SealEntry, Types, OpType, counters
  <2>2. /\ entries'[op.ent] = [entries[op.ent] EXCEPT !.key = op.key]
        /\ \A x \in Ents \ {op.ent} : entries'[x] = entries[x]
    BY <2>1 DEF Types, TypeOK, Sealed
  <2>3. entries[op.ent] \in EntryType
    BY <2>1 DEF Types, TypeOK
  <2>4. /\ entries'[op.ent].type = entries[op.ent].type
        /\ entries'[op.ent].blocks = entries[op.ent].blocks
        /\ entries'[op.ent].ind = entries[op.ent].ind
        /\ entries'[op.ent].size = entries[op.ent].size
        /\ entries'[op.ent].key = op.key
    BY <2>2, <2>3 DEF EntryType
  <2>5. op.key <= ops'
    BY <1>3, <2>1 DEF SealInv
  <2>6. /\ entries'[op.ent].type # "FILE" =>
             entries'[op.ent].blocks = <<>> /\ entries'[op.ent].ind = NoBlock
        /\ entries'[op.ent].size <= Len(entries'[op.ent].blocks)
    BY <2>1, <2>4 DEF EntriesInv
  <2>7. op.ent \in Ents /\ ops' \in {ops, ops + 1} /\ entries'[op.ent].key <= ops'
    BY <2>1, <2>4, <2>5
  <2> QED BY <2>2, <2>6, <2>7, EntriesStep
<1>8. CASE ClearEntry
  <2>1. op.ent \in Ents /\ ops' = ops /\ entries' = [entries EXCEPT ![op.ent] = Free]
    BY <1>8 DEF ClearEntry, Types, OpType, counters
  <2>2. entries'[op.ent] = Free /\ \A x \in Ents \ {op.ent} : entries'[x] = entries[x]
    BY <2>1 DEF Types, TypeOK
  <2>3. Free.key <= ops' /\ Free.size <= Len(Free.blocks)
    BY <1>1, <1>3, <2>1
  <2> QED BY <1>1, <2>1, <2>2, <2>3, EntriesStep
<1>9. CASE WriteEntry \/ \E f \in Ents, size \in 0 .. NumBlocks : Truncate(f, size)
  <2>1. PICK e \in Ents, new \in EntryType :
              /\ entries'[e] = new /\ \A x \in Ents \ {e} : entries'[x] = entries[x]
              /\ SameHead(entries[e], new) /\ entries[e].type = "FILE"
              /\ new.size <= Len(new.blocks)
    BY <1>9, UpdateFacts
  <2>2. ops' \in {ops, ops + 1}
    BY <1>9, UpdateFacts
  <2>3. entries[e].key \in Nat /\ entries[e].key <= ops
    BY DEF Types, TypeOK, EntryType, EntriesInv
  <2>4. entries'[e].key <= ops'
    BY <1>3, <2>1, <2>2, <2>3 DEF SameHead
  <2> QED BY <2>1, <2>2, <2>4, EntriesStep DEF SameHead
<1>10. ASSUME NEW d \in Ents, NEW n \in Names, NEW ty \in {"FILE", "DIR"},
              Create(d, n, ty) \/ CreateEncrypted(d, n, ty)
       PROVE  EntriesInv'
  <2>1. ops' = ops + 1
    BY <1>10, CreateFacts
  <2>2. PICK e \in Ents : Added(e, NewEntry(d, n, ty))
    BY <1>10, CreateFacts
  <2>3. /\ entries'[e].blocks = <<>> /\ entries'[e].ind = NoBlock
        /\ entries'[e].key <= ops' /\ entries'[e].size <= Len(entries'[e].blocks)
    BY <1>2, <1>3, <2>1, <2>2 DEF Added
  <2> QED BY <2>1, <2>2, <2>3, EntriesStep DEF Added
<1> QED BY <1>5, <1>6, <1>7, <1>8, <1>9, <1>10, StepKinds

(* An entry that keeps its type and its parent keeps its place.            *)
LEMMA SamePlaces ==
  ASSUME Types, Types', NEW e \in Ents,
         \A x \in Ents \ {e} : entries'[x] = entries[x],
         entries'[e].type = entries[e].type, entries'[e].parent = entries[e].parent
  PROVE  /\ Live' = Live
         /\ Parented => Parented'
         /\ Rooted => Rooted'
<1>1. \A x \in Ents : /\ entries'[x].type = entries[x].type
                      /\ entries'[x].parent = entries[x].parent
  OBVIOUS
<1>2. Live' = Live
  BY <1>1 DEF Live
<1>3. \A x \in Ents : entries[x].parent \in Ents
  BY DEF Types, TypeOK, EntryType
<1>4. Parented => Parented'
  BY <1>1, <1>2, <1>3, Constants0 DEF Parented, Live
<1>5. Rooted => Rooted'
  BY <1>1, <1>2 DEF Rooted, Live
<1> QED BY <1>2, <1>4, <1>5

LEMMA CreateTree ==
  ASSUME Types, Types', Parented, UniqueNames, Rooted,
         NEW d \in Ents, NEW n \in Names, NEW ty \in {"FILE", "DIR"}, NEW e \in Ents,
         entries[d].type = "DIR", ~HasChild(d, n), Added(e, NewEntry(d, n, ty))
  PROVE  Parented' /\ UniqueNames' /\ Rooted'
<1>1. /\ entries'[e].type = ty /\ entries'[e].name = n /\ entries'[e].parent = d
      /\ entries'[e].key = NoKey
  BY DEF Added, NewEntry, Free
<1>2. entries[e].type = "FREE" /\ \A x \in Ents \ {e} : entries'[x] = entries[x]
  BY DEF Added
<1>3. Live' = Live \cup {e} /\ e \notin Live /\ e # d /\ d \in Live /\ e # Root
  BY <1>1, <1>2 DEF Live, Parented
<1>4. \A x \in Ents : entries[x].parent \in Ents
  BY DEF Types, TypeOK, EntryType
<1>5. \A x \in Live : entries[x].parent # e
  BY <1>2 DEF Parented, Live
<1>6. Parented'
  <2>1. entries'[Root].type = "DIR"
    BY <1>2, <1>3, Constants0 DEF Parented
  <2>2. entries'[d].type = "DIR"
    BY <1>2, <1>3
  <2>3. ASSUME NEW x \in Live' PROVE entries'[x].type # "GARBAGE" /\ entries'[entries'[x].parent].type = "DIR"
    <3>1. CASE x = e
      BY <3>1, <1>1, <2>2
    <3>2. CASE x # e
      BY <3>2, <1>2, <1>3, <1>4, <1>5 DEF Parented, Live
    <3> QED BY <3>1, <3>2
  <2> QED BY <2>1, <2>3 DEF Parented
<1>7. UniqueNames'
  <2>1. ASSUME NEW x \in Live \ {Root}, entries[x].parent = d, entries[x].name = n,
               entries[x].key = NoKey
        PROVE  FALSE
    <3>1. CASE x = d
      <4>1. {d} \in SUBSET (Live \ {Root}) /\ {d} # {}
        BY <3>1
      <4> QED BY <4>1, <2>1, <3>1 DEF Rooted
    <3>2. CASE x # d
      <4>1. x \in Children(d)
        BY <2>1, <3>2 DEF Children, Live
      <4> QED BY <4>1, <2>1 DEF HasChild
    <3> QED BY <3>1, <3>2
  <2>2. ASSUME NEW x \in Live' \ {Root}, NEW y \in Live' \ {Root},
               entries'[x].parent = entries'[y].parent, entries'[x].name = entries'[y].name,
               entries'[x].key = entries'[y].key
        PROVE  x = y
    <3>1. CASE x # e /\ y # e
      BY <2>2, <3>1, <1>2, <1>3 DEF UniqueNames, Live
    <3>2. CASE x = e /\ y # e
      BY <2>1, <2>2, <3>2, <1>1, <1>2, <1>3 DEF Live
    <3>3. CASE x # e /\ y = e
      BY <2>1, <2>2, <3>3, <1>1, <1>2, <1>3 DEF Live
    <3> QED BY <3>1, <3>2, <3>3
  <2> QED BY <2>2 DEF UniqueNames
<1>8. Rooted'
  <2> SUFFICES ASSUME NEW S \in SUBSET (Live' \ {Root}), S # {}
               PROVE  \E x \in S : entries'[x].parent \notin S
    BY DEF Rooted
  <2>1. CASE S \subseteq {e}
    BY <2>1, <1>1, <1>3
  <2>2. CASE ~(S \subseteq {e})
    <3>1. S \ {e} \in SUBSET (Live \ {Root}) /\ S \ {e} # {}
      BY <2>2, <1>3
    <3>2. PICK x \in S \ {e} : entries[x].parent \notin S \ {e}
      BY <3>1 DEF Rooted
    <3>3. x \in Live /\ entries'[x] = entries[x] /\ entries[x].parent # e
      BY <3>1, <1>2, <1>5 DEF Live
    <3> QED BY <3>2, <3>3
  <2> QED BY <2>1, <2>2
<1> QED BY <1>6, <1>7, <1>8

LEMMA ClearTree ==
  ASSUME Types, Types', Parented, UniqueNames, Rooted, NEW e \in Deletable,
         entries'[e] = Free, \A x \in Ents \ {e} : entries'[x] = entries[x]
  PROVE  Parented' /\ UniqueNames' /\ Rooted'
<1>1. e \in Live \ {Root} /\ e \in Ents
  BY DEF Deletable, Live
<1>2. Live' = Live \ {e}
  <2>1. entries'[e].type = "FREE"
    BY EntryFields
  <2> QED BY <1>1, <2>1 DEF Live
<1>3. ASSUME NEW x \in Live, x # e PROVE entries[x].parent # e
  <2>1. entries[entries[x].parent].type = "DIR"
    BY DEF Parented
  <2>2. entries[e].type = "DIR" => x \notin Children(e)
    BY DEF Deletable
  <2> QED BY <1>3, <2>1, <2>2 DEF Children, Live
<1>4. \A x \in Ents : entries[x].parent \in Ents
  BY DEF Types, TypeOK, EntryType
<1>5. \A x \in Live' : x \in Live /\ x # e /\ x \in Ents /\ entries'[x] = entries[x]
  BY <1>2 DEF Live
<1>6. Parented'
  BY <1>1, <1>3, <1>4, <1>5, Constants0 DEF Parented
<1>7. UniqueNames'
  BY <1>5 DEF UniqueNames
<1>8. Rooted'
  <2> SUFFICES ASSUME NEW S \in SUBSET (Live' \ {Root}), S # {}
               PROVE  \E x \in S : entries'[x].parent \notin S
    BY DEF Rooted
  <2>1. S \in SUBSET (Live \ {Root})
    BY <1>2
  <2> QED BY <2>1, <1>5 DEF Rooted
<1> QED BY <1>6, <1>7, <1>8

LEMMA TreeNext ==
  ASSUME Types, Types', BootInv, EntriesInv, TreeInv, WriteInv, SavedInv, SealInv,
         DeleteInv, [Next]_vars
  PROVE  TreeInv'
<1> USE Constants0
<1>1. ASSUME entries' = entries, super' = super PROVE TreeInv'
  BY <1>1 DEF TreeInv, Parented, UniqueNames, Rooted, Live
<1>2. CASE UNCHANGED vars \/ Boot \/ Crash \/ Quiet
  BY <1>1, <1>2 DEF vars, disk, Boot, Crash, Quiet
<1>3. CASE FormatStage
  <2>1. phase \in 1 .. 4 /\ ~super
    BY <1>3 DEF FormatStage, BootInv
  <2>2. /\ Stages[1] = "table" /\ Stages[2] = "root" /\ Stages[3] = "bitmap"
        /\ Stages[4] = "super"
    BY DEF Stages
  <2>3. CASE phase # 4
    <3>1. phase \in {1, 2, 3} /\ Stages[phase] # "super"
      BY <2>1, <2>2, <2>3
    <3>2. ~super'
      BY <1>3, <2>1, <3>1 DEF FormatStage
    <3> QED BY <3>2 DEF TreeInv
  <2>4. CASE phase = 4
    <3>1. /\ entries' = entries /\ entries[Root] = NewEntry(Root, "/", "DIR")
          /\ \A e \in Ents \ {Root} : entries[e] = Free
      BY <1>3, <2>2, <2>4 DEF FormatStage, BootInv
    <3>2. /\ entries'[Root].type = "DIR" /\ entries'[Root].parent = Root
          /\ \A e \in Ents \ {Root} : entries'[e].type = "FREE"
      BY <3>1, EntryFields
    <3>3. Live' = {Root}
      BY <3>2 DEF Live
    <3> QED BY <3>2, <3>3 DEF TreeInv, Parented, UniqueNames, Rooted
  <2> QED BY <2>1, <2>3, <2>4
<1>4. CASE SealEntry
  <2>1. /\ op.pc = "seal" /\ op.ent \in Live \ {Root} /\ op.ent \in Ents /\ super' = super
        /\ entries[op.ent] \in EntryType
        /\ entries' = [entries EXCEPT ![op.ent] = Sealed(entries[op.ent])]
    BY <1>4 DEF SealEntry, Step, SealInv, Live, Types, TypeOK
  <2>2. /\ entries'[op.ent] = Sealed(entries[op.ent])
        /\ \A x \in Ents \ {op.ent} : entries'[x] = entries[x]
    BY <2>1 DEF Types, TypeOK
  <2>3. /\ entries'[op.ent].type = entries[op.ent].type
        /\ entries'[op.ent].parent = entries[op.ent].parent
        /\ entries'[op.ent].key = op.key
    <3>1. entries'[op.ent] = [entries[op.ent] EXCEPT !.key = op.key]
      BY <2>2 DEF Sealed
    <3>2. entries[op.ent] \in EntryType
      BY <2>1
    <3> HIDE <2>1, <2>2
    <3> QED BY <3>1, <3>2 DEF EntryType
  <2>4. Live' = Live /\ (Parented => Parented') /\ (Rooted => Rooted')
    BY <2>1, <2>2, <2>3, SamePlaces
  <2>5. ASSUME NEW x \in Ents PROVE entries[x].key # op.key
    <3>1. entries[x].key \in Nat /\ ops \in Nat
      BY Typed
    <3>2. entries[x].key < ops /\ op.key = ops
      BY <2>1 DEF SealInv
    <3> QED BY <3>1, <3>2
  <2>6. ASSUME UniqueNames PROVE UniqueNames'
    <3> SUFFICES ASSUME NEW x \in Live \ {Root}, NEW y \in Live \ {Root},
                        entries'[x].parent = entries'[y].parent,
                        entries'[x].name = entries'[y].name,
                        entries'[x].key = entries'[y].key
                 PROVE  x = y
      BY <2>4 DEF UniqueNames
    <3>1. x \in Ents /\ y \in Ents
      BY DEF Live
    <3>2. CASE x # op.ent /\ y # op.ent
      BY <2>2, <2>6, <3>1, <3>2 DEF UniqueNames
    <3>3. CASE x = op.ent /\ y # op.ent
      BY <2>2, <2>3, <2>5, <3>1, <3>3
    <3>4. CASE x # op.ent /\ y = op.ent
      BY <2>2, <2>3, <2>5, <3>1, <3>4
    <3> QED BY <3>2, <3>3, <3>4
  <2> QED BY <2>1, <2>4, <2>6 DEF TreeInv
<1>5. CASE ClearEntry
  <2>1. /\ op.pc = "clear" /\ op.ent \in Deletable /\ op.ent \in Ents /\ super' = super
        /\ entries' = [entries EXCEPT ![op.ent] = Free]
    BY <1>5 DEF ClearEntry, Step, DeleteInv, Deletes, Types, OpType
  <2>2. entries'[op.ent] = Free /\ \A x \in Ents \ {op.ent} : entries'[x] = entries[x]
    BY <2>1 DEF Types, TypeOK
  <2> QED BY <2>1, <2>2, ClearTree DEF TreeInv
<1>6. CASE WriteEntry \/ \E f \in Ents, size \in 0 .. NumBlocks : Truncate(f, size)
  <2>1. super' = super
    BY <1>6, UpdateFacts
  <2>2. PICK e \in Ents, new \in EntryType :
              /\ entries'[e] = new /\ \A x \in Ents \ {e} : entries'[x] = entries[x]
              /\ SameHead(entries[e], new)
    BY <1>6, UpdateFacts
  <2>3. Live' = Live /\ (Parented => Parented') /\ (Rooted => Rooted')
    BY <2>2, SamePlaces DEF SameHead
  <2>4. \A x \in Ents : SameHead(entries[x], entries'[x])
    BY <2>2 DEF SameHead
  <2>5. UniqueNames => UniqueNames'
    BY <2>3, <2>4 DEF UniqueNames, SameHead, Live
  <2> QED BY <2>1, <2>3, <2>5 DEF TreeInv
<1>7. ASSUME NEW d \in Ents, NEW n \in Names, NEW ty \in {"FILE", "DIR"},
             Create(d, n, ty) \/ CreateEncrypted(d, n, ty)
      PROVE  TreeInv'
  <2>1. super' = super /\ entries[d].type = "DIR" /\ ~HasChild(d, n)
    BY <1>7, CreateFacts
  <2>2. PICK e \in Ents : Added(e, NewEntry(d, n, ty))
    BY <1>7, CreateFacts
  <2> QED BY <2>1, <2>2, CreateTree DEF TreeInv
<1> QED BY <1>2, <1>3, <1>4, <1>5, <1>6, <1>7, StepKinds

LEMMA DeleteNext ==
  ASSUME Types, BootInv, EntriesInv, WriteInv, SavedInv, DeleteInv, [Next]_vars
  PROVE  DeleteInv'
<1> USE DEF Deletes
<1>1. ASSUME entries' = entries, op'.pc \in Deletes =>
                 (op.pc \in Deletes /\ op'.ent = op.ent) \/ op'.ent \in Deletable
      PROVE  DeleteInv'
  BY <1>1 DEF DeleteInv, Deletable, Live, Children
<1>2. ASSUME op'.pc \notin Deletes PROVE DeleteInv'
  BY <1>2 DEF DeleteInv
<1>3. CASE UNCHANGED vars \/ Boot \/ Quiet
  BY <1>1, <1>3 DEF vars, disk, history, counters, Boot, Quiet
<1>4. Idle.pc = "idle"
  BY DEF Idle
<1>5. CASE Crash \/ SealEntry \/ ClearEntry
  BY <1>2, <1>4, <1>5 DEF Crash, SealEntry, ClearEntry
<1>6. CASE FormatStage
  <2>1. op' = Idle
    BY <1>6, Constants0 DEF FormatStage, BootInv, history
  <2> QED BY <1>2, <1>4, <2>1
<1>7. CASE WriteEntry \/ \E f \in Ents, size \in 0 .. NumBlocks : Truncate(f, size)
  <2>1. op'.pc \in {"idle", "chunk"}
    BY <1>7, UpdateFacts
  <2> QED BY <1>2, <2>1
<1>8. ASSUME NEW d \in Ents, NEW n \in Names, NEW ty \in {"FILE", "DIR"},
             Create(d, n, ty) \/ CreateEncrypted(d, n, ty)
      PROVE  DeleteInv'
  <2>1. op.pc = "idle" /\ (op' = op \/ op'.pc = "seal")
    BY <1>8, CreateFacts DEF Sealing
  <2> QED BY <1>2, <2>1
<1> QED BY <1>3, <1>5, <1>6, <1>7, <1>8, StepKinds

LEMMA SealNext ==
  ASSUME Types, BootInv, EntriesInv, TreeInv, WriteInv, SavedInv, SealInv, [Next]_vars
  PROVE  SealInv'
<1>1. ASSUME op'.pc # "seal" PROVE SealInv'
  BY <1>1 DEF SealInv
<1>2. Idle.pc = "idle"
  BY DEF Idle
<1>3. CASE UNCHANGED vars \/ Boot
  BY <1>3 DEF vars, disk, history, counters, Boot, SealInv, Live
<1>4. CASE Quiet \/ Crash \/ SealEntry \/ ClearEntry
  BY <1>1, <1>2, <1>4 DEF Quiet, Crash, SealEntry, ClearEntry
<1>5. CASE FormatStage
  <2>1. op' = Idle
    BY <1>5, Constants0 DEF FormatStage, BootInv, history
  <2> QED BY <1>1, <1>2, <2>1
<1>6. CASE WriteEntry \/ \E f \in Ents, size \in 0 .. NumBlocks : Truncate(f, size)
  <2>1. op'.pc \in {"idle", "chunk"}
    BY <1>6, UpdateFacts
  <2> QED BY <1>1, <2>1
<1>7. ASSUME NEW d \in Ents, NEW n \in Names, NEW ty \in {"FILE", "DIR"},
             Create(d, n, ty) \/ CreateEncrypted(d, n, ty)
      PROVE  SealInv'
  <2>1. /\ op.pc = "idle" /\ ops' = ops + 1 /\ phase = Mounted
    BY <1>7, CreateFacts
  <2>2. PICK e \in Ents : /\ Added(e, NewEntry(d, n, ty))
                          /\ (op' = op /\ secret' = secret) \/ Sealing(e)
    BY <1>7, CreateFacts
  <2>3. CASE op' = op
    BY <1>1, <2>1, <2>3
  <2>4. CASE Sealing(e)
    <3>1. super
      BY <2>1 DEF BootInv
    <3>2. e # Root
      BY <2>2, <3>1 DEF Added, TreeInv, Parented
    <3>3. /\ entries'[e].type # "FREE" /\ entries'[e].key = NoKey
          /\ entries'[e].blocks = <<>>
      BY <2>2, EntryFields DEF Added
    <3>4. ASSUME NEW x \in Ents PROVE entries'[x].key < ops + 1
      <4>1. entries[x].key \in Nat /\ ops \in Nat /\ entries[x].key <= ops
        BY Typed DEF EntriesInv
      <4>2. x # e => entries'[x].key = entries[x].key
        BY <2>2 DEF Added
      <4> QED BY <3>3, <4>1, <4>2 DEF NoKey
    <3> QED BY <2>1, <2>4, <3>2, <3>3, <3>4 DEF SealInv, Sealing, Live
  <2> QED BY <2>2, <2>3, <2>4
<1> QED BY <1>3, <1>4, <1>5, <1>6, <1>7, StepKinds

-----------------------------------------------------------------------------
(* What each step of an operation does with it.                            *)

SameOp == /\ op'.ent = op.ent /\ op'.end = op.end /\ op'.last = op.last
          /\ op'.key = op.key
Moves(from, to) == Step(from) /\ op'.pc = to /\ phase' = phase

LEMMA AllocBitFacts ==
  ASSUME Types, AllocBit
  PROVE  /\ SameOp /\ op'.img = op.img /\ op'.run = op.run /\ op'.pos = op.pos
         /\ UNCHANGED <<super, entries, content, saved, secret, torn, failed, counters>>
         /\ \E i \in Unset : /\ used' = used \cup {op.run[i]}
                             /\ Moves("alloc", IF Unset = {i} THEN "append" ELSE "alloc")
<1>1. PICK i \in Unset : /\ used' = used \cup {op.run[i]}
                         /\ op' = [op EXCEPT !.pc = IF Unset = {i} THEN "append" ELSE "alloc"]
  BY DEF AllocBit, Allocated
<1>2. op \in OpType
  BY Typed
<1>3. /\ SameOp /\ op'.img = op.img /\ op'.run = op.run /\ op'.pos = op.pos
      /\ op'.pc = IF Unset = {i} THEN "append" ELSE "alloc"
  BY <1>1, <1>2 DEF SameOp, OpType
<1> QED BY <1>1, <1>3 DEF AllocBit, Later, Moves, Step

LEMMA AppendFacts ==
  ASSUME Types, AppendDirect \/ AppendIndexed
  PROVE  /\ SameOp /\ op'.img = WithRun(op.img) /\ op'.run = op.run /\ op'.pos = op.pos
         /\ Moves("append", "data")
         /\ AppendDirect => op.img.exts < DirectExtents /\ content' = content
         /\ AppendIndexed => /\ op.img.ind # NoBlock
                             /\ content' = [content EXCEPT ![op.img.ind] = Index]
         /\ UNCHANGED <<super, used, entries, saved, secret, torn, failed, counters>>
<1>1. op' = [op EXCEPT !.pc = "data", !.img = WithRun(op.img)]
  BY DEF AppendDirect, AppendIndexed
<1>2. op \in OpType
  BY Typed
<1>3. /\ SameOp /\ op'.img = WithRun(op.img) /\ op'.run = op.run /\ op'.pos = op.pos
      /\ op'.pc = "data"
  BY <1>1, <1>2 DEF SameOp, OpType
<1> QED BY <1>3 DEF AppendDirect, AppendIndexed, Later, Moves, Step, disk

LEMMA RefusedFacts ==
  ASSUME Types, AppendRefused
  PROVE  /\ SameOp /\ op'.img = op.img /\ op'.run = op.run /\ op'.pos = op.pos
         /\ Moves("append", "undo") /\ op.img.exts >= DirectExtents
         /\ IndexFull \/ op.img.ind = NoBlock
         /\ UNCHANGED <<super, used, entries, content, saved, secret, torn, failed, counters>>
<1>1. op' = [op EXCEPT !.pc = "undo"] /\ op \in OpType
  BY Typed DEF AppendRefused
<1>2. /\ SameOp /\ op'.img = op.img /\ op'.run = op.run /\ op'.pos = op.pos
      /\ op'.pc = "undo"
  BY <1>1 DEF SameOp, OpType
<1> QED BY <1>2 DEF AppendRefused, Later, Moves, Step, disk

LEMMA AllocIndexFacts ==
  ASSUME Types, AllocIndex
  PROVE  /\ SameOp /\ op'.run = op.run /\ op'.pos = op.pos
         /\ Moves("append", "zero") /\ op.img.exts >= DirectExtents /\ ~IndexFull
         /\ op.img.ind = NoBlock
         /\ \E b \in Blocks \ used : /\ used' = used \cup {b}
                                     /\ op'.img = [op.img EXCEPT !.ind = b]
         /\ UNCHANGED <<super, entries, content, saved, secret, torn, failed, counters>>
<1>1. PICK b \in FirstFit(1) : /\ used' = used \cup {b}
                               /\ op' = [op EXCEPT !.pc = "zero", !.img.ind = b]
  BY DEF AllocIndex, Allocated
<1>2. op \in OpType /\ b \in Blocks \ used
  BY RunFacts, Typed
<1>3. /\ SameOp /\ op'.run = op.run /\ op'.pos = op.pos
      /\ op'.pc = "zero" /\ op'.img = [op.img EXCEPT !.ind = b]
  BY <1>1, <1>2 DEF SameOp, OpType
<1> QED BY <1>1, <1>2, <1>3 DEF AllocIndex, Later, Moves, Step

LEMMA ZeroIndexFacts ==
  ASSUME Types, ZeroIndex
  PROVE  /\ SameOp /\ op'.img = op.img /\ op'.run = op.run /\ op'.pos = op.pos
         /\ Moves("zero", "append") /\ content' = [content EXCEPT ![op.img.ind] = Index]
         /\ UNCHANGED <<super, used, entries, saved, secret, torn, failed, counters>>
<1>1. op' = [op EXCEPT !.pc = "append"] /\ op \in OpType
  BY Typed DEF ZeroIndex
<1>2. /\ SameOp /\ op'.img = op.img /\ op'.run = op.run /\ op'.pos = op.pos
      /\ op'.pc = "append"
  BY <1>1 DEF SameOp, OpType
<1> QED BY <1>2 DEF ZeroIndex, Later, Moves, Step

LEMMA WriteDataFacts ==
  ASSUME Types, WriteData
  PROVE  /\ SameOp /\ op'.img = op.img /\ op'.run = op.run /\ op'.pos = op.pos + 1
         /\ Moves("data", IF op.pos + 1 = op.end THEN "entry" ELSE "data")
         /\ content' = [content EXCEPT ![Target] = Cipher(ops, op.pos)]
         /\ saved' = [saved EXCEPT ![op.ent] =
                        Put(saved[op.ent], op.pos + 1, [val |-> ops, key |-> op.key])]
         /\ UNCHANGED <<super, used, entries, secret, torn, failed, counters>>
<1>1. /\ op' = [op EXCEPT !.pos = op.pos + 1,
                          !.pc = IF op.pos + 1 = op.end THEN "entry" ELSE "data"]
      /\ op \in OpType
  BY Typed DEF WriteData
<1>2. /\ SameOp /\ op'.img = op.img /\ op'.run = op.run /\ op'.pos = op.pos + 1
      /\ op'.pc = IF op.pos + 1 = op.end THEN "entry" ELSE "data"
  BY <1>1 DEF SameOp, OpType
<1> QED BY <1>2 DEF WriteData, Later, Moves, Step

LEMMA WriteEntryFacts ==
  ASSUME Types, WriteEntry
  PROVE  /\ Step("entry") /\ phase' = phase
         /\ \/ op' = Idle
            \/ SameOp /\ op'.pc = "chunk"
         /\ LET new == [op.img EXCEPT !.size = FinalSize] IN
              /\ entries' = [entries EXCEPT ![op.ent] = new]
              /\ entries'[op.ent] = new
              /\ \A x \in Ents \ {op.ent} : entries'[x] = entries[x]
              /\ SameHead(op.img, new) /\ new.blocks = op.img.blocks
              /\ new.ind = op.img.ind /\ new.size = FinalSize
         /\ UNCHANGED <<super, used, content, saved, secret, torn, failed, counters>>
<1> DEFINE new == [op.img EXCEPT !.size = FinalSize]
<1>1. /\ entries' = [entries EXCEPT ![op.ent] = new]
      /\ op' = IF op.end = op.last THEN Idle ELSE [op EXCEPT !.pc = "chunk"]
      /\ op \in OpType /\ op.img \in EntryType /\ op.ent \in Ents
  BY Typed DEF WriteEntry
<1>2. op' = Idle \/ (SameOp /\ op'.pc = "chunk")
  BY <1>1 DEF SameOp, OpType
<1>3. SameHead(op.img, new) /\ new.blocks = op.img.blocks /\ new.ind = op.img.ind
      /\ new.size = FinalSize
  BY <1>1 DEF SameHead, EntryType
<1>4. entries'[op.ent] = new /\ \A x \in Ents \ {op.ent} : entries'[x] = entries[x]
  BY <1>1 DEF Types, TypeOK
<1> QED BY <1>1, <1>2, <1>3, <1>4 DEF WriteEntry, Later, Step

LEMMA UndoFacts ==
  ASSUME Types, WriteInv, Undo
  PROVE  /\ Step("undo") /\ phase' = phase /\ op.run # <<>>
         /\ used' = used \ {Head(op.run)}
         /\ \/ op' = Idle /\ Len(op.run) = 1
            \/ /\ SameOp /\ op'.img = op.img /\ op'.run = Tail(op.run) /\ op'.pc = "undo"
               /\ op'.run # <<>>
         /\ UNCHANGED <<super, entries, content, saved, secret, torn, failed, counters>>
<1>1. /\ op' = IF Len(op.run) = 1 THEN Idle ELSE [op EXCEPT !.run = Tail(op.run)]
      /\ op \in OpType /\ op.run \in Seq(Blocks) /\ op.pc = "undo"
  BY Typed DEF Undo, Step
<1>2. op.run # <<>>
  BY <1>1 DEF WriteInv
<1>3. Len(op.run) # 1 => Tail(op.run) # <<>>
  BY <1>1, <1>2, TailFacts
<1>4. CASE Len(op.run) = 1
  BY <1>1, <1>2, <1>4 DEF Undo, Later, Step
<1>5. CASE Len(op.run) # 1
  <2>1. /\ SameOp /\ op'.img = op.img /\ op'.run = Tail(op.run) /\ op'.pc = "undo"
    BY <1>1, <1>5 DEF SameOp, OpType
  <2> QED BY <2>1, <1>1, <1>2, <1>3, <1>5 DEF Undo, Later, Step
<1> QED BY <1>4, <1>5

LEMMA FreeBitFacts ==
  ASSUME Types, WriteInv, FreeBit
  PROVE  /\ Step("free") /\ phase' = phase /\ op.run # <<>>
         /\ used' = used \ {Head(op.run)}
         /\ op'.pos = 1 /\ SameOp /\ op'.run = Tail(op.run)
         /\ \/ op'.pc = "clear" /\ Len(op.run) = 1
            \/ op'.pc = "free" /\ op'.run # <<>>
         /\ UNCHANGED <<super, entries, content, saved, secret, torn, failed, counters>>
<1>1. /\ op' = [op EXCEPT !.run = Tail(op.run), !.pos = 1,
                          !.pc = IF Len(op.run) = 1 THEN "clear" ELSE "free"]
      /\ op \in OpType /\ op.run \in Seq(Blocks) /\ op.pc = "free"
  BY Typed DEF FreeBit, Step
<1>2. op.run # <<>>
  BY <1>1 DEF WriteInv
<1>3. Len(op.run) # 1 => Tail(op.run) # <<>>
  BY <1>1, <1>2, TailFacts
<1>4. /\ op'.pos = 1 /\ SameOp /\ op'.run = Tail(op.run)
      /\ op'.pc = IF Len(op.run) = 1 THEN "clear" ELSE "free"
  BY <1>1 DEF SameOp, OpType
<1> QED BY <1>2, <1>3, <1>4 DEF FreeBit, Later, Step

LEMMA BeginDeleteFacts ==
  ASSUME Types, NEW e \in Ents, BeginDelete(e)
  PROVE  /\ phase = Mounted /\ op.pc = "idle" /\ phase' = phase /\ e \in Deletable
         /\ op'.ent = e /\ op'.run = BlocksToFree(entries[e]) /\ op'.pos = 0
         /\ \/ op'.pc = "clear" /\ op'.run = <<>>
            \/ op'.pc = "free" /\ op'.run # <<>>
         /\ UNCHANGED <<super, used, entries, content, saved, secret, torn, failed,
                        crashes, errors>>
         /\ ops' = ops + 1
<1>1. op' = [Idle EXCEPT !.ent = e, !.run = BlocksToFree(entries[e]),
                         !.pc = IF BlocksToFree(entries[e]) = <<>> THEN "clear" ELSE "free"]
  BY DEF BeginDelete
<1>2. /\ op'.ent = e /\ op'.run = BlocksToFree(entries[e]) /\ op'.pos = 0
      /\ op'.pc = IF BlocksToFree(entries[e]) = <<>> THEN "clear" ELSE "free"
  BY <1>1 DEF Idle
<1> QED BY <1>2 DEF BeginDelete, Ready, Counted, disk, history

LEMMA ErrorFacts ==
  ASSUME Types, WriteInv, DeviceError
  PROVE  /\ phase = Mounted /\ phase' = phase /\ op.pc # "idle"
         /\ torn' = (torn \/ Tearing) /\ failed' = TRUE /\ saved' = Forgotten
         /\ errors' = errors + 1
         /\ \/ /\ op.pc \in {"append", "zero"} /\ op'.pc = "undo" /\ op'.run = op.run
               /\ op'.img = op.img /\ op'.ent = op.ent /\ op.run # <<>>
            \/ op' = Idle /\ op.pc \notin {"append", "zero"}
         /\ UNCHANGED <<super, used, entries, content, secret, ops, crashes>>
<1>1. /\ op' = (IF InAppend THEN [op EXCEPT !.pc = "undo"] ELSE Idle) /\ op \in OpType
      /\ op.pc = "append" => InAppend
  BY Typed DEF DeviceError
<1>2. CASE InAppend
  <2>1. op.pc \in {"append", "zero"}
    BY <1>2 DEF InAppend
  <2>2. op.run # <<>>
    BY <2>1 DEF WriteInv, Before
  <2>3. op'.pc = "undo" /\ op'.run = op.run /\ op'.img = op.img /\ op'.ent = op.ent
    BY <1>1, <1>2 DEF OpType
  <2> QED BY <2>1, <2>2, <2>3 DEF DeviceError, disk
<1>3. CASE ~InAppend
  <2>1. op.pc \notin {"append", "zero"}
    BY <1>1, <1>3 DEF InAppend
  <2> QED BY <2>1, <1>1, <1>3 DEF DeviceError, disk
<1> QED BY <1>2, <1>3

LEMMA BeginWriteFacts ==
  ASSUME Types, NEW f \in Ents, NEW pos \in 0 .. NumBlocks, NEW len \in 1 .. MaxLen,
         BeginWrite(f, pos, len) \/ BeginWriteEncrypted(f, pos, len)
  PROVE  /\ phase = Mounted /\ op.pc = "idle" /\ phase' = phase
         /\ entries[f].type = "FILE"
         /\ \E end \in Nat, last \in Nat, key \in {NoKey, entries[f].key} :
              pos < end /\ op' \in Writes(f, pos, end, last, key)
         /\ UNCHANGED <<super, used, entries, content, saved, secret, torn, failed,
                        crashes, errors>>
         /\ ops' = ops + 1
<1>1. pos + len \in Nat /\ pos + 1 \in Nat /\ pos < pos + len /\ pos < pos + 1
  OBVIOUS
<1>2. \E end \in Nat, last \in Nat, key \in {NoKey, entries[f].key} :
        pos < end /\ op' \in Writes(f, pos, end, last, key)
  BY <1>1 DEF BeginWrite, BeginWriteEncrypted
<1> QED
  BY <1>2 DEF BeginWrite, BeginWriteEncrypted, Ready, Counted, disk, history, Files

LEMMA NextChunkFacts ==
  ASSUME Types, WriteInv, NextChunk
  PROVE  /\ phase = Mounted /\ op.pc = "chunk" /\ phase' = phase
         /\ entries[op.ent].type = "FILE"
         /\ \/ op' = Idle
            \/ \E end \in Nat, last \in Nat, key \in {NoKey, entries[op.ent].key} :
                 op.end < end /\ op' \in Writes(op.ent, op.end, end, last, key)
         /\ UNCHANGED <<super, used, entries, content, saved, secret, torn, failed, counters>>
<1>1. op.pc = "chunk" /\ op.end \in Nat /\ op.end + 1 \in Nat /\ op.last \in Nat
  BY Typed DEF NextChunk, Step
<1>2. op.key \in {NoKey, entries[op.ent].key} /\ entries[op.ent].type = "FILE"
  BY <1>1 DEF WriteInv
<1>3. op' = Idle \/ op' \in Writes(op.ent, op.end, op.end + 1, op.last, op.key)
  BY DEF NextChunk
<1>4. op.end < op.end + 1
  BY <1>1
<1> QED BY <1>1, <1>2, <1>3, <1>4 DEF NextChunk, Later, Step, disk

-----------------------------------------------------------------------------
(* The operation and the history of what was written.                      *)

LEMMA ShortOp ==
  ASSUME op'.pc \in {"idle", "seal", "clear"}
  PROVE  WriteInv'
BY DEF WriteInv, Writing, Before, After

LEMMA BegunWrite ==
  ASSUME Types, NEW f \in Ents, NEW pos \in Nat, NEW end \in Nat, NEW last \in Nat,
         NEW key \in {NoKey, entries[f].key}, op' \in Writes(f, pos, end, last, key),
         entries[f].type = "FILE", entries' = entries, pos < end
  PROVE  WriteInv'
<1>1. key \in Nat
  BY Typed DEF NoKey
<1>2. Begun(op', f, pos, end, last, key)
  BY <1>1, WritesFacts
<1>3. /\ op'.pc \in {"alloc", "data"} /\ op'.ent = f /\ op'.img = entries[f]
      /\ op'.pos = pos /\ op'.end = end /\ op'.key = key
      /\ op'.pc = "alloc" => /\ end = Len(entries[f].blocks) + Len(op'.run)
                             /\ op'.run # <<>> /\ Distinct(op'.run)
  BY <1>2 DEF Begun
<1>4. ~NewIndex'
  BY <1>3 DEF NewIndex
<1>5. Len(entries[f].blocks) \in Nat
  BY Typed
<1>6. entries'[op'.ent] = op'.img
  BY <1>3
<1>7. op'.img.type = "FILE" /\ op'.key \in {NoKey, op'.img.key}
      /\ Len(op'.img.blocks) \in Nat
  BY <1>3, <1>5
<1>8. CASE op'.pc = "alloc"
  <2>1. op'.end = Len(op'.img.blocks) + Len(op'.run) /\ op'.run # <<>> /\ Distinct(op'.run)
    BY <1>3, <1>8
  <2> QED BY <1>4, <1>6, <1>7, <1>8, <2>1 DEF WriteInv, Writing, Before, After, Distinct
<1>9. CASE op'.pc = "data"
  BY <1>6, <1>7, <1>9 DEF WriteInv, Writing, Before, After
<1> QED
  BY <1>3, <1>8, <1>9

LEMMA WriteNext ==
  ASSUME Types, BootInv, EntriesInv, WriteInv, SavedInv, [Next]_vars
  PROVE  WriteInv'
<1>1. Idle.pc = "idle"
  BY DEF Idle
<1>2. CASE UNCHANGED vars \/ Boot
  BY <1>2 DEF vars, disk, history, counters, Boot, WriteInv, NewIndex, IndexFull
<1>3. CASE FormatStage
  <2>1. op' = Idle
    BY <1>3, Constants0 DEF FormatStage, BootInv, history
  <2> QED BY <1>1, <2>1, ShortOp
<1>4. CASE Crash \/ SealEntry \/ ClearEntry
  BY <1>1, <1>4, ShortOp DEF Crash, SealEntry, ClearEntry
<1>5. ASSUME NEW d \in Ents, NEW n \in Names, NEW ty \in {"FILE", "DIR"},
             Create(d, n, ty) \/ CreateEncrypted(d, n, ty)
      PROVE  WriteInv'
  <2>1. op'.pc \in {"idle", "seal"}
    BY <1>5, CreateFacts DEF Sealing
  <2> QED BY <2>1, ShortOp
<1>6. ASSUME NEW f \in Ents, NEW size \in 0 .. NumBlocks, Truncate(f, size)
      PROVE  WriteInv'
  BY <1>6, ShortOp DEF Truncate, Ready
<1>7. ASSUME NEW f \in Ents, NEW pos \in 0 .. NumBlocks, NEW len \in 1 .. MaxLen,
             BeginWrite(f, pos, len) \/ BeginWriteEncrypted(f, pos, len)
      PROVE  WriteInv'
  <2>1. PICK end \in Nat, last \in Nat, key \in {NoKey, entries[f].key} :
          pos < end /\ op' \in Writes(f, pos, end, last, key)
    BY <1>7, BeginWriteFacts
  <2>2. entries[f].type = "FILE" /\ entries' = entries
    BY <1>7, BeginWriteFacts
  <2> QED BY <2>1, <2>2, BegunWrite
<1>8. CASE NextChunk
  <2>1. entries[op.ent].type = "FILE" /\ entries' = entries /\ op.ent \in Ents /\ op.end \in Nat
    BY <1>8, NextChunkFacts, Typed
  <2>2. CASE op' = Idle
    BY <1>1, <2>2, ShortOp
  <2>3. CASE \E end \in Nat, last \in Nat, key \in {NoKey, entries[op.ent].key} :
                 op.end < end /\ op' \in Writes(op.ent, op.end, end, last, key)
    BY <2>1, <2>3, BegunWrite
  <2> QED BY <1>8, <2>2, <2>3, NextChunkFacts
<1>9. CASE AllocBit
  <2>1. /\ op.pc = "alloc" /\ op'.pc \in {"alloc", "append"} /\ SameOp /\ op'.img = op.img
        /\ op'.run = op.run /\ entries' = entries
    BY <1>9, AllocBitFacts DEF Moves, Step
  <2>2. ~NewIndex'
    BY <2>1 DEF NewIndex, SameOp, WriteInv
  <2> QED BY <2>1, <2>2 DEF WriteInv, SameOp, Writing, Before, After
<1>10. CASE AppendDirect \/ AppendIndexed
  <2>1. /\ op.pc = "append" /\ op'.pc = "data" /\ SameOp /\ op'.img = WithRun(op.img)
        /\ entries' = entries /\ op.ent \in Ents /\ op.img \in EntryType
        /\ op.run \in Seq(Blocks)
    BY <1>10, AppendFacts, Typed DEF Moves, Step
  <2>2. /\ SameHead(op.img, op'.img) /\ op'.img.size = op.img.size
        /\ op'.img.ind = op.img.ind
        /\ Len(op'.img.blocks) = Len(op.img.blocks) + Len(op.run)
        /\ \A k \in 1 .. Len(op.img.blocks) : op'.img.blocks[k] = op.img.blocks[k]
    BY ZenonT(60), <2>1, WithRunFacts DEF SameHead
  <2>3. Len(op.run) \in Nat /\ Len(op.img.blocks) \in Nat
    BY <2>1, LenProperties DEF EntryType
  <2>4. /\ op.img.blocks = entries[op.ent].blocks
        /\ op.img.type = "FILE" /\ op.img.name = entries[op.ent].name
        /\ op.img.key = entries[op.ent].key /\ op.img.parent = entries[op.ent].parent
        /\ op.img.size = entries[op.ent].size
        /\ op.img.ind # entries[op.ent].ind => entries[op.ent].ind = NoBlock
        /\ entries[op.ent].type = "FILE" /\ op.key \in {NoKey, entries[op.ent].key}
    BY <2>1 DEF WriteInv, Writing, Before
  <2>5. entries'[op'.ent] = entries[op.ent] /\ op'.key = op.key
    BY <2>1 DEF SameOp
  <2>6. /\ Len(entries[op.ent].blocks) <= Len(op'.img.blocks)
        /\ \A k \in 1 .. Len(entries[op.ent].blocks) :
             op'.img.blocks[k] = entries[op.ent].blocks[k]
    <3>1. Len(op.img.blocks) <= Len(op'.img.blocks)
      <4>1. PICK a, b, c : a = Len(op'.img.blocks) /\ b = Len(op.img.blocks) /\ c = Len(op.run)
        OBVIOUS
      <4>2. b \in Nat /\ c \in Nat
        BY <2>3, <4>1
      <4>3. a = b + c
        BY <2>2, <4>1, Zenon
      <4>4. b <= a
        BY <4>2, <4>3
      <4> QED BY <4>1, <4>4, Zenon
    <3>2. \A k \in 1 .. Len(op.img.blocks) : op'.img.blocks[k] = op.img.blocks[k]
      BY <2>2
    <3>3. op.img.blocks = entries[op.ent].blocks
      BY <2>4
    <3> QED BY <3>1, <3>2, <3>3, Zenon
  <2>7. SameHead(op.img, op'.img) /\ op'.img.size = op.img.size /\ op'.img.ind = op.img.ind
    BY <2>2
  <2> QED BY <2>1, <2>4, <2>5, <2>6, <2>7 DEF WriteInv, SameHead, Writing, Before, After
<1>11. CASE AppendRefused
  <2>1. op.pc = "append" /\ op'.pc = "undo" /\ op'.run = op.run
    BY <1>11, RefusedFacts DEF Moves, Step
  <2> QED BY <2>1 DEF WriteInv, Writing, Before, After
<1>12. CASE AllocIndex
  <2>1. PICK b \in Blocks : op'.img = [op.img EXCEPT !.ind = b]
    BY <1>12, AllocIndexFacts
  <2>2. /\ op.pc = "append" /\ op'.pc = "zero" /\ SameOp /\ op'.run = op.run
        /\ op.img.exts >= DirectExtents /\ ~IndexFull /\ op.img.ind = NoBlock
        /\ entries' = entries /\ op.img \in EntryType
    BY <1>12, AllocIndexFacts, Typed DEF Moves, Step
  <2>3. /\ SameHead(op.img, op'.img) /\ op'.img.size = op.img.size
        /\ op'.img.blocks = op.img.blocks /\ op'.img.exts = op.img.exts
        /\ op'.img.ind = b
    BY <2>1, <2>2 DEF EntryType, SameHead
  <2>4. entries[op.ent].ind = NoBlock
    BY <2>2 DEF WriteInv, Writing, Before
  <2>5. NewIndex'
    BY <2>2, <2>3, <2>4, Constants0 DEF NewIndex, SameOp
  <2> QED BY <2>2, <2>3, <2>4, <2>5 DEF WriteInv, SameOp, SameHead, IndexFull, Writing, Before, After
<1>13. CASE ZeroIndex
  <2>1. /\ op.pc = "zero" /\ op'.pc = "append" /\ SameOp /\ op'.img = op.img
        /\ op'.run = op.run /\ entries' = entries
    BY <1>13, ZeroIndexFacts DEF Moves, Step
  <2> QED BY <2>1 DEF WriteInv, SameOp, NewIndex, IndexFull, Writing, Before, After
<1>14. CASE WriteData
  <2>1. /\ op.pc = "data" /\ op'.pc \in {"data", "entry"} /\ SameOp /\ op'.img = op.img
        /\ op'.run = op.run /\ entries' = entries
    BY <1>14, WriteDataFacts DEF Moves, Step
  <2> QED BY <2>1 DEF WriteInv, SameOp, Writing, Before, After
<1>15. CASE WriteEntry
  <2>1. CASE op' = Idle
    BY <1>1, <2>1, ShortOp
  <2>2. CASE SameOp /\ op'.pc = "chunk"
    <3>1. op.pc = "entry" /\ SameHead(op.img, entries'[op.ent])
      BY <1>15, WriteEntryFacts DEF Step
    <3> QED BY <2>2, <3>1 DEF WriteInv, SameOp, SameHead, Writing, Before, After
  <2> QED BY <1>15, <2>1, <2>2, WriteEntryFacts
<1>16. CASE Undo
  BY <1>1, <1>16, UndoFacts, ShortOp DEF WriteInv, Writing, Before, After
<1>17. ASSUME NEW e \in Ents, BeginDelete(e) PROVE WriteInv'
  BY <1>17, BeginDeleteFacts, ShortOp DEF WriteInv, Writing, Before, After
<1>18. CASE FreeBit
  BY <1>18, FreeBitFacts, ShortOp DEF WriteInv, Writing, Before, After
<1>19. CASE DeviceError
  BY <1>1, <1>19, ErrorFacts, ShortOp DEF WriteInv, Writing, Before, After
<1> QED
  BY <1>2, <1>3, <1>4, <1>5, <1>6, <1>7, <1>8, <1>9, <1>10, <1>11, <1>12, <1>13, <1>14,
     <1>15, <1>16, <1>17, <1>18, <1>19 DEF Next

LEMMA ReachFacts ==
  ASSUME Types
  PROVE  /\ op.pc \notin After => \A f \in Ents : Reach(f) = Len(entries[f].blocks)
         /\ op.pc \in After =>
              /\ Reach(op.ent) = Len(op.img.blocks)
              /\ \A f \in Ents \ {op.ent} : Reach(f) = Len(entries[f].blocks)
         /\ \A f \in Ents : Reach(f) \in Nat /\ Written(f) \in Nat
<1>1. op.img.blocks \in Seq(Blocks) /\ \A f \in Ents : entries[f].blocks \in Seq(Blocks)
  BY Typed DEF EntryType
<1>2. \A f \in Ents : Cur(f).blocks \in Seq(Blocks)
  BY <1>1 DEF Cur
<1>3. \A f \in Ents : saved[f] \in Seq(Record)
  BY DEF Types, TypeOK
<1>4. \A f \in Ents : Reach(f) \in Nat /\ Written(f) \in Nat
  BY <1>2, <1>3, LenProperties DEF Reach, Written
<1> QED BY <1>4 DEF Reach, Cur

(* With no blocks being written a history is as long as its file.          *)
LEMMA Settled ==
  ASSUME Types, SavedInv, op.pc \notin After
  PROVE  \A x \in Ents : Len(saved[x]) = entries[x].size
BY DEF SavedInv, Histories, Written

LEMMA SavedSettled ==
  ASSUME Types', EntriesInv', op'.pc \notin After,
         \A x \in Ents : Len(saved'[x]) = entries'[x].size
  PROVE  Histories'
<1>1. \A x \in Ents : Written(x)' = entries'[x].size /\ Reach(x)' = Len(entries'[x].blocks)
  BY DEF Written, Reach, Cur
<1>2. \A x \in Ents : entries'[x].size \in Nat /\ entries'[x].size <= Len(entries'[x].blocks)
  BY DEF Types, TypeOK, EntryType, EntriesInv
<1> QED BY <1>1, <1>2 DEF Histories

LEMMA SavedIdle ==
  ASSUME Types', EntriesInv', op'.pc \in {"idle", "seal", "undo", "free", "clear", "chunk"},
         \A x \in Ents : Len(saved'[x]) = entries'[x].size
  PROVE  SavedInv'
<1>1. op'.pc \notin Before \cup After
  BY DEF Before, After
<1>2. Histories'
  BY <1>1, SavedSettled
<1> QED BY <1>1, <1>2 DEF SavedInv, Before, After

(* A step between stages that leaves the entries and the histories.        *)
LEMMA SavedKept ==
  ASSUME Types, Types', EntriesInv', SavedInv, entries' = entries, saved' = saved,
         op.pc \notin After, op'.pc \in {"idle", "seal", "undo", "free", "clear", "chunk"}
  PROVE  SavedInv'
BY Settled, SavedIdle

LEMMA SavedBegun ==
  ASSUME Types, Types', EntriesInv', SavedInv, NEW f \in Ents, NEW pos \in Nat,
         NEW end \in Nat, NEW last \in Nat,
         NEW key \in {NoKey, entries[f].key}, op' \in Writes(f, pos, end, last, key),
         entries' = entries, saved' = saved, pos < end, op.pc \notin After
  PROVE  SavedInv'
<1>1. key \in Nat
  BY Typed DEF NoKey
<1>2. Begun(op', f, pos, end, last, key)
  BY <1>1, WritesFacts
<1>3. /\ op'.pc \in {"alloc", "data"} /\ op'.ent = f /\ op'.img = entries[f]
      /\ op'.pos = pos /\ op'.end = end
      /\ op'.pc = "data" => end <= Len(entries[f].blocks)
  BY <1>2 DEF Begun
<1>4. \A x \in Ents : Written(x)' = entries[x].size /\ Reach(x)' = Len(entries[x].blocks)
  BY <1>3, Settled DEF Written, Reach, Cur
<1>5. \A x \in Ents : entries[x].size \in Nat /\ entries[x].size <= Len(entries[x].blocks)
  BY Typed DEF EntriesInv
<1>6. Histories'
  BY <1>4, <1>5 DEF Histories
<1> QED BY <1>3, <1>4, <1>6 DEF SavedInv, Before, After

(* A step of the write that leaves the disk's entries and the history.     *)
LEMMA SavedStep ==
  ASSUME Types, Types', EntriesInv', SavedInv, entries' = entries, saved' = saved, SameOp,
         op'.pos = op.pos,
         \/ op'.img = op.img /\ op.pc \in Before /\ op'.pc \in Before
         \/ /\ op'.img = WithRun(op.img) /\ op.pc \in Before /\ op'.pc = "data"
            /\ op.img.blocks = entries[op.ent].blocks
            /\ op.end = Len(op.img.blocks) + Len(op.run)
  PROVE  SavedInv'
<1>1. \A x \in Ents : Written(x)' = Written(x)
  BY DEF Written
<1>2. op.pc \notin After /\ op.ent \in Ents /\ op.img \in EntryType
      /\ op.run \in Seq(Blocks) /\ op.pc \in Before
  BY Typed DEF Before, After
<1>3. \A x \in Ents : Len(saved[x]) = entries[x].size
  BY <1>2, Settled
<1>4. op.pos < op.end /\ op'.ent = op.ent /\ op'.end = op.end
  BY <1>2 DEF SavedInv, SameOp
<1>5. CASE op'.pc \in Before
  <2>1. op'.pc \notin After
    BY <1>5 DEF Before, After
  <2>2. Histories'
    BY <1>3, <2>1, SavedSettled
  <2> QED BY <1>4, <1>5, <2>2 DEF SavedInv, Before, After
<1>6. CASE op'.pc = "data"
  <2>1. /\ op'.img = WithRun(op.img) /\ op.img.blocks = entries[op.ent].blocks
        /\ op.end = Len(op.img.blocks) + Len(op.run)
    BY <1>6 DEF Before
  <2>2. Len(op'.img.blocks) = Len(op.img.blocks) + Len(op.run)
    BY <1>2, <2>1, WithRunFacts
  <2>3. Reach(op.ent)' = Len(op'.img.blocks)
    BY <1>2, <1>4, <1>6 DEF Reach, Cur, After
  <2>4. Len(op.img.blocks) \in Nat /\ Len(op.run) \in Nat
    BY <1>2, LenProperties DEF EntryType
  <2>5. Reach(op.ent)' = op.end
    BY <2>1, <2>2, <2>3
  <2>6. op.end \in Nat /\ Len(op.img.blocks) <= op.end
    <3>1. PICK n, m, d : n = Len(op.img.blocks) /\ m = Len(op.run) /\ d = op.end
      OBVIOUS
    <3>2. n \in Nat /\ m \in Nat /\ d = n + m
      BY <2>1, <2>4, <3>1, Zenon
    <3>3. d \in Nat /\ n <= d
      BY <3>2
    <3> QED BY <3>1, <3>3, Zenon
  <2>7. \A x \in Ents \ {op.ent} : Reach(x)' = Len(entries[x].blocks)
    BY <1>2, <1>4, <1>6 DEF Reach, Cur, After
  <2>8. \A x \in Ents : entries[x].size \in Nat /\ entries[x].size <= Len(entries[x].blocks)
                        /\ Len(entries[x].blocks) \in Nat
    BY Typed DEF EntriesInv
  <2>9. ASSUME NEW x \in Ents PROVE entries[x].size <= Reach(x)'
    <3>1. \A k, m, n \in Nat : k <= m /\ m <= n => k <= n
      OBVIOUS
    <3>2. CASE x = op.ent
      <4>1. entries[x].size \in Nat /\ entries[x].size <= Len(op.img.blocks)
        BY <2>1, <2>8, <3>2, Zenon
      <4>2. Reach(x)' = op.end
        BY <1>4, <2>5, <3>2, Zenon
      <4> QED BY <2>4, <2>6, <3>1, <4>1, <4>2, Zenon
    <3>3. CASE x # op.ent
      <4>1. Reach(x)' = Len(entries[x].blocks)
        BY <2>7, <3>3, Zenon
      <4> QED BY <2>8, <4>1, Zenon
    <3> QED BY <3>2, <3>3
  <2>10. Histories'
    BY <1>1, <1>3, <2>8, <2>9 DEF Histories, Written
  <2>11. PICK f \in Ents : f = op.ent
    BY <1>2
  <2>12. Reach(f)' = Len(op'.img.blocks)
    BY <1>2, <1>4, <1>6, <2>11 DEF Reach, Cur, After
  <2>13. Reach(f)' = op.end /\ Written(f)' = entries[f].size
    BY <1>1, <1>3, <2>1, <2>2, <2>12 DEF Written
  <2>14. /\ op'.ent = f /\ op'.end = op.end /\ op'.pos < op'.end
         /\ op'.end <= Reach(f)' /\ Written(f)' = entries'[f].size
    <3>1. op.end <= op.end
      BY <2>6
    <3> QED BY <1>4, <2>11, <2>13, <3>1, Zenon
  <2> QED BY <1>6, <2>10, <2>14 DEF SavedInv, Before, After
<1> QED BY <1>5, <1>6 DEF Before

LEMMA SavedNext ==
  ASSUME Types, Types', BootInv, EntriesInv, EntriesInv', WriteInv, SavedInv, SealInv,
         DeleteInv, [Next]_vars
  PROVE  SavedInv'
<1>1. Idle.pc = "idle"
  BY DEF Idle
<1>2. CASE UNCHANGED vars \/ Boot
  <2>1. UNCHANGED <<entries, saved, op>>
    BY <1>2 DEF vars, disk, history, counters, Boot
  <2> QED BY <2>1 DEF SavedInv, Histories, Written, Reach, Cur, FinalSize
<1>3. ASSUME NEW e \in Ents, \A x \in Ents \ {e} : entries'[x] = entries[x],
             \A x \in Ents \ {e} : saved'[x] = saved[x], op.pc \notin After,
             op'.pc \in {"idle", "seal"}, Len(saved'[e]) = entries'[e].size
      PROVE  SavedInv'
  BY <1>3, Settled, SavedIdle
<1>4. CASE FormatStage
  <2>1. /\ op' = Idle /\ op = Idle /\ ~super /\ saved' = saved /\ phase \in 1 .. 4
    BY <1>4, Constants0 DEF FormatStage, BootInv, history
  <2>2. ASSUME NEW x \in Ents PROVE entries[x].size = 0
    <3>1. entries[x].blocks = <<>> /\ entries[x].size <= Len(entries[x].blocks)
          /\ entries[x].size \in Nat
      BY <2>1, Typed DEF BootInv, EntriesInv
    <3> QED BY <3>1, Len(<<>>) = 0
  <2>3. ASSUME NEW x \in Ents PROVE entries'[x] \in {entries[x], Free, NewEntry(Root, "/", "DIR")}
    BY <1>4, <2>1 DEF FormatStage, Types, TypeOK
  <2>4. \A x \in Ents : entries'[x].size = entries[x].size
    BY <2>2, <2>3, EntryFields
  <2>5. op.pc \notin After
    BY <1>1, <2>1 DEF After
  <2> QED BY <1>1, <2>1, <2>4, <2>5, Settled, SavedIdle
<1>5. ASSUME NEW d \in Ents, NEW n \in Names, NEW ty \in {"FILE", "DIR"},
             Create(d, n, ty) \/ CreateEncrypted(d, n, ty)
      PROVE  SavedInv'
  <2>1. /\ op.pc = "idle" /\ op'.pc \in {"idle", "seal"} /\ saved' = saved
    BY <1>5, CreateFacts DEF Sealing
  <2>2. PICK e \in Ents : Added(e, NewEntry(d, n, ty))
    BY <1>5, CreateFacts
  <2>3. entries[e].size = 0 /\ entries'[e].size = 0
    <3>1. entries[e].blocks = <<>> /\ entries[e].size \in Nat
          /\ entries[e].size <= Len(entries[e].blocks)
      BY <2>2, Typed DEF Added, EntriesInv
    <3>2. entries'[e].size = 0
      BY <2>2, EntryFields DEF Added
    <3> QED BY <3>1, <3>2, Len(<<>>) = 0
  <2>4. op.pc \notin After
    BY <2>1 DEF After
  <2>5. \A x \in Ents \ {e} : entries'[x] = entries[x]
    BY <2>2 DEF Added
  <2> QED BY <1>3, <2>1, <2>3, <2>4, <2>5, Settled
<1>6. CASE SealEntry
  <2>1. /\ op.pc = "seal" /\ op' = Idle /\ saved' = saved /\ op.ent \in Ents
        /\ entries' = [entries EXCEPT ![op.ent] = Sealed(entries[op.ent])]
        /\ entries[op.ent] \in EntryType
    BY <1>6, Typed DEF SealEntry, history
  <2>2. /\ entries'[op.ent] = Sealed(entries[op.ent])
        /\ \A x \in Ents \ {op.ent} : entries'[x] = entries[x]
    BY <2>1 DEF Types, TypeOK
  <2>3. entries'[op.ent].size = entries[op.ent].size
    <3>1. entries'[op.ent] = [entries[op.ent] EXCEPT !.key = op.key]
      BY <2>2 DEF Sealed
    <3>2. entries[op.ent] \in EntryType
      BY <2>1
    <3> HIDE <2>1, <2>2
    <3> QED BY <3>1, <3>2 DEF EntryType
  <2>4. op.pc \notin After /\ op'.pc = "idle"
    BY <1>1, <2>1 DEF After
  <2> QED BY <1>3, <2>1, <2>2, <2>3, <2>4, Settled
<1>7. ASSUME NEW f \in Ents, NEW size \in 0 .. NumBlocks, Truncate(f, size)
      PROVE  SavedInv'
  <2>1. /\ op.pc = "idle" /\ op' = op /\ size <= entries[f].size
        /\ entries' = [entries EXCEPT ![f].size = size]
        /\ saved' = [saved EXCEPT ![f] = SubSeq(saved[f], 1, size)]
        /\ entries[f] \in EntryType
    BY <1>7, Typed DEF Truncate, Ready
  <2>2. /\ entries'[f] = [entries[f] EXCEPT !.size = size]
        /\ \A x \in Ents \ {f} : entries'[x] = entries[x]
    <3>1. entries \in [Ents -> EntryType]
      BY DEF Types, TypeOK
    <3>2. PICK e : e = [entries[f] EXCEPT !.size = size]
      OBVIOUS
    <3>3. entries' = [entries EXCEPT ![f] = e]
      BY <2>1, <3>2
    <3> QED BY <3>1, <3>2, <3>3
  <2>3. entries'[f].size = size
    BY <2>1, <2>2 DEF EntryType
  <2>4. op.pc \notin After
    BY <2>1 DEF After
  <2>5. /\ saved'[f] = SubSeq(saved[f], 1, size) /\ saved[f] \in Seq(Record)
        /\ \A x \in Ents \ {f} : saved'[x] = saved[x]
    BY <2>1 DEF Types, TypeOK
  <2>6. size \in Nat /\ size <= Len(saved[f])
    BY <2>1, <2>4, Settled
  <2>7. Len(saved'[f]) = size
    BY <2>5, <2>6, CutFacts
  <2> QED BY <1>3, <2>1, <2>2, <2>3, <2>4, <2>5, <2>7
<1>8. CASE ClearEntry
  <2>1. /\ op.pc = "clear" /\ op' = Idle /\ op.ent \in Ents
        /\ entries' = [entries EXCEPT ![op.ent] = Free]
        /\ saved' = [saved EXCEPT ![op.ent] = <<>>]
    BY <1>8, Typed DEF ClearEntry, Step
  <2>2. /\ entries'[op.ent] = Free /\ \A x \in Ents \ {op.ent} : entries'[x] = entries[x]
        /\ saved'[op.ent] = <<>> /\ \A x \in Ents \ {op.ent} : saved'[x] = saved[x]
    BY <2>1 DEF Types, TypeOK
  <2>3. op.pc \notin After /\ op'.pc = "idle"
    BY <1>1, <2>1 DEF After
  <2>4. Len(saved'[op.ent]) = entries'[op.ent].size
    BY <2>2, EntryFields
  <2> QED BY <1>3, <2>1, <2>2, <2>3, <2>4
<1>9. CASE WriteEntry
  <2>0. PICK f \in Ents : f = op.ent
    BY Typed
  <2>1. /\ op.pc = "entry" /\ saved' = saved
        /\ \A x \in Ents \ {f} : entries'[x] = entries[x]
        /\ entries'[f].size = FinalSize
        /\ op' = Idle \/ (SameOp /\ op'.pc = "chunk")
    BY <1>9, <2>0, WriteEntryFacts, Typed DEF Step
  <2>2. Len(saved'[f]) = entries'[f].size
    BY <2>0, <2>1 DEF SavedInv, Written
  <2>3. ASSUME NEW x \in Ents \ {f} PROVE Len(saved'[x]) = entries'[x].size
    BY <2>0, <2>1 DEF SavedInv, Histories, Written
  <2>4. op'.pc \in {"idle", "chunk"}
    BY <1>1, <2>1
  <2> QED BY <2>2, <2>3, <2>4, SavedIdle
<1>10. ASSUME NEW f \in Ents, NEW pos \in 0 .. NumBlocks, NEW len \in 1 .. MaxLen,
             BeginWrite(f, pos, len) \/ BeginWriteEncrypted(f, pos, len)
      PROVE  SavedInv'
  <2>1. PICK end \in Nat, last \in Nat, key \in {NoKey, entries[f].key} :
          pos < end /\ op' \in Writes(f, pos, end, last, key)
    BY <1>10, BeginWriteFacts
  <2>2. /\ entries' = entries /\ saved' = saved /\ op.pc = "idle"
    BY <1>10, BeginWriteFacts
  <2>3. op.pc \notin After
    BY <2>2 DEF After
  <2> QED BY <2>1, <2>2, <2>3, SavedBegun
<1>11. CASE NextChunk
  <2>1. /\ entries' = entries /\ saved' = saved /\ op.ent \in Ents /\ op.end \in Nat
        /\ op.pc = "chunk"
    BY <1>11, NextChunkFacts, Typed
  <2>2. op.pc \notin After
    BY <2>1 DEF After
  <2>3. CASE op' = Idle
    BY <1>1, <2>1, <2>2, <2>3, SavedKept
  <2>4. CASE \E end \in Nat, last \in Nat, key \in {NoKey, entries[op.ent].key} :
                 op.end < end /\ op' \in Writes(op.ent, op.end, end, last, key)
    BY <2>1, <2>2, <2>4, SavedBegun
  <2> QED BY <1>11, <2>3, <2>4, NextChunkFacts
<1>12. CASE AllocBit
  BY <1>12, AllocBitFacts, SavedStep DEF Before, Moves, Step
<1>13. CASE AppendDirect \/ AppendIndexed
  <2>1. op.pc = "append"
    BY <1>13, AppendFacts DEF Moves, Step
  <2>2. op.img.blocks = entries[op.ent].blocks /\ op.end = Len(op.img.blocks) + Len(op.run)
    BY <2>1 DEF WriteInv, Writing, Before
  <2> QED BY <1>13, <2>1, <2>2, AppendFacts, SavedStep DEF Before, Moves, Step
<1>15. CASE AllocIndex
  <2>1. /\ op.pc = "append" /\ op'.pc = "zero" /\ SameOp /\ op'.pos = op.pos
        /\ entries' = entries /\ saved' = saved
    BY <1>15, AllocIndexFacts DEF Moves, Step
  <2>2. op.pc \notin After /\ op'.pc \notin After
    BY <2>1 DEF After
  <2>3. Histories'
    BY <2>1, <2>2, Settled, SavedSettled
  <2>4. op'.pos < op'.end
    BY <2>1 DEF SavedInv, SameOp, Before
  <2> QED BY <2>1, <2>3, <2>4 DEF SavedInv, After, Before
<1>16. CASE ZeroIndex
  BY <1>16, ZeroIndexFacts, SavedStep DEF Before, Moves, Step
<1>17. CASE AppendRefused
  <2>1. op.pc = "append" /\ op'.pc = "undo" /\ entries' = entries /\ saved' = saved
    BY <1>17, RefusedFacts DEF Moves, Step
  <2> QED BY <2>1, SavedKept DEF After
<1>18. CASE Undo
  <2>1. op.pc = "undo" /\ op'.pc \in {"idle", "undo"} /\ entries' = entries /\ saved' = saved
    BY <1>1, <1>18, UndoFacts DEF Step
  <2> QED BY <2>1, SavedKept DEF After
<1>19. CASE FreeBit
  <2>1. op.pc = "free" /\ op'.pc \in {"free", "clear"} /\ entries' = entries /\ saved' = saved
    BY <1>19, FreeBitFacts DEF Step
  <2> QED BY <2>1, SavedKept DEF After
<1>20. ASSUME NEW e \in Ents, BeginDelete(e) PROVE SavedInv'
  <2>1. op.pc = "idle" /\ op'.pc \in {"free", "clear"} /\ entries' = entries /\ saved' = saved
    BY <1>20, BeginDeleteFacts
  <2> QED BY <2>1, SavedKept DEF After
<1>21. CASE Crash \/ DeviceError
  <2>1. op'.pc \in {"idle", "undo"} /\ entries' = entries /\ saved' = Forgotten
    BY <1>1, <1>21, ErrorFacts DEF Crash, disk
  <2> QED BY <2>1, ForgottenFacts, SavedIdle
<1>22. CASE WriteData
  <2>0. PICK f \in Ents : f = op.ent
    BY Typed
  <2>1. /\ op.pc = "data" /\ op'.pc \in {"data", "entry"} /\ SameOp /\ op'.img = op.img
        /\ op'.pos = op.pos + 1 /\ entries' = entries
        /\ op'.pc = "entry" <=> op.pos + 1 = op.end
        /\ saved' = [saved EXCEPT ![f] =
                       Put(saved[f], op.pos + 1, [val |-> ops, key |-> op.key])]
    BY <1>22, <2>0, WriteDataFacts DEF Moves, Step
  <2>2. /\ op.pos < op.end /\ op.end <= Reach(f)
        /\ Written(f) \in {entries[f].size, op.pos}
        /\ \A x \in Ents : entries[x].size <= Written(x) /\ Written(x) <= Reach(x)
        /\ \A x \in Ents \ {f} : Written(x) = entries[x].size
    BY <2>0, <2>1 DEF SavedInv, Histories, After
  <2>3. /\ op.pos \in Nat /\ op.end \in Nat /\ f \in Ents
        /\ \A x \in Ents : Reach(x) \in Nat /\ Written(x) \in Nat /\ entries[x].size \in Nat
    BY Typed, ReachFacts
  <2>4. Written(f)' = Max2(Written(f), op.pos + 1)
    <3> DEFINE v == [val |-> ops, key |-> op.key]
    <3>1. saved[f] \in Seq(Record) /\ op.pos + 1 \in Nat \ {0}
      <4>1. saved[f] \in Seq(Record)
        BY DEF Types, TypeOK
      <4> HIDE DEF Types, TypeOK
      <4> QED BY <2>3, <4>1
    <3>0. v \in Record
      <4>1. ops \in 0 .. MaxOps /\ op.key \in Nat
        BY Typed DEF Types, TypeOK
      <4> QED BY <4>1 DEF Record
    <3>2. saved'[f] = Put(saved[f], op.pos + 1, v)
      BY <2>1, <2>3 DEF Types, TypeOK
    <3> HIDE DEF v
    <3>3. Len(Put(saved[f], op.pos + 1, v)) = Max2(Len(saved[f]), op.pos + 1)
      BY <3>0, <3>1, PutFacts
    <3> QED BY <3>2, <3>3 DEF Written
  <2>5. /\ \A x \in Ents \ {f} : Written(x)' = Written(x)
        /\ \A x \in Ents : Reach(x)' = Reach(x)
    <3>1. \A x \in Ents \ {f} : saved'[x] = saved[x]
      BY <2>1 DEF Types, TypeOK
    <3> QED BY <2>0, <2>1, <3>1 DEF Written, Reach, Cur, SameOp, After
  <2>6. /\ Written(f) <= Written(f)' /\ Written(f)' <= Reach(f) /\ Written(f)' \in Nat
        /\ Written(f)' \in {entries[f].size, op.pos + 1}
        /\ op.pos + 1 <= Written(f)'
    BY <2>2, <2>3, <2>4 DEF Max2
  <2> HIDE DEF Types, TypeOK, EntriesInv
  <2>7. op'.ent = f /\ op'.end = op.end /\ op'.img = op.img /\ op'.pc \in After
    BY <2>0, <2>1 DEF SameOp, After
  <2>8. Histories'
    <3> SUFFICES ASSUME NEW x \in Ents
                 PROVE  /\ entries'[x].size <= Written(x)' /\ Written(x)' <= Reach(x)'
                        /\ Written(x)' = entries'[x].size \/ (op'.pc \in After /\ op'.ent = x)
      BY DEF Histories
    <3>1. CASE x = f
      <4>1. entries[x].size <= Written(x)'
        BY <2>2, <2>3, <2>6, <3>1
      <4> QED BY <2>1, <2>5, <2>6, <2>7, <3>1, <4>1
    <3>2. CASE x # f
      BY <2>1, <2>2, <2>5, <3>2
    <3> QED BY <3>1, <3>2
  <2>9. op'.pc = "data" => op'.pos < op'.end
    BY <2>1, <2>2, <2>3, <2>7
  <2>10. op'.pc = "entry" => op'.pos = op'.end /\ Written(f)' = FinalSize'
    <3> SUFFICES ASSUME op'.pc = "entry" PROVE Written(f)' = FinalSize'
      BY <2>1, <2>7
    <3>1. FinalSize' = Max2(entries[f].size, op.pos + 1)
      <4>1. op.img.size = entries[f].size
        BY <2>0, <2>1 DEF WriteInv, Writing, After
      <4> QED BY <2>1, <2>7, <4>1 DEF FinalSize
    <3> QED BY <2>2, <2>3, <2>4, <3>1 DEF Max2
  <2> QED BY <2>1, <2>2, <2>5, <2>6, <2>7, <2>8, <2>9, <2>10 DEF SavedInv, Before, After
<1> HIDE DEF SavedInv, Types, WriteInv, EntriesInv, BootInv
<1> QED
  BY <1>2, <1>4, <1>5, <1>6, <1>7, <1>8, <1>9, <1>10, <1>11, <1>12, <1>13, <1>15, <1>16,
     <1>17, <1>18, <1>19, <1>20, <1>21, <1>22 DEF Next

-----------------------------------------------------------------------------
(* The part of the invariant that does not need the bitmap.                *)
CoreInv == /\ Types /\ BootInv /\ EntriesInv /\ TreeInv /\ SealInv /\ DeleteInv
           /\ WriteInv /\ SavedInv

LEMMA InitCore == Init => CoreInv
<1> SUFFICES ASSUME Init PROVE CoreInv
  OBVIOUS
<1>1. Types
  BY InitTypes
<1>2. /\ op = Idle /\ op.pc = "idle" /\ ~super /\ secret = {} /\ phase = 0
      /\ \A e \in Ents : entries[e] = Garbage /\ saved[e] = <<>>
  BY DEF Init, Idle
<1>3. Garbage.type # "FILE" /\ Garbage.blocks = <<>> /\ Garbage.ind = NoBlock
      /\ Garbage.key = 0 /\ Garbage.size = 0
  BY DEF Garbage, Free, NoKey
<1>4. BootInv
  BY <1>2, <1>3, Constants0 DEF BootInv
<1>5. EntriesInv
  BY <1>1, <1>2, <1>3, Typed, Len(<<>>) = 0 DEF EntriesInv
<1>6. TreeInv /\ SealInv /\ DeleteInv /\ WriteInv
  BY <1>2 DEF TreeInv, SealInv, DeleteInv, Deletes, WriteInv, Writing, Before, After
<1>7. \A e \in Ents : Written(e) = 0 /\ Reach(e) = 0
  BY <1>2, <1>3 DEF Written, Reach, Cur, After
<1>8. SavedInv
  BY <1>2, <1>3, <1>7 DEF SavedInv, Histories, Before, After
<1> QED BY <1>1, <1>4, <1>5, <1>6, <1>8 DEF CoreInv

LEMMA CoreNext ==
  ASSUME CoreInv, [Next]_vars
  PROVE  CoreInv'
<1>1. /\ Types /\ BootInv /\ EntriesInv /\ TreeInv /\ SealInv /\ DeleteInv
      /\ WriteInv /\ SavedInv
  BY DEF CoreInv
<1>2. Types'
  BY <1>1, TypesNext
<1>3. BootInv'
  BY <1>1, <1>2, BootNext
<1>4. EntriesInv'
  BY <1>1, <1>2, EntriesNext
<1>5. TreeInv'
  BY <1>1, <1>2, TreeNext
<1>6. SealInv' /\ DeleteInv' /\ WriteInv'
  BY <1>1, <1>2, SealNext, DeleteNext, WriteNext
<1>7. SavedInv'
  BY <1>1, <1>2, <1>4, SavedNext
<1> QED BY <1>2, <1>3, <1>4, <1>5, <1>6, <1>7 DEF CoreInv

(* The entries that a mount finds form a tree under a formatted root: every*)
(* parent is a live directory, names are unique in a directory and no chain*)
(* of parents runs in a circle, whatever interrupted vtx2_format,          *)
(* vtx2_create_entry, vtx2_finish_encrypted_entry, vtx2_write or           *)
(* vtx2_delete between two of their writes.                                *)
THEOREM TreeStaysIntact == Spec => []TreeIntact
<1>1. CoreInv => TreeIntact
  <2> SUFFICES ASSUME CoreInv PROVE TreeIntact
    OBVIOUS
  <2>1. TypeOK
    BY DEF CoreInv, Types
  <2>2. phase = Mounted => Parented /\ UniqueNames /\ Rooted
    BY DEF CoreInv, BootInv, TreeInv
  <2> QED BY <2>1, <2>2 DEF TreeIntact, Parented, UniqueNames, Rooted
<1> QED BY <1>1, InitCore, CoreNext, PTL DEF Spec

-----------------------------------------------------------------------------
(* The blocks.                                                             *)

Kept(e)    == entries'[e].blocks = entries[e].blocks /\ entries'[e].ind = entries[e].ind
Emptied(e) == entries'[e].blocks = <<>> /\ entries'[e].ind = NoBlock

LEMMA OwnedFacts ==
  /\ \A e : e.blocks = <<>> /\ e.ind = NoBlock =>
              OwnedBy(e) = {} /\ InFile(e) = {} /\ Distinct(e.blocks)
  /\ \A e, x : e.blocks = x.blocks /\ e.ind = x.ind =>
                 OwnedBy(e) = OwnedBy(x) /\ InFile(e) = InFile(x)
<1>1. DOMAIN <<>> = {}
  OBVIOUS
<1>2. ASSUME NEW e, e.blocks = <<>>, e.ind = NoBlock
      PROVE  OwnedBy(e) = {} /\ InFile(e) = {} /\ Distinct(e.blocks)
  <2>1. DOMAIN e.blocks = {}
    BY <1>1, <1>2
  <2>2. InFile(e) = {}
    BY <2>1 DEF InFile
  <2> QED BY <1>2, <2>1, <2>2 DEF OwnedBy, Distinct
<1> QED BY <1>2 DEF OwnedBy, InFile

(* What a file owns is in the bitmap.                                      *)
Covered(e) == (Deleting(e) /\ op.pos # 0) \/ OwnedBy(entries[e]) \subseteq used

LEMMA FilesStep ==
  ASSUME FilesInv, \A e \in Ents : Kept(e) \/ Emptied(e), \A e \in Ents : Covered(e)'
  PROVE  FilesInv'
<1>1. ASSUME NEW e \in Ents
      PROVE  /\ OwnedBy(entries'[e]) \subseteq OwnedBy(entries[e])
             /\ entries'[e].ind \notin InFile(entries'[e])
             /\ Distinct(entries'[e].blocks)
  <2>1. CASE Kept(e)
    BY <2>1, OwnedFacts DEF Kept, FilesInv
  <2>2. CASE Emptied(e)
    <3>1. OwnedBy(entries'[e]) = {} /\ InFile(entries'[e]) = {} /\ Distinct(entries'[e].blocks)
      BY <2>2, OwnedFacts DEF Emptied
    <3> QED BY <3>1
  <2> QED BY <2>1, <2>2
<1>2. ASSUME NEW e \in Ents PROVE Apart(e, OwnedBy(entries[e]))'
  BY <1>1 DEF Apart, FilesInv
<1> QED BY <1>1, <1>2 DEF FilesInv, Covered

LEMMA SpaceIdle ==
  ASSUME FilesInv', op'.pc \in {"idle", "seal", "chunk"}
  PROVE  SpaceInv'
BY DEF SpaceInv, RunInv, BeforeInv, AfterInv, FreeInv, Before, After, Deletes

(* Nothing is being deleted.                                               *)
LEMMA AllCovered ==
  ASSUME FilesInv, op.pc \notin Deletes
  PROVE  \A e \in Ents : OwnedBy(entries[e]) \subseteq used
BY DEF FilesInv, Deleting, Deletes

LEMMA FilesSame ==
  ASSUME FilesInv, op.pc \notin Deletes \/ op.pos = 0, entries' = entries, used \subseteq used'
  PROVE  FilesInv'
<1>1. \A e \in Ents : OwnedBy(entries[e]) \subseteq used
  BY DEF FilesInv, Deleting, Deletes
<1>2. \A e \in Ents : Covered(e)'
  BY <1>1 DEF Covered
<1> QED BY <1>2, FilesStep DEF Kept

LEMMA SpaceBegun ==
  ASSUME Types, NEW f \in Ents, NEW pos \in Nat, NEW end \in Nat, NEW last \in Nat,
         NEW key \in {NoKey, entries[f].key}, op' \in Writes(f, pos, end, last, key),
         entries' = entries, used' = used, FilesInv, op.pc \notin Deletes
  PROVE  SpaceInv'
<1>1. key \in Nat
  BY Typed DEF NoKey
<1>2. Begun(op', f, pos, end, last, key)
  BY <1>1, WritesFacts
<1>3. /\ op'.pc \in {"alloc", "data"} /\ op'.ent = f /\ op'.img = entries[f]
      /\ op'.pc = "alloc" => Held(op'.run) \cap used = {}
  BY <1>2 DEF Begun
<1>4. FilesInv' /\ \A e \in Ents : OwnedBy(entries[e]) \subseteq used
  BY FilesSame, AllCovered
<1>5. RunInv'
  BY <1>3, <1>4 DEF RunInv, Before
<1>6. BeforeInv' /\ FreeInv'
  BY <1>3 DEF BeforeInv, FreeInv, Deletes
<1>7. AfterInv'
  BY <1>3, <1>4 DEF AfterInv, FilesInv, After, Apart
<1> QED BY <1>4, <1>5, <1>6, <1>7 DEF SpaceInv

(* The image that vtx2_append_extent leaves.                               *)
LEMMA SpaceAppend ==
  ASSUME Types, WriteInv, FilesInv, RunInv, BeforeInv, AppendDirect \/ AppendIndexed
  PROVE  SpaceInv'
<1>1. /\ op.pc = "append" /\ op'.pc = "data" /\ SameOp /\ op'.img = WithRun(op.img)
      /\ entries' = entries /\ used' = used /\ op.ent \in Ents /\ op.img \in EntryType
      /\ op.run \in Seq(Blocks)
  BY AppendFacts, Typed DEF Moves, Step
<1> DEFINE new == op'.img
           e   == entries[op.ent]
<1>2. /\ OwnedBy(new) = OwnedBy(op.img) \cup Held(op.run)
      /\ InFile(new) = InFile(op.img) \cup Held(op.run) /\ new.ind = op.img.ind
      /\ Distinct(op.img.blocks) /\ Distinct(op.run) /\ InFile(op.img) \cap Held(op.run) = {}
           => Distinct(new.blocks)
  BY <1>1, WithRunFacts
<1>3. /\ op.img.blocks = e.blocks /\ Distinct(op.run)
      /\ op.img.ind # e.ind => e.ind = NoBlock
  BY <1>1 DEF WriteInv, Writing, Before
<1>4. /\ \A x \in Ents : OwnedBy(entries[x]) \cap Held(op.run) = {}
      /\ Held(op.run) \subseteq used
      /\ NewIndex => /\ op.img.ind \in used \ Held(op.run)
                     /\ \A x \in Ents : op.img.ind \notin OwnedBy(entries[x])
  BY <1>1 DEF RunInv, BeforeInv, Before
<1>5. \A x \in Ents : OwnedBy(entries[x]) \subseteq used
  BY <1>1, AllCovered DEF Deletes
<1>6. /\ Distinct(e.blocks) /\ e.ind \notin InFile(e)
      /\ \A x \in Ents \ {op.ent} : OwnedBy(entries[x]) \cap OwnedBy(e) = {}
  BY <1>1 DEF FilesInv, Apart
<1>7. NoBlock \notin Held(op.run)
  BY <1>1, Constants0, ElementOfSeq DEF Held
<1>8. InFile(op.img) = InFile(e) /\ InFile(e) \subseteq OwnedBy(e)
  BY <1>3 DEF InFile, OwnedBy
<1>9. OwnedBy(op.img) = OwnedBy(e) \cup (IF NewIndex THEN {op.img.ind} \ {NoBlock} ELSE {})
  BY <1>3, <1>8 DEF OwnedBy, NewIndex
<1>10. op.img.ind \notin InFile(new)
  <2>1. CASE NewIndex
    BY <2>1, <1>2, <1>4, <1>8, <1>1
  <2>2. CASE ~NewIndex
    <3>1. op.img.ind = e.ind /\ e.ind \notin InFile(e)
      BY <2>2, <1>6 DEF NewIndex
    <3>2. e.ind \notin Held(op.run)
      BY <1>1, <1>4, <1>7 DEF OwnedBy
    <3> QED BY <3>1, <3>2, <1>2, <1>8
  <2> QED BY <2>1, <2>2
<1>11. Distinct(new.blocks)
  BY <1>1, <1>2, <1>3, <1>4, <1>6, <1>8
<1>12. OwnedBy(new) \subseteq used
  BY <1>1, <1>2, <1>4, <1>5, <1>9
<1>13. ASSUME NEW x \in Ents \ {op.ent} PROVE OwnedBy(entries[x]) \cap OwnedBy(new) = {}
  BY <1>2, <1>4, <1>6, <1>9
<1>14. AfterInv'
  BY <1>1, <1>2, <1>10, <1>11, <1>12, <1>13 DEF AfterInv, Apart, SameOp
<1>15. FilesInv'
  BY <1>1, FilesSame DEF Deletes
<1>16. RunInv' /\ BeforeInv' /\ FreeInv'
  BY <1>1 DEF RunInv, BeforeInv, FreeInv, Before, Deletes
<1> QED BY <1>14, <1>15, <1>16 DEF SpaceInv

(* The image becomes the file's entry.                                     *)
LEMMA SpaceEntry ==
  ASSUME Types, FilesInv, AfterInv, WriteEntry
  PROVE  SpaceInv'
<1>1. PICK f \in Ents : f = op.ent
  BY Typed
<1>2. /\ op.pc = "entry" /\ used' = used
      /\ entries'[f].blocks = op.img.blocks /\ entries'[f].ind = op.img.ind
      /\ \A x \in Ents \ {f} : entries'[x] = entries[x]
      /\ op'.pc \in {"idle", "chunk"}
  <2>1. op.pc = "entry" /\ used' = used /\ (op' = Idle \/ op'.pc = "chunk")
    BY WriteEntryFacts DEF Step
  <2>2. /\ entries'[op.ent].blocks = op.img.blocks /\ entries'[op.ent].ind = op.img.ind
        /\ \A x \in Ents \ {op.ent} : entries'[x] = entries[x]
    BY WriteEntryFacts
  <2>3. op'.pc \in {"idle", "chunk"}
    BY <2>1 DEF Idle
  <2> QED BY <1>1, <2>1, <2>2, <2>3
<1>3. /\ Distinct(op.img.blocks) /\ op.img.ind \notin InFile(op.img)
      /\ OwnedBy(op.img) \subseteq used
      /\ \A x \in Ents \ {f} : OwnedBy(entries[x]) \cap OwnedBy(op.img) = {}
  BY <1>1, <1>2 DEF AfterInv, After, Apart
<1>4. OwnedBy(entries'[f]) = OwnedBy(op.img) /\ InFile(entries'[f]) = InFile(op.img)
  BY <1>2, OwnedFacts
<1>5. \A x \in Ents : OwnedBy(entries[x]) \subseteq used
  BY <1>2, AllCovered DEF Deletes
<1>6. ASSUME NEW x \in Ents
      PROVE  /\ \A y \in Ents \ {x} : OwnedBy(entries'[y]) \cap OwnedBy(entries'[x]) = {}
             /\ Distinct(entries'[x].blocks) /\ entries'[x].ind \notin InFile(entries'[x])
             /\ OwnedBy(entries'[x]) \subseteq used
  <2>1. CASE x = f
    BY <1>2, <1>3, <1>4, <2>1
  <2>2. CASE x # f
    <3>1. /\ \A y \in Ents \ {x} : OwnedBy(entries[y]) \cap OwnedBy(entries[x]) = {}
          /\ Distinct(entries[x].blocks) /\ entries[x].ind \notin InFile(entries[x])
      BY DEF FilesInv, Apart
    <3>2. OwnedBy(entries'[f]) \cap OwnedBy(entries[x]) = {}
      BY <1>3, <1>4, <2>2
    <3> QED BY <1>2, <1>5, <2>2, <3>1, <3>2
  <2> QED BY <2>1, <2>2
<1>7. FilesInv'
  BY <1>2, <1>6 DEF FilesInv, Apart
<1> QED BY <1>2, <1>7, SpaceIdle

(* A block of the file being deleted is free again.                        *)
LEMMA SpaceFreed ==
  ASSUME Types, WriteInv, FilesInv, FreeInv, FreeBit
  PROVE  SpaceInv'
<1>1. /\ op.pc = "free" /\ used' = used \ {Head(op.run)} /\ op'.pos = 1 /\ op'.ent = op.ent
      /\ op'.run = Tail(op.run) /\ op'.pc \in {"free", "clear"} /\ entries' = entries
      /\ op.run \in Seq(Blocks) /\ op.run # <<>> /\ op.ent \in Ents
  BY FreeBitFacts, Typed DEF Step, SameOp
<1>2. /\ Distinct(op.run) /\ Held(op.run) \subseteq OwnedBy(entries[op.ent])
  BY <1>1 DEF FreeInv
<1>3. /\ Head(op.run) \in Held(op.run) /\ Held(Tail(op.run)) \subseteq Held(op.run)
      /\ Distinct(Tail(op.run))
  BY <1>1, <1>2, TailFacts
<1>4. ASSUME NEW e \in Ents PROVE Covered(e)'
  <2>1. CASE e = op.ent
    BY <1>1, <2>1 DEF Covered, Deleting
  <2>2. CASE e # op.ent
    <3>1. OwnedBy(entries[e]) \subseteq used /\ OwnedBy(entries[e]) \cap OwnedBy(entries[op.ent]) = {}
      BY <1>1, <2>2 DEF FilesInv, Apart, Deleting
    <3> QED BY <1>1, <1>2, <1>3, <3>1 DEF Covered
  <2> QED BY <2>1, <2>2
<1>5. FilesInv'
  BY <1>1, <1>4, FilesStep DEF Kept
<1>6. FreeInv'
  BY <1>1, <1>2, <1>3 DEF FreeInv
<1>7. RunInv' /\ BeforeInv' /\ AfterInv'
  BY <1>1 DEF RunInv, BeforeInv, AfterInv, Before, After
<1> QED BY <1>5, <1>6, <1>7 DEF SpaceInv

LEMMA SpaceDelete ==
  ASSUME Types, FilesInv, NEW e \in Ents, BeginDelete(e)
  PROVE  SpaceInv'
<1>1. /\ op.pc = "idle" /\ used' = used /\ entries' = entries
      /\ op'.ent = e /\ op'.run = BlocksToFree(entries[e]) /\ op'.pos = 0
      /\ \/ op'.pc = "clear" /\ op'.run = <<>>
         \/ op'.pc = "free"
  BY BeginDeleteFacts
<1>2. FilesInv'
  BY <1>1, FilesSame DEF Deletes
<1>3. Held(op'.run) = OwnedBy(entries[e]) /\ Distinct(op'.run)
  BY <1>1, ToFreeFacts, Typed DEF FilesInv
<1>4. FreeInv'
  <2>1. CASE op'.pc = "free"
    BY <1>1, <1>3, <2>1 DEF FreeInv
  <2>2. CASE op'.pc = "clear" /\ op'.run = <<>>
    <3>1. Held(<<>>) = {}
      BY DOMAIN <<>> = {} DEF Held
    <3> QED BY <1>1, <1>3, <2>2, <3>1 DEF FreeInv
  <2> QED BY <1>1, <2>1, <2>2
<1>5. RunInv' /\ BeforeInv' /\ AfterInv'
  BY <1>1 DEF RunInv, BeforeInv, AfterInv, Before, After
<1> QED BY <1>2, <1>4, <1>5 DEF SpaceInv

LEMMA SpaceClear ==
  ASSUME Types, FilesInv, ClearEntry
  PROVE  SpaceInv'
<1>1. PICK f \in Ents : f = op.ent
  BY Typed
<1>2. /\ op.pc = "clear" /\ op' = Idle /\ used' = used /\ op'.pc = "idle"
      /\ entries'[f] = Free /\ \A x \in Ents \ {f} : entries'[x] = entries[x]
  BY <1>1 DEF ClearEntry, Step, Types, TypeOK, Idle
<1>3. ASSUME NEW e \in Ents PROVE (Kept(e) \/ Emptied(e)) /\ Covered(e)'
  <2>1. CASE e = f
    <3>1. Emptied(e) /\ OwnedBy(entries'[e]) = {}
      BY <1>2, <2>1, EntryFields, OwnedFacts DEF Emptied
    <3> QED BY <3>1 DEF Covered
  <2>2. CASE e # f
    BY <1>1, <1>2, <2>2 DEF Kept, Covered, FilesInv, Deleting
  <2> QED BY <2>1, <2>2
<1>4. FilesInv'
  BY <1>3, FilesStep
<1> QED BY <1>2, <1>4, SpaceIdle

LEMMA SpaceNext ==
  ASSUME Types, BootInv, EntriesInv, WriteInv, SavedInv, DeleteInv, SpaceInv, [Next]_vars
  PROVE  SpaceInv'
<1>1. Idle.pc = "idle" /\ Idle.pos = 0
  BY DEF Idle
<1> SUFFICES ASSUME ~torn, ~torn', FilesInv, RunInv, BeforeInv, AfterInv, FreeInv
             PROVE  SpaceInv'
  <2>1. torn => torn'
    BY DEF Next, Boot, FormatStage, Create, CreateEncrypted, SealEntry, Truncate,
           BeginWrite, BeginWriteEncrypted, NextChunk, AllocBit, AppendDirect, AppendRefused,
           AllocIndex, ZeroIndex, AppendIndexed, WriteData, WriteEntry, Undo, BeginDelete,
           FreeBit, ClearEntry, Crash, DeviceError, Later, history, vars
  <2> QED BY SMTT(60), <2>1 DEF SpaceInv
<1>2. CASE UNCHANGED vars \/ Boot
  <2>1. UNCHANGED <<entries, used, op>>
    BY <1>2 DEF vars, disk, history, counters, Boot
  <2> QED BY <2>1 DEF SpaceInv, FilesInv, RunInv, BeforeInv, AfterInv, FreeInv, Deleting,
                      Apart, NewIndex
<1>3. CASE FormatStage
  <2>1. /\ op' = Idle /\ ~super /\ phase \in 1 .. 4
    BY <1>3, Constants0 DEF FormatStage, BootInv, history
  <2>2. ASSUME NEW x \in Ents PROVE entries[x].blocks = <<>> /\ entries[x].ind = NoBlock
    BY <2>1 DEF BootInv, EntriesInv
  <2>3. ASSUME NEW x \in Ents PROVE entries'[x] \in {entries[x], Free, NewEntry(Root, "/", "DIR")}
    BY <1>3, <2>1 DEF FormatStage, Types, TypeOK
  <2>4. ASSUME NEW x \in Ents PROVE entries'[x].blocks = <<>> /\ entries'[x].ind = NoBlock
    BY <2>2, <2>3, EntryFields
  <2>5. \A x \in Ents : Emptied(x) /\ OwnedBy(entries'[x]) = {}
    BY <2>4, OwnedFacts DEF Emptied
  <2>6. FilesInv'
    BY <2>5, FilesStep DEF Covered
  <2> QED BY <1>1, <2>1, <2>6, SpaceIdle
<1>4. ASSUME NEW d \in Ents, NEW n \in Names, NEW ty \in {"FILE", "DIR"},
             Create(d, n, ty) \/ CreateEncrypted(d, n, ty)
      PROVE  SpaceInv'
  <2>1. /\ op.pc = "idle" /\ op'.pc \in {"idle", "seal"} /\ used' = used
    BY <1>4, CreateFacts DEF Sealing
  <2>2. PICK e \in Ents : Added(e, NewEntry(d, n, ty))
    BY <1>4, CreateFacts
  <2>3. Emptied(e) /\ \A x \in Ents \ {e} : Kept(x)
    BY <2>2, EntryFields DEF Added, Emptied, Kept
  <2>4. \A x \in Ents : OwnedBy(entries[x]) \subseteq used
    BY <2>1, AllCovered DEF Deletes
  <2>5. \A x \in Ents : Covered(x)'
    BY <2>1, <2>3, <2>4, OwnedFacts DEF Covered, Emptied, Kept
  <2>6. FilesInv'
    BY <2>3, <2>5, FilesStep
  <2> QED BY <2>1, <2>6, SpaceIdle
<1>5. ASSUME op.pc \notin Deletes, op'.pc = "idle", used' = used,
             \A x \in Ents : Kept(x)
      PROVE  SpaceInv'
  <2>1. \A x \in Ents : Covered(x)'
    BY <1>5, OwnedFacts, AllCovered DEF Covered, Kept
  <2>2. FilesInv'
    BY <1>5, <2>1, FilesStep
  <2> QED BY <1>5, <2>2, SpaceIdle
<1>6. CASE SealEntry
  <2>1. /\ op.pc = "seal" /\ op' = Idle /\ used' = used /\ op.ent \in Ents
        /\ entries' = [entries EXCEPT ![op.ent] = Sealed(entries[op.ent])]
        /\ entries[op.ent] \in EntryType
    BY <1>6, Typed DEF SealEntry, history
  <2>2. /\ entries'[op.ent] = [entries[op.ent] EXCEPT !.key = op.key]
        /\ \A x \in Ents \ {op.ent} : entries'[x] = entries[x]
    BY <2>1 DEF Types, TypeOK, Sealed
  <2>3. entries'[op.ent].blocks = entries[op.ent].blocks /\ entries'[op.ent].ind = entries[op.ent].ind
    <3>1. entries[op.ent] \in EntryType
      BY <2>1
    <3> HIDE <2>1
    <3> QED BY <3>1, <2>2 DEF EntryType
  <2>4. \A x \in Ents : Kept(x)
    BY <2>2, <2>3 DEF Kept
  <2> QED BY <1>1, <1>5, <2>1, <2>4 DEF Deletes
<1>7. ASSUME NEW f \in Ents, NEW size \in 0 .. NumBlocks, Truncate(f, size)
      PROVE  SpaceInv'
  <2>1. /\ op.pc = "idle" /\ op' = op /\ used' = used
        /\ entries' = [entries EXCEPT ![f].size = size]
        /\ entries[f] \in EntryType
    BY <1>7, Typed DEF Truncate, Ready
  <2>2. /\ entries'[f] = [entries[f] EXCEPT !.size = size]
        /\ \A x \in Ents \ {f} : entries'[x] = entries[x]
    BY <2>1 DEF Types, TypeOK
  <2>3. entries'[f].blocks = entries[f].blocks /\ entries'[f].ind = entries[f].ind
    <3>1. entries[f] \in EntryType
      BY <2>1
    <3> HIDE <2>1
    <3> QED BY <3>1, <2>2 DEF EntryType
  <2>4. \A x \in Ents : Kept(x)
    BY <2>2, <2>3 DEF Kept
  <2> QED BY <1>5, <2>1, <2>4 DEF Deletes
<1>8. ASSUME NEW f \in Ents, NEW pos \in 0 .. NumBlocks, NEW len \in 1 .. MaxLen,
             BeginWrite(f, pos, len) \/ BeginWriteEncrypted(f, pos, len)
      PROVE  SpaceInv'
  <2>1. PICK end \in Nat, last \in Nat, key \in {NoKey, entries[f].key} :
          pos < end /\ op' \in Writes(f, pos, end, last, key)
    BY <1>8, BeginWriteFacts
  <2>2. entries' = entries /\ used' = used /\ op.pc = "idle"
    BY <1>8, BeginWriteFacts
  <2>3. op.pc \notin Deletes
    BY <2>2 DEF Deletes
  <2> QED BY <2>1, <2>2, <2>3, SpaceBegun
<1>9. CASE NextChunk
  <2>1. /\ entries' = entries /\ used' = used /\ op.ent \in Ents /\ op.end \in Nat
        /\ op.pc = "chunk"
    BY <1>9, NextChunkFacts, Typed
  <2>2. op.pc \notin Deletes
    BY <2>1 DEF Deletes
  <2>3. CASE op' = Idle
    BY <1>1, <2>1, <2>2, <2>3, FilesSame, SpaceIdle
  <2>4. CASE \E end \in Nat, last \in Nat, key \in {NoKey, entries[op.ent].key} :
                 op.end < end /\ op' \in Writes(op.ent, op.end, end, last, key)
    BY <2>1, <2>2, <2>4, SpaceBegun
  <2> QED BY <1>9, <2>3, <2>4, NextChunkFacts
<1>10. CASE AllocBit
  <2>1. /\ op.pc = "alloc" /\ SameOp /\ op'.img = op.img /\ op'.run = op.run
        /\ entries' = entries /\ op.run \in Seq(Blocks)
    BY <1>10, AllocBitFacts, Typed DEF Moves, Step
  <2>2. PICK i \in Unset : /\ used' = used \cup {op.run[i]}
                           /\ op'.pc = IF Unset = {i} THEN "append" ELSE "alloc"
    BY <1>10, AllocBitFacts DEF Moves
  <2>3. FilesInv'
    BY <2>1, <2>2, FilesSame DEF Deletes
  <2>4. RunInv'
    BY <2>1, <2>2 DEF RunInv, Before
  <2>5. BeforeInv'
    <3>1. ~NewIndex'
      BY <2>1 DEF NewIndex, WriteInv, SameOp
    <3>2. ASSUME op'.pc # "alloc" PROVE Held(op.run) \subseteq used'
      <4>1. Unset = {i}
        BY <2>2, <3>2
      <4>2. \A k \in DOMAIN op.run : op.run[k] \in used \/ k = i
        BY <4>1 DEF Unset
      <4> QED BY <2>2, <4>2 DEF Held
    <3> QED BY <2>1, <3>1, <3>2 DEF BeforeInv
  <2>6. AfterInv' /\ FreeInv'
    BY <2>2 DEF AfterInv, FreeInv, After, Deletes
  <2> QED BY <2>3, <2>4, <2>5, <2>6 DEF SpaceInv
<1>11. CASE AppendDirect \/ AppendIndexed
  BY <1>11, SpaceAppend
<1>12. CASE AppendRefused
  <2>1. /\ op.pc = "append" /\ op'.pc = "undo" /\ op'.run = op.run
        /\ entries' = entries /\ used' = used
    BY <1>12, RefusedFacts DEF Moves, Step
  <2>2. FilesInv'
    BY <2>1, FilesSame DEF Deletes
  <2>3. RunInv' /\ BeforeInv' /\ AfterInv' /\ FreeInv'
    BY <2>1 DEF RunInv, BeforeInv, AfterInv, FreeInv, Before, After, Deletes
  <2> QED BY <2>2, <2>3 DEF SpaceInv
<1>13. CASE AllocIndex
  <2>1. /\ op.pc = "append" /\ op'.pc = "zero" /\ SameOp /\ op'.run = op.run
        /\ entries' = entries /\ op.img \in EntryType
    BY <1>13, AllocIndexFacts, Typed DEF Moves, Step
  <2>2. PICK b \in Blocks \ used : used' = used \cup {b} /\ op'.img = [op.img EXCEPT !.ind = b]
    BY <1>13, AllocIndexFacts
  <2>3. op'.img.ind = b
    BY <2>1, <2>2 DEF EntryType
  <2>4. FilesInv'
    BY <2>1, <2>2, FilesSame DEF Deletes
  <2>5. \A x \in Ents : OwnedBy(entries[x]) \subseteq used
    BY <2>1, AllCovered DEF Deletes
  <2>6. Held(op.run) \subseteq used
    BY <2>1 DEF BeforeInv
  <2>7. BeforeInv'
    BY <2>1, <2>2, <2>3, <2>5, <2>6 DEF BeforeInv
  <2>8. RunInv' /\ AfterInv' /\ FreeInv'
    BY <2>1 DEF RunInv, AfterInv, FreeInv, Before, After, Deletes
  <2> QED BY <2>4, <2>7, <2>8 DEF SpaceInv
<1>14. CASE ZeroIndex
  <2>1. /\ op.pc = "zero" /\ op'.pc = "append" /\ SameOp /\ op'.run = op.run
        /\ op'.img = op.img /\ entries' = entries /\ used' = used
    BY <1>14, ZeroIndexFacts DEF Moves, Step
  <2>2. FilesInv'
    BY <2>1, FilesSame DEF Deletes
  <2>3. RunInv' /\ BeforeInv' /\ AfterInv' /\ FreeInv'
    BY <2>1 DEF RunInv, BeforeInv, AfterInv, FreeInv, NewIndex, SameOp, Before, After, Deletes
  <2> QED BY <2>2, <2>3 DEF SpaceInv
<1>15. CASE WriteData
  <2>1. /\ op.pc = "data" /\ op'.pc \in {"data", "entry"} /\ SameOp /\ op'.run = op.run
        /\ op'.img = op.img /\ entries' = entries /\ used' = used
    BY <1>15, WriteDataFacts DEF Moves, Step
  <2>2. FilesInv'
    BY <2>1, FilesSame DEF Deletes
  <2>3. RunInv' /\ BeforeInv' /\ AfterInv' /\ FreeInv'
    BY <2>1 DEF RunInv, BeforeInv, AfterInv, FreeInv, Apart, SameOp, Before, After, Deletes
  <2> QED BY <2>2, <2>3 DEF SpaceInv
<1>16. CASE WriteEntry
  BY <1>16, SpaceEntry
<1>17. CASE Undo
  <2>1. /\ op.pc = "undo" /\ used' = used \ {Head(op.run)} /\ op.run # <<>>
        /\ op' = Idle \/ (op'.pc = "undo" /\ op'.run = Tail(op.run))
        /\ entries' = entries /\ op.run \in Seq(Blocks)
    BY <1>17, UndoFacts, Typed DEF Step
  <2>2. Head(op.run) \in Held(op.run) /\ Held(Tail(op.run)) \subseteq Held(op.run)
    BY <2>1, TailFacts
  <2>3. \A x \in Ents : OwnedBy(entries[x]) \cap Held(op.run) = {}
    BY <2>1 DEF RunInv, Before
  <2>4. \A x \in Ents : OwnedBy(entries[x]) \subseteq used
    BY <2>1, AllCovered DEF Deletes
  <2>5. \A x \in Ents : Covered(x)'
    BY <2>1, <2>2, <2>3, <2>4 DEF Covered
  <2>6. FilesInv'
    BY <2>1, <2>5, FilesStep DEF Kept
  <2>7. CASE op' = Idle
    BY <1>1, <2>6, <2>7, SpaceIdle
  <2>8. CASE op'.pc = "undo" /\ op'.run = Tail(op.run)
    <3>1. RunInv'
      BY <2>1, <2>2, <2>3, <2>8 DEF RunInv
    <3>2. BeforeInv' /\ AfterInv' /\ FreeInv'
      BY <2>8 DEF BeforeInv, AfterInv, FreeInv, After, Deletes
    <3> QED BY <2>6, <3>1, <3>2 DEF SpaceInv
  <2> QED BY <2>1, <2>7, <2>8
<1>18. ASSUME NEW e \in Ents, BeginDelete(e) PROVE SpaceInv'
  BY <1>18, SpaceDelete
<1>19. CASE FreeBit
  BY <1>19, SpaceFreed
<1>20. CASE ClearEntry
  BY <1>20, SpaceClear
<1>21. CASE Crash
  <2>1. op' = Idle /\ entries' = entries /\ used' = used /\ ~Tearing
    BY <1>21 DEF Crash, disk
  <2>2. op.pc \notin Deletes \/ op.pos = 0
    BY <2>1 DEF Tearing, FreeInv, Deletes
  <2>3. FilesInv'
    BY <2>1, <2>2, FilesSame
  <2> QED BY <1>1, <2>1, <2>3, SpaceIdle
<1>22. CASE DeviceError
  <2>1. /\ entries' = entries /\ used' = used /\ ~Tearing
        /\ \/ op.pc \in {"append", "zero"} /\ op'.pc = "undo" /\ op'.run = op.run
           \/ op' = Idle
    BY <1>22, ErrorFacts
  <2>2. op.pc \notin Deletes \/ op.pos = 0
    BY <2>1 DEF Tearing, FreeInv, Deletes
  <2>3. FilesInv'
    BY <2>1, <2>2, FilesSame
  <2>4. CASE op' = Idle
    BY <1>1, <2>3, <2>4, SpaceIdle
  <2>5. CASE op.pc \in {"append", "zero"} /\ op'.pc = "undo" /\ op'.run = op.run
    <3>1. RunInv' /\ BeforeInv' /\ AfterInv' /\ FreeInv'
      BY <2>1, <2>5 DEF RunInv, BeforeInv, AfterInv, FreeInv, Before, After, Deletes
    <3> QED BY <2>3, <3>1 DEF SpaceInv
  <2> QED BY <2>1, <2>4, <2>5
<1> HIDE DEF SavedInv, Types, WriteInv, EntriesInv, BootInv, FilesInv, RunInv, BeforeInv,
             AfterInv, FreeInv, SpaceInv
<1> QED
  BY <1>2, <1>3, <1>4, <1>6, <1>7, <1>8, <1>9, <1>10, <1>11, <1>12, <1>13, <1>14, <1>15,
     <1>16, <1>17, <1>18, <1>19, <1>20, <1>21, <1>22 DEF Next

LEMMA HeldCount ==
  ASSUME NEW s \in Seq(Blocks), Distinct(s)
  PROVE  Cardinality(Held(s)) = Len(s)
<1>1. DOMAIN s = 1 .. Len(s) /\ Len(s) \in Nat
  BY LenProperties
<1>2. s \in [1 .. Len(s) -> Held(s)]
  BY <1>1, LenProperties DEF Held
<1>3. s \in Bijection(1 .. Len(s), Held(s))
  BY SMTT(60), <1>1, <1>2 DEF Bijection, Injection, Surjection, IsInjective, Held, Distinct
<1>4. ExistsBijection(1 .. Len(s), Held(s))
  BY <1>3 DEF ExistsBijection
<1>5. IsFiniteSet(1 .. Len(s)) /\ Cardinality(1 .. Len(s)) = Len(s)
  <2>1. PICK n \in Nat : n = Len(s)
    BY <1>1
  <2>2. IsFiniteSet(1 .. n) /\ Cardinality(1 .. n) = IF 1 > n THEN 0 ELSE n - 1 + 1
    BY FS_Interval
  <2>3. Cardinality(1 .. n) = n
    BY <2>2
  <2> QED BY <2>1, <2>2, <2>3, Zenon
<1> QED BY <1>4, <1>5, FS_Bijection

SpaceCore == CoreInv /\ SpaceInv

LEMMA InitSpace == Init => SpaceInv
<1> SUFFICES ASSUME Init PROVE SpaceInv
  OBVIOUS
<1>1. op.pc = "idle" /\ \A e \in Ents : entries[e] = Garbage
  BY DEF Init, Idle
<1>2. Garbage.blocks = <<>> /\ Garbage.ind = NoBlock
  BY DEF Garbage, Free
<1>3. OwnedBy(Garbage) = {} /\ InFile(Garbage) = {} /\ Distinct(Garbage.blocks)
  BY <1>2, OwnedFacts
<1>4. FilesInv
  BY <1>1, <1>3 DEF FilesInv, Apart
<1> QED BY <1>1, <1>4 DEF SpaceInv, RunInv, BeforeInv, AfterInv, FreeInv, Before, After, Deletes

LEMMA SpaceCoreNext ==
  ASSUME SpaceCore, [Next]_vars
  PROVE  SpaceCore'
<1>1. CoreInv'
  BY CoreNext DEF SpaceCore
<1>2. SpaceInv'
  BY SpaceNext DEF SpaceCore, CoreInv
<1> QED BY <1>1, <1>2 DEF SpaceCore

(* vtx2_alloc_blocks and vtx2_free_blocks never let two files share a      *)
(* block, nor mark a block of a file as free, whatever write was stopped   *)
(* in the middle and whatever run was given back, until a delete that had  *)
(* already freed blocks is interrupted.                                    *)
THEOREM BlocksStayApart == Spec => []NoSharedBlocks
<1>1. SpaceCore => NoSharedBlocks
  <2> SUFFICES ASSUME SpaceCore, ~torn PROVE NoCrossLink /\ OwnedIsUsed
    BY DEF NoSharedBlocks
  <2>1. Types /\ FilesInv /\ FreeInv
    BY DEF SpaceCore, CoreInv, SpaceInv
  <2>2. ASSUME NEW e \in Files
        PROVE  /\ Cardinality(InFile(entries[e])) = Len(entries[e].blocks)
               /\ entries[e].ind \notin InFile(entries[e])
               /\ \A x \in Files : e # x => OwnedBy(entries[e]) \cap OwnedBy(entries[x]) = {}
    <3>1. e \in Ents /\ \A x \in Files : x \in Ents
      BY DEF Files
    <3>2. entries[e].blocks \in Seq(Blocks) /\ Distinct(entries[e].blocks)
      BY <2>1, <3>1, Typed DEF FilesInv
    <3>3. Cardinality(Held(entries[e].blocks)) = Len(entries[e].blocks)
      BY <3>2, HeldCount
    <3>4. InFile(entries[e]) = Held(entries[e].blocks)
      BY DEF InFile, Held
    <3> QED BY <2>1, <3>1, <3>3, <3>4 DEF FilesInv, Apart
  <2>3. NoCrossLink
    BY <2>2 DEF NoCrossLink
  <2>4. OwnedIsUsed
    BY <2>1 DEF OwnedIsUsed, FilesInv, Files
  <2> QED BY <2>3, <2>4
<1>2. Init => SpaceCore
  BY InitCore, InitSpace DEF SpaceCore
<1> QED BY <1>1, <1>2, SpaceCoreNext, PTL DEF Spec

-----------------------------------------------------------------------------
(* The data.                                                               *)

LEMMA BlockOf ==
  ASSUME Types, SavedInv, NEW f \in Ents, NEW k \in 1 .. Written(f)
  PROVE  /\ Cur(f).blocks[k] \in Blocks /\ Cur(f).blocks[k] \in InFile(Cur(f))
         /\ k \in 1 .. Len(Cur(f).blocks)
<1>1. Cur(f).blocks \in Seq(Blocks)
  BY Typed DEF Cur, EntryType
<1>2. k \in 1 .. Len(Cur(f).blocks)
  <2>1. Written(f) <= Reach(f) /\ Written(f) \in Nat /\ Reach(f) \in Nat
    BY ReachFacts DEF SavedInv, Histories
  <2>2. k \in 1 .. Reach(f)
    BY <2>1
  <2> QED BY <2>2 DEF Reach
<1>3. Cur(f).blocks[k] \in Blocks
  BY <1>1, <1>2, ElementOfSeq
<1>4. DOMAIN Cur(f).blocks = 1 .. Len(Cur(f).blocks)
  BY <1>1, LenProperties
<1> QED BY <1>2, <1>3, <1>4 DEF InFile

(* A step that leaves the contents of a file's blocks.                     *)
LEMMA ReadsKept ==
  ASSUME Types, NEW f \in Ents, Reads(f), Written(f)' \in Nat, Written(f)' <= Written(f),
         \A k \in 1 .. Written(f)' :
           /\ saved'[f][k] = saved[f][k]
           /\ content'[Cur(f)'.blocks[k]] = content[Cur(f).blocks[k]],
         Written(f)' = 0 \/ entries'[f].key = entries[f].key,
         \/ Cur(f)'.ind = NoBlock
         \/ Cur(f)'.ind = Cur(f).ind /\ content'[Cur(f).ind] = content[Cur(f).ind]
  PROVE  Reads(f)'
<1>1. ASSUME NEW k \in 1 .. Written(f)', saved'[f][k].val # 0
      PROVE  Matches(content'[Cur(f)'.blocks[k]], saved'[f][k], entries'[f].key, k - 1)
  <2>0. saved[f][k].val # 0
    BY <1>1
  <2>1. k \in 1 .. Written(f) /\ Written(f)' # 0
    BY ReachFacts
  <2>2. Matches(content[Cur(f).blocks[k]], saved[f][k], entries[f].key, k - 1)
    BY <2>0, <2>1 DEF Reads
  <2> QED BY <2>1, <2>2
<1>2. Cur(f)'.ind # NoBlock => content'[Cur(f)'.ind] = Index
  BY DEF Reads
<1> QED BY <1>1, <1>2 DEF Reads

(* A write to a block that is not the file's.                              *)
LEMMA ReadsOther ==
  ASSUME Types, SavedInv, NEW f \in Ents, Reads(f), NEW b \in Blocks, NEW v,
         content' = [content EXCEPT ![b] = v], b \notin OwnedBy(Cur(f)),
         saved'[f] = saved[f], entries' = entries,
         \A k \in 1 .. Written(f) : Cur(f)'.blocks[k] = Cur(f).blocks[k],
         Cur(f)'.ind = NoBlock \/ Cur(f)'.ind = Cur(f).ind
  PROVE  Reads(f)'
<1>1. \A x \in Blocks : x # b => content'[x] = content[x]
  BY DEF Types, TypeOK
<1>2. Written(f)' = Written(f) /\ Written(f) \in Nat
  BY ReachFacts DEF Written
<1>3. ASSUME NEW k \in 1 .. Written(f)
      PROVE  content'[Cur(f)'.blocks[k]] = content[Cur(f).blocks[k]]
  <2>1. Cur(f).blocks[k] \in Blocks /\ Cur(f).blocks[k] # b
    BY BlockOf DEF OwnedBy
  <2> QED BY <2>1, <1>1
<1>4. Cur(f).ind = NoBlock \/ content'[Cur(f).ind] = content[Cur(f).ind]
  <2>1. Cur(f) \in EntryType
    BY Typed DEF Cur
  <2>2. Cur(f).ind \in Blocks \cup {NoBlock}
    BY <2>1 DEF EntryType
  <2> QED BY <2>2, <1>1 DEF OwnedBy
<1> QED BY <1>2, <1>3, <1>4, ReadsKept

LEMMA ReadsSame ==
  ASSUME NEW f \in Ents, Reads(f), entries' = entries, saved' = saved, content' = content,
         Cur(f)' = Cur(f)
  PROVE  Reads(f)'
BY DEF Reads, Written

(* vtx2_append_extent: the image grows, and the index block is written.    *)
LEMMA ReadAppend ==
  ASSUME Types, WriteInv, SavedInv, FilesInv, RunInv, BeforeInv, NEW f \in Ents, Reads(f),
         AppendDirect \/ AppendIndexed
  PROVE  Reads(f)'
<1>1. /\ op.pc = "append" /\ op'.pc = "data" /\ op'.ent = op.ent /\ op'.img = WithRun(op.img)
      /\ entries' = entries /\ saved' = saved /\ op.ent \in Ents /\ op.img \in EntryType
      /\ op.run \in Seq(Blocks)
      /\ AppendDirect => op.img.exts < DirectExtents /\ content' = content
      /\ AppendIndexed => /\ op.img.ind # NoBlock
                          /\ content' = [content EXCEPT ![op.img.ind] = Index]
  BY AppendFacts, Typed DEF Moves, Step, SameOp
<1>2. /\ op'.img.ind = op.img.ind
      /\ \A k \in 1 .. Len(op.img.blocks) : op'.img.blocks[k] = op.img.blocks[k]
  <2>1. op'.img = WithRun(op.img) /\ op.img \in EntryType /\ op.run \in Seq(Blocks)
    BY <1>1
  <2> QED BY <2>1, WithRunFacts
<1>3. /\ op.img.blocks = entries[op.ent].blocks
      /\ NewIndex => op.img.exts >= DirectExtents
  BY <1>1 DEF WriteInv, Writing, Before
<1>4. op.img.ind \in Blocks \cup {NoBlock} /\ op.img.exts \in Nat
  BY <1>1 DEF EntryType
<1>5. /\ \A x \in Ents : Cur(x) = entries[x]
      /\ Cur(op.ent)' = op'.img /\ \A x \in Ents \ {op.ent} : Cur(x)' = entries[x]
  BY <1>1 DEF Cur, After
<1>6. Written(f)' = Written(f) /\ Written(f) \in Nat
  BY <1>1, ReachFacts DEF Written
<1>7. CASE AppendDirect
  <2>1. ~NewIndex /\ content' = content
    BY <1>1, <1>3, <1>4, <1>7
  <2>2. CASE f = op.ent
    <3>1. ASSUME NEW k \in 1 .. Written(f) PROVE Cur(f)'.blocks[k] = Cur(f).blocks[k]
      <4>1. k \in 1 .. Len(Cur(f).blocks)
        BY BlockOf
      <4>2. Cur(f)'.blocks = op'.img.blocks /\ Cur(f).blocks = op.img.blocks
        BY <1>1, <1>3, <1>5, <2>2 DEF Cur
      <4> QED BY <4>1, <4>2, <1>2
    <3>2. Cur(f)'.ind = Cur(f).ind
      BY <1>1, <1>2, <1>5, <2>1, <2>2 DEF NewIndex, Cur
    <3> QED BY <1>1, <1>6, <2>1, <3>1, <3>2, ReadsKept
  <2>3. CASE f # op.ent
    BY <1>1, <1>5, <2>1, <2>3, ReadsSame
  <2> QED BY <2>2, <2>3
<1>8. CASE AppendIndexed
  <2>1. /\ op.img.ind \in Blocks /\ content' = [content EXCEPT ![op.img.ind] = Index]
    BY <1>1, <1>4, <1>8
  <2>2. /\ content'[op.img.ind] = Index
        /\ \A x \in Blocks : x # op.img.ind => content'[x] = content[x]
    BY <2>1 DEF Types, TypeOK
  <2>3. \A x \in Ents \ {op.ent} : op.img.ind \notin OwnedBy(entries[x])
    <3>1. CASE NewIndex
      BY <1>1, <3>1 DEF BeforeInv
    <3>2. CASE ~NewIndex
      <4>1. op.img.ind \in OwnedBy(entries[op.ent])
        BY <1>1, <1>8, <3>2 DEF NewIndex, OwnedBy
      <4> QED BY <1>1, <4>1 DEF FilesInv, Apart
    <3> QED BY <3>1, <3>2
  <2>4. CASE f # op.ent
    <3>1. Cur(f)' = Cur(f) /\ op.img.ind \notin OwnedBy(Cur(f))
      BY <1>5, <2>3, <2>4
    <3> QED BY <1>1, <2>1, <3>1, ReadsOther
  <2>5. CASE f = op.ent
    <3>1. op.img.ind \notin InFile(entries[f])
      <4>1. CASE NewIndex
        BY <1>1, <4>1 DEF BeforeInv, OwnedBy
      <4>2. CASE ~NewIndex
        BY <2>5, <4>2 DEF NewIndex, FilesInv
      <4> QED BY <4>1, <4>2
    <3>2. Cur(f)'.blocks = op'.img.blocks /\ Cur(f) = entries[f] /\ Cur(f).blocks = op.img.blocks
          /\ Cur(f)'.ind = op.img.ind
      BY <1>1, <1>2, <1>3, <1>5, <2>5 DEF Cur
    <3>3. ASSUME NEW k \in 1 .. Written(f), saved'[f][k].val # 0
          PROVE  Matches(content'[Cur(f)'.blocks[k]], saved'[f][k], entries'[f].key, k - 1)
      <4>1. k \in 1 .. Len(Cur(f).blocks) /\ Cur(f).blocks[k] \in Blocks
            /\ Cur(f).blocks[k] \in InFile(Cur(f))
        BY BlockOf
      <4>2. Cur(f)'.blocks[k] = Cur(f).blocks[k]
        BY <4>1, <3>2, <1>2
      <4>3. content'[Cur(f).blocks[k]] = content[Cur(f).blocks[k]]
        BY <4>1, <3>1, <3>2, <2>2
      <4>4. Matches(content[Cur(f).blocks[k]], saved[f][k], entries[f].key, k - 1)
        BY <1>1, <3>3 DEF Reads
      <4> QED BY <4>2, <4>3, <4>4, <1>1
    <3> QED BY <1>6, <2>2, <3>2, <3>3 DEF Reads
  <2> QED BY <2>4, <2>5
<1> QED BY <1>7, <1>8

(* A block is written.                                                     *)
LEMMA ReadWritten ==
  ASSUME Types, WriteInv, SavedInv, AfterInv, NEW f \in Ents, Reads(f), WriteData
  PROVE  Reads(f)'
<1>1. PICK g \in Ents : g = op.ent
  BY Typed
<1> DEFINE v == [val |-> ops, key |-> op.key]
           i == op.pos + 1
<1>2. /\ op.pc = "data" /\ op'.pc \in {"data", "entry"} /\ op'.ent = g /\ op'.img = op.img
      /\ entries' = entries
      /\ content' = [content EXCEPT ![op.img.blocks[i]] = Cipher(ops, op.pos)]
      /\ saved' = [saved EXCEPT ![g] = Put(saved[g], i, v)]
  BY <1>1, WriteDataFacts DEF Moves, Step, SameOp, Target
<1>3. /\ op.pos < op.end /\ op.end <= Reach(g)
      /\ op.pos \in Nat /\ op.end \in Nat /\ Reach(g) \in Nat /\ Written(g) \in Nat
  BY <1>1, <1>2, ReachFacts, Typed DEF SavedInv, After
<1>4. /\ Cur(g) = op.img /\ \A x \in Ents : Cur(x)' = Cur(x)
      /\ \A x \in Ents \ {g} : Cur(x) = entries[x]
  BY <1>1, <1>2 DEF Cur, After
<1>5. i \in Nat \ {0} /\ i \in 1 .. Len(op.img.blocks)
  <2>1. i \in Nat \ {0} /\ i \in 1 .. Reach(g)
    BY <1>3
  <2> QED BY <2>1, <1>4 DEF Reach
<1>6. /\ op.img.blocks \in Seq(Blocks) /\ DOMAIN op.img.blocks = 1 .. Len(op.img.blocks)
  BY Typed, LenProperties DEF EntryType
<1>7. /\ op.img.blocks[i] \in Blocks /\ op.img.blocks[i] \in InFile(op.img)
  BY <1>5, <1>6, ElementOfSeq DEF InFile
<1>8. /\ content'[op.img.blocks[i]] = Cipher(ops, op.pos)
      /\ \A x \in Blocks : x # op.img.blocks[i] => content'[x] = content[x]
  BY <1>2, <1>7 DEF Types, TypeOK
<1>9. /\ saved'[g] = Put(saved[g], i, v) /\ \A x \in Ents \ {g} : saved'[x] = saved[x]
  BY <1>2 DEF Types, TypeOK
<1>10. /\ Distinct(op.img.blocks) /\ op.img.ind \notin InFile(op.img)
       /\ \A x \in Ents \ {g} : OwnedBy(entries[x]) \cap OwnedBy(op.img) = {}
  BY <1>1, <1>2 DEF AfterInv, After, Apart
<1>11. CASE f # g
  <2>1. op.img.blocks[i] \notin OwnedBy(Cur(f))
    BY <1>4, <1>7, <1>10, <1>11 DEF OwnedBy
  <2> HIDE DEF i, v
  <2> QED BY <1>2, <1>4, <1>7, <1>9, <1>11, <2>1, ReadsOther
<1>12. CASE f = g
  <2>1. /\ \A k \in 1 .. Max2(Written(g), i) :
              saved'[g][k] = IF k = i THEN v
                             ELSE IF k <= Written(g) THEN saved[g][k] ELSE Unwritten
        /\ Written(g)' = Max2(Written(g), i)
    <3>1. saved[g] \in Seq(Record)
      BY DEF Types, TypeOK
    <3>2. v \in Record
      <4>1. ops \in 0 .. MaxOps /\ op.key \in Nat
        BY Typed DEF Types, TypeOK
      <4> QED BY <4>1 DEF Record
    <3> HIDE DEF v, i
    <3> QED BY <1>5, <1>9, <3>1, <3>2, PutFacts DEF Written
  <2>2. Matches(Cipher(ops, op.pos), v, entries[g].key, i - 1)
    <3>1. op.key \in {NoKey, entries[g].key} /\ i - 1 = op.pos
      BY <1>1, <1>2, <1>3 DEF WriteInv, Writing, After
    <3> QED BY <3>1 DEF Matches, Cipher, Plain, Deciphered
  <2>3. ASSUME NEW k \in 1 .. Written(g)', saved'[g][k].val # 0
        PROVE  Matches(content'[Cur(g)'.blocks[k]], saved'[g][k], entries'[g].key, k - 1)
    <3>1. saved'[g][k] = IF k = i THEN v ELSE IF k <= Written(g) THEN saved[g][k] ELSE Unwritten
      BY <2>1
    <3>2. Cur(g)'.blocks[k] = op.img.blocks[k] /\ entries'[g].key = entries[g].key
      BY <1>2, <1>4
    <3>3. CASE k = i
      BY <1>8, <2>2, <3>1, <3>2, <3>3
    <3>4. CASE k # i
      <4>0. k <= Written(g)
        BY <2>3, <3>1, <3>4 DEF Unwritten
      <4>1. k \in 1 .. Written(g)
        BY <1>3, <4>0
      <4>2. op.img.blocks[k] \in Blocks /\ k \in 1 .. Len(op.img.blocks)
        BY <4>1, <1>4, BlockOf
      <4>3. op.img.blocks[k] # op.img.blocks[i]
        BY <4>2, <1>5, <1>6, <1>10, <3>4 DEF Distinct
      <4>4. content'[op.img.blocks[k]] = content[op.img.blocks[k]]
        BY <1>8, <4>2, <4>3
      <4>6. saved'[g][k] = saved[g][k]
        BY <3>1, <3>4, <4>0
      <4>5. Matches(content[op.img.blocks[k]], saved[g][k], entries[g].key, k - 1)
        BY <1>12, <1>4, <2>3, <4>1, <4>6 DEF Reads
      <4> HIDE DEF v, i
      <4> QED BY <3>2, <4>4, <4>5, <4>6, Zenon
    <3> QED BY <3>3, <3>4
  <2>4. Cur(g)'.ind # NoBlock => content'[Cur(g)'.ind] = Index
    <3>1. op.img.ind \in Blocks \cup {NoBlock} /\ op.img.ind # op.img.blocks[i]
      BY <1>7, <1>10, Typed DEF EntryType
    <3>2. op.img.ind # NoBlock => content[op.img.ind] = Index
      BY <1>12, <1>4 DEF Reads
    <3> QED BY <1>4, <1>8, <3>1, <3>2
  <2> QED BY <1>12, <2>3, <2>4 DEF Reads
<1> QED BY <1>11, <1>12

(* An operation that is cut short leaves the entries on the disk, and the  *)
(* image of a write agrees with them as far as they go.                    *)
LEMMA ReadCut ==
  ASSUME Types, WriteInv, EntriesInv, SavedInv, NEW f \in Ents, Reads(f), entries' = entries,
         content' = content, saved' = Forgotten, op'.pc \notin After
  PROVE  Reads(f)'
<1>1. /\ Written(f)' = entries[f].size
      /\ \A k \in 1 .. entries[f].size : saved'[f][k] = saved[f][k]
  BY ForgottenFacts DEF Written
<1>2. /\ entries[f].size \in Nat /\ entries[f].size <= Written(f)
      /\ entries[f].size <= Len(entries[f].blocks) /\ Len(entries[f].blocks) \in Nat
  BY Typed DEF SavedInv, Histories, EntriesInv
<1>3. Cur(f)' = entries[f]
  BY DEF Cur
<1>4. /\ \A k \in 1 .. Len(entries[f].blocks) : Cur(f).blocks[k] = entries[f].blocks[k]
      /\ Cur(f).ind # entries[f].ind => entries[f].ind = NoBlock
  BY DEF Cur, WriteInv, Writing
<1>5. \A k \in 1 .. entries[f].size : k \in 1 .. Len(entries[f].blocks)
  BY <1>2
<1>6. \A k \in 1 .. Written(f)' :
        /\ saved'[f][k] = saved[f][k]
        /\ content'[Cur(f)'.blocks[k]] = content[Cur(f).blocks[k]]
  BY <1>1, <1>3, <1>4, <1>5
<1>7. \/ Cur(f)'.ind = NoBlock
      \/ Cur(f)'.ind = Cur(f).ind /\ content'[Cur(f).ind] = content[Cur(f).ind]
  BY <1>3, <1>4
<1>8. Written(f)' \in Nat /\ Written(f)' <= Written(f)
  BY <1>1, <1>2
<1> QED BY <1>6, <1>7, <1>8, ReadsKept

LEMMA ReadNothing ==
  ASSUME NEW f \in Ents, Written(f)' = 0, Cur(f)'.ind = NoBlock
  PROVE  Reads(f)'
BY DEF Reads

LEMMA ReadNext ==
  ASSUME Types, BootInv, EntriesInv, WriteInv, SavedInv, SealInv, SpaceInv, ReadInv, [Next]_vars
  PROVE  ReadInv'
<1>1. Idle.pc = "idle" /\ Idle.pc \notin After
  BY DEF Idle, After
<1> SUFFICES ASSUME ~torn, ~torn', FilesInv, RunInv, BeforeInv, AfterInv, FreeInv,
                    \A x \in Ents : Reads(x), NEW f \in Ents
             PROVE  Reads(f)'
  <2>1. torn => torn'
    BY DEF Next, Boot, FormatStage, Create, CreateEncrypted, SealEntry, Truncate,
           BeginWrite, BeginWriteEncrypted, NextChunk, AllocBit, AppendDirect, AppendRefused,
           AllocIndex, ZeroIndex, AppendIndexed, WriteData, WriteEntry, Undo, BeginDelete,
           FreeBit, ClearEntry, Crash, DeviceError, Later, history, vars
  <2> QED BY SMTT(60), <2>1 DEF SpaceInv, ReadInv
<1>2. Reads(f) /\ Written(f) \in Nat
  BY ReachFacts
<1>3. CASE UNCHANGED vars \/ Boot
  <2>1. UNCHANGED <<entries, content, saved, op>>
    BY <1>3 DEF vars, disk, history, counters, Boot
  <2> QED BY <1>2, <2>1, ReadsSame DEF Cur
<1>4. CASE FormatStage
  <2>1. /\ op' = Idle /\ op = Idle /\ ~super /\ saved' = saved /\ phase \in 1 .. 4
    BY <1>4, Constants0 DEF FormatStage, BootInv, history
  <2>2. entries[f].blocks = <<>> /\ entries[f].ind = NoBlock
    BY <2>1 DEF BootInv, EntriesInv
  <2>3. entries'[f] \in {entries[f], Free, NewEntry(Root, "/", "DIR")}
    BY <1>4, <2>1 DEF FormatStage, Types, TypeOK
  <2>4. Cur(f)'.ind = NoBlock
    BY <1>1, <2>1, <2>2, <2>3, EntryFields DEF Cur
  <2>5. Reach(f) = 0 /\ Written(f) <= Reach(f)
    BY <1>1, <2>1, <2>2, ReachFacts DEF SavedInv, Histories
  <2>6. Written(f)' = 0
    <3>1. Written(f) = 0
      BY <1>2, <2>5
    <3> QED BY <2>1, <3>1 DEF Written
  <2> QED BY <2>4, <2>6, ReadNothing
<1>5. ASSUME op.pc \notin After, op'.pc \notin After, content' = content, saved'[f] = saved[f],
             Written(f) = 0 \/ (entries'[f].key = entries[f].key /\ entries'[f].blocks = entries[f].blocks),
             entries'[f].ind \in {NoBlock, entries[f].ind}
      PROVE  Reads(f)'
  <2>1. Cur(f) = entries[f] /\ Cur(f)' = entries'[f] /\ Written(f)' = Written(f)
    BY <1>5 DEF Cur, Written
  <2>2. CASE Written(f) = 0
    <3>1. \A k \in 1 .. Written(f)' : FALSE
      BY <2>1, <2>2
    <3> QED BY <1>2, <1>5, <2>1, <2>2, <3>1, ReadsKept
  <2>3. CASE entries'[f].key = entries[f].key /\ entries'[f].blocks = entries[f].blocks
    BY <1>2, <1>5, <2>1, <2>3, ReadsKept
  <2> QED BY <1>5, <2>2, <2>3
<1>6. ASSUME NEW d \in Ents, NEW n \in Names, NEW ty \in {"FILE", "DIR"},
             Create(d, n, ty) \/ CreateEncrypted(d, n, ty)
      PROVE  Reads(f)'
  <2>1. /\ op.pc = "idle" /\ op'.pc \in {"idle", "seal"} /\ saved' = saved /\ content' = content
    BY <1>6, CreateFacts DEF Sealing
  <2>2. PICK e \in Ents : Added(e, NewEntry(d, n, ty))
    BY <1>6, CreateFacts
  <2>3. CASE f = e
    <3>1. entries[f].blocks = <<>> /\ entries'[f].ind = NoBlock
      BY <2>2, <2>3, EntryFields DEF Added, EntriesInv
    <3>2. Reach(f) = 0 /\ Written(f) <= Reach(f)
      BY <2>1, <3>1, ReachFacts DEF SavedInv, Histories, After
    <3>3. Written(f) = 0
      BY <1>2, <3>2
    <3> QED BY <1>5, <2>1, <3>1, <3>3 DEF After
  <2>4. CASE f # e
    BY <1>5, <2>1, <2>2, <2>4 DEF Added, After
  <2> QED BY <2>3, <2>4
<1>7. CASE SealEntry
  <2>1. /\ op.pc = "seal" /\ op' = Idle /\ saved' = saved /\ content' = content /\ op.ent \in Ents
        /\ entries' = [entries EXCEPT ![op.ent] = Sealed(entries[op.ent])]
        /\ entries[op.ent] \in EntryType
    BY <1>7, Typed DEF SealEntry, history
  <2>2. /\ entries'[op.ent] = [entries[op.ent] EXCEPT !.key = op.key]
        /\ \A x \in Ents \ {op.ent} : entries'[x] = entries[x]
    BY <2>1 DEF Types, TypeOK, Sealed
  <2>3. entries'[op.ent].ind = entries[op.ent].ind
    <3>1. entries[op.ent] \in EntryType
      BY <2>1
    <3> HIDE <2>1
    <3> QED BY <3>1, <2>2 DEF EntryType
  <2>4. CASE f = op.ent
    <3>1. entries[f].blocks = <<>>
      BY <2>1, <2>4 DEF SealInv
    <3>2. Reach(f) = 0 /\ Written(f) <= Reach(f)
      BY <2>1, <3>1, ReachFacts DEF SavedInv, Histories, After
    <3>3. Written(f) = 0
      BY <1>2, <3>2
    <3>4. op.pc \notin After /\ op'.pc \notin After
      BY <1>1, <2>1 DEF After
    <3> QED BY <1>5, <2>1, <2>3, <2>4, <3>3, <3>4
  <2>5. CASE f # op.ent
    <3>1. op.pc \notin After /\ op'.pc \notin After /\ entries'[f] = entries[f]
      BY <1>1, <2>1, <2>2, <2>5 DEF After
    <3> QED BY <1>5, <2>1, <3>1
  <2> QED BY <2>4, <2>5
<1>8. ASSUME NEW g \in Ents, NEW size \in 0 .. NumBlocks, Truncate(g, size)
      PROVE  Reads(f)'
  <2>1. /\ op.pc = "idle" /\ op' = op /\ content' = content /\ size <= entries[g].size
        /\ entries' = [entries EXCEPT ![g].size = size]
        /\ saved' = [saved EXCEPT ![g] = SubSeq(saved[g], 1, size)]
        /\ entries[g] \in EntryType
    BY <1>8, Typed DEF Truncate, Ready
  <2>2. /\ entries'[g] = [entries[g] EXCEPT !.size = size]
        /\ \A x \in Ents \ {g} : entries'[x] = entries[x]
        /\ saved'[g] = SubSeq(saved[g], 1, size) /\ saved[g] \in Seq(Record)
        /\ \A x \in Ents \ {g} : saved'[x] = saved[x]
    BY <2>1 DEF Types, TypeOK
  <2>3. entries'[g].blocks = entries[g].blocks /\ entries'[g].ind = entries[g].ind
        /\ entries'[g].key = entries[g].key
    <3>1. entries[g] \in EntryType
      BY <2>1
    <3> HIDE <2>1
    <3> QED BY <3>1, <2>2 DEF EntryType
  <2>4. op.pc \notin After /\ op'.pc \notin After
    BY <2>1 DEF After
  <2>5. CASE f = g
    <3>1. size \in Nat /\ size <= Len(saved[g]) /\ Written(g) = Len(saved[g])
      BY <2>1, <2>4, Settled DEF Written
    <3>2. Written(g)' = size /\ \A k \in 1 .. size : saved'[g][k] = saved[g][k]
      BY <2>2, <3>1, CutFacts DEF Written
    <3>3. Cur(g) = entries[g] /\ Cur(g)' = entries'[g]
      BY <2>4 DEF Cur
    <3> QED BY <1>2, <2>1, <2>3, <2>5, <3>1, <3>2, <3>3, ReadsKept
  <2>6. CASE f # g
    BY <1>5, <2>1, <2>2, <2>4, <2>6
  <2> QED BY <2>5, <2>6
<1>9. ASSUME NEW g \in Ents, NEW pos \in Nat, NEW end \in Nat, NEW last \in Nat,
             NEW key \in {NoKey, entries[g].key}, op' \in Writes(g, pos, end, last, key),
             UNCHANGED <<entries, saved, content>>, op.pc \notin After
      PROVE  Reads(f)'
  <2>1. key \in Nat
    BY Typed DEF NoKey
  <2>2. Begun(op', g, pos, end, last, key)
    BY <1>9, <2>1, WritesFacts
  <2>3. Cur(f)' = Cur(f)
    BY <1>9, <2>2 DEF Begun, Cur
  <2> QED BY <1>2, <1>9, <2>3, ReadsSame
<1>10. ASSUME NEW g \in Ents, NEW pos \in 0 .. NumBlocks, NEW len \in 1 .. MaxLen,
             BeginWrite(g, pos, len) \/ BeginWriteEncrypted(g, pos, len)
      PROVE  Reads(f)'
  <2>1. PICK end \in Nat, last \in Nat, key \in {NoKey, entries[g].key} :
          pos < end /\ op' \in Writes(g, pos, end, last, key)
    BY <1>10, BeginWriteFacts
  <2>2. UNCHANGED <<entries, saved, content>> /\ op.pc = "idle"
    BY <1>10, BeginWriteFacts
  <2>3. op.pc \notin After
    BY <2>2 DEF After
  <2> QED BY <1>9, <2>1, <2>2, <2>3
<1>11. ASSUME UNCHANGED <<entries, saved, content>>, op.pc \notin After, op'.pc \notin After
       PROVE  Reads(f)'
  BY <1>2, <1>11, ReadsSame DEF Cur
<1>12. CASE NextChunk
  <2>1. /\ UNCHANGED <<entries, saved, content>> /\ op.ent \in Ents /\ op.end \in Nat
        /\ op.pc = "chunk"
    BY <1>12, NextChunkFacts, Typed
  <2>2. op.pc \notin After
    BY <2>1 DEF After
  <2>3. CASE op' = Idle
    BY <1>1, <1>11, <2>1, <2>2, <2>3
  <2>4. CASE \E end \in Nat, last \in Nat, key \in {NoKey, entries[op.ent].key} :
                 op.end < end /\ op' \in Writes(op.ent, op.end, end, last, key)
    BY <1>9, <2>1, <2>2, <2>4
  <2> QED BY <1>12, <2>3, <2>4, NextChunkFacts
<1>13. CASE AllocBit
  BY <1>11, <1>13, AllocBitFacts DEF After, Moves, Step
<1>14. CASE AppendDirect \/ AppendIndexed
  BY <1>2, <1>14, ReadAppend
<1>15. CASE AppendRefused
  BY <1>11, <1>15, RefusedFacts DEF After, Moves, Step
<1>16. CASE AllocIndex
  BY <1>11, <1>16, AllocIndexFacts DEF After, Moves, Step
<1>17. CASE ZeroIndex
  <2>1. /\ op.pc = "zero" /\ op'.pc = "append" /\ entries' = entries /\ saved' = saved
        /\ content' = [content EXCEPT ![op.img.ind] = Index] /\ used \subseteq Blocks
    BY <1>17, ZeroIndexFacts, Typed DEF Moves, Step
  <2>2. op.img.ind \in Blocks /\ op.img.ind \notin OwnedBy(entries[f])
    BY <2>1 DEF WriteInv, BeforeInv
  <2>3. Cur(f)' = entries[f] /\ Cur(f) = entries[f]
    BY <2>1 DEF Cur, After
  <2> QED BY <1>2, <2>1, <2>2, <2>3, ReadsOther
<1>18. CASE WriteData
  BY <1>2, <1>18, ReadWritten
<1>19. CASE WriteEntry
  <2>1. PICK g \in Ents : g = op.ent
    BY Typed
  <2>2. op.pc = "entry" /\ saved' = saved /\ content' = content /\ (op' = Idle \/ op'.pc = "chunk")
    BY <1>19, WriteEntryFacts DEF Step
  <2>3. /\ entries'[g].blocks = op.img.blocks /\ entries'[g].ind = op.img.ind
        /\ entries'[g].key = op.img.key
        /\ \A x \in Ents \ {g} : entries'[x] = entries[x]
    BY <1>19, <2>1, WriteEntryFacts DEF SameHead
  <2>4. op.img.key = entries[g].key
    BY <2>1, <2>2 DEF WriteInv, Writing, After
  <2>5. op'.pc \notin After
    BY <1>1, <2>2 DEF After
  <2>6. Cur(f)' = entries'[f] /\ Written(f)' = Written(f)
    BY <2>2, <2>5 DEF Cur, Written
  <2>7. CASE f = g
    <3>1. Cur(f) = op.img
      BY <2>1, <2>2, <2>7 DEF Cur, After
    <3>2. entries'[f].key = entries[f].key /\ Cur(f)'.ind = Cur(f).ind
          /\ Cur(f)'.blocks = Cur(f).blocks
      BY <2>3, <2>4, <2>6, <2>7, <3>1
    <3> QED BY <1>2, <2>2, <2>6, <3>2, ReadsKept
  <2>8. CASE f # g
    <3>1. Cur(f)' = Cur(f) /\ entries'[f].key = entries[f].key
      BY <2>1, <2>3, <2>6, <2>8 DEF Cur
    <3>2. /\ \A k \in 1 .. Written(f)' :
               /\ saved'[f][k] = saved[f][k]
               /\ content'[Cur(f)'.blocks[k]] = content[Cur(f).blocks[k]]
          /\ Cur(f)'.ind = Cur(f).ind /\ content'[Cur(f).ind] = content[Cur(f).ind]
      BY <2>2, <3>1
    <3>3. Written(f)' \in Nat /\ Written(f)' <= Written(f)
      BY <1>2, <2>6
    <3> QED BY <1>2, <3>1, <3>2, <3>3, ReadsKept
  <2> QED BY <2>7, <2>8
<1>20. CASE Undo
  <2>1. op.pc = "undo" /\ UNCHANGED <<entries, saved, content>> /\ op'.pc \in {"idle", "undo"}
    BY <1>1, <1>20, UndoFacts DEF Step
  <2> QED BY <1>11, <2>1 DEF After
<1>21. ASSUME NEW e \in Ents, BeginDelete(e) PROVE Reads(f)'
  <2>1. op.pc = "idle" /\ UNCHANGED <<entries, saved, content>> /\ op'.pc \in {"free", "clear"}
    BY <1>21, BeginDeleteFacts
  <2> QED BY <1>11, <2>1 DEF After
<1>22. CASE FreeBit
  <2>1. op.pc = "free" /\ UNCHANGED <<entries, saved, content>> /\ op'.pc \in {"free", "clear"}
    BY <1>22, FreeBitFacts DEF Step
  <2> QED BY <1>11, <2>1 DEF After
<1>23. CASE ClearEntry
  <2>1. PICK g \in Ents : g = op.ent
    BY Typed
  <2>2. /\ op.pc = "clear" /\ op' = Idle /\ content' = content
        /\ entries'[g] = Free /\ \A x \in Ents \ {g} : entries'[x] = entries[x]
        /\ saved'[g] = <<>> /\ \A x \in Ents \ {g} : saved'[x] = saved[x]
    BY <1>23, <2>1 DEF ClearEntry, Step, Types, TypeOK
  <2>3. Cur(f)' = entries'[f] /\ Cur(f) = entries[f]
    BY <1>1, <2>2 DEF Cur, After
  <2>4. CASE f = g
    <3>1. Written(f)' = 0 /\ Cur(f)'.ind = NoBlock
      BY <2>2, <2>3, <2>4, EntryFields, Len(<<>>) = 0 DEF Written
    <3> QED BY <3>1, ReadNothing
  <2>5. CASE f # g
    <3>1. Written(f)' = Written(f)
      BY <2>2, <2>5 DEF Written
    <3> QED BY <1>2, <2>2, <2>3, <2>5, <3>1, ReadsKept
  <2> QED BY <2>4, <2>5
<1>24. CASE Crash
  BY <1>1, <1>2, <1>24, ReadCut DEF Crash, disk
<1>25. CASE DeviceError
  <2>1. /\ UNCHANGED <<entries, content>> /\ saved' = Forgotten /\ op'.pc \in {"undo", "idle"}
    BY <1>1, <1>25, ErrorFacts
  <2> QED BY <1>2, <2>1, ReadCut DEF After
<1> HIDE DEF SavedInv, Types, WriteInv, EntriesInv, BootInv, FilesInv, RunInv, BeforeInv,
             AfterInv, FreeInv, SpaceInv, SealInv
<1> QED
  BY <1>3, <1>4, <1>6, <1>7, <1>8, <1>10, <1>12, <1>13, <1>14, <1>15, <1>16, <1>17, <1>18,
     <1>19, <1>20, <1>21, <1>22, <1>23, <1>24, <1>25 DEF Next

DataCore == SpaceCore /\ ReadInv

LEMMA DataCoreNext ==
  ASSUME DataCore, [Next]_vars
  PROVE  DataCore'
<1>1. SpaceCore'
  BY SpaceCoreNext DEF DataCore
<1>2. ReadInv'
  BY ReadNext DEF DataCore, SpaceCore, CoreInv
<1> QED BY <1>1, <1>2 DEF DataCore

(* vtx2_read gives back what vtx2_write and vtx2_write_encrypted last put  *)
(* at each position of a file, wherever the writes started, the index block*)
(* of a file is intact, and no file is longer than its blocks, whatever was*)
(* written, truncated or stopped in the meantime, until a delete that had  *)
(* already freed blocks is interrupted.                                    *)
THEOREM FilesReadBack == Spec => []ReadsBack
<1>1. DataCore => ReadsBack
  <2> SUFFICES ASSUME DataCore, ~torn, NEW f \in Files
               PROVE  /\ entries[f].size <= Len(entries[f].blocks)
                      /\ \A k \in 1 .. entries[f].size :
                           k <= Len(saved[f]) /\ saved[f][k].val # 0 =>
                             Matches(content[entries[f].blocks[k]], saved[f][k],
                                     entries[f].key, k - 1)
                      /\ entries[f].ind # NoBlock => content[entries[f].ind] = Index
    BY DEF ReadsBack, Matches
  <2>1. f \in Ents /\ Types /\ WriteInv /\ SavedInv /\ EntriesInv /\ Reads(f)
    BY DEF Files, DataCore, SpaceCore, CoreInv, ReadInv
  <2>2. /\ entries[f].size <= Len(entries[f].blocks) /\ entries[f].size \in Nat
        /\ Len(entries[f].blocks) \in Nat /\ Written(f) \in Nat
    BY <2>1, Typed, ReachFacts DEF EntriesInv
  <2>3. /\ \A k \in 1 .. Len(entries[f].blocks) : Cur(f).blocks[k] = entries[f].blocks[k]
        /\ Cur(f).ind # entries[f].ind => entries[f].ind = NoBlock
    BY <2>1 DEF Cur, WriteInv, Writing, After
  <2>4. ASSUME NEW k \in 1 .. entries[f].size, k <= Len(saved[f]), saved[f][k].val # 0
        PROVE  Matches(content[entries[f].blocks[k]], saved[f][k], entries[f].key, k - 1)
    <3>1. k \in 1 .. Written(f) /\ k \in 1 .. Len(entries[f].blocks)
      <4>1. k <= Written(f)
        BY <2>4 DEF Written
      <4> QED BY <2>2, <4>1
    <3> QED BY <2>1, <2>3, <2>4, <3>1 DEF Reads
  <2>5. entries[f].ind # NoBlock => content[entries[f].ind] = Index
    BY <2>1, <2>3 DEF Reads
  <2> QED BY <2>2, <2>4, <2>5
<1>2. Init => DataCore
  <2> SUFFICES ASSUME Init PROVE ReadInv
    BY InitCore, InitSpace DEF DataCore, SpaceCore
  <2>1. op.pc = "idle" /\ \A e \in Ents : entries[e] = Garbage /\ saved[e] = <<>>
    BY DEF Init, Idle
  <2>2. \A e \in Ents : Cur(e).ind = NoBlock /\ Written(e) = 0
    BY <2>1, Len(<<>>) = 0 DEF Cur, After, Written, Garbage, Free
  <2>3. ASSUME NEW e \in Ents PROVE Reads(e)
    BY <2>2 DEF Reads
  <2> QED BY <2>3 DEF ReadInv
<1> QED BY <1>1, <1>2, DataCoreNext, PTL DEF Spec

-----------------------------------------------------------------------------
(* The space that is in use.                                               *)

Accounted(b) == HeldByOp(b) \/ \E e \in Ents : b \in OwnedBy(entries[e])

LEMMA NothingHeld ==
  ASSUME op.pc \notin Before \cup After \cup {"undo"}
  PROVE  \A b : ~HeldByOp(b)
BY DEF HeldByOp, Writing

(* A step that does not touch the bitmap, and begins or ends an operation. *)
LEMMA LeakKept ==
  ASSUME \A b \in used : \E e \in Ents : b \in OwnedBy(entries[e]), used' = used,
         \A e \in Ents : Kept(e) \/ OwnedBy(entries[e]) = {}
  PROVE  \A b \in used' : Accounted(b)'
<1>1. ASSUME NEW b \in used' PROVE \E e \in Ents : b \in OwnedBy(entries'[e])
  <2>1. PICK e \in Ents : b \in OwnedBy(entries[e])
    OBVIOUS
  <2>2. Kept(e)
    BY <2>1
  <2>3. OwnedBy(entries'[e]) = OwnedBy(entries[e])
    BY <2>2, OwnedFacts DEF Kept
  <2> QED BY <2>1, <2>3
<1> QED BY <1>1 DEF Accounted

LEMMA ImageGrows ==
  ASSUME Types, WriteInv, op.pc \in After
  PROVE  OwnedBy(entries[op.ent]) \subseteq OwnedBy(op.img)
<1>1. PICK e : e = entries[op.ent]
  OBVIOUS
<1>2. /\ e.blocks \in Seq(Blocks) /\ op.img.blocks \in Seq(Blocks)
      /\ Len(e.blocks) \in Nat /\ Len(op.img.blocks) \in Nat
  BY <1>1, Typed, LenProperties DEF EntryType
<1>3. /\ Len(e.blocks) <= Len(op.img.blocks)
      /\ \A k \in 1 .. Len(e.blocks) : op.img.blocks[k] = e.blocks[k]
      /\ op.img.ind # e.ind => e.ind = NoBlock
  BY <1>1 DEF WriteInv, Writing
<1>4. DOMAIN e.blocks = 1 .. Len(e.blocks) /\ DOMAIN op.img.blocks = 1 .. Len(op.img.blocks)
  BY <1>2, LenProperties
<1>5. \A k \in 1 .. Len(e.blocks) : k \in 1 .. Len(op.img.blocks)
  <2>1. PICK n, m : n = Len(e.blocks) /\ m = Len(op.img.blocks)
    OBVIOUS
  <2>2. n \in Nat /\ m \in Nat /\ n <= m
    BY <1>2, <1>3, <2>1, Zenon
  <2>3. \A k \in 1 .. n : k \in 1 .. m
    BY <2>2
  <2> QED BY <2>1, <2>3, Zenon
<1>6. InFile(e) \subseteq InFile(op.img)
  BY <1>3, <1>4, <1>5 DEF InFile
<1> QED BY <1>1, <1>3, <1>6 DEF OwnedBy

LEMMA LeakNext ==
  ASSUME Types, BootInv, EntriesInv, WriteInv, SavedInv, SpaceInv, LeakInv, [Next]_vars
  PROVE  LeakInv'
<1> DEFINE A == \A b \in used : Accounted(b)
           C == op.pc = "clear" => used \cap OwnedBy(entries[op.ent]) = {}
           F == op.pc = "free" => used \cap OwnedBy(entries[op.ent]) \subseteq Held(op.run)
<1>1. Idle.pc = "idle"
  BY DEF Idle
<1>2. CASE Crash \/ DeviceError
  BY <1>2 DEF Crash, DeviceError, LeakInv
<1>3. CASE ~(Crash \/ DeviceError)
  <2>1. torn' = torn /\ failed' = failed
    BY <1>3 DEF Next, Boot, FormatStage, Create, CreateEncrypted, SealEntry, Truncate,
           BeginWrite, BeginWriteEncrypted, NextChunk, AllocBit, AppendDirect, AppendRefused,
           AllocIndex, ZeroIndex, AppendIndexed, WriteData, WriteEntry, Undo, BeginDelete,
           FreeBit, ClearEntry, Later, history, vars
  <2> SUFFICES ASSUME super', ~failed, ~torn PROVE (A /\ C /\ F)'
    BY <2>1 DEF LeakInv, Accounted
  <2>2. FilesInv /\ RunInv /\ BeforeInv /\ AfterInv /\ FreeInv
    BY DEF SpaceInv
  <2>3. super => A /\ C /\ F
    BY DEF LeakInv, Accounted
  <2>4. ASSUME op'.pc \notin Deletes PROVE C' /\ F'
    BY <2>4 DEF Deletes
  <2>5. phase = Mounted => super
    BY DEF BootInv
  <2> HIDE DEF A, C, F
  <2>6. ASSUME A, op.pc \notin Before \cup After \cup {"undo"}
        PROVE  \A b \in used : \E e \in Ents : b \in OwnedBy(entries[e])
    BY <2>6, NothingHeld DEF A, Accounted
  <2>7. CASE UNCHANGED vars \/ Boot
    <3>1. UNCHANGED <<entries, used, op, super>>
      BY <2>7 DEF vars, disk, history, counters, Boot
    <3> QED BY <2>3, <3>1 DEF A, C, F, Accounted, HeldByOp
  <2>8. CASE FormatStage
    <3>1. phase \in 1 .. 4 /\ op' = Idle /\ ~super
      BY <2>8, Constants0 DEF FormatStage, BootInv, history
    <3>2. /\ Stages[1] = "table" /\ Stages[2] = "root" /\ Stages[3] = "bitmap"
          /\ Stages[4] = "super"
      BY DEF Stages
    <3>3. phase = 4
      <4>1. Stages[phase] = "super"
        BY <2>8, <3>1 DEF FormatStage
      <4> QED BY <3>1, <3>2, <4>1
    <3>4. used' = {}
      BY <2>8, <3>2, <3>3 DEF FormatStage, BootInv
    <3> QED BY <1>1, <2>4, <3>1, <3>4 DEF A, Deletes
  <2>9. ASSUME op.pc \in {"idle", "seal", "chunk"}, op'.pc \notin Deletes, phase = Mounted,
               used' = used, \A e \in Ents : Kept(e) \/ OwnedBy(entries[e]) = {}
        PROVE  (A /\ C /\ F)'
    <3>1. \A b \in used : \E e \in Ents : b \in OwnedBy(entries[e])
      BY <2>3, <2>5, <2>6, <2>9 DEF Before, After
    <3>2. A'
      BY <2>9, <3>1, LeakKept DEF A
    <3> QED BY <2>4, <2>9, <3>2
  <2>10. ASSUME NEW d \in Ents, NEW n \in Names, NEW ty \in {"FILE", "DIR"},
                Create(d, n, ty) \/ CreateEncrypted(d, n, ty)
         PROVE  (A /\ C /\ F)'
    <3>1. /\ op.pc = "idle" /\ op'.pc \in {"idle", "seal"} /\ used' = used /\ phase = Mounted
      BY <2>10, CreateFacts DEF Sealing
    <3>2. PICK e \in Ents : Added(e, NewEntry(d, n, ty))
      BY <2>10, CreateFacts
    <3>3. OwnedBy(entries[e]) = {} /\ \A x \in Ents \ {e} : Kept(x)
      BY <3>2, OwnedFacts DEF Added, EntriesInv, Kept
    <3> QED BY <2>9, <3>1, <3>3 DEF Deletes
  <2>11. CASE SealEntry
    <3>1. /\ op.pc = "seal" /\ op' = Idle /\ used' = used /\ op.ent \in Ents /\ phase = Mounted
          /\ entries' = [entries EXCEPT ![op.ent] = Sealed(entries[op.ent])]
          /\ entries[op.ent] \in EntryType
      BY <2>11, Typed DEF SealEntry, history
    <3>2. /\ entries'[op.ent] = [entries[op.ent] EXCEPT !.key = op.key]
          /\ \A x \in Ents \ {op.ent} : entries'[x] = entries[x]
      BY <3>1 DEF Types, TypeOK, Sealed
    <3>3. entries'[op.ent].blocks = entries[op.ent].blocks
          /\ entries'[op.ent].ind = entries[op.ent].ind
      <4>1. entries[op.ent] \in EntryType
        BY <3>1
      <4> HIDE <3>1
      <4> QED BY <4>1, <3>2 DEF EntryType
    <3>4. \A x \in Ents : Kept(x)
      BY <3>2, <3>3 DEF Kept
    <3> QED BY <1>1, <2>9, <3>1, <3>4 DEF Deletes
  <2>12. ASSUME NEW f \in Ents, NEW size \in 0 .. NumBlocks, Truncate(f, size)
         PROVE  (A /\ C /\ F)'
    <3>1. /\ op.pc = "idle" /\ op' = op /\ used' = used /\ phase = Mounted
          /\ entries' = [entries EXCEPT ![f].size = size]
          /\ entries[f] \in EntryType
      BY <2>12, Typed DEF Truncate, Ready
    <3>2. /\ entries'[f] = [entries[f] EXCEPT !.size = size]
          /\ \A x \in Ents \ {f} : entries'[x] = entries[x]
      BY <3>1 DEF Types, TypeOK
    <3>3. entries'[f].blocks = entries[f].blocks /\ entries'[f].ind = entries[f].ind
      <4>1. entries[f] \in EntryType
        BY <3>1
      <4> HIDE <3>1
      <4> QED BY <4>1, <3>2 DEF EntryType
    <3>4. \A x \in Ents : Kept(x)
      BY <3>2, <3>3 DEF Kept
    <3> QED BY <2>9, <3>1, <3>4 DEF Deletes
  <2>13. ASSUME NEW f \in Ents, NEW pos \in Nat, NEW end \in Nat, NEW last \in Nat,
                NEW key \in {NoKey, entries[f].key}, op' \in Writes(f, pos, end, last, key)
         PROVE  op'.pc \notin Deletes
    <3>1. key \in Nat
      BY Typed DEF NoKey
    <3>2. Begun(op', f, pos, end, last, key)
      BY <2>13, <3>1, WritesFacts
    <3> QED BY <3>2 DEF Begun, Deletes
  <2>14. ASSUME NEW f \in Ents, NEW pos \in 0 .. NumBlocks, NEW len \in 1 .. MaxLen,
               BeginWrite(f, pos, len) \/ BeginWriteEncrypted(f, pos, len)
         PROVE  (A /\ C /\ F)'
    <3>1. PICK end \in Nat, last \in Nat, key \in {NoKey, entries[f].key} :
            pos < end /\ op' \in Writes(f, pos, end, last, key)
      BY <2>14, BeginWriteFacts
    <3>2. entries' = entries /\ used' = used /\ op.pc = "idle" /\ phase = Mounted
      BY <2>14, BeginWriteFacts
    <3> QED BY <2>9, <2>13, <3>1, <3>2 DEF Kept
  <2>15. CASE NextChunk
    <3>1. /\ entries' = entries /\ used' = used /\ op.ent \in Ents /\ op.end \in Nat
          /\ op.pc = "chunk" /\ phase = Mounted
      BY <2>15, NextChunkFacts, Typed
    <3>2. CASE op' = Idle
      BY <1>1, <2>9, <3>1, <3>2 DEF Kept, Deletes
    <3>3. CASE \E end \in Nat, last \in Nat, key \in {NoKey, entries[op.ent].key} :
                   op.end < end /\ op' \in Writes(op.ent, op.end, end, last, key)
      BY <2>9, <2>13, <3>1, <3>3 DEF Kept
    <3> QED BY <2>15, <3>2, <3>3, NextChunkFacts
  <2>16. ASSUME phase = Mounted, op'.pc \notin Deletes, entries' = entries,
                \A b \in used' : \/ HeldByOp(b)'
                                 \/ b \in used /\ (HeldByOp(b) => \E e \in Ents : b \in OwnedBy(entries[e]))
         PROVE  (A /\ C /\ F)'
    <3>1. A'
      BY <2>3, <2>5, <2>16 DEF A, Accounted
    <3> QED BY <2>4, <2>16, <3>1
  <2>17. CASE AllocBit
    <3>1. /\ op.pc = "alloc" /\ op'.img = op.img /\ op'.run = op.run /\ entries' = entries
          /\ phase = Mounted
      BY <2>17, AllocBitFacts DEF Moves, Step
    <3>2. PICK i \in Unset : used' = used \cup {op.run[i]} /\ op'.pc \in {"alloc", "append"}
      BY <2>17, AllocBitFacts DEF Moves
    <3>3. op.run[i] \in Held(op.run)
      BY DEF Unset, Held
    <3> QED BY <2>16, <3>1, <3>2, <3>3 DEF HeldByOp, Writing, Before, After, Deletes
  <2>18. CASE AppendDirect \/ AppendIndexed
    <3>1. /\ op.pc = "append" /\ op'.pc = "data" /\ op'.img = WithRun(op.img)
          /\ entries' = entries /\ used' = used /\ op.img \in EntryType
          /\ op.run \in Seq(Blocks) /\ phase = Mounted
      BY <2>18, AppendFacts, Typed DEF Moves, Step
    <3>2. OwnedBy(op'.img) = OwnedBy(op.img) \cup Held(op.run)
      BY <3>1, WithRunFacts
    <3> QED BY <2>16, <3>1, <3>2 DEF HeldByOp, Writing, Before, After, Deletes
  <2>19. CASE AppendRefused
    <3>1. /\ op.pc = "append" /\ op'.pc = "undo" /\ op'.run = op.run /\ op.ent \in Ents
          /\ entries' = entries /\ used' = used /\ (IndexFull \/ op.img.ind = NoBlock)
          /\ phase = Mounted
      BY <2>19, RefusedFacts, Typed DEF Moves, Step
    <3>2. OwnedBy(op.img) = OwnedBy(entries[op.ent])
      <4>1. /\ op.img.blocks = entries[op.ent].blocks
            /\ op.img.ind # entries[op.ent].ind => entries[op.ent].ind = NoBlock
            /\ NewIndex => ~IndexFull
        BY <3>1 DEF WriteInv, Writing, Before
      <4>2. op.img.ind = entries[op.ent].ind
        BY <3>1, <4>1 DEF NewIndex
      <4> QED BY <4>1, <4>2, OwnedFacts
    <3>3. ASSUME NEW b \in used'
          PROVE  \/ HeldByOp(b)'
                 \/ b \in used /\ (HeldByOp(b) => \E e \in Ents : b \in OwnedBy(entries[e]))
      <4>1. HeldByOp(b) => b \in Held(op.run) \/ b \in OwnedBy(entries[op.ent])
        BY <3>2 DEF HeldByOp
      <4>2. b \in Held(op.run) => HeldByOp(b)'
        BY <3>1 DEF HeldByOp
      <4>3. b \in used /\ op.ent \in Ents
        BY <3>1
      <4>4. CASE b \in Held(op.run)
        BY <4>2, <4>4
      <4>5. CASE b \notin Held(op.run)
        <5>1. HeldByOp(b) => \E e \in Ents : b \in OwnedBy(entries[e])
          BY <4>1, <4>3, <4>5
        <5> QED BY <4>3, <5>1
      <4> QED BY <4>4, <4>5
    <3>4. op'.pc \notin Deletes
      BY <3>1 DEF Deletes
    <3>5. phase = Mounted /\ entries' = entries
      BY <3>1
    <3> QED BY <2>16, <3>3, <3>4, <3>5
  <2>20. CASE AllocIndex
    <3>1. /\ op.pc = "append" /\ op'.pc = "zero" /\ op'.run = op.run
          /\ entries' = entries /\ op.img \in EntryType /\ op.img.ind = NoBlock
          /\ phase = Mounted
      BY <2>20, AllocIndexFacts, Typed DEF Moves, Step
    <3>2. PICK b \in Blocks \ used : used' = used \cup {b} /\ op'.img = [op.img EXCEPT !.ind = b]
      BY <2>20, AllocIndexFacts
    <3>3. op'.img.ind = b /\ op'.img.blocks = op.img.blocks
      BY <3>1, <3>2 DEF EntryType
    <3>4. OwnedBy(op.img) \subseteq OwnedBy(op'.img) /\ b \in OwnedBy(op'.img)
      BY <3>1, <3>3, Constants0 DEF OwnedBy, InFile
    <3> QED BY <2>16, <3>1, <3>2, <3>4 DEF HeldByOp, Writing, Before, After, Deletes
  <2>21. CASE ZeroIndex
    <3>1. /\ op.pc = "zero" /\ op'.pc = "append" /\ op'.run = op.run /\ op'.img = op.img
          /\ entries' = entries /\ used' = used /\ phase = Mounted
      BY <2>21, ZeroIndexFacts DEF Moves, Step
    <3> QED BY <2>16, <3>1 DEF HeldByOp, Writing, Before, After, Deletes
  <2>22. CASE WriteData
    <3>1. /\ op.pc = "data" /\ op'.pc \in {"data", "entry"} /\ op'.img = op.img
          /\ entries' = entries /\ used' = used /\ phase = Mounted
      BY <2>22, WriteDataFacts DEF Moves, Step
    <3> QED BY <2>16, <3>1 DEF HeldByOp, Writing, Before, After, Deletes
  <2>23. CASE WriteEntry
    <3>1. PICK g \in Ents : g = op.ent
      BY Typed
    <3>2. op.pc = "entry" /\ used' = used /\ (op' = Idle \/ op'.pc = "chunk") /\ phase = Mounted
      BY <2>23, WriteEntryFacts DEF Step
    <3>3. /\ entries'[g].blocks = op.img.blocks /\ entries'[g].ind = op.img.ind
          /\ \A x \in Ents \ {g} : entries'[x] = entries[x]
      BY <2>23, <3>1, WriteEntryFacts
    <3>4. OwnedBy(entries'[g]) = OwnedBy(op.img)
      BY <3>3, OwnedFacts
    <3>5. OwnedBy(entries[g]) \subseteq OwnedBy(op.img)
      BY <3>1, <3>2, ImageGrows DEF After
    <3>6. op'.pc \notin Deletes
      BY <1>1, <3>2 DEF Deletes
    <3>7. ASSUME NEW b \in used PROVE \E e \in Ents : b \in OwnedBy(entries'[e])
      <4>1. HeldByOp(b) \/ \E e \in Ents : b \in OwnedBy(entries[e])
        BY <2>3, <2>5, <3>2 DEF A, Accounted
      <4>2. CASE HeldByOp(b)
        BY <3>2, <3>4, <4>2 DEF HeldByOp, Before
      <4>3. CASE \E e \in Ents : b \in OwnedBy(entries[e])
        BY <3>3, <3>4, <3>5, <4>3
      <4> QED BY <4>1, <4>2, <4>3
    <3> QED BY <2>4, <3>2, <3>6, <3>7 DEF A, Accounted
  <2>24. CASE Undo
    <3>1. /\ op.pc = "undo" /\ used' = used \ {Head(op.run)} /\ op.run # <<>>
          /\ op.run \in Seq(Blocks) /\ entries' = entries /\ phase = Mounted
          /\ \/ op' = Idle /\ Len(op.run) = 1
             \/ op'.pc = "undo" /\ op'.run = Tail(op.run)
      BY <2>24, UndoFacts, Typed DEF Step
    <3>2. /\ Held(op.run) = Held(Tail(op.run)) \cup {Head(op.run)}
          /\ Len(op.run) = 1 => Held(op.run) = {Head(op.run)}
      BY <3>1, TailFacts
    <3>3. op'.pc \notin Deletes
      BY <1>1, <3>1 DEF Deletes
    <3>4. ASSUME NEW b \in used'
          PROVE  \/ HeldByOp(b)'
                 \/ b \in used /\ (HeldByOp(b) => \E e \in Ents : b \in OwnedBy(entries[e]))
      <4>1. b \in used /\ b # Head(op.run)
        BY <3>1
      <4>2. HeldByOp(b) => b \in Held(op.run)
        BY <3>1 DEF HeldByOp, Writing, Before, After
      <4>3. CASE op' = Idle /\ Len(op.run) = 1
        BY <3>2, <4>1, <4>2, <4>3
      <4>4. CASE op'.pc = "undo" /\ op'.run = Tail(op.run)
        BY <3>2, <4>1, <4>2, <4>4 DEF HeldByOp
      <4> QED BY <3>1, <4>3, <4>4
    <3> QED BY <2>16, <3>1, <3>3, <3>4
  <2>25. ASSUME NEW e \in Ents, BeginDelete(e) PROVE (A /\ C /\ F)'
    <3>1. /\ op.pc = "idle" /\ used' = used /\ entries' = entries /\ phase = Mounted
          /\ op'.ent = e /\ op'.run = BlocksToFree(entries[e])
          /\ \/ op'.pc = "clear" /\ op'.run = <<>>
             \/ op'.pc = "free"
      BY <2>25, BeginDeleteFacts
    <3>2. \A b \in used : \E x \in Ents : b \in OwnedBy(entries[x])
      BY <2>3, <2>5, <2>6, <3>1 DEF Before, After
    <3>3. A'
      BY <3>1, <3>2, LeakKept DEF A, Kept
    <3>4. Held(op'.run) = OwnedBy(entries[e])
      BY <2>2, <3>1, ToFreeFacts, Typed DEF FilesInv
    <3>5. Held(<<>>) = {}
      BY DOMAIN <<>> = {} DEF Held
    <3> QED BY <3>1, <3>3, <3>4, <3>5 DEF C, F
  <2>26. CASE FreeBit
    <3>1. /\ op.pc = "free" /\ used' = used \ {Head(op.run)} /\ op'.ent = op.ent
          /\ op'.run = Tail(op.run) /\ entries' = entries /\ phase = Mounted
          /\ \/ op'.pc = "clear" /\ Len(op.run) = 1
             \/ op'.pc = "free"
          /\ op.run \in Seq(Blocks) /\ op.run # <<>>
      BY <2>26, FreeBitFacts, Typed DEF Step, SameOp
    <3>2. /\ Held(op.run) = Held(Tail(op.run)) \cup {Head(op.run)}
          /\ Len(op.run) = 1 => Held(op.run) = {Head(op.run)}
      BY <3>1, TailFacts
    <3>3. used \cap OwnedBy(entries[op.ent]) \subseteq Held(op.run)
      BY <2>3, <2>5, <3>1 DEF F
    <3>4. \A b \in used : \E x \in Ents : b \in OwnedBy(entries[x])
      BY <2>3, <2>5, <2>6, <3>1 DEF Before, After
    <3>5. A'
      BY <3>1, <3>4 DEF A, Accounted
    <3>6. C' /\ F'
      BY <3>1, <3>2, <3>3 DEF C, F
    <3> QED BY <3>5, <3>6
  <2>27. CASE ClearEntry
    <3>1. PICK g \in Ents : g = op.ent
      BY Typed
    <3>2. /\ op.pc = "clear" /\ op' = Idle /\ used' = used /\ phase = Mounted
          /\ \A x \in Ents \ {g} : entries'[x] = entries[x]
      BY <2>27, <3>1 DEF ClearEntry, Step, Types, TypeOK
    <3>3. used \cap OwnedBy(entries[g]) = {}
      BY <2>3, <2>5, <3>1, <3>2 DEF C
    <3>4. \A b \in used : \E x \in Ents : b \in OwnedBy(entries[x])
      BY <2>3, <2>5, <2>6, <3>2 DEF Before, After
    <3>5. A'
      BY <3>2, <3>3, <3>4 DEF A, Accounted
    <3> QED BY <1>1, <2>4, <3>2, <3>5 DEF Deletes
  <2> HIDE DEF SavedInv, Types, WriteInv, EntriesInv, BootInv, SpaceInv, LeakInv
  <2> QED
    BY SMTT(60), <1>3, <2>7, <2>8, <2>10, <2>11, <2>12, <2>14, <2>15, <2>17, <2>18, <2>19, <2>20,
       <2>21, <2>22, <2>23, <2>24, <2>25, <2>26, <2>27 DEF Next
<1> QED BY <1>2, <1>3

LeakCore == SpaceCore /\ LeakInv

LEMMA LeakCoreNext ==
  ASSUME LeakCore, [Next]_vars
  PROVE  LeakCore'
<1>1. SpaceCore'
  BY SpaceCoreNext DEF LeakCore
<1>2. LeakInv'
  BY LeakNext DEF LeakCore, SpaceCore, CoreInv
<1> QED BY <1>1, <1>2 DEF LeakCore

(* No block is lost: as long as nothing has failed, vtx2_alloc_blocks, the *)
(* index blocks, the runs that are given back and vtx2_delete leave exactly*)
(* the files' blocks in the bitmap when they are done.                     *)
THEOREM NothingLeaks == Spec => []NoLeak
<1>1. LeakCore => NoLeak
  <2> SUFFICES ASSUME LeakCore, phase = Mounted, op.pc = "idle", ~failed
               PROVE  used = UNION {OwnedBy(entries[f]) : f \in Files}
    BY DEF NoLeak
  <2>1. Types /\ EntriesInv /\ FilesInv /\ super
    BY DEF LeakCore, SpaceCore, CoreInv, SpaceInv, LeakInv, BootInv
  <2>2. ASSUME NEW b \in used PROVE \E f \in Files : b \in OwnedBy(entries[f])
    <3>1. HeldByOp(b) \/ \E e \in Ents : b \in OwnedBy(entries[e])
      BY <2>1 DEF LeakCore, LeakInv
    <3>2. ~HeldByOp(b)
      BY NothingHeld DEF Before, After
    <3>3. PICK e \in Ents : b \in OwnedBy(entries[e])
      BY <3>1, <3>2
    <3>4. e \in Files
      BY <2>1, <3>3, OwnedFacts DEF EntriesInv, Files
    <3> QED BY <3>3, <3>4
  <2>3. ASSUME NEW f \in Files PROVE OwnedBy(entries[f]) \subseteq used
    BY <2>1, AllCovered DEF Files, Deletes
  <2> QED BY <2>2, <2>3
<1>2. Init => LeakCore
  BY InitCore, InitSpace DEF Init, LeakCore, SpaceCore, LeakInv
<1> QED BY <1>1, <1>2, LeakCoreNext, PTL DEF Spec

-----------------------------------------------------------------------------
(* The encrypted entries.                                                  *)

LEMMA SecretCount ==
  ASSUME Types
  PROVE  /\ IsFiniteSet(Unsealed) /\ Cardinality(Unsealed) \in Nat
         /\ crashes \in Nat /\ errors \in Nat
<1>1. NumEntries - 1 \in Int /\ 0 \in Int
  OBVIOUS
<1>2. IsFiniteSet(Ents)
  BY <1>1, FS_Interval DEF Ents
<1>3. Unsealed \in SUBSET Ents
  BY DEF Types, TypeOK, Unsealed
<1>4. IsFiniteSet(Unsealed)
  BY <1>2, <1>3, FS_Subset
<1> QED BY <1>4, FS_CardinalityType DEF Types, TypeOK

LEMMA Bookkeeping ==
  ASSUME NEW a \in Nat, NEW b \in Nat, NEW c \in Nat, NEW x \in Nat, NEW y \in Nat,
         NEW d \in Nat, NEW s \in {0, 1}, NEW t \in {0, 1},
         c <= a + b + s, d <= c, a + b <= x + y, s = 0 \/ t = 1 \/ a + b + 1 <= x + y
  PROVE  d <= x + y + t
OBVIOUS

(* A step after which no more entries are unsealed, beyond those that the  *)
(* failure it counts accounts for.                                         *)
LEMMA SecretKept ==
  ASSUME Types, SecretInv, Unsealed' \subseteq Unsealed,
         \A e \in secret' : entries'[e].type # "FREE",
         crashes' \in Nat, errors' \in Nat, crashes + errors <= crashes' + errors',
         \/ op.pc # "seal" \/ op'.pc = "seal"
         \/ crashes + errors + 1 <= crashes' + errors'
  PROVE  SecretInv'
<1>1. /\ IsFiniteSet(Unsealed) /\ Cardinality(Unsealed) \in Nat
      /\ crashes \in Nat /\ errors \in Nat
  BY SecretCount
<1>2. Cardinality(Unsealed') <= Cardinality(Unsealed) /\ Cardinality(Unsealed') \in Nat
  <2>1. Unsealed' \in SUBSET Unsealed
    OBVIOUS
  <2>2. IsFiniteSet(Unsealed') /\ Cardinality(Unsealed') <= Cardinality(Unsealed)
    BY <1>1, <2>1, FS_Subset
  <2> QED BY <2>2, FS_CardinalityType
<1>3. Cardinality(Unsealed) <= crashes + errors + (IF op.pc = "seal" THEN 1 ELSE 0)
  BY DEF SecretInv
<1> DEFINE c == Cardinality(Unsealed)
           d == Cardinality(Unsealed')
<1> HIDE DEF c, d
<1>4. d <= crashes' + errors' + (IF op'.pc = "seal" THEN 1 ELSE 0)
  <2>1. c \in Nat /\ d \in Nat /\ d <= c /\ c <= crashes + errors + (IF op.pc = "seal" THEN 1 ELSE 0)
    BY <1>1, <1>2, <1>3 DEF c, d
  <2> DEFINE sealing(pc) == IF pc = "seal" THEN 1 ELSE 0
  <2>2. /\ sealing(op.pc) \in {0, 1} /\ sealing(op'.pc) \in {0, 1}
        /\ op.pc # "seal" => sealing(op.pc) = 0
        /\ op'.pc = "seal" => sealing(op'.pc) = 1
    OBVIOUS
  <2>3. c <= crashes + errors + sealing(op.pc)
    BY <2>1
  <2> HIDE DEF sealing
  <2>4. d <= crashes' + errors' + sealing(op'.pc)
    BY <1>1, <2>1, <2>2, <2>3, Bookkeeping
  <2> QED BY <2>4 DEF sealing
<1> QED BY <1>4 DEF SecretInv, d

LEMMA SecretNext ==
  ASSUME Types, BootInv, EntriesInv, WriteInv, SavedInv, SealInv, SecretInv, [Next]_vars
  PROVE  SecretInv'
<1>1. /\ IsFiniteSet(Unsealed) /\ Cardinality(Unsealed) \in Nat
      /\ crashes \in Nat /\ errors \in Nat
  BY SecretCount
<1>2. Idle.pc = "idle"
  BY DEF Idle
<1>3. \A e \in secret : e \in Ents /\ entries[e].type # "FREE"
  BY DEF SecretInv, Types, TypeOK
<1>4. ASSUME crashes' = crashes, errors' = errors PROVE /\ crashes' \in Nat /\ errors' \in Nat
                                                        /\ crashes + errors <= crashes' + errors'
  BY <1>1, <1>4
<1>5. ASSUME entries' = entries, secret' = secret
      PROVE  Unsealed' \subseteq Unsealed /\ \A e \in secret' : entries'[e].type # "FREE"
  BY <1>3, <1>5 DEF Unsealed
<1>6. ASSUME UNCHANGED <<entries, secret, crashes, errors>>, op.pc # "seal" \/ op' = op
      PROVE  SecretInv'
  BY <1>4, <1>5, <1>6, SecretKept
<1>7. CASE UNCHANGED vars \/ Boot
  BY <1>6, <1>7 DEF vars, disk, history, counters, Boot
<1>8. CASE FormatStage
  <2>1. /\ op' = Idle /\ op = Idle /\ ~super /\ secret' = secret /\ phase \in 1 .. 4
        /\ crashes' = crashes /\ errors' = errors
    BY <1>8, Constants0 DEF FormatStage, BootInv, history, counters
  <2>2. secret = {}
    BY <2>1 DEF BootInv
  <2>3. Unsealed' \subseteq Unsealed /\ \A e \in secret' : entries'[e].type # "FREE"
    BY <2>1, <2>2 DEF Unsealed
  <2> QED BY <1>2, <1>4, <2>1, <2>3, SecretKept
<1>9. ASSUME NEW d \in Ents, NEW n \in Names, NEW ty \in {"FILE", "DIR"},
             Create(d, n, ty) \/ CreateEncrypted(d, n, ty)
      PROVE  SecretInv'
  <2>1. op.pc = "idle" /\ crashes' = crashes /\ errors' = errors
    BY <1>9, CreateFacts
  <2>2. PICK e \in Ents : /\ Added(e, NewEntry(d, n, ty))
                          /\ (op' = op /\ secret' = secret) \/ Sealing(e)
    BY <1>9, CreateFacts
  <2>3. e \notin secret /\ entries'[e].type # "FREE"
    BY <1>3, <2>2, EntryFields DEF Added
  <2>4. \A x \in secret : entries'[x] = entries[x]
    BY <1>3, <2>2, <2>3 DEF Added
  <2>5. CASE op' = op /\ secret' = secret
    <3>1. Unsealed' \subseteq Unsealed /\ \A x \in secret' : entries'[x].type # "FREE"
      BY <1>3, <2>4, <2>5 DEF Unsealed
    <3> QED BY <1>4, <2>1, <3>1, SecretKept
  <2>6. CASE Sealing(e)
    <3>1. op'.pc = "seal" /\ secret' = secret \cup {e}
      BY <2>6 DEF Sealing
    <3>2. Unsealed' \subseteq Unsealed \cup {e}
      BY <2>4, <3>1 DEF Unsealed
    <3>3. \A x \in secret' : entries'[x].type # "FREE"
      BY <1>3, <2>3, <2>4, <3>1
    <3>4. IsFiniteSet(Unsealed \cup {e}) /\ Cardinality(Unsealed \cup {e}) <= Cardinality(Unsealed) + 1
      <4>1. /\ IsFiniteSet(Unsealed \cup {e})
            /\ Cardinality(Unsealed \cup {e}) =
                 IF e \in Unsealed THEN Cardinality(Unsealed) ELSE Cardinality(Unsealed) + 1
        BY <1>1, FS_AddElement
      <4> QED BY <1>1, <4>1
    <3>5. /\ Cardinality(Unsealed') <= Cardinality(Unsealed \cup {e})
          /\ Cardinality(Unsealed') \in Nat /\ Cardinality(Unsealed \cup {e}) \in Nat
      <4>1. Unsealed' \in SUBSET (Unsealed \cup {e})
        BY <3>2
      <4>2. IsFiniteSet(Unsealed') /\ Cardinality(Unsealed') <= Cardinality(Unsealed \cup {e})
        BY <3>4, <4>1, FS_Subset
      <4> QED BY <3>4, <4>2, FS_CardinalityType
    <3>6. Cardinality(Unsealed) <= crashes + errors
      <4> DEFINE c == Cardinality(Unsealed)
      <4>1. c <= crashes + errors + 0
        BY <2>1 DEF SecretInv
      <4> HIDE DEF c
      <4>2. c <= crashes + errors
        BY <1>1, <4>1
      <4> QED BY <4>2 DEF c
    <3>7. Cardinality(Unsealed') <= crashes' + errors' + 1
      <4> DEFINE c == Cardinality(Unsealed)
                 a == Cardinality(Unsealed \cup {e})
                 u == Cardinality(Unsealed')
      <4>1. /\ c \in Nat /\ a \in Nat /\ u \in Nat /\ u <= a /\ a <= c + 1
            /\ c <= crashes + errors
        BY <1>1, <3>4, <3>5, <3>6
      <4> HIDE DEF c, a, u
      <4>2. u <= crashes + errors + 1
        BY <1>1, <4>1
      <4> QED BY <2>1, <4>2 DEF u
    <3> QED BY <3>1, <3>3, <3>7 DEF SecretInv
  <2> QED BY <2>2, <2>5, <2>6
<1>10. CASE SealEntry
  <2>1. /\ op.pc = "seal" /\ op' = Idle /\ secret' = secret /\ op.ent \in Ents
        /\ entries' = [entries EXCEPT ![op.ent] = Sealed(entries[op.ent])]
        /\ entries[op.ent] \in EntryType /\ crashes' = crashes /\ errors' = errors
    BY <1>10, Typed DEF SealEntry, history, counters
  <2>2. /\ entries'[op.ent] = [entries[op.ent] EXCEPT !.key = op.key]
        /\ \A x \in Ents \ {op.ent} : entries'[x] = entries[x]
    BY <2>1 DEF Types, TypeOK, Sealed
  <2>3. entries'[op.ent].key = op.key /\ entries'[op.ent].type = entries[op.ent].type
    <3>1. entries[op.ent] \in EntryType
      BY <2>1
    <3> HIDE <2>1
    <3> QED BY <3>1, <2>2 DEF EntryType
  <2>4. op.ent \in Unsealed /\ op.key # NoKey
    <3>1. op.ent \in secret /\ entries[op.ent].key = NoKey /\ op.key = ops
          /\ entries[op.ent].key < ops
      BY <2>1 DEF SealInv
    <3>2. ops \in Nat
      BY Typed
    <3> QED BY <3>1, <3>2 DEF Unsealed, NoKey
  <2>5. PICK g : g = op.ent
    OBVIOUS
  <2>6. Unsealed' = Unsealed \ {g}
    BY <1>3, <2>1, <2>2, <2>3, <2>4, <2>5 DEF Unsealed
  <2>7. Cardinality(Unsealed') = Cardinality(Unsealed) - 1
    BY <1>1, <2>4, <2>5, <2>6, FS_RemoveElement
  <2>8. Cardinality(Unsealed) <= crashes + errors + 1
    BY <2>1 DEF SecretInv
  <2>9. Cardinality(Unsealed') <= crashes' + errors' + 0
    <3> DEFINE c == Cardinality(Unsealed)
               u == Cardinality(Unsealed')
    <3>1. c \in Nat /\ u = c - 1 /\ c <= crashes + errors + 1
      BY <1>1, <2>7, <2>8
    <3> HIDE DEF c, u
    <3>2. u <= crashes + errors + 0
      BY <1>1, <3>1
    <3> QED BY <2>1, <3>2 DEF u
  <2>10. \A x \in secret' : entries'[x].type # "FREE"
    BY <1>3, <2>1, <2>2, <2>3
  <2> QED BY <1>2, <2>1, <2>9, <2>10 DEF SecretInv
<1>11. CASE ClearEntry
  <2>1. PICK g \in Ents : g = op.ent
    BY Typed
  <2>2. /\ op.pc = "clear" /\ secret' = secret \ {g} /\ crashes' = crashes /\ errors' = errors
        /\ \A x \in Ents \ {g} : entries'[x] = entries[x]
    BY <1>11, <2>1 DEF ClearEntry, Step, Types, TypeOK, counters
  <2>3. Unsealed' \subseteq Unsealed /\ \A x \in secret' : entries'[x].type # "FREE"
    BY <1>3, <2>2 DEF Unsealed
  <2> QED BY <1>4, <2>2, <2>3, SecretKept
<1>12. CASE WriteEntry \/ \E f \in Ents, size \in 0 .. NumBlocks : Truncate(f, size)
  <2>1. secret' = secret
    BY <1>12, UpdateFacts
  <2>2. PICK e \in Ents, new \in EntryType :
              /\ entries'[e] = new /\ \A x \in Ents \ {e} : entries'[x] = entries[x]
              /\ SameHead(entries[e], new)
    BY <1>12, UpdateFacts
  <2>3. \A x \in Ents : entries'[x].key = entries[x].key /\ entries'[x].type = entries[x].type
    BY <2>2 DEF SameHead
  <2>4. Unsealed' \subseteq Unsealed /\ \A x \in secret' : entries'[x].type # "FREE"
    BY <1>3, <2>1, <2>3 DEF Unsealed
  <2>5. op.pc # "seal" /\ crashes' = crashes /\ errors' = errors
    BY <1>12 DEF WriteEntry, Truncate, Ready, Counted, Step, Later, counters
  <2> QED BY <1>4, <2>4, <2>5, SecretKept
<1>13. CASE Crash
  <2>1. UNCHANGED <<entries, secret, errors>> /\ crashes' = crashes + 1
    BY <1>13 DEF Crash, disk
  <2>2. /\ crashes' \in Nat /\ errors' \in Nat /\ crashes + errors <= crashes' + errors'
        /\ crashes + errors + 1 <= crashes' + errors'
    BY <1>1, <2>1
  <2> QED BY <1>5, <2>1, <2>2, SecretKept
<1>14. CASE DeviceError
  <2>1. UNCHANGED <<entries, secret, crashes>> /\ errors' = errors + 1
    BY <1>14 DEF DeviceError, disk
  <2>2. /\ crashes' \in Nat /\ errors' \in Nat /\ crashes + errors <= crashes' + errors'
        /\ crashes + errors + 1 <= crashes' + errors'
    BY <1>1, <2>1
  <2> QED BY <1>5, <2>1, <2>2, SecretKept
<1>15. ASSUME NEW f \in Ents, NEW pos \in 0 .. NumBlocks, NEW len \in 1 .. MaxLen,
             BeginWrite(f, pos, len) \/ BeginWriteEncrypted(f, pos, len)
      PROVE  SecretInv'
  BY <1>6, <1>15 DEF BeginWrite, BeginWriteEncrypted, Ready, Counted, disk, history
<1>16. ASSUME NEW e \in Ents, BeginDelete(e) PROVE SecretInv'
  BY <1>6, <1>16 DEF BeginDelete, Ready, Counted, disk, history
<1>17. CASE NextChunk \/ AllocBit \/ AppendDirect \/ AppendRefused \/ AllocIndex \/ ZeroIndex
            \/ AppendIndexed \/ WriteData \/ Undo \/ FreeBit
  BY <1>6, <1>17 DEF NextChunk, AllocBit, AppendDirect, AppendRefused, AllocIndex, ZeroIndex,
     AppendIndexed, WriteData, Undo, FreeBit, Step, Later, disk, counters
<1> HIDE DEF SavedInv, Types, WriteInv, EntriesInv, BootInv, SealInv, SecretInv
<1> QED
  BY <1>7, <1>8, <1>9, <1>10, <1>11, <1>12, <1>13, <1>14, <1>15, <1>16, <1>17 DEF Next

SecretCore == CoreInv /\ SecretInv

LEMMA SecretCoreNext ==
  ASSUME SecretCore, [Next]_vars
  PROVE  SecretCore'
<1>1. CoreInv'
  BY CoreNext DEF SecretCore
<1>2. SecretInv'
  BY SecretNext DEF SecretCore, CoreInv
<1> QED BY <1>1, <1>2 DEF SecretCore

(* vtx2_create_file_encrypted and vtx2_mkdir_encrypted, done, leave an     *)
(* entry with a key: there are no more plain ones among theirs than        *)
(* crashes and errors that may have fallen between their two transactions. *)
THEOREM SecretsStaySealed == Spec => []SecretsSealed
<1>1. SecretCore => SecretsSealed
  BY DEF SecretCore, SecretInv, SecretsSealed, Unsealed, CoreInv, Types, TypeOK
<1>2. Init => SecretCore
  <2> SUFFICES ASSUME Init PROVE SecretInv
    BY InitCore DEF SecretCore
  <2>1. secret = {} /\ crashes = 0 /\ errors = 0 /\ op.pc = "idle"
    BY DEF Init, Idle
  <2>2. Cardinality(Unsealed) = 0
    BY <2>1, FS_EmptySet DEF Unsealed
  <2> QED BY <2>1, <2>2 DEF SecretInv
<1> QED BY <1>1, <1>2, SecretCoreNext, PTL DEF Spec

-----------------------------------------------------------------------------
(* The file system implements the abstract one of FileStore, step by step, *)
(* until a delete that had freed blocks is interrupted.                    *)

(* What a write has put into its blocks: it starts no later than the end   *)
(* of the file, and what it wrote beyond that is its own.                  *)
(* A history that reaches beyond the size has a gap, which may be empty,   *)
(* and after it what this write put into its blocks.                       *)
Grew(s, c, b, size, v) ==
  size < Len(s) =>
    \E from \in size .. Len(s) - 1 : \A k \in size + 1 .. Len(s) :
      IF k <= from THEN s[k].val = 0 ELSE s[k].val = v /\ c[b[k]].val = v

Fresh == Grew(saved[op.ent], content, op.img.blocks, entries[op.ent].size, ops)

FreshInv ==
  /\ op.pc \in Writing \cup {"chunk"} => ops # 0
  /\ op.pc \in After /\ ~torn => Fresh

LEMMA FreshShort ==
  ASSUME op'.pc \in {"idle", "seal", "undo", "free", "clear"}
  PROVE  FreshInv'
BY DEF FreshInv, Writing, Before, After

LEMMA FreshStart ==
  ASSUME Types', ops' # 0, Len(saved'[op'.ent]) = entries'[op'.ent].size
  PROVE  FreshInv'
<1>1. entries'[op'.ent].size \in Nat
  BY DEF Types, TypeOK, EntryType
<1>2. ~(entries'[op'.ent].size < Len(saved'[op'.ent]))
  BY <1>1
<1> QED BY <1>2 DEF FreshInv, Fresh, Grew

LEMMA FreshBegun ==
  ASSUME Types, Types', SavedInv, NEW f \in Ents, NEW pos \in Nat, NEW end \in Nat,
         NEW last \in Nat,
         NEW key \in {NoKey, entries[f].key}, op' \in Writes(f, pos, end, last, key),
         op.pc \notin After, entries' = entries, saved' = saved, ops' # 0
  PROVE  FreshInv'
<1>1. key \in Nat
  BY Typed DEF NoKey
<1>2. op'.ent = f
  <2>1. Begun(op', f, pos, end, last, key)
    BY <1>1, WritesFacts
  <2> QED BY <2>1 DEF Begun
<1> QED BY <1>2, Settled, FreshStart

(* WriteData adds one block to those the write has filled.                 *)
LEMMA FreshWritten ==
  ASSUME Types, WriteInv, SavedInv, SpaceInv, FreshInv, WriteData
  PROVE  FreshInv'
<1>1. PICK g \in Ents : g = op.ent
  BY Typed
<1> DEFINE v == [val |-> ops, key |-> op.key]
           i == op.pos + 1
           n == Len(saved[g])
           size == entries[g].size
           b == op.img.blocks
<1>2. /\ op.pc = "data" /\ op'.ent = g /\ op'.img = op.img
      /\ content' = [content EXCEPT ![b[i]] = Cipher(ops, op.pos)]
      /\ saved' = [saved EXCEPT ![g] = Put(saved[g], i, v)]
      /\ entries' = entries /\ ops' = ops /\ torn' = torn
  BY <1>1, WriteDataFacts DEF Moves, Step, SameOp, counters, Target
<1>3. /\ op.pos \in Nat /\ op.img \in EntryType /\ b \in Seq(Blocks) /\ size \in Nat
      /\ n \in Nat /\ saved[g] \in Seq(Record) /\ v \in Record
  <2>1. saved[g] \in Seq(Record) /\ ops \in 0 .. MaxOps
    BY DEF Types, TypeOK
  <2>2. v \in Record
    BY <2>1, Typed DEF Record
  <2>3. n \in Nat
    BY <2>1, LenProperties
  <2> QED BY <2>1, <2>2, <2>3, Typed DEF EntryType
<1>4. ops # 0
  BY <1>2 DEF FreshInv, Writing, After
<1>5. /\ size <= n /\ n \in {size, op.pos}
      /\ i \in 1 .. Len(b) /\ n <= Len(b) /\ Len(b) \in Nat
  <2>1. /\ op.pos < op.end /\ op.end <= Reach(g)
        /\ Written(g) \in {entries[g].size, op.pos}
        /\ entries[g].size <= Written(g) /\ Written(g) <= Reach(g)
    BY <1>1, <1>2 DEF SavedInv, Histories, After
  <2>2. Reach(g) \in Nat /\ Reach(g) = Len(b) /\ op.end \in Nat /\ Written(g) = n
    BY <1>1, <1>2, ReachFacts, Typed DEF After, Written
  <2> QED BY <1>3, <2>1, <2>2
<1>6. /\ saved'[g] = Put(saved[g], i, v) /\ Len(saved'[g]) = Max2(n, i)
      /\ \A k \in 1 .. Max2(n, i) :
           saved'[g][k] = IF k = i THEN v ELSE IF k <= n THEN saved[g][k] ELSE Unwritten
  <2>1. saved'[g] = Put(saved[g], i, v)
    BY <1>2 DEF Types, TypeOK
  <2>2. i \in Nat \ {0} /\ saved[g] \in Seq(Record) /\ v \in Record
    BY <1>3
  <2>3. /\ Len(Put(saved[g], i, v)) = Max2(Len(saved[g]), i)
        /\ \A k \in 1 .. Max2(Len(saved[g]), i) :
             Put(saved[g], i, v)[k] =
               IF k = i THEN v ELSE IF k <= Len(saved[g]) THEN saved[g][k] ELSE Unwritten
    <3>1. PICK s, r, j : s = saved[g] /\ r = v /\ j = i
      OBVIOUS
    <3> HIDE DEF i, v
    <3>2. s \in Seq(Record) /\ r \in Record /\ j \in Nat \ {0}
      BY <2>2, <3>1
    <3>3. /\ Len(Put(s, j, r)) = Max2(Len(s), j)
          /\ \A k \in 1 .. Max2(Len(s), j) :
               Put(s, j, r)[k] = IF k = j THEN r ELSE IF k <= Len(s) THEN s[k] ELSE Unwritten
      BY <3>2, PutFacts
    <3> QED BY <3>1, <3>3
  <2> QED BY <2>1, <2>3, Zenon
<1>7. ASSUME ~torn
      PROVE  Grew(saved'[g], content', b, size, ops)
  <2>1. \A k \in 1 .. Len(b) : b[k] \in Blocks
    BY <1>3, ElementOfSeq
  <2>2. \A k \in 1 .. Len(b) : k # i => b[k] # b[i]
    <3>1. Distinct(b)
      BY <1>2, <1>7 DEF SpaceInv, AfterInv, After
    <3>2. DOMAIN b = 1 .. Len(b)
      BY <1>3, LenProperties
    <3> QED BY <1>5, <3>1, <3>2 DEF Distinct
  <2>3. content \in [Blocks -> Contents]
    BY DEF Types, TypeOK
  <2>4. content'[b[i]].val = ops
    <3>1. content'[b[i]] = Cipher(ops, op.pos)
      BY <1>2, <1>5, <2>1, <2>3
    <3> QED BY <3>1 DEF Cipher, Plain
  <2>5. \A k \in 1 .. Len(b) : k # i => content'[b[k]] = content[b[k]]
    BY <1>2, <2>1, <2>2, <2>3
  <2>6. Fresh
    BY <1>2, <1>7 DEF FreshInv, After
  <2>7. v.val = ops /\ Unwritten.val = 0
    BY DEF Unwritten
  <2> HIDE DEF v, b
  <2> SUFFICES ASSUME size < Len(saved'[g])
               PROVE  \E from \in size .. Len(saved'[g]) - 1 :
                        \A k \in size + 1 .. Len(saved'[g]) :
                          IF k <= from THEN saved'[g][k].val = 0
                          ELSE saved'[g][k].val = ops /\ content'[b[k]].val = ops
    BY DEF Grew
  <2>8. Len(saved'[g]) = i
    BY <1>3, <1>5, <1>6 DEF Max2
  <2>9. CASE n = size
    <3>1. op.pos \in size .. i - 1
      BY <1>3, <2>8
    <3>2. ASSUME NEW k \in size + 1 .. i
          PROVE  IF k <= op.pos THEN saved'[g][k].val = 0
                 ELSE saved'[g][k].val = ops /\ content'[b[k]].val = ops
      <4>1. k \in 1 .. Max2(n, i) /\ ~(k <= n)
        BY <1>3, <2>8, <2>9, <1>6
      <4>2. CASE k = i
        BY <1>3, <1>6, <2>4, <2>7, <4>1, <4>2
      <4>3. CASE k # i
        <5>1. saved'[g][k] = Unwritten
          BY <1>6, <4>1, <4>3
        <5> QED BY <1>3, <2>7, <4>3, <5>1
      <4> QED BY <4>2, <4>3
    <3> QED BY <2>8, <3>1, <3>2
  <2>10. CASE n # size
    <3>1. n = op.pos /\ size < n
      BY <1>3, <1>5, <2>10
    <3>2. PICK from \in size .. n - 1 :
            \A k \in size + 1 .. n :
              IF k <= from THEN saved[g][k].val = 0
              ELSE saved[g][k].val = ops /\ content[b[k]].val = ops
      BY <1>1, <2>6, <3>1 DEF Fresh, Grew, b
    <3>3. from \in size .. i - 1
      BY <1>3, <3>1
    <3>4. ASSUME NEW k \in size + 1 .. i
          PROVE  IF k <= from THEN saved'[g][k].val = 0
                 ELSE saved'[g][k].val = ops /\ content'[b[k]].val = ops
      <4>1. k \in 1 .. Max2(n, i) /\ k \in 1 .. Len(b)
        BY <1>3, <1>5, <1>6, <2>8
      <4>2. CASE k = i
        <5>1. ~(k <= from)
          BY <1>3, <3>1, <4>2
        <5> QED BY <1>6, <2>4, <2>7, <4>1, <4>2, <5>1
      <4>3. CASE k # i
        <5>1. k \in size + 1 .. n
          BY <1>3, <3>1, <4>3
        <5>2. k <= n
          BY <5>1
        <5>3. saved'[g][k] = saved[g][k]
          BY <1>6, <4>1, <4>3, <5>2
        <5>4. content'[b[k]] = content[b[k]]
          BY <2>5, <4>1, <4>3
        <5> QED BY <3>2, <5>1, <5>3, <5>4
      <4> QED BY <4>2, <4>3
    <3> QED BY <2>8, <3>3, <3>4
  <2> QED BY <2>9, <2>10
<1>8. ~torn' => Fresh'
  BY <1>2, <1>7 DEF Fresh
<1> QED BY <1>2, <1>4, <1>8 DEF FreshInv

LEMMA FreshNext ==
  ASSUME Types, Types', BootInv, WriteInv, SavedInv, SpaceInv, FreshInv, [Next]_vars
  PROVE  FreshInv'
<1>1. Idle.pc = "idle"
  BY DEF Idle
<1>2. CASE UNCHANGED vars \/ Boot
  BY <1>2 DEF vars, disk, history, counters, Boot, FreshInv, Fresh, Grew
<1>3. CASE FormatStage
  BY <1>1, <1>3, FreshShort, Constants0 DEF FormatStage, BootInv, history
<1>4. CASE Crash \/ SealEntry \/ ClearEntry
  BY <1>1, <1>4, FreshShort DEF Crash, SealEntry, ClearEntry
<1>5. ASSUME NEW d \in Ents, NEW n \in Names, NEW ty \in {"FILE", "DIR"},
             Create(d, n, ty) \/ CreateEncrypted(d, n, ty)
      PROVE  FreshInv'
  <2>1. op'.pc \in {"idle", "seal"}
    BY <1>5, CreateFacts DEF Sealing
  <2> QED BY <2>1, FreshShort
<1>6. ASSUME NEW f \in Ents, NEW size \in 0 .. NumBlocks, Truncate(f, size)
      PROVE  FreshInv'
  BY <1>6, FreshShort DEF Truncate, Ready
<1>7. ASSUME NEW f \in Ents, NEW pos \in 0 .. NumBlocks, NEW len \in 1 .. MaxLen,
             BeginWrite(f, pos, len) \/ BeginWriteEncrypted(f, pos, len)
      PROVE  FreshInv'
  <2>1. PICK end \in Nat, last \in Nat, key \in {NoKey, entries[f].key} :
          pos < end /\ op' \in Writes(f, pos, end, last, key)
    BY <1>7, BeginWriteFacts
  <2>2. /\ entries' = entries /\ saved' = saved /\ ops' = ops + 1 /\ ops \in Nat
        /\ op.pc = "idle"
    BY <1>7, BeginWriteFacts, Typed
  <2>3. ops' # 0 /\ op.pc \notin After
    BY <2>2 DEF After
  <2> QED BY <2>1, <2>2, <2>3, FreshBegun
<1>8. CASE NextChunk
  <2>1. /\ op.pc = "chunk" /\ entries' = entries /\ saved' = saved /\ ops' = ops
        /\ op.ent \in Ents /\ op.end \in Nat
    BY <1>8, NextChunkFacts, Typed DEF counters
  <2>2. ops' # 0 /\ op.pc \notin After
    BY <2>1 DEF FreshInv, After
  <2>3. CASE op' = Idle
    BY <1>1, <2>3, FreshShort
  <2>4. CASE \E end \in Nat, last \in Nat, key \in {NoKey, entries[op.ent].key} :
                 op.end < end /\ op' \in Writes(op.ent, op.end, end, last, key)
    BY <2>1, <2>2, <2>4, FreshBegun
  <2> QED BY <1>8, <2>3, <2>4, NextChunkFacts
<1>9. ASSUME /\ op.pc \in Before /\ op'.ent = op.ent /\ entries' = entries /\ saved' = saved
             /\ ops' = ops
      PROVE  FreshInv'
  <2>1. ops # 0 /\ op.pc \notin After
    BY <1>9 DEF FreshInv, Writing, Before, After
  <2>2. Len(saved[op.ent]) = entries[op.ent].size
    BY <2>1, Settled, Typed
  <2> QED BY <1>9, <2>1, <2>2, FreshStart
<1>10. CASE AllocBit
  BY <1>9, <1>10, AllocBitFacts DEF Moves, Step, SameOp, Before, counters
<1>11. CASE AppendDirect \/ AppendIndexed
  BY <1>9, <1>11, AppendFacts DEF Moves, Step, SameOp, Before, counters
<1>12. CASE AppendRefused
  BY <1>9, <1>12, RefusedFacts DEF Moves, Step, SameOp, Before, counters
<1>13. CASE AllocIndex
  BY <1>9, <1>13, AllocIndexFacts DEF Moves, Step, SameOp, Before, counters
<1>14. CASE ZeroIndex
  BY <1>9, <1>14, ZeroIndexFacts DEF Moves, Step, SameOp, Before, counters
<1>15. CASE WriteData
  BY <1>15, FreshWritten
<1>16. CASE WriteEntry
  <2>1. CASE op' = Idle
    BY <1>1, <2>1, FreshShort
  <2>2. CASE SameOp /\ op'.pc = "chunk"
    <3>1. op.pc = "entry" /\ ops' = ops
      BY <1>16, <2>2, WriteEntryFacts DEF Step, counters
    <3>2. ops # 0
      BY <3>1 DEF FreshInv, Writing, After
    <3> QED BY <2>2, <3>1, <3>2 DEF FreshInv, Writing, Before, After
  <2> QED BY <1>16, <2>1, <2>2, WriteEntryFacts
<1>17. CASE Undo
  BY <1>1, <1>17, UndoFacts, FreshShort
<1>18. ASSUME NEW e \in Ents, BeginDelete(e) PROVE FreshInv'
  BY <1>18, BeginDeleteFacts, FreshShort
<1>19. CASE FreeBit
  BY <1>19, FreeBitFacts, FreshShort
<1>20. CASE DeviceError
  BY <1>1, <1>20, ErrorFacts, FreshShort
<1> QED
  BY <1>2, <1>3, <1>4, <1>5, <1>6, <1>7, <1>8, <1>10, <1>11, <1>12, <1>13, <1>14, <1>15,
     <1>16, <1>17, <1>18, <1>19, <1>20 DEF Next

StoreCore == SpaceCore /\ FreshInv

-----------------------------------------------------------------------------
(* What the callers see of an entry, as a function of the entry and of the *)
(* contents of the blocks.                                                 *)

Bytes(x, c, s) == [k \in 1 .. x.size |-> [val |-> c[x.blocks[k]].val, put |-> s[k].val]]
View(u, x, c, s) ==
  IF ~u \/ x.type \notin {"FILE", "DIR"} THEN Store!Absent
  ELSE [type |-> x.type, name |-> x.name, key |-> x.key, parent |-> x.parent,
        data |-> Bytes(x, c, s)]

LEMMA SeenIs ==
  ASSUME Types, EntriesInv, SavedInv, NEW e \in Ents
  PROVE  Seen(e) = View(super, entries[e], content, saved[e])
<1>1. /\ entries[e].size \in Nat /\ Len(entries[e].blocks) \in Nat
      /\ entries[e].size <= Len(entries[e].blocks)
  BY Typed DEF EntriesInv
<1>2. Len(saved[e]) \in Nat /\ entries[e].size <= Len(saved[e])
  BY LenProperties DEF SavedInv, Histories, Written, Types, TypeOK
<1>3. \A k \in 1 .. entries[e].size :
        Block(e, k) = [val |-> content[entries[e].blocks[k]].val, put |-> saved[e][k].val]
  BY <1>1, <1>2 DEF Block
<1> QED BY <1>3 DEF Seen, View, Bytes, Store!Absent

LEMMA SeenWillBe ==
  ASSUME Types', EntriesInv', SavedInv', NEW e \in Ents
  PROVE  Seen(e)' = View(super', entries'[e], content', saved'[e])
<1>1. entries'[e] \in EntryType /\ entries'[e].size <= Len(entries'[e].blocks)
  BY DEF EntriesInv, Types, TypeOK
<1>2. entries'[e].size \in Nat /\ Len(entries'[e].blocks) \in Nat
  BY <1>1, LenProperties DEF EntryType
<1>3. Len(saved'[e]) \in Nat /\ entries'[e].size <= Len(saved'[e])
  BY LenProperties DEF SavedInv, Histories, Written, Types, TypeOK
<1>4. \A k \in 1 .. entries'[e].size :
        Block(e, k)' = [val |-> content'[entries'[e].blocks[k]].val, put |-> saved'[e][k].val]
  BY <1>1, <1>2, <1>3 DEF Block
<1> QED BY <1>4 DEF Seen, View, Bytes, Store!Absent

(* A step of the store is about one entry, and nothing happens to it when  *)
(* all entries look the same.                                              *)
LEMMA StoreStep ==
  ASSUME NEW e \in Ents, \A x \in Ents \ {e} : Seen(x)' = Seen(x),
         Store!Becomes(e, Seen(e), Seen(e)')
  PROVE  Store!Next
<1>1. seen[e] = Seen(e) /\ seen'[e] = Seen(e)'
  BY DEF seen
<1>2. seen' = [seen EXCEPT ![e] = seen'[e]]
  BY DEF seen
<1> QED BY <1>1, <1>2 DEF Store!Next

LEMMA StoreStutter ==
  ASSUME \A x \in Ents : Seen(x)' = Seen(x)
  PROVE  seen' = seen
BY DEF seen

(* Only the blocks inside the size show, with what was put there.          *)
LEMMA SeenKept ==
  ASSUME Types, EntriesInv, SavedInv, Types', EntriesInv', SavedInv', super' = super,
         NEW e \in Ents, entries'[e] = entries[e],
         \A k \in 1 .. entries[e].size :
           /\ content'[entries[e].blocks[k]] = content[entries[e].blocks[k]]
           /\ saved'[e][k] = saved[e][k]
  PROVE  Seen(e)' = Seen(e)
<1>1. Bytes(entries[e], content', saved'[e]) = Bytes(entries[e], content, saved[e])
  BY DEF Bytes
<1>2. Seen(e) = View(super, entries[e], content, saved[e])
      /\ Seen(e)' = View(super, entries[e], content', saved'[e])
  BY SeenIs, SeenWillBe
<1> QED BY <1>1, <1>2 DEF View

(* A block that no file has may hold anything.                             *)
LEMMA Unread ==
  ASSUME Types, EntriesInv, SavedInv, Types', EntriesInv', SavedInv', super' = super,
         NEW e \in Ents, entries'[e] = entries[e], NEW b, NEW v,
         content' = [content EXCEPT ![b] = v],
         \A k \in 1 .. entries[e].size : /\ entries[e].blocks[k] # b
                                         /\ saved'[e][k] = saved[e][k]
  PROVE  Seen(e)' = Seen(e)
<1>1. content \in [Blocks -> Contents] /\ entries[e].blocks \in Seq(Blocks)
      /\ entries[e].size \in Nat /\ Len(entries[e].blocks) \in Nat
      /\ entries[e].size <= Len(entries[e].blocks)
  BY Typed DEF Types, TypeOK, EntriesInv
<1>2. ASSUME NEW k \in 1 .. entries[e].size
      PROVE  content'[entries[e].blocks[k]] = content[entries[e].blocks[k]]
  <2>1. k \in 1 .. Len(entries[e].blocks)
    BY <1>1
  <2>2. entries[e].blocks[k] \in Blocks
    BY <1>1, <2>1, ElementOfSeq
  <2> QED BY <1>1, <2>2
<1> QED BY <1>2, SeenKept

LEMMA SameSeen ==
  ASSUME super' = super, content' = content, NEW e \in Ents, entries'[e] = entries[e],
         saved'[e] = saved[e]
  PROVE  Seen(e)' = Seen(e)
BY DEF Seen, Block

(* What is known of the file and of the block it is written to.            *)
LEMMA TargetFacts ==
  ASSUME Types, EntriesInv, WriteInv, SavedInv, SpaceInv, ~torn, op.pc = "data",
         NEW g \in Ents, g = op.ent
  PROVE  /\ entries[g].size \in Nat /\ entries[g].type = "FILE"
         /\ op.pos \in Nat /\ Target \in Blocks
         /\ \A k \in 1 .. entries[g].size :
              (entries[g].blocks[k] = Target) <=> (k = op.pos + 1)
         /\ \A x \in Ents \ {g} : Target \notin OwnedBy(entries[x])
<1>1. /\ op.pos \in Nat /\ op.end \in Nat /\ op.img \in EntryType
      /\ op.img.blocks \in Seq(Blocks)
      /\ entries[g].size \in Nat /\ Len(entries[g].blocks) \in Nat
      /\ entries[g].size <= Len(entries[g].blocks)
  BY Typed DEF EntryType, EntriesInv
<1>2. /\ Distinct(op.img.blocks) /\ Apart(g, OwnedBy(op.img))
  BY DEF SpaceInv, AfterInv, After
<1>3. /\ entries[g].type = "FILE"
      /\ Len(entries[g].blocks) <= Len(op.img.blocks)
      /\ \A k \in 1 .. Len(entries[g].blocks) : op.img.blocks[k] = entries[g].blocks[k]
  BY DEF WriteInv, Writing, After
<1>4. Reach(g) \in Nat /\ Reach(g) = Len(op.img.blocks)
  BY ReachFacts DEF After
<1>5. op.pos + 1 <= Reach(g)
  <2>1. op.pos < op.end /\ op.end <= Reach(g)
    BY DEF SavedInv, After
  <2> QED BY <1>1, <1>4, <2>1
<1>6. DOMAIN op.img.blocks = 1 .. Reach(g)
  BY <1>1, <1>4, LenProperties
<1>7. op.pos + 1 \in DOMAIN op.img.blocks
  BY <1>1, <1>4, <1>5, <1>6
<1>8. Target \in Blocks /\ Target \in OwnedBy(op.img)
  <2>1. op.pos + 1 \in 1 .. Len(op.img.blocks)
    BY <1>4, <1>6, <1>7
  <2>2. Target \in Blocks
    BY <1>1, <2>1, ElementOfSeq DEF Target
  <2> QED BY <1>7, <2>2 DEF Target, OwnedBy, InFile
<1>9. ASSUME NEW k \in 1 .. entries[g].size
      PROVE  k \in DOMAIN op.img.blocks /\ entries[g].blocks[k] = op.img.blocks[k]
  <2>1. PICK l \in Nat : l = Len(entries[g].blocks)
    BY <1>1
  <2>2. l <= Reach(g) /\ entries[g].size <= l
    BY <1>1, <1>3, <1>4, <2>1
  <2>3. k \in 1 .. l /\ k \in 1 .. Reach(g)
    BY <1>1, <1>4, <2>2
  <2> QED BY <1>3, <1>6, <2>1, <2>3
<1>10. ASSUME NEW k \in 1 .. entries[g].size
       PROVE  (entries[g].blocks[k] = Target) <=> (k = op.pos + 1)
  BY <1>2, <1>7, <1>9 DEF Distinct, Target
<1> QED BY <1>1, <1>2, <1>3, <1>8, <1>10 DEF Apart

(* A block of the file is overwritten, or one beyond its end is filled,    *)
(* which nobody sees.                                                      *)
LEMMA DataRefines ==
  ASSUME Types, EntriesInv, Types', EntriesInv', SavedInv', BootInv, WriteInv, SavedInv,
         SpaceInv, FreshInv, ~torn, WriteData
  PROVE  Store!Next \/ seen' = seen
<1>1. PICK g \in Ents : g = op.ent
  BY Typed
<1>2. /\ op.pc = "data" /\ phase = Mounted
      /\ content' = [content EXCEPT ![Target] = Cipher(ops, op.pos)]
      /\ entries' = entries /\ super' = super
      /\ saved' = [saved EXCEPT ![g] =
                     Put(saved[g], op.pos + 1, [val |-> ops, key |-> op.key])]
  BY <1>1, WriteDataFacts DEF Moves, Step
<1>3. super
  BY <1>2 DEF BootInv
<1>4. /\ entries[g].size \in Nat /\ entries[g].type = "FILE"
      /\ op.pos \in Nat /\ Target \in Blocks
      /\ \A k \in 1 .. entries[g].size :
           (entries[g].blocks[k] = Target) <=> (k = op.pos + 1)
      /\ \A x \in Ents \ {g} : Target \notin OwnedBy(entries[x])
  BY <1>1, <1>2, TargetFacts
<1>0. /\ \A x \in Ents \ {g} : saved'[x] = saved[x]
      /\ \A k \in 1 .. entries[g].size :
           saved'[g][k].val = IF k = op.pos + 1 THEN ops ELSE saved[g][k].val
      /\ \A k \in 1 .. entries[g].size : k # op.pos + 1 => saved'[g][k] = saved[g][k]
  <2> DEFINE v == [val |-> ops, key |-> op.key]
             i == op.pos + 1
  <2>1. /\ \A x \in Ents \ {g} : saved'[x] = saved[x]
        /\ saved'[g] = Put(saved[g], i, v) /\ saved[g] \in Seq(Record)
    BY <1>2 DEF Types, TypeOK
  <2>2. v \in Record
    <3>1. ops \in 0 .. MaxOps /\ op.key \in Nat
      BY Typed DEF Types, TypeOK
    <3> QED BY <3>1 DEF Record
  <2>3. i \in Nat \ {0} /\ v.val = ops
    BY <1>4
  <2>4. Len(saved[g]) \in Nat /\ entries[g].size <= Len(saved[g])
    BY <2>1, LenProperties DEF SavedInv, Histories, Written
  <2> HIDE DEF i, v
  <2>5. \A k \in 1 .. Max2(Len(saved[g]), i) :
          saved'[g][k] = IF k = i THEN v ELSE IF k <= Len(saved[g]) THEN saved[g][k]
                         ELSE Unwritten
    BY <2>1, <2>2, <2>3, PutFacts
  <2>6. ASSUME NEW k \in 1 .. entries[g].size
        PROVE  saved'[g][k] = IF k = i THEN v ELSE saved[g][k]
    <3>1. k \in 1 .. Max2(Len(saved[g]), i) /\ k <= Len(saved[g])
      BY <1>4, <2>3, <2>4 DEF Max2
    <3> QED BY <2>5, <3>1
  <2> QED BY <2>1, <2>3, <2>6 DEF i
<1>5. ASSUME NEW x \in Ents \ {g} PROVE Seen(x)' = Seen(x)
  <2>1. ASSUME NEW k \in 1 .. entries[x].size PROVE entries[x].blocks[k] # Target
    <3>1. entries[x].blocks \in Seq(Blocks) /\ entries[x].size \in Nat
          /\ entries[x].size <= Len(entries[x].blocks) /\ Len(entries[x].blocks) \in Nat
      BY Typed DEF EntriesInv
    <3>2. k \in 1 .. Len(entries[x].blocks)
      BY <3>1
    <3>3. k \in DOMAIN entries[x].blocks
      BY <3>1, <3>2, LenProperties
    <3> QED BY <1>4, <3>3 DEF OwnedBy, InFile
  <2> QED BY <1>0, <1>2, <2>1, Unread
<1>6. CASE op.pos + 1 \in 1 .. entries[g].size
  <2>1. ops \in 1 .. MaxOps
    BY <1>2 DEF FreshInv, Writing, After, Types, TypeOK
  <2>2. Cipher(ops, op.pos).val = ops
    BY DEF Cipher, Plain
  <2>3. content \in [Blocks -> Contents] /\ entries[g].blocks \in Seq(Blocks)
        /\ entries[g].size <= Len(entries[g].blocks) /\ Len(entries[g].blocks) \in Nat
    BY Typed DEF Types, TypeOK, EntriesInv
  <2>4. ASSUME NEW k \in 1 .. entries[g].size
        PROVE  content'[entries[g].blocks[k]].val =
                 IF k = op.pos + 1 THEN ops ELSE content[entries[g].blocks[k]].val
    <3>1. k \in 1 .. Len(entries[g].blocks)
      BY <1>4, <2>3
    <3>2. entries[g].blocks[k] \in Blocks
      BY <2>3, <3>1, ElementOfSeq
    <3>3. content'[entries[g].blocks[k]] =
            IF entries[g].blocks[k] = Target THEN Cipher(ops, op.pos)
            ELSE content[entries[g].blocks[k]]
      BY <1>2, <2>3, <3>2
    <3> QED BY <1>4, <2>2, <3>3
  <2>5. Bytes(entries[g], content', saved'[g]) =
          [Bytes(entries[g], content, saved[g]) EXCEPT ![op.pos + 1] = Store!Item(ops)]
    BY <1>0, <2>4 DEF Bytes, Store!Item
  <2>6. /\ Seen(g) = View(TRUE, entries[g], content, saved[g])
        /\ Seen(g)' = View(TRUE, entries[g], content', saved'[g])
    BY <1>2, <1>3, SeenIs, SeenWillBe
  <2>7. /\ Seen(g)' = [Seen(g) EXCEPT !.data[op.pos + 1] = Store!Item(ops)]
        /\ Seen(g).type = "FILE" /\ op.pos + 1 \in DOMAIN Seen(g).data
    <3>1. PICK ty, n, key, p, old, new :
            /\ ty = entries[g].type /\ n = entries[g].name /\ key = entries[g].key
            /\ p = entries[g].parent /\ old = Bytes(entries[g], content, saved[g])
            /\ new = Bytes(entries[g], content', saved'[g])
      OBVIOUS
    <3>2. /\ Seen(g) = [type |-> ty, name |-> n, key |-> key, parent |-> p, data |-> old]
          /\ Seen(g)' = [type |-> ty, name |-> n, key |-> key, parent |-> p, data |-> new]
      BY <1>4, <2>6, <3>1 DEF View
    <3>3. new = [old EXCEPT ![op.pos + 1] = Store!Item(ops)] /\ op.pos + 1 \in DOMAIN old
      BY <1>6, <2>5, <3>1 DEF Bytes
    <3> QED BY <1>4, <3>1, <3>2, <3>3
  <2>8. Store!Overwritten(Seen(g), Seen(g)')
    BY <2>1, <2>7 DEF Store!Overwritten
  <2>9. g \in Store!Here
    BY <2>7 DEF Store!Here, seen
  <2>10. Store!Becomes(g, Seen(g), Seen(g)')
    BY <2>7, <2>8, <2>9 DEF Store!Becomes
  <2> QED BY <1>5, <2>10, StoreStep
<1>7. CASE op.pos + 1 \notin 1 .. entries[g].size
  <2>1. \A k \in 1 .. entries[g].size : entries[g].blocks[k] # Target
    BY <1>4, <1>7
  <2>2. \A k \in 1 .. entries[g].size : saved'[g][k] = saved[g][k]
    BY <1>0, <1>7
  <2>3. Seen(g)' = Seen(g)
    BY <1>2, <2>1, <2>2, Unread
  <2> QED BY <1>5, <2>3, StoreStutter
<1> QED BY <1>6, <1>7

-----------------------------------------------------------------------------
(* An entry of the table is written.                                       *)

LEMMA BytesType ==
  ASSUME Types, NEW x \in EntryType, x.size <= Len(x.blocks), NEW s \in Seq(Record),
         x.size <= Len(s)
  PROVE  /\ Bytes(x, content, s) \in Seq(Store!Items) /\ Len(Bytes(x, content, s)) = x.size
         /\ x.size \in Nat
<1>1. x.size \in Nat /\ Len(x.blocks) \in Nat /\ x.blocks \in Seq(Blocks)
      /\ content \in [Blocks -> Contents] /\ Len(s) \in Nat
  BY LenProperties DEF EntryType, Types, TypeOK
<1>2. ASSUME NEW k \in 1 .. x.size
      PROVE  [val |-> content[x.blocks[k]].val, put |-> s[k].val] \in Store!Items
  <2>1. k \in 1 .. Len(x.blocks) /\ k \in 1 .. Len(s)
    BY <1>1
  <2>2. x.blocks[k] \in Blocks /\ s[k] \in Record
    BY <1>1, <2>1, ElementOfSeq
  <2>3. content[x.blocks[k]].val \in 0 .. MaxOps + 1
    BY <1>1, <2>2 DEF Contents
  <2>4. s[k].val \in 1 .. MaxOps \cup {0}
    BY <2>2 DEF Record
  <2> QED BY <2>3, <2>4 DEF Store!Items
<1>3. Bytes(x, content, s) \in [1 .. x.size -> Store!Items]
  BY <1>2 DEF Bytes
<1>4. PICK b, n : b = Bytes(x, content, s) /\ n = x.size
  OBVIOUS
<1>5. n \in Nat /\ b \in [1 .. n -> Store!Items]
  BY <1>1, <1>3, <1>4
<1>6. b \in Seq(Store!Items)
  BY <1>5, SeqDef
<1>7. DOMAIN b = 1 .. n /\ DOMAIN b = 1 .. Len(b) /\ Len(b) \in Nat
  BY <1>5, <1>6, LenProperties
<1>8. Len(b) = n
  BY <1>5, <1>7
<1> QED BY <1>1, <1>4, <1>6, <1>8

(* An entry of the table that is a file, as its callers see it.            *)
LEMMA FileSeen ==
  ASSUME NEW x, x.type = "FILE", NEW c, NEW s
  PROVE  View(TRUE, x, c, s) = [type |-> "FILE", name |-> x.name, key |-> x.key,
                                parent |-> x.parent, data |-> Bytes(x, c, s)]
BY DEF View

(* The file that the write leaves: what it had, or more.                   *)
LEMMA EntryRefines ==
  ASSUME Types, EntriesInv, Types', EntriesInv', SavedInv', BootInv, WriteInv, SavedInv,
         SpaceInv, FreshInv, ~torn, WriteEntry
  PROVE  Store!Next \/ seen' = seen
<1>1. PICK g \in Ents : g = op.ent
  BY Typed
<1>2. PICK old, new : old = entries[g] /\ new = entries'[g]
  OBVIOUS
<1>3. /\ op.pc = "entry" /\ phase = Mounted
      /\ \A x \in Ents \ {g} : entries'[x] = entries[x]
      /\ SameHead(op.img, new) /\ new.blocks = op.img.blocks
      /\ new.size = FinalSize
      /\ super' = super /\ content' = content /\ saved' = saved
  BY <1>1, <1>2, WriteEntryFacts DEF Step
<1>4. super
  BY <1>3 DEF BootInv
<1>5. /\ old.type = "FILE" /\ op.img.type = "FILE" /\ op.img.name = old.name
      /\ op.img.key = old.key /\ op.img.parent = old.parent /\ op.img.size = old.size
      /\ Len(old.blocks) <= Len(op.img.blocks)
      /\ \A k \in 1 .. Len(old.blocks) : op.img.blocks[k] = old.blocks[k]
  BY <1>1, <1>2, <1>3 DEF WriteInv, Writing, After
<1>6. /\ old \in EntryType /\ new \in EntryType
      /\ old.size <= Len(old.blocks) /\ new.size <= Len(new.blocks)
      /\ old.size \in Nat /\ new.size \in Nat /\ op.end \in Nat
      /\ old.blocks \in Seq(Blocks) /\ Len(old.blocks) \in Nat
  <2>1. old \in EntryType /\ old.size \in Nat /\ op.end \in Nat
        /\ old.blocks \in Seq(Blocks) /\ Len(old.blocks) \in Nat
    BY <1>2, Typed
  <2>2. new \in EntryType
    BY <1>2 DEF Types, TypeOK
  <2>3. old.size <= Len(old.blocks) /\ new.size <= Len(new.blocks)
    BY <1>2 DEF EntriesInv
  <2> QED BY <2>1, <2>2, <2>3 DEF EntryType
<1>7. new.type = "FILE" /\ new.name = old.name /\ new.key = old.key
      /\ new.parent = old.parent
  BY <1>3, <1>5 DEF SameHead
<1>8. \A x \in Ents \ {g} : Seen(x)' = Seen(x)
  BY <1>3, SameSeen
<1>9. PICK s, a, b : s = saved[g] /\ a = Bytes(old, content, s) /\ b = Bytes(new, content, s)
  OBVIOUS
<1>10. /\ Seen(g) = [type |-> "FILE", name |-> old.name, key |-> old.key,
                     parent |-> old.parent, data |-> a]
       /\ Seen(g)' = [type |-> "FILE", name |-> old.name, key |-> old.key,
                      parent |-> old.parent, data |-> b]
  <2>1. Seen(g) = View(TRUE, old, content, s) /\ Seen(g)' = View(TRUE, new, content, s)
    BY <1>2, <1>3, <1>4, <1>9, SeenIs, SeenWillBe
  <2>2. View(TRUE, old, content, s) = [type |-> "FILE", name |-> old.name, key |-> old.key,
                                       parent |-> old.parent, data |-> a]
    BY ZenonT(60), <1>5, <1>9, FileSeen
  <2>3. View(TRUE, new, content, s) = [type |-> "FILE", name |-> new.name, key |-> new.key,
                                       parent |-> new.parent, data |-> b]
    BY <1>7, <1>9, FileSeen
  <2>4. Seen(g)' = [type |-> "FILE", name |-> new.name, key |-> new.key,
                    parent |-> new.parent, data |-> b]
    BY <2>1, <2>3, Zenon
  <2> QED BY <1>7, <2>1, <2>2, <2>4, Zenon
<1>11. s \in Seq(Record) /\ Len(s) \in Nat /\ Len(s) = new.size /\ old.size <= new.size
  <2>1. s \in Seq(Record) /\ Len(s) = FinalSize
    BY <1>1, <1>3, <1>9 DEF SavedInv, Written, Types, TypeOK
  <2>2. old.size <= Len(s)
    BY <1>2, <1>9 DEF SavedInv, Histories, Written
  <2> QED BY <1>3, <2>1, <2>2, LenProperties
<1>12. /\ a \in Seq(Store!Items) /\ Len(a) = old.size
       /\ b \in Seq(Store!Items) /\ Len(b) = new.size
  <2>1. old.size <= Len(s) /\ new.size <= Len(s)
    BY <1>6, <1>11
  <2> QED BY <1>6, <1>9, <1>11, <2>1, BytesType
<1>13. /\ \A k \in 1 .. old.size : a[k] = [val |-> content[old.blocks[k]].val, put |-> s[k].val]
       /\ \A k \in 1 .. new.size : b[k] = [val |-> content[new.blocks[k]].val, put |-> s[k].val]
  BY <1>9 DEF Bytes
<1>14. \A k \in 1 .. old.size : k \in 1 .. new.size /\ b[k] = a[k]
  <2>1. \A k \in 1 .. old.size : k \in 1 .. Len(old.blocks) /\ k \in 1 .. new.size
    BY <1>6, <1>11
  <2>2. \A k \in 1 .. old.size : new.blocks[k] = old.blocks[k]
    BY <1>3, <1>5, <2>1
  <2> QED BY <1>13, <2>1, <2>2
<1>15. CASE ~(old.size < new.size)
  <2>1. old.size = new.size
    BY <1>6, <1>11, <1>15
  <2>2. a = [k \in 1 .. old.size |-> a[k]] /\ b = [k \in 1 .. old.size |-> b[k]]
    BY <1>12, <2>1, LenProperties
  <2>3. b = a
    BY <1>14, <2>2
  <2>4. Seen(g)' = Seen(g)
    BY <1>10, <2>3
  <2> QED BY <1>8, <2>4, StoreStutter
<1>16. CASE old.size < new.size
  <2>1. ops \in 1 .. MaxOps
    BY <1>3 DEF FreshInv, Writing, After, Types, TypeOK
  <2>2. Grew(s, content, new.blocks, old.size, ops)
    BY <1>1, <1>2, <1>3, <1>9 DEF FreshInv, Fresh, After
  <2>3. PICK from \in old.size .. new.size - 1 :
          \A k \in old.size + 1 .. new.size :
            IF k <= from THEN s[k].val = 0
            ELSE s[k].val = ops /\ content[new.blocks[k]].val = ops
    BY <1>11, <1>16, <2>2 DEF Grew
  <2>4. ASSUME NEW k \in 1 .. Len(b)
        PROVE  /\ k <= Len(a)              => b[k] = a[k]
               /\ k > Len(a) /\ k <= from  => b[k].put = 0
               /\ k > from                 => b[k] = Store!Item(ops)
    <3>1. k \in 1 .. new.size
      BY <1>12
    <3>2. k <= Len(a) => b[k] = a[k]
      BY <1>6, <1>12, <1>14, <3>1
    <3>3. CASE k > Len(a)
      <4>1. k \in old.size + 1 .. new.size
        BY <1>6, <1>12, <3>1, <3>3
      <4>2. from \in Nat /\ (k > from <=> ~(k <= from))
        BY <1>6, <3>1, <2>3
      <4>3. b[k] = [val |-> content[new.blocks[k]].val, put |-> s[k].val]
        BY <1>13, <3>1
      <4>4. k <= from => s[k].val = 0
        BY <2>3, <4>1
      <4>5. k > from => s[k].val = ops /\ content[new.blocks[k]].val = ops
        BY <2>3, <4>1, <4>2
      <4>6. k <= from => b[k].put = 0
        BY <4>3, <4>4
      <4>7. k > from => b[k] = [val |-> ops, put |-> ops]
        BY <4>3, <4>5, Zenon
      <4> QED BY <3>2, <4>6, <4>7, Zenon DEF Store!Item
    <3>4. k > from => k > Len(a)
      BY <1>6, <1>12, <3>1, <2>3
    <3> QED BY <3>2, <3>3, <3>4
  <2>5. Store!Appended(a, b)
    <3>1. from \in Len(a) .. Len(b) - 1
      BY <1>12, <2>3
    <3> QED BY <2>1, <2>4, <3>1 DEF Store!Appended
  <2>6. Store!Extended(Seen(g), Seen(g)')
    <3>1. /\ Seen(g).data = a /\ Seen(g)'.data = b /\ Seen(g)'.type = Seen(g).type
          /\ Seen(g)' = [Seen(g) EXCEPT !.data = b]
      BY <1>10
    <3> QED BY <1>12, <2>5, <3>1, Zenon DEF Store!Extended
  <2>7. Seen(g).type = "FILE"
    BY <1>10
  <2>8. g \in Store!Here
    BY <2>7 DEF Store!Here, seen
  <2>9. Store!Becomes(g, Seen(g), Seen(g)')
    BY <2>6, <2>7, <2>8 DEF Store!Becomes
  <2> QED BY <1>8, <2>9, StoreStep
<1> QED BY <1>15, <1>16

(* A truncation cuts what is seen at the new size.                         *)
LEMMA TruncateRefines ==
  ASSUME Types, EntriesInv, SavedInv, Types', EntriesInv', SavedInv', BootInv,
         NEW f \in Ents, NEW size \in 0 .. NumBlocks, Truncate(f, size)
  PROVE  Store!Next
<1>1. PICK old, new : old = entries[f] /\ new = [old EXCEPT !.size = size]
  OBVIOUS
<1>2. /\ old.type = "FILE" /\ size <= old.size /\ entries' = [entries EXCEPT ![f] = new]
      /\ super' = super /\ content' = content /\ super
      /\ saved' = [saved EXCEPT ![f] = SubSeq(saved[f], 1, size)]
  BY <1>1 DEF Truncate, Files, Ready, BootInv
<1>3. /\ entries'[f] = new /\ \A x \in Ents \ {f} : entries'[x] = entries[x]
      /\ saved'[f] = SubSeq(saved[f], 1, size) /\ saved[f] \in Seq(Record)
      /\ \A x \in Ents \ {f} : saved'[x] = saved[x]
  BY <1>2 DEF Types, TypeOK
<1>4. old \in EntryType /\ old.size <= Len(old.blocks) /\ old.size \in Nat
  <2>1. old \in EntryType /\ old.size \in Nat
    BY <1>1, Typed
  <2>2. old.size <= Len(old.blocks)
    BY <1>1 DEF EntriesInv
  <2> QED BY <2>1, <2>2
<1>5. /\ new.type = "FILE" /\ new.name = old.name /\ new.key = old.key
      /\ new.parent = old.parent /\ new.blocks = old.blocks /\ new.size = size
  BY <1>1, <1>2, <1>4 DEF EntryType
<1>6. \A x \in Ents \ {f} : Seen(x)' = Seen(x)
  BY <1>2, <1>3, SameSeen
<1>7. PICK a, b : a = Bytes(old, content, saved[f]) /\ b = Bytes(new, content, saved'[f])
  OBVIOUS
<1>8. /\ Seen(f) = [type |-> "FILE", name |-> old.name, key |-> old.key,
                    parent |-> old.parent, data |-> a]
      /\ Seen(f)' = [type |-> "FILE", name |-> old.name, key |-> old.key,
                     parent |-> old.parent, data |-> b]
  <2>1. /\ Seen(f) = View(TRUE, old, content, saved[f])
        /\ Seen(f)' = View(TRUE, new, content, saved'[f])
    BY <1>1, <1>2, <1>3, SeenIs, SeenWillBe
  <2> QED BY <1>2, <1>5, <1>7, <2>1, FileSeen
<1>9. /\ old.size <= Len(saved[f]) /\ Len(saved[f]) \in Nat
      /\ a \in Seq(Store!Items) /\ Len(a) = old.size
  <2>1. old.size <= Len(saved[f]) /\ saved[f] \in Seq(Record)
    BY <1>1, <1>3 DEF SavedInv, Histories, Written
  <2> QED BY <1>4, <1>7, <2>1, BytesType, LenProperties
<1>10. b = SubSeq(a, 1, size)
  <2>1. \A k \in 1 .. size : saved'[f][k] = saved[f][k]
    <3>1. size \in Nat /\ size <= Len(saved[f])
      BY <1>2, <1>4, <1>9
    <3> QED BY <1>3, <3>1, CutFacts
  <2>2. b = [k \in 1 .. size |-> a[k]]
    <3>1. \A k \in 1 .. size : k \in 1 .. old.size
      BY <1>2, <1>4
    <3>2. /\ a = [k \in 1 .. old.size |-> [val |-> content[old.blocks[k]].val,
                                            put |-> saved[f][k].val]]
          /\ b = [k \in 1 .. size |-> [val |-> content[old.blocks[k]].val,
                                        put |-> saved'[f][k].val]]
      BY <1>5, <1>7 DEF Bytes
    <3>3. \A k \in 1 .. size : a[k] = [val |-> content[old.blocks[k]].val,
                                      put |-> saved'[f][k].val]
      BY <2>1, <3>1, <3>2
    <3> QED BY <3>2, <3>3
  <2>3. SubSeq(a, 1, size) = [k \in 1 .. size |-> a[k]]
    <3>1. 1 \in 1 .. Len(a) + 1 /\ size \in 1 - 1 .. Len(a) /\ size - 1 + 1 = size
      BY <1>2, <1>4, <1>9
    <3>2. PICK w : w = SubSeq(a, 1, size)
      OBVIOUS
    <3>3. /\ w \in Seq(Store!Items) /\ Len(w) = size
          /\ \A i \in 1 .. size : w[i] = a[1 + i - 1]
      BY <1>9, <3>1, <3>2, SubSeqProperties
    <3>4. \A i \in 1 .. size : w[i] = a[i]
      BY <3>3
    <3> QED BY <3>2, <3>3, <3>4, LenProperties
  <2> QED BY <2>2, <2>3
<1>11. size \in 0 .. Len(a)
  BY <1>2, <1>4, <1>9
<1>12. /\ Seen(f)' = [Seen(f) EXCEPT !.data = b]
       /\ Seen(f).data = a /\ Seen(f).type = "FILE"
  BY <1>8
<1>13. Store!Shortened(Seen(f), Seen(f)')
  BY <1>10, <1>11, <1>12, Zenon DEF Store!Shortened
<1>14. f \in Store!Here
  BY <1>12 DEF Store!Here, seen
<1>15. Store!Becomes(f, Seen(f), Seen(f)')
  BY <1>12, <1>13, <1>14 DEF Store!Becomes
<1> QED BY <1>6, <1>15, StoreStep

(* Who is there, and in which directory, for the store and for the table.  *)
LEMMA SeenTree ==
  ASSUME Types, super, NEW e \in Ents, entries[e].type # "GARBAGE"
  PROVE  /\ (Seen(e).type = "NONE") <=> e \notin Live
         /\ e \in Live => /\ Seen(e).type = entries[e].type /\ Seen(e).name = entries[e].name
                          /\ Seen(e).key = entries[e].key /\ Seen(e).parent = entries[e].parent
<1>1. entries[e].type \in {"FREE", "FILE", "DIR"}
  BY Typed DEF EntryType
<1> QED BY <1>1 DEF Seen, Live

LEMMA NewSeen ==
  ASSUME NEW p, NEW n, NEW ty \in {"FILE", "DIR"}, NEW c, NEW s
  PROVE  View(TRUE, NewEntry(p, n, ty), c, s)
           = [type |-> ty, name |-> n, key |-> NoKey, parent |-> p, data |-> <<>>]
<1>1. LET new == NewEntry(p, n, ty) IN
        /\ new.type = ty /\ new.name = n /\ new.parent = p /\ new.key = NoKey /\ new.size = 0
  BY EntryFields
<1>2. Bytes(NewEntry(p, n, ty), c, s) = <<>>
  BY <1>1 DEF Bytes
<1> QED BY <1>1, <1>2 DEF View

(* A creation, the first transaction of an encrypted one included.         *)
LEMMA CreateRefines ==
  ASSUME Types, EntriesInv, Types', EntriesInv', SavedInv', BootInv, TreeInv,
         NEW d \in Ents, NEW n \in Names, NEW ty \in {"FILE", "DIR"},
         Create(d, n, ty) \/ CreateEncrypted(d, n, ty)
  PROVE  Store!Next
<1>1. PICK e \in Ents : Added(e, NewEntry(d, n, ty))
  BY CreateFacts
<1>2. /\ super /\ super' = super /\ content' = content /\ saved' = saved
      /\ entries[d].type = "DIR" /\ ~HasChild(d, n)
  BY CreateFacts DEF BootInv
<1>3. Parented /\ Rooted
  BY <1>2 DEF TreeInv
<1>4. \A x \in Ents \ {e} : Seen(x)' = Seen(x)
  BY <1>1, <1>2, SameSeen DEF Added
<1>5. Seen(e) = Store!Absent
  BY <1>1 DEF Added, Seen, Store!Absent
<1>6. Seen(e)' = Store!Entry(ty, n, d)
  <2>1. PICK x, c, s : x = NewEntry(d, n, ty) /\ c = content /\ s = saved[e]
    OBVIOUS
  <2>2. Seen(e)' = View(TRUE, x, c, s)
    BY <1>1, <1>2, <2>1, SeenWillBe DEF Added
  <2>3. /\ x.type = ty /\ x.name = n /\ x.parent = d /\ x.key = NoKey /\ x.size = 0
        /\ ty \in {"FILE", "DIR"}
    BY <2>1, EntryFields
  <2>4. Bytes(x, c, s) = <<>>
    BY <2>3 DEF Bytes
  <2>5. View(TRUE, x, c, s) = [type |-> ty, name |-> n, key |-> NoKey, parent |-> d,
                               data |-> <<>>]
    BY <2>3, <2>4 DEF View
  <2> QED BY <2>2, <2>5 DEF Store!Entry
<1>7. \A x \in Ents : entries[x].type # "GARBAGE"
  BY <1>3 DEF Parented, Live
<1>8. d \in Store!Dirs
  <2>1. d \in Live /\ Seen(d).type = "DIR"
    BY <1>2, <1>7, SeenTree DEF Live
  <2> QED BY <2>1 DEF Store!Dirs, Store!Here, seen
<1>9. ASSUME NEW c \in Store!In(d), seen[c].key = NoKey PROVE seen[c].name # n
  <2>1. c \in Ents /\ c # 0 /\ Seen(c).type # "NONE" /\ Seen(c).parent = d
        /\ Seen(c).key = NoKey
    BY <1>9 DEF Store!In, Store!Here, seen
  <2>2. /\ c \in Live /\ entries[c].parent = d /\ entries[c].key = NoKey
        /\ Seen(c).name = entries[c].name
    BY <1>2, <1>7, <2>1, SeenTree
  <2>3. c # d
    <3>1. c \in Live \ {Root}
      BY <2>1, <2>2 DEF Root
    <3>2. ASSUME c = d PROVE FALSE
      <4>1. {c} \in SUBSET (Live \ {Root}) /\ {c} # {}
        BY <3>1
      <4>2. \E x \in {c} : entries[x].parent \notin {c}
        BY <1>3, <4>1 DEF Rooted
      <4> QED BY <2>2, <3>2, <4>2
    <3> QED BY <3>2
  <2>4. c \in Children(d)
    BY <2>2, <2>3 DEF Children, Live
  <2>5. entries[c].name # n
    BY <1>2, <2>2, <2>4 DEF HasChild
  <2> QED BY <2>1, <2>2, <2>5 DEF seen
<1>10. Store!Created(Seen(e), Seen(e)')
  BY <1>5, <1>6, <1>8, <1>9 DEF Store!Created
<1> QED BY <1>4, <1>10, StoreStep DEF Store!Becomes

(* The second transaction: an empty plain entry gets a key.                *)
LEMMA SealRefines ==
  ASSUME Types, EntriesInv, SavedInv, Types', EntriesInv', SavedInv', BootInv, TreeInv,
         SealInv, SealEntry
  PROVE  Store!Next
<1>1. PICK g \in Ents : g = op.ent
  BY Typed
<1>2. PICK old, new : old = entries[g] /\ new = [old EXCEPT !.key = op.key]
  OBVIOUS
<1>3. /\ op.pc = "seal" /\ super' = super /\ content' = content /\ saved' = saved /\ super
      /\ entries' = [entries EXCEPT ![g] = new]
  BY <1>1, <1>2 DEF SealEntry, Sealed, BootInv, history
<1>4. /\ g \in Live \ {Root} /\ old.key = NoKey /\ old.blocks = <<>>
      /\ op.key = ops /\ old.key < ops
  BY <1>1, <1>2, <1>3 DEF SealInv
<1>5. old \in EntryType /\ old.size = 0
  <2>1. old \in EntryType /\ old.size \in Nat
    BY <1>2, Typed
  <2>2. old.size <= 0
    BY <1>2, <1>4, Len(<<>>) = 0 DEF EntriesInv
  <2> QED BY <2>1, <2>2
<1>6. /\ new.type = old.type /\ new.name = old.name /\ new.parent = old.parent
      /\ new.size = 0 /\ new.key = ops /\ old.type \in {"FILE", "DIR"}
  <2>1. old.type # "GARBAGE" /\ old.type # "FREE"
    BY <1>2, <1>3, <1>4 DEF TreeInv, Parented, Live
  <2> QED BY <1>2, <1>4, <1>5, <2>1 DEF EntryType
<1>7. entries'[g] = new /\ \A x \in Ents \ {g} : entries'[x] = entries[x]
  BY <1>3 DEF Types, TypeOK
<1>8. \A x \in Ents \ {g} : Seen(x)' = Seen(x)
  BY <1>3, <1>7, SameSeen
<1>9. Bytes(old, content, saved[g]) = <<>> /\ Bytes(new, content, saved[g]) = <<>>
  BY <1>5, <1>6 DEF Bytes
<1>10. /\ Seen(g) = [type |-> old.type, name |-> old.name, key |-> NoKey,
                     parent |-> old.parent, data |-> <<>>]
       /\ Seen(g)' = [type |-> old.type, name |-> old.name, key |-> ops,
                      parent |-> old.parent, data |-> <<>>]
  <2>1. /\ Seen(g) = View(TRUE, old, content, saved[g])
        /\ Seen(g)' = View(TRUE, new, content, saved[g])
    BY <1>2, <1>3, <1>7, SeenIs, SeenWillBe
  <2> QED BY <1>4, <1>6, <1>9, <2>1 DEF View
<1>11. ops \in 1 .. MaxOps
  BY <1>4 DEF Types, TypeOK, NoKey
<1>12. Store!Encrypted(Seen(g), Seen(g)')
  BY <1>10, <1>11 DEF Store!Encrypted
<1>13. g \in Store!Here \ {0}
  BY <1>4, <1>6, <1>10 DEF Store!Here, seen, Root
<1>14. Store!Becomes(g, Seen(g), Seen(g)')
  BY <1>12, <1>13 DEF Store!Becomes
<1> QED BY <1>8, <1>14, StoreStep

(* The end of a delete: the entry has no children, and disappears.         *)
LEMMA ClearRefines ==
  ASSUME Types, EntriesInv, BootInv, TreeInv, DeleteInv, ClearEntry
  PROVE  Store!Next
<1>1. PICK g \in Ents : g = op.ent
  BY Typed
<1>2. /\ op.pc = "clear" /\ super' = super /\ content' = content /\ super
      /\ entries'[g] = Free /\ \A x \in Ents \ {g} : entries'[x] = entries[x]
      /\ \A x \in Ents \ {g} : saved'[x] = saved[x]
  BY <1>1 DEF ClearEntry, Step, BootInv, Types, TypeOK
<1>3. g \in Deletable
  BY <1>1, <1>2 DEF DeleteInv, Deletes
<1>4. Parented /\ Rooted
  BY <1>2 DEF TreeInv
<1>5. \A x \in Ents : entries[x].type # "GARBAGE"
  BY <1>4 DEF Parented, Live
<1>6. \A x \in Ents \ {g} : Seen(x)' = Seen(x)
  BY <1>2, SameSeen
<1>7. Seen(g)' = Store!Absent
  BY <1>2, EntryFields DEF Seen, Store!Absent
<1>8. g \in Store!Here \ {0}
  BY <1>2, <1>3, <1>5, SeenTree DEF Deletable, Store!Here, seen, Root
<1>9. ASSUME NEW c \in Store!In(g) PROVE FALSE
  <2>1. c \in Ents /\ c # 0 /\ Seen(c).type # "NONE" /\ Seen(c).parent = g
    BY <1>9 DEF Store!In, Store!Here, seen
  <2>2. c \in Live \ {Root} /\ entries[c].parent = g
    BY <1>2, <1>5, <2>1, SeenTree DEF Root
  <2>3. entries[g].type = "DIR"
    BY <1>4, <2>2 DEF Parented
  <2>4. CASE c = g
    <3>1. {c} \in SUBSET (Live \ {Root}) /\ {c} # {}
      BY <2>2
    <3>2. \E x \in {c} : entries[x].parent \notin {c}
      BY <1>4, <3>1 DEF Rooted
    <3> QED BY <2>2, <2>4, <3>2
  <2>5. CASE c # g
    <3>1. c \in Children(g)
      BY <2>2, <2>5 DEF Children, Live
    <3> QED BY <1>3, <2>3, <3>1 DEF Deletable
  <2> QED BY <2>4, <2>5
<1>10. Store!Removed(g, Seen(g)')
  BY <1>7, <1>9 DEF Store!Removed
<1>11. Store!Becomes(g, Seen(g), Seen(g)')
  BY <1>8, <1>10 DEF Store!Becomes
<1> QED BY <1>6, <1>11, StoreStep

(* The superblock is the last stage of formatting: before it nothing is    *)
(* seen, and after it a root.                                              *)
LEMMA FormatRefines ==
  ASSUME Types, EntriesInv, Types', EntriesInv', SavedInv', BootInv, FormatStage
  PROVE  Store!Next \/ seen' = seen
<1>1. phase \in 1 .. 4 /\ ~super /\ content' = content
  BY Constants0 DEF FormatStage, BootInv
<1>2. \A x \in Ents : Seen(x) = Store!Absent
  BY <1>1 DEF Seen, Store!Absent
<1>3. CASE phase # 4
  <2>1. Stages[phase] # "super"
    BY <1>1, <1>3 DEF Stages
  <2>2. ~super'
    BY <1>1, <2>1 DEF FormatStage
  <2>3. \A x \in Ents : Seen(x)' = Store!Absent
    BY <2>2 DEF Seen, Store!Absent
  <2> QED BY <1>2, <2>3, StoreStutter
<1>4. CASE phase = 4
  <2>1. Stages[phase] = "super"
    BY <1>4 DEF Stages
  <2>2. super' /\ entries' = entries
    BY <2>1 DEF FormatStage
  <2>3. entries[Root] = NewEntry(Root, "/", "DIR") /\ \A e \in Ents \ {Root} : entries[e] = Free
    BY <1>4 DEF BootInv
  <2>4. Root \in Ents /\ Root = 0
    BY Constants0 DEF Root
  <2>5. \A x \in Ents \ {Root} : Seen(x)' = Seen(x)
    BY <1>2, <2>2, <2>3, EntryFields DEF Seen, Store!Absent
  <2>6. Seen(Root)' = Store!Entry("DIR", "/", 0)
    <3>1. Seen(Root)' = View(TRUE, NewEntry(Root, "/", "DIR"), content', saved'[Root])
      BY <2>2, <2>3, <2>4, SeenWillBe
    <3> QED BY <2>4, <3>1, NewSeen DEF Store!Entry
  <2>7. Store!Here = {}
    BY <1>2 DEF Store!Here, Store!Absent, seen
  <2>8. Store!Becomes(Root, Seen(Root), Seen(Root)')
    BY <2>4, <2>6, <2>7 DEF Store!Becomes, Store!Formatted
  <2> QED BY <2>4, <2>5, <2>8, StoreStep
<1> QED BY <1>3, <1>4

-----------------------------------------------------------------------------
(* An index block belongs to no file's data.                               *)
LEMMA IndexUnseen ==
  ASSUME Types, EntriesInv, SavedInv, Types', EntriesInv', SavedInv', SpaceInv, ~torn,
         AppendIndexed \/ ZeroIndex, WriteInv
  PROVE  seen' = seen
<1>1. PICK g \in Ents : g = op.ent
  BY Typed
<1>2. /\ op.pc \in {"append", "zero"} /\ entries' = entries /\ super' = super
      /\ saved' = saved
      /\ content' = [content EXCEPT ![op.img.ind] = Index]
      /\ NewIndex \/ op.img.ind # NoBlock
  BY AppendFacts, ZeroIndexFacts DEF Moves, Step, WriteInv
<1>3. ASSUME NEW e \in Ents PROVE op.img.ind \notin InFile(entries[e])
  <2>1. CASE NewIndex
    BY <1>2, <2>1 DEF SpaceInv, BeforeInv, OwnedBy
  <2>2. CASE ~NewIndex
    <3>1. op.img.ind = entries[g].ind /\ entries[g].ind # NoBlock
      BY <1>1, <1>2, <2>2 DEF NewIndex
    <3>2. entries[g].ind \notin InFile(entries[g]) /\ Apart(g, OwnedBy(entries[g]))
      BY DEF SpaceInv, FilesInv
    <3> QED BY <3>1, <3>2 DEF Apart, OwnedBy
  <2> QED BY <2>1, <2>2
<1>4. ASSUME NEW e \in Ents, NEW k \in 1 .. entries[e].size
      PROVE  entries[e].blocks[k] # op.img.ind
  <2>1. entries[e].blocks \in Seq(Blocks) /\ entries[e].size \in Nat
        /\ entries[e].size <= Len(entries[e].blocks) /\ Len(entries[e].blocks) \in Nat
    BY Typed DEF EntriesInv
  <2>2. k \in 1 .. Len(entries[e].blocks)
    BY <2>1
  <2>3. k \in DOMAIN entries[e].blocks
    BY <2>1, <2>2, LenProperties
  <2> QED BY <1>3, <2>3 DEF InFile
<1>5. \A e \in Ents : Seen(e)' = Seen(e)
  BY <1>2, <1>4, Unread
<1> QED BY <1>5, StoreStutter

LEMMA StepRefines ==
  ASSUME StoreCore, StoreCore', [Next]_vars, ~torn'
  PROVE  Store!Next \/ seen' = seen
<1>1. /\ Types /\ EntriesInv /\ BootInv /\ TreeInv /\ SealInv /\ DeleteInv /\ WriteInv
      /\ SavedInv /\ SpaceInv /\ FreshInv
  BY DEF StoreCore, SpaceCore, CoreInv
<1>2. Types' /\ EntriesInv' /\ SavedInv'
  BY DEF StoreCore, SpaceCore, CoreInv
<1>3. ASSUME UNCHANGED <<super, entries, content, saved>> PROVE seen' = seen
  BY <1>3, SameSeen, StoreStutter
<1>4. CASE UNCHANGED vars \/ Boot
  BY <1>3, <1>4 DEF vars, disk, history, Boot
<1>21. CASE Crash \/ DeviceError
  <2>1. UNCHANGED <<super, entries, content>> /\ saved' = Forgotten
    BY <1>1, <1>21, ErrorFacts DEF Crash, disk
  <2>2. ASSUME NEW e \in Ents PROVE Seen(e)' = Seen(e)
    BY <1>1, <1>2, <2>1, ForgottenFacts, SeenKept
  <2> QED BY <2>2, StoreStutter
<1>5. CASE FormatStage
  BY <1>1, <1>2, <1>5, FormatRefines
<1>6. ASSUME NEW d \in Ents, NEW n \in Names, NEW ty \in {"FILE", "DIR"},
             Create(d, n, ty) \/ CreateEncrypted(d, n, ty)
      PROVE  Store!Next
  BY <1>1, <1>2, <1>6, CreateRefines
<1>7. CASE SealEntry
  BY <1>1, <1>2, <1>7, SealRefines
<1>8. ASSUME NEW f \in Ents, NEW size \in 0 .. NumBlocks, Truncate(f, size)
      PROVE  Store!Next
  BY <1>1, <1>2, <1>8, TruncateRefines
<1>9. ASSUME NEW f \in Ents, NEW pos \in 0 .. NumBlocks, NEW len \in 1 .. MaxLen,
             BeginWrite(f, pos, len) \/ BeginWriteEncrypted(f, pos, len)
      PROVE  seen' = seen
  BY <1>1, <1>3, <1>9, BeginWriteFacts
<1>10. CASE NextChunk
  BY <1>1, <1>3, <1>10, NextChunkFacts
<1>11. CASE AllocBit \/ AppendRefused \/ AllocIndex
  BY <1>1, <1>3, <1>11, AllocBitFacts, RefusedFacts, AllocIndexFacts
<1>12. CASE AppendDirect
  BY <1>1, <1>3, <1>12, AppendFacts
<1>14. CASE AppendIndexed \/ ZeroIndex
  <2>1. ~torn
    BY <1>1, <1>14, AppendFacts, ZeroIndexFacts
  <2> QED BY <1>1, <1>2, <1>14, <2>1, IndexUnseen
<1>15. CASE WriteData
  <2>1. ~torn
    BY <1>1, <1>15, WriteDataFacts
  <2> QED BY <1>1, <1>2, <1>15, <2>1, DataRefines
<1>16. CASE WriteEntry
  <2>1. ~torn
    BY <1>1, <1>16, WriteEntryFacts
  <2> QED BY <1>1, <1>2, <1>16, <2>1, EntryRefines
<1>17. CASE Undo \/ FreeBit
  BY <1>1, <1>3, <1>17, UndoFacts, FreeBitFacts
<1>18. ASSUME NEW e \in Ents, BeginDelete(e) PROVE seen' = seen
  BY <1>1, <1>3, <1>18, BeginDeleteFacts
<1>19. CASE ClearEntry
  BY <1>1, <1>19, ClearRefines
<1> QED
  BY <1>4, <1>5, <1>6, <1>7, <1>8, <1>9, <1>10, <1>11, <1>12, <1>14, <1>15, <1>16, <1>17,
     <1>18, <1>19, <1>21 DEF Next

LEMMA StoreCoreNext ==
  ASSUME StoreCore, [Next]_vars
  PROVE  StoreCore'
<1>1. SpaceCore'
  BY SpaceCoreNext DEF StoreCore
<1>2. FreshInv'
  BY <1>1, FreshNext DEF StoreCore, SpaceCore, CoreInv
<1> QED BY <1>1, <1>2 DEF StoreCore

LEMMA InitStore == Init => StoreCore /\ Store!Init
<1> SUFFICES ASSUME Init PROVE FreshInv /\ Store!Init
  BY InitCore, InitSpace DEF StoreCore, SpaceCore
<1>1. op.pc = "idle" /\ ~super
  BY DEF Init, Idle
<1>2. FreshInv
  BY <1>1 DEF FreshInv, Writing, Before, After
<1>3. \A e \in Ents : Seen(e) = Store!Absent
  BY <1>1 DEF Seen, Store!Absent
<1> QED BY <1>2, <1>3 DEF Store!Init, seen

(* What callers of vtx2fs.h see, reading every file, only ever changes by  *)
(* a step of the store: the writes of vtx2_write to bitmap, index, data    *)
(* and entry, in their order and stopped anywhere, show as blocks that are *)
(* overwritten one by one or appended all at once, after a gap that nobody *)
(* wrote when the write starts beyond the end, until a vtx2_delete that had*)
(* freed blocks is interrupted.                                            *)
THEOREM FileSystemImplementsStore == Spec => RefinesFileStore
<1>1. StoreCore /\ StoreCore' /\ [Next]_vars => [torn' \/ Store!Next]_seen
  BY StepRefines
<1> QED BY <1>1, InitStore, StoreCoreNext, PTL DEF Spec, RefinesFileStore
=============================================================================
