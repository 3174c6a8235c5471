------------------------------- MODULE Vtx2fs -------------------------------
(***************************************************************************)
(* The VTX2FS file system (vtx2fs.c, vtx2fs_state.c): formatting, mounting,*)
(* the flat entry table, the block bitmap and the files' blocks, with a    *)
(* crash or a device error between any two device writes.                  *)
(*                                                                         *)
(* One metadata transaction is atomic here; Journal models how it is       *)
(* logged, written and replayed, and when that can fail.  Data blocks and  *)
(* index (indirect) blocks are written in place, without the journal.      *)
(*                                                                         *)
(* Sizes and offsets count blocks.  A file's extents are kept as the       *)
(* sequence "blocks" of the blocks they cover and their number "exts"; the *)
(* extents beyond the direct ones live in the index block "ind".           *)
(***************************************************************************)
EXTENDS Naturals, Sequences, FiniteSets

CONSTANTS NumEntries,      \* sb.entry_table_capacity
          NumBlocks,       \* blocks of the data area, numbered from 1
          DirectExtents,   \* VTX2_DIRECT_EXTENTS
          IndexExtents,    \* extents that fit in an index block
          Names,           \* the names callers use
          MaxLen,          \* the longest single write, in blocks
          MaxOps, MaxCrashes, MaxErrors,   \* bounds of a behaviour
          MaxSecretOps     \* MaxOps once an encrypted entry was created

ASSUME SizesAssumption ==
  /\ NumEntries \in Nat \ {0} /\ NumBlocks \in Nat /\ MaxLen \in Nat
  /\ DirectExtents \in Nat /\ IndexExtents \in Nat
ASSUME BoundsAssumption ==
  /\ MaxOps \in Nat /\ MaxCrashes \in Nat /\ MaxErrors \in Nat
  /\ MaxSecretOps \in 0 .. MaxOps

VARIABLES super,     \* whether block 0 holds a valid superblock
          entries,   \* the entry table, on disk
          used,      \* the data blocks whose bitmap bit is set, on disk
          content,   \* what each data block holds, on disk
          phase,     \* "off", a stage of vtx2_format, or "mounted"
          op,        \* the operation in progress, in RAM
          saved,     \* history: what was last written to each block of a file,
                     \* Unwritten where a write only went past it
          secret,    \* history: the entries created as encrypted ones
          torn,      \* history: a delete was interrupted after freeing blocks
          failed,    \* history: a crash or an error has happened
          ops, crashes, errors

disk     == <<super, entries, used, content>>
counters == <<ops, crashes, errors>>
history  == <<saved, secret, torn, failed>>
vars     == <<disk, phase, op, history, counters>>

Ents   == 0 .. NumEntries - 1
Root   == 0                          \* sb.root_entry_index
Blocks == 1 .. NumBlocks
NoBlock == 0
NoKey  == 0                          \* encryption_scheme 0
Plain(v) == [val |-> v, key |-> NoKey, at |-> 0]
Index  == Plain(0)                   \* content of an index block
Junk   == Plain(MaxOps + 1)          \* content of a block nobody has written

(* An entry with a key has a password, a salt of its own and a name that   *)
(* is encrypted with them: on the disk it is no other entry's name.        *)
Free == [type |-> "FREE", name |-> "", key |-> NoKey, parent |-> 0, size |-> 0,
         blocks |-> <<>>, exts |-> 0, ind |-> NoBlock]
Garbage == [Free EXCEPT !.type = "GARBAGE"]      \* before vtx2_format
NewEntry(p, n, ty) == [Free EXCEPT !.type = ty, !.name = n, !.parent = p]

Idle == [pc |-> "idle", ent |-> Root, img |-> Free, run |-> <<>>,
         pos |-> 0, end |-> 0, last |-> 0, key |-> NoKey]

InFile(e)     == {e.blocks[i] : i \in DOMAIN e.blocks}
OwnedBy(e)    == InFile(e) \cup ({e.ind} \ {NoBlock})
Live          == {e \in Ents : entries[e].type # "FREE"}
Files         == {e \in Ents : entries[e].type = "FILE"}

-----------------------------------------------------------------------------
(* Boot: vtx2fs_state_init mounts the disk, or formats it first.           *)

Stages == <<"table", "root", "bitmap", "super">>

Init ==
  /\ super = FALSE
  /\ entries = [e \in Ents |-> Garbage]
  /\ used \in {{}, Blocks}
  /\ content = [b \in Blocks |-> Junk]
  /\ phase = 0
  /\ op = Idle
  /\ saved = [e \in Ents |-> <<>>] /\ secret = {}
  /\ torn = FALSE /\ failed = FALSE
  /\ ops = 0 /\ crashes = 0 /\ errors = 0

Off     == 0
Mounted == Len(Stages) + 1

(* Stage i of vtx2_format is phase i; a disk without a superblock starts at*)
(* the first one, and the second mount follows the last one.               *)
Boot ==
  /\ phase = Off
  /\ phase' = IF super THEN Mounted ELSE 1
  /\ UNCHANGED <<disk, op, history, counters>>

FormatStage ==
  /\ phase \in 1 .. Len(Stages)
  /\ LET s == Stages[phase] IN
       /\ entries' = CASE s = "table" -> [e \in Ents |-> Free]
                       [] s = "root"  -> [entries EXCEPT ![Root] =
                                            NewEntry(Root, "/", "DIR")]
                       [] OTHER       -> entries
       /\ used'  = IF s = "bitmap" THEN {} ELSE used
       /\ super' = (super \/ s = "super")
  /\ phase' = phase + 1
  /\ UNCHANGED <<content, op, history, counters>>

-----------------------------------------------------------------------------
(* Operations with a single metadata write.                                *)

Bound == IF secret = {} THEN MaxOps ELSE MaxSecretOps
Ready == phase = Mounted /\ op.pc = "idle" /\ ops < Bound
Counted == ops' = ops + 1 /\ UNCHANGED <<crashes, errors>>

Children(d) == {e \in Ents \ {d} : entries[e].type # "FREE" /\ entries[e].parent = d}

HasChild(d, n) ==                                                  \* vtx2_find_child
  \E e \in Children(d) : entries[e].name = n /\ entries[e].key = NoKey

FreeEntry == {e \in Ents : /\ entries[e].type = "FREE"             \* vtx2_find_free_entry
                           /\ \A x \in Ents : x < e => entries[x].type # "FREE"}

Parents == {d \in Ents : entries[d].type = "DIR"}

(* vtx2_create_entry, for a file or a directory.                           *)
Create(d, n, ty) ==
  /\ Ready
  /\ d \in Parents /\ ~HasChild(d, n)
  /\ \E e \in FreeEntry : entries' = [entries EXCEPT ![e] = NewEntry(d, n, ty)]
  /\ Counted
  /\ UNCHANGED <<super, used, content, phase, op, history>>

(* vtx2_create_file_encrypted, vtx2_mkdir_encrypted: the entry is created  *)
(* like any other, and encrypted by a second transaction, with a new key.  *)
CreateEncrypted(d, n, ty) ==
  /\ Ready /\ ops < MaxSecretOps
  /\ d \in Parents /\ ~HasChild(d, n)
  /\ \E e \in FreeEntry :
       /\ entries' = [entries EXCEPT ![e] = NewEntry(d, n, ty)]
       /\ secret' = secret \cup {e}
       /\ op' = [Idle EXCEPT !.pc = "seal", !.ent = e, !.key = ops + 1]
  /\ Counted
  /\ UNCHANGED <<super, used, content, phase, saved, torn, failed>>

(* vtx2_finish_encrypted_entry.                                            *)
Sealed_NotMarked(e) == e             \* mutant: encryption_scheme is not set
Sealed(e) == [e EXCEPT !.key = op.key]

SealEntry ==
  /\ phase = Mounted /\ op.pc = "seal"
  /\ entries' = [entries EXCEPT ![op.ent] = Sealed(@)]
  /\ op' = Idle
  /\ UNCHANGED <<super, used, content, phase, history, counters>>

(* vtx2_truncate shrinks the size and keeps the blocks.                    *)
Truncate(f, size) ==
  /\ Ready
  /\ f \in Files /\ size <= entries[f].size
  /\ entries' = [entries EXCEPT ![f].size = size]
  /\ saved' = [saved EXCEPT ![f] = SubSeq(@, 1, size)]
  /\ Counted
  /\ UNCHANGED <<super, used, content, phase, op, secret, torn, failed>>

-----------------------------------------------------------------------------
(* vtx2_write.                                                             *)

(* vtx2_alloc_blocks: the first run of n free blocks.                      *)
Run(s, n)    == [i \in 1 .. n |-> s + i - 1]
IsFree(s, n) == \A i \in 1 .. n : s + i - 1 \in Blocks \ used
FirstFit(n) ==
  {s \in Blocks : IsFree(s, n) /\ \A t \in Blocks : t < s => ~IsFree(t, n)}

(* What vtx2_write may start with, to write file f from pos to end: new    *)
(* blocks come first, in one run for all that the file lacks.  There is    *)
(* nothing when there is no such run.  The caller goes on to last.         *)
Writes(f, pos, end, last, key) ==
  LET img   == entries[f]
      extra == end - Len(img.blocks)
      begun == [pc |-> "data", ent |-> f, img |-> img, run |-> <<>>,
                pos |-> pos, end |-> end, last |-> last, key |-> key]
  IN  IF end <= Len(img.blocks) THEN {begun}
      ELSE {[begun EXCEPT !.pc = "alloc", !.run = Run(s, extra)] : s \in FirstFit(extra)}

(* It may start anywhere: what lies between the end of the file and there  *)
(* becomes the file's with the rest, whatever those blocks hold.           *)
BeginWrite(f, pos, len) ==
  /\ Ready
  /\ f \in Files
  /\ op' \in Writes(f, pos, pos + len, pos + len, NoKey)
  /\ Counted
  /\ UNCHANGED <<disk, phase, history>>

(* vtx2_write_encrypted, with the right password: a vtx2_write for every   *)
(* chunk, which is a block when blocks have 512 bytes.                     *)
BeginWriteEncrypted(f, pos, len) ==
  /\ Ready
  /\ f \in Files /\ entries[f].key # NoKey
  /\ op' \in Writes(f, pos, pos + 1, pos + len, entries[f].key)
  /\ Counted
  /\ UNCHANGED <<disk, phase, history>>

Step(pc) == phase = Mounted /\ op.pc = pc
Later    == UNCHANGED <<phase, secret, torn, failed, counters>>
Allocated_ClearsByte(b) == used' = {b}   \* mutant: = for |= in vtx2_bitmap_set
Allocated(b) == used' = used \cup {b}

(* A chunk for which there is no space ends the call: what it has written  *)
(* stays.                                                                  *)
NextChunk ==
  /\ Step("chunk")
  /\ LET chunk == Writes(op.ent, op.end, op.end + 1, op.last, op.key) IN
     op' \in IF chunk = {} THEN {Idle} ELSE chunk
  /\ Later /\ UNCHANGED <<disk, saved>>

(* One bitmap transaction per block of the run.                            *)
Unset == {i \in DOMAIN op.run : op.run[i] \notin used}
AllocBit ==
  /\ Step("alloc")
  /\ \E i \in Unset :
       /\ \A k \in Unset : i <= k
       /\ Allocated(op.run[i])
       /\ op' = [op EXCEPT !.pc = IF Unset = {i} THEN "append" ELSE "alloc"]
  /\ Later /\ UNCHANGED <<super, entries, content, saved>>

WithRun(img) == [img EXCEPT !.blocks = @ \o op.run, !.exts = @ + 1]

(* vtx2_append_extent: a direct slot, or the index block, allocated at its *)
(* first use; when neither has room the run is freed again.                *)
AppendDirect ==
  /\ Step("append") /\ op.img.exts < DirectExtents
  /\ op' = [op EXCEPT !.pc = "data", !.img = WithRun(op.img)]
  /\ Later /\ UNCHANGED <<disk, saved>>

IndexFull == op.img.exts >= DirectExtents + IndexExtents

AppendRefused ==
  /\ Step("append") /\ op.img.exts >= DirectExtents
  /\ IndexFull \/ (op.img.ind = NoBlock /\ FirstFit(1) = {})
  /\ op' = [op EXCEPT !.pc = "undo"]
  /\ Later /\ UNCHANGED <<disk, saved>>

AllocIndex ==
  /\ Step("append") /\ op.img.exts >= DirectExtents /\ ~IndexFull
  /\ op.img.ind = NoBlock
  /\ \E b \in FirstFit(1) :
       /\ Allocated(b)
       /\ op' = [op EXCEPT !.pc = "zero", !.img.ind = b]
  /\ Later /\ UNCHANGED <<super, entries, content, saved>>

ZeroIndex ==
  /\ Step("zero")
  /\ content' = [content EXCEPT ![op.img.ind] = Index]
  /\ op' = [op EXCEPT !.pc = "append"]
  /\ Later /\ UNCHANGED <<super, entries, used, saved>>

AppendIndexed ==
  /\ Step("append") /\ op.img.exts >= DirectExtents /\ ~IndexFull
  /\ op.img.ind # NoBlock
  /\ content' = [content EXCEPT ![op.img.ind] = Index]
  /\ op' = [op EXCEPT !.pc = "data", !.img = WithRun(op.img)]
  /\ Later /\ UNCHANGED <<super, entries, used, saved>>

Max2(a, b) == IF a < b THEN b ELSE a
Unwritten == [val |-> 0, key |-> NoKey]
Put(s, i, v) == [k \in 1 .. Max2(Len(s), i) |->
                   IF k = i THEN v ELSE IF k <= Len(s) THEN s[k] ELSE Unwritten]

Target == op.img.blocks[op.pos + 1]      \* the block at the logical position

(* xor_crypt_buffer: the bytes written depend on the key and the position. *)
Cipher_FromZero(v, pos) ==           \* mutant: every chunk starts the key again
  IF op.key = NoKey THEN Plain(v) ELSE [val |-> v, key |-> op.key, at |-> 0]
Cipher(v, pos) ==
  IF op.key = NoKey THEN Plain(v) ELSE [val |-> v, key |-> op.key, at |-> pos]
Deciphered(c, key, pos) == IF c.key = key /\ c.at = pos THEN c.val ELSE Junk.val

WriteData ==
  /\ Step("data")
  /\ content' = [content EXCEPT ![Target] = Cipher(ops, op.pos)]
  /\ saved' = [saved EXCEPT ![op.ent] = Put(@, op.pos + 1, [val |-> ops, key |-> op.key])]
  /\ op' = [op EXCEPT !.pos = @ + 1,
                      !.pc = IF op.pos + 1 = op.end THEN "entry" ELSE "data"]
  /\ Later /\ UNCHANGED <<super, entries, used>>

(* The entry comes last: only then do new blocks belong to the file.       *)
FinalSize_Capacity == Len(op.img.blocks)     \* mutant: what the blocks could hold
FinalSize == Max2(op.img.size, op.end)

WriteEntry ==
  /\ Step("entry")
  /\ entries' = [entries EXCEPT ![op.ent] = [op.img EXCEPT !.size = FinalSize]]
  /\ op' = IF op.end = op.last THEN Idle ELSE [op EXCEPT !.pc = "chunk"]
  /\ Later /\ UNCHANGED <<super, used, content, saved>>

(* The append failed: vtx2_free_blocks gives the run back.                 *)
Undo ==
  /\ Step("undo")
  /\ used' = used \ {Head(op.run)}
  /\ op' = IF Len(op.run) = 1 THEN Idle ELSE [op EXCEPT !.run = Tail(@)]
  /\ Later /\ UNCHANGED <<super, entries, content, saved>>

-----------------------------------------------------------------------------
(* vtx2_delete: the blocks are freed first, the entry is cleared last.     *)

Deletable_NonEmpty == Live \ {Root}      \* mutant: VTX2_ERR_NOT_EMPTY is not returned
Deletable == {e \in Live \ {Root} : entries[e].type = "DIR" => Children(e) = {}}

BlocksToFree_NoIndex(e) == e.blocks      \* mutant: the index block is forgotten
BlocksToFree(e) == e.blocks \o (IF e.ind = NoBlock THEN <<>> ELSE <<e.ind>>)

BeginDelete(e) ==
  /\ Ready
  /\ e \in Deletable
  /\ LET seq == BlocksToFree(entries[e])
     IN  op' = [Idle EXCEPT !.ent = e, !.run = seq,
                            !.pc = IF seq = <<>> THEN "clear" ELSE "free"]
  /\ Counted
  /\ UNCHANGED <<disk, phase, history>>

FreeBit ==
  /\ Step("free")
  /\ used' = used \ {Head(op.run)}
  /\ op' = [op EXCEPT !.run = Tail(@), !.pos = 1,
                      !.pc = IF Len(op.run) = 1 THEN "clear" ELSE "free"]
  /\ Later /\ UNCHANGED <<super, entries, content, saved>>

ClearEntry ==
  /\ Step("clear")
  /\ entries' = [entries EXCEPT ![op.ent] = Free]
  /\ saved' = [saved EXCEPT ![op.ent] = <<>>] /\ secret' = secret \ {op.ent}
  /\ op' = Idle
  /\ UNCHANGED <<super, used, content, phase, torn, failed, counters>>

-----------------------------------------------------------------------------
(* Failures.                                                               *)

(* A delete that stops here has freed blocks its entry still names.        *)
Tearing == op.pc \in {"free", "clear"} /\ op.pos = 1

(* What was written past the size the entry still gives is forgotten.      *)
Forgotten == [e \in Ents |-> SubSeq(saved[e], 1, entries[e].size)]

Crash ==
  /\ phase # Off /\ crashes < MaxCrashes
  /\ crashes' = crashes + 1
  /\ phase' = Off /\ op' = Idle
  /\ torn' = (torn \/ Tearing) /\ failed' = TRUE
  /\ saved' = Forgotten
  /\ UNCHANGED <<disk, secret, ops, errors>>

(* A device write fails.  The operation returns the error, but an error in *)
(* vtx2_append_extent frees the run first.                                 *)
InAppend == op.pc = "zero" \/ (op.pc = "append" /\ op.img.exts >= DirectExtents)
DeviceError ==
  /\ phase = Mounted /\ op.pc # "idle" /\ errors < MaxErrors
  /\ op.pc = "append" => InAppend /\ ~IndexFull
  /\ errors' = errors + 1
  /\ op' = IF InAppend THEN [op EXCEPT !.pc = "undo"] ELSE Idle
  /\ torn' = (torn \/ Tearing) /\ failed' = TRUE
  /\ saved' = Forgotten
  /\ UNCHANGED <<disk, secret, phase, ops, crashes>>

Next ==
  \/ Boot \/ FormatStage
  \/ \E d \in Ents, n \in Names, ty \in {"FILE", "DIR"} : Create(d, n, ty)
  \/ \E d \in Ents, n \in Names, ty \in {"FILE", "DIR"} : CreateEncrypted(d, n, ty)
  \/ SealEntry
  \/ \E f \in Ents, size \in 0 .. NumBlocks : Truncate(f, size)
  \/ \E f \in Ents, pos \in 0 .. NumBlocks, len \in 1 .. MaxLen :
       BeginWrite(f, pos, len) \/ BeginWriteEncrypted(f, pos, len)
  \/ NextChunk
  \/ AllocBit \/ AppendDirect \/ AppendRefused \/ AllocIndex \/ ZeroIndex
  \/ AppendIndexed \/ WriteData \/ WriteEntry \/ Undo
  \/ \E e \in Ents : BeginDelete(e)
  \/ FreeBit \/ ClearEntry
  \/ Crash \/ DeviceError

Spec == Init /\ [][Next]_vars
-----------------------------------------------------------------------------
(* What the file system promises.                                          *)

Contents == [val : 0 .. MaxOps + 1, key : Nat, at : Nat]
Record   == [val : 0 .. MaxOps, key : Nat]
EntryType ==
  [type : {"FREE", "FILE", "DIR", "GARBAGE"}, name : Names \cup {"", "/"}, key : Nat,
   parent : Ents, size : Nat, blocks : Seq(Blocks), exts : Nat,
   ind : Blocks \cup {NoBlock}]

(* The types, checked as a part of TreeIntact.                             *)
TypeOK ==
  /\ super \in BOOLEAN
  /\ entries \in [Ents -> EntryType]
  /\ used \subseteq Blocks
  /\ content \in [Blocks -> Contents]
  /\ phase \in Off .. Mounted
  /\ op.pc \in {"idle", "alloc", "append", "zero", "data", "entry", "undo",
                "chunk", "seal", "free", "clear"}
  /\ op.ent \in Ents /\ op.img \in EntryType /\ op.run \in Seq(Blocks)
  /\ saved \in [Ents -> Seq(Record)] /\ secret \subseteq Ents
  /\ torn \in BOOLEAN /\ failed \in BOOLEAN
  /\ ops \in 0 .. MaxOps /\ crashes \in 0 .. MaxCrashes /\ errors \in 0 .. MaxErrors

(* A disk that mounts has been formatted completely, and its entries form  *)
(* a tree: every parent is a live directory, names are unique in their     *)
(* directory, and no chain of parents misses the root, whatever crash or   *)
(* error interrupted formatting, creations and deletions.                  *)
TreeIntact ==
  TypeOK /\ (phase = Mounted =>
    /\ entries[Root].type = "DIR"
    /\ \A e \in Live : /\ entries[e].type # "GARBAGE"
                       /\ entries[entries[e].parent].type = "DIR"
    /\ \A e, x \in Live \ {Root} :
         (/\ entries[e].parent = entries[x].parent
          /\ entries[e].name = entries[x].name /\ entries[e].key = entries[x].key)
           => e = x
    /\ \A S \in SUBSET (Live \ {Root}) :
         S # {} => \E e \in S : entries[e].parent \notin S)

Deleting(e) == op.pc \in {"free", "clear"} /\ op.ent = e

(* Every block belongs to one place of one file at most, index blocks      *)
(* included.                                                               *)
NoCrossLink ==
  /\ \A e, x \in Files : e # x => OwnedBy(entries[e]) \cap OwnedBy(entries[x]) = {}
  /\ \A e \in Files : /\ Cardinality(InFile(entries[e])) = Len(entries[e].blocks)
                      /\ entries[e].ind \notin InFile(entries[e])

(* Every block of a file is marked in the bitmap, except while the file is *)
(* being deleted.                                                          *)
OwnedIsUsed ==
  \A e \in Files : ~Deleting(e) => OwnedBy(entries[e]) \subseteq used

(* No block is ever shared by two files and no block of a file is free for *)
(* reuse, however writes are interrupted and their space given back, as    *)
(* long as no delete was interrupted half way.                             *)
NoSharedBlocks == (phase = Mounted /\ ~torn) => NoCrossLink /\ OwnedIsUsed

(* vtx2fs.c:443-445: power cuts during create, mkdir, write and delete do  *)
(* not corrupt the metadata.                                               *)
PowerCutSafe == (phase = Mounted /\ errors = 0) => OwnedIsUsed

(* A file's size never exceeds the blocks its extents give it, reading it  *)
(* the way it was written gives back, block by block, what was last written*)
(* there, and its index block is intact: no other operation writes to its  *)
(* blocks, and an encrypted file can be read from any position.  A block   *)
(* that a write only went past holds whatever the disk held, and nothing is*)
(* said of it.                                                             *)
ReadsBack ==
  (phase = Mounted /\ ~torn) =>
    \A f \in Files :
      /\ entries[f].size <= Len(entries[f].blocks)
      /\ \A k \in 1 .. entries[f].size :
           (k <= Len(saved[f]) /\ saved[f][k].val # 0) =>
             LET c == content[entries[f].blocks[k]] IN
             IF saved[f][k].key = NoKey THEN c = Plain(saved[f][k].val)
             ELSE Deciphered(c, entries[f].key, k - 1) = saved[f][k].val
      /\ entries[f].ind # NoBlock => content[entries[f].ind] = Index

(* An encrypted create leaves a plain entry, under the name in the clear,  *)
(* only where a crash or an error fell between its two transactions.       *)
SecretsSealed ==
  (phase = Mounted /\ op.pc # "seal") =>
    Cardinality({e \in secret : entries[e].key = NoKey}) <= crashes + errors

(* Nothing leaks: between operations the bitmap holds the files' blocks and*)
(* no others, as long as nothing has failed.                               *)
NoLeak ==
  (phase = Mounted /\ op.pc = "idle" /\ ~failed) =>
    used = UNION {OwnedBy(entries[f]) : f \in Files}

-----------------------------------------------------------------------------
(* The file store that callers of vtx2fs.h see: the entries of a mounted or*)
(* mountable disk, a file being what vtx2_read gives for each block, beside*)
(* what was last put there, which is nothing where a write only went past. *)
Block(e, k) ==
  IF k > Len(entries[e].blocks) \/ k > Len(saved[e]) THEN [val |-> Junk.val, put |-> 0]
  ELSE [val |-> content[entries[e].blocks[k]].val, put |-> saved[e][k].val]

Seen(e) ==
  IF ~super \/ entries[e].type \notin {"FILE", "DIR"} THEN [type |-> "NONE"]
  ELSE [type |-> entries[e].type, name |-> entries[e].name, key |-> entries[e].key,
        parent |-> entries[e].parent,
        data |-> [k \in 1 .. entries[e].size |-> Block(e, k)]]

seen  == [e \in Ents |-> Seen(e)]
Store == INSTANCE FileStore WITH files <- seen, Keys <- 1 .. MaxOps, Data <- 1 .. MaxOps,
                                 Values <- 0 .. MaxOps + 1, Nothing <- 0

(* With all its blocks, extents and crashes the file system does nothing   *)
(* that the file store does not allow, until a delete was interrupted half *)
(* way: a file changes only by a write, a truncate or a delete of it, and  *)
(* whatever stops a write, new blocks appear in the file together or not at*)
(* all, and hold what that write put there, from where it started.         *)
RefinesFileStore == Store!Init /\ [][torn' \/ Store!Next]_seen
=============================================================================
