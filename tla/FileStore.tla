----------------------------- MODULE FileStore -----------------------------
(***************************************************************************)
(* What the file system promises its callers, without blocks, extents, a   *)
(* bitmap or a journal: a tree of named entries, files with contents that  *)
(* change block by block where they are overwritten and at once where they *)
(* grow, and nothing that a crash or an error can half do, but that an     *)
(* operation may stop between two of these steps.                          *)
(*                                                                         *)
(* A file grows up to the end of a write, also when the write starts beyond*)
(* its end: the blocks in between are not cleared, and hold what is left on*)
(* the disk.                                                               *)
(***************************************************************************)
EXTENDS Naturals, Sequences

CONSTANTS Ents,     \* the indices of the entries; the root's is 0
          Names,    \* the names of entries
          Keys,     \* the keys of encrypted entries
          NoKey,    \* what the others have
          Data,     \* what callers write to a block
          Values,   \* what a block of the disk may hold
          Nothing   \* put to a block that no write has filled

VARIABLE files      \* the entries, Absent where there is none

(* A block of a file: what reading it gives, and what was last put there.  *)
Items == [val : Values, put : Data \cup {Nothing}]
Item(v) == [val |-> v, put |-> v]

Absent == [type |-> "NONE"]
Entry(ty, n, d) == [type |-> ty, name |-> n, key |-> NoKey, parent |-> d, data |-> <<>>]

Here == {e \in Ents : files[e].type # "NONE"}
Dirs == {e \in Here : files[e].type = "DIR"}
In(d) == {e \in Here \ {0} : files[e].parent = d}

Init == files = [e \in Ents |-> Absent]

-----------------------------------------------------------------------------
(* What may become of an entry.                                            *)

(* A disk without a file system gets one that is empty.                    *)
Formatted(e, new) == e = 0 /\ Here = {} /\ new = Entry("DIR", "/", 0)

Created(old, new) ==
  /\ old = Absent
  /\ \E d \in Dirs, n \in Names, ty \in {"FILE", "DIR"} :
       /\ new = Entry(ty, n, d)
       /\ \A c \in In(d) : files[c].key = NoKey => files[c].name # n

Encrypted(old, new) ==
  /\ old.key = NoKey /\ old.data = <<>>
  /\ \E key \in Keys : new = [old EXCEPT !.key = key]

Overwritten(old, new) ==
  \E k \in DOMAIN old.data, v \in Data : new = [old EXCEPT !.data[k] = Item(v)]

(* One write appends blocks: a gap, which may be empty, and from where it  *)
(* starts the blocks that hold what it was given.                          *)
Appended(old, new) ==
  \E from \in Len(old) .. Len(new) - 1, v \in Data :
    \A k \in 1 .. Len(new) :
      /\ k <= Len(old)              => new[k] = old[k]
      /\ k > Len(old) /\ k <= from  => new[k].put = Nothing
      /\ k > from                   => new[k] = Item(v)

Extended(old, new) ==
  /\ new.type = old.type /\ new = [old EXCEPT !.data = new.data]
  /\ new.data \in Seq(Items) /\ Appended(old.data, new.data)

Shortened(old, new) ==
  \E n \in 0 .. Len(old.data) : new = [old EXCEPT !.data = SubSeq(@, 1, n)]

Removed(e, new) == In(e) = {} /\ new = Absent

Becomes(e, old, new) ==
  \/ Formatted(e, new) \/ Created(old, new)
  \/ e \in Here \ {0} /\ (Encrypted(old, new) \/ Removed(e, new))
  \/ e \in Here /\ old.type = "FILE"
       /\ (Overwritten(old, new) \/ Extended(old, new) \/ Shortened(old, new))

(* A step is about one entry.                                              *)
Next == \E e \in Ents : /\ files' = [files EXCEPT ![e] = files'[e]]
                       /\ Becomes(e, files[e], files'[e])

Spec == Init /\ [][Next]_files

-----------------------------------------------------------------------------
EntryType ==
  [type : {"FILE", "DIR"}, name : Names \cup {"/"}, key : Keys \cup {NoKey},
   parent : Ents, data : Seq(Items)]

TypeOK == files \in [Ents -> EntryType \cup {Absent}]

(* The entries form a tree under the root as far as one level shows: every *)
(* parent is a directory that exists, the root is one and its own, and two *)
(* entries of a directory have different names, unless one is encrypted.   *)
TreeOK ==
  /\ Here # {} => 0 \in Dirs /\ files[0].parent = 0
  /\ \A e \in Here : files[e].parent \in Dirs
  /\ \A e, x \in Here \ {0} :
       /\ files[e].key = NoKey /\ files[x].key = NoKey
       /\ files[e].parent = files[x].parent /\ files[e].name = files[x].name
       => e = x

(* What was put into a block of a file is what reading it gives.           *)
ReadsWhatWasPut ==
  \A e \in Here : \A k \in DOMAIN files[e].data :
    files[e].data[k].put # Nothing => files[e].data[k].val = files[e].data[k].put
=============================================================================
