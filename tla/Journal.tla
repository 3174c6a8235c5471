------------------------------ MODULE Journal ------------------------------
(***************************************************************************)
(* The metadata journal of VTX2FS (vtx2fs.c): how one bitmap or entry table*)
(* block is logged and then written in place, and how a mount replays the  *)
(* log, with crashes and device errors between any two device writes.      *)
(*                                                                         *)
(* The journal area is a sequence of 8 byte words.  A record header is     *)
(* three words (magic and id; target block; length and checksum), a record *)
(* is BEGIN header, block image, COMMIT header, and records start at       *)
(* multiples of their own size, so they are not aligned on blocks.  The    *)
(* device writes one block at a time, and that is the unit of atomicity.   *)
(*                                                                         *)
(* Block images are numbered: image n is what transaction n writes.  The   *)
(* FNV-1a checksum of an image is the image itself: no two images of a     *)
(* behaviour have the same checksum.                                       *)
(***************************************************************************)
EXTENDS Naturals, FiniteSets

CONSTANTS BlockWords,     \* block_size, in words
          JournalBlocks,  \* sb.journal_block_count
          Targets,        \* the bitmap and entry table blocks
          MaxTxns, MaxCrashes, MaxErrors   \* bounds of a behaviour

HeaderWords  == 3
RecordWords  == HeaderWords + BlockWords + HeaderWords
JournalWords == JournalBlocks * BlockWords

(* vtx2_format gives the journal at least VTX2_MIN_JOURNAL_BLOCKS blocks,  *)
(* so one record always fits and the direct write is never taken.  There is*)
(* a bitmap, and there is an entry table.                                  *)
ASSUME GeometryAssumption ==
  /\ BlockWords \in Nat \ {0} /\ JournalBlocks \in Nat
  /\ RecordWords <= JournalWords /\ Targets # {}
ASSUME BoundsAssumption ==
  MaxTxns \in Nat /\ MaxCrashes \in Nat /\ MaxErrors \in Nat

VARIABLES journal,   \* the words of the journal area, on disk
          home,      \* the image in each block's own place, on disk
          pc,        \* what the driver does
          offset,    \* g_journal_write_offset, in words
          cursor,    \* words of the record already written, or words replayed,
                     \* or journal blocks already zeroed
          txn,       \* the target of the transaction in progress
          applied,   \* applied_any of the replay in progress
          images,    \* number of transactions started
          allowed,   \* history: images a reader of the block may see
          complete,  \* history: images wholly written to the journal, by target
          trusted,   \* history: the last crash found nothing but records of
                     \* its own session in the journal
          halfHeader,\* history: a crash or an error cut a BEGIN header in two
          crashes, errors

disk == <<journal, home>>
hist == <<allowed, complete, trusted, halfHeader>>
vars == <<journal, home, pc, offset, cursor, txn, applied, images, allowed,
          complete, trusted, halfHeader, crashes, errors>>

-----------------------------------------------------------------------------
(* Words and records.                                                      *)

Addresses == 0 .. JournalWords - 1
Images    == 0 .. MaxTxns
Kinds     == {"zero", "begin", "target", "sum", "data", "commit"}
Zero      == [kind |-> "zero"]
Word(k, v) == [kind |-> k, val |-> v]
Words == {Zero} \cup {Word("begin", "magic"), Word("commit", "magic")}
         \cup {Word("target", t) : t \in Targets}
         \cup {Word(k, i) : k \in {"sum", "data"}, i \in Images}

PayloadAt == HeaderWords
CommitAt  == HeaderWords + BlockWords

(* The words of the record that logs image i of block t.                   *)
RecordWord(t, i, n) ==
  CASE n = 0                              -> Word("begin", "magic")
    [] n = 1                              -> Word("target", t)
    [] n = 2                              -> Word("sum", i)
    [] n \in PayloadAt .. CommitAt - 1    -> Word("data", i)
    [] n = CommitAt                       -> Word("commit", "magic")
    [] OTHER                              -> Zero

IsRecord_NoChecksum(a) ==             \* mutant: the payload is not checked
  /\ a + RecordWords <= JournalWords
  /\ journal[a].kind = "begin" /\ journal[a + 2].kind = "sum"
  /\ journal[a + CommitAt].kind = "commit"

(* The record at address a has a plausible header, the payload its checksum*)
(* announces and a COMMIT mark.                                            *)
IsRecord(a) ==
  /\ a + RecordWords <= JournalWords
  /\ journal[a].kind = "begin"
  /\ journal[a + 2].kind = "sum"
  /\ \A n \in PayloadAt .. CommitAt - 1 :
       journal[a + n] = Word("data", journal[a + 2].val)
  /\ journal[a + CommitAt].kind = "commit"

TargetAt(a) == journal[a + 1].val
ImageAt(a)  == journal[a + 2].val
NextRecord_Last(a) == JournalWords    \* mutant: replays one record only
NextRecord(a) == a + RecordWords

-----------------------------------------------------------------------------
Init ==
  /\ journal = [a \in Addresses |-> Zero]        \* vtx2_format zeroes it
  /\ home    = [t \in Targets |-> 0]
  /\ pc = "idle" /\ offset = 0 /\ cursor = 0 /\ applied = FALSE
  /\ txn = CHOOSE t \in Targets : TRUE
  /\ images = 0 /\ crashes = 0 /\ errors = 0
  /\ allowed = [t \in Targets |-> {0}]
  /\ complete = [t \in Targets |-> {0}]
  /\ trusted = TRUE /\ halfHeader = FALSE

(* vtx2_journal_write_transaction, up to the first device write: the write *)
(* offset goes back to 0 when the record does not fit after it.            *)
WrappedOffset == IF offset + RecordWords > JournalWords THEN 0 ELSE offset

Begin(t) ==
  /\ pc = "idle" /\ images < MaxTxns
  /\ pc' = "log" /\ cursor' = 0 /\ txn' = t
  /\ offset' = WrappedOffset
  /\ images' = images + 1
  /\ allowed' = [allowed EXCEPT ![t] = @ \cup {images + 1}]
  /\ UNCHANGED <<disk, applied, complete, trusted, halfHeader, crashes, errors>>

(* vtx2_journal_write_bytes writes each part of the record block by block. *)
PartEnd  == CASE cursor < PayloadAt -> PayloadAt
              [] cursor \in PayloadAt .. CommitAt - 1 -> CommitAt
              [] OTHER -> RecordWords
BlockEnd == ((offset + cursor) \div BlockWords + 1) * BlockWords - offset
ChunkEnd == IF PartEnd < BlockEnd THEN PartEnd ELSE BlockEnd

LogChunk ==
  /\ pc = "log"
  /\ journal' = [a \in Addresses |->
                   IF a \in offset + cursor .. offset + ChunkEnd - 1
                   THEN RecordWord(txn, images, a - offset) ELSE journal[a]]
  /\ complete' = IF ChunkEnd = CommitAt
                 THEN [complete EXCEPT ![txn] = @ \cup {images}] ELSE complete
  /\ IF ChunkEnd = RecordWords
     THEN pc' = "place" /\ cursor' = 0 /\ offset' = offset + RecordWords
     ELSE cursor' = ChunkEnd /\ UNCHANGED <<pc, offset>>
  /\ UNCHANGED <<home, txn, applied, images, allowed, trusted, halfHeader, crashes, errors>>

(* The image goes to its own place and the transaction reports success.    *)
Place ==
  /\ pc = "place"
  /\ pc' = "idle"
  /\ home' = [home EXCEPT ![txn] = images]
  /\ allowed' = [allowed EXCEPT ![txn] = {images}]
  /\ UNCHANGED <<journal, offset, cursor, txn, applied, images, complete, trusted,
                 halfHeader, crashes, errors>>

(* Headers are not aligned on blocks: a BEGIN header may take two writes.  *)
CutsHeader == pc = "log" /\ cursor \in 1 .. PayloadAt - 1

(* A device write reports an error: the transaction returns it at once.    *)
DeviceError ==
  /\ pc \in {"log", "place"} /\ errors < MaxErrors
  /\ errors' = errors + 1
  /\ pc' = "idle" /\ cursor' = 0
  /\ halfHeader' = (halfHeader \/ CutsHeader)
  /\ UNCHANGED <<disk, offset, txn, applied, images, allowed, complete, trusted, crashes>>

-----------------------------------------------------------------------------
(* Crash and mount.                                                        *)

InSession == pc \in {"idle", "log", "place"}

(* Nothing is left in the journal after the part this session has written: *)
(* no record of an earlier lap or of an earlier session.                   *)
NoLeftovers ==
  LET end == offset + (IF pc = "log" THEN cursor ELSE 0)
  IN  \A a \in Addresses : a >= end => journal[a] = Zero

Crash ==
  /\ pc # "off" /\ crashes < MaxCrashes
  /\ crashes' = crashes + 1
  /\ pc' = "off" /\ offset' = 0 /\ cursor' = 0 /\ applied' = FALSE
  /\ trusted' = IF InSession THEN NoLeftovers ELSE trusted
  /\ halfHeader' = (halfHeader \/ CutsHeader)
  /\ UNCHANGED <<disk, txn, images, allowed, complete, errors>>

Mount ==
  /\ pc = "off"
  /\ pc' = "replay"
  /\ UNCHANGED <<disk, offset, cursor, txn, applied, images, hist, crashes, errors>>

(* vtx2_journal_replay writes one valid record to its place ...            *)
ReplayRecord ==
  /\ pc = "replay" /\ IsRecord(cursor)
  /\ home' = [home EXCEPT ![TargetAt(cursor)] = ImageAt(cursor)]
  /\ applied' = TRUE
  /\ cursor' = NextRecord(cursor)
  /\ UNCHANGED <<journal, pc, offset, txn, images, hist, crashes, errors>>

(* What a reader may see is settled once the mount is over.                *)
Mounted ==
  /\ pc' = "idle" /\ cursor' = 0 /\ offset' = 0
  /\ allowed' = [t \in Targets |-> {home[t]}]

(* ... stops at the first record that is not valid, and zeroes the journal *)
(* only if it applied one.                                                 *)
ReplayEnds ==
  /\ pc = "replay" /\ ~IsRecord(cursor)
  /\ IF applied
     THEN pc' = "zero" /\ cursor' = 0 /\ UNCHANGED <<offset, allowed>>
     ELSE Mounted
  /\ UNCHANGED <<disk, txn, applied, images, complete, trusted, halfHeader, crashes, errors>>

ZeroBlock ==
  /\ pc = "zero"
  /\ journal' = [a \in Addresses |->
                   IF a \div BlockWords = cursor THEN Zero ELSE journal[a]]
  /\ IF cursor = JournalBlocks - 1
     THEN Mounted
     ELSE cursor' = cursor + 1 /\ UNCHANGED <<pc, offset, allowed>>
  /\ UNCHANGED <<home, txn, applied, images, complete, trusted, halfHeader, crashes, errors>>

Next == \/ \E t \in Targets : Begin(t)
        \/ LogChunk \/ Place \/ DeviceError
        \/ Crash \/ Mount \/ ReplayRecord \/ ReplayEnds \/ ZeroBlock

Spec == Init /\ [][Next]_vars

-----------------------------------------------------------------------------
(* What the journal promises.                                              *)

(* The types, checked as a part of OnlyWholeImages.                        *)
TypeOK ==
  /\ journal \in [Addresses -> Words]
  /\ home \in [Targets -> Images]
  /\ pc \in {"idle", "log", "place", "off", "replay", "zero"}
  /\ offset \in 0 .. JournalWords
  /\ cursor \in 0 .. JournalWords
  /\ txn \in Targets /\ applied \in BOOLEAN
  /\ images \in Images
  /\ allowed \in [Targets -> SUBSET Images]
  /\ complete \in [Targets -> SUBSET Images]
  /\ trusted \in BOOLEAN /\ halfHeader \in BOOLEAN
  /\ crashes \in 0 .. MaxCrashes /\ errors \in 0 .. MaxErrors

Remounted == pc \in {"replay", "zero"} /\ pc' = "idle"

(* As long as the journal held nothing but the records of the session that *)
(* crashed, a mount gives back, for every metadata block, the last image   *)
(* reported as written, or that of a transaction that was in progress or   *)
(* had failed since, never an older one, even if the mount itself crashed. *)
MountKeepsLatest ==
  [][Remounted /\ trusted => \A t \in Targets : home[t] \in allowed[t]]_vars

(* The promise of vtx2fs.c:322-329 and 443-445, without that condition.    *)
MountAlwaysKeepsLatest ==
  [][Remounted => \A t \in Targets : home[t] \in allowed[t]]_vars

(* No block ever holds anything but an image that was logged, whole, for   *)
(* that very block: a half written record is never applied, not even over  *)
(* the records of an earlier lap (vtx2fs.c:408-422), unless a BEGIN header *)
(* was cut in two: the old payload behind it may then go to its target.    *)
OnlyWholeImages ==
  TypeOK /\ (~halfHeader => \A t \in Targets : home[t] \in complete[t])
=============================================================================
