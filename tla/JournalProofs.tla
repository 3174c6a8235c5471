---------------------------- MODULE JournalProofs ----------------------------
(***************************************************************************)
(* The journal of the file system, for every size of block and of journal, *)
(* every set of blocks and any number of transactions, crashes and errors: *)
(* only whole images reach their places, and a mount after a crash gives   *)
(* back the last ones.                                                     *)
(***************************************************************************)
EXTENDS Journal, TLAPS

-----------------------------------------------------------------------------
(* Where records may start.                                                *)
Slots == {k * RecordWords : k \in Nat}

(* No image number of a later transaction is in the journal yet.           *)
DataOld == \A a \in Addresses : journal[a].kind = "data" => journal[a].val <= images

(* While a record is logged, its words up to the cursor are in place, and  *)
(* nowhere else is a word of its image.                                    *)
Logging ==
  pc = "log" =>
    /\ offset + RecordWords <= JournalWords /\ cursor < RecordWords
    /\ \A n \in 0 .. cursor - 1 : journal[offset + n] = RecordWord(txn, images, n)
    /\ \A a \in Addresses : journal[a] = Word("data", images)
                              => a \in offset + PayloadAt .. offset + cursor - 1
    /\ images \in allowed[txn]
    /\ cursor >= CommitAt => images \in complete[txn]

(* Then the record is behind the write offset, and its image is due.       *)
Placing ==
  pc = "place" =>
    /\ \E a \in Slots : /\ a + RecordWords = offset
                        /\ TargetAt(a) = txn /\ ImageAt(a) = images
    /\ images \in allowed[txn] /\ images \in complete[txn]

(* A reader sees what it may, and every slot before the write offset holds *)
(* a record whose image its block may show, or a later one of that block   *)
(* has such an image.                                                      *)
Shown(a) == ImageAt(a) \in allowed[TargetAt(a)]

Lap ==
  InSession =>
    /\ offset \in Slots
    /\ \A t \in Targets : home[t] \in allowed[t]
    /\ \A a \in Slots : a < offset =>
         /\ IsRecord(a) /\ TargetAt(a) \in Targets
         /\ Shown(a) \/ \E b \in Slots : /\ a < b /\ b < offset
                                         /\ TargetAt(b) = TargetAt(a) /\ Shown(b)

(* A replay that begins now reaches slot a.                                *)
Reached(a) == \A b \in Slots : b <= a => IsRecord(b)

(* The same after a crash of a session that left nothing of others.        *)
ReplayShows ==
  (trusted /\ ~InSession) =>
    \A a \in Slots : Reached(a) =>
      Shown(a) \/ \E b \in Slots : /\ a < b /\ Reached(b)
                                   /\ TargetAt(b) = TargetAt(a) /\ Shown(b)

(* What home does not show yet, the rest of the replay brings.             *)
Awaits(t, from) ==
  \/ home[t] \in allowed[t]
  \/ \E b \in Slots : from <= b /\ Reached(b) /\ TargetAt(b) = t /\ Shown(b)

HomeComes ==
  /\ pc = "off" => cursor = 0
  /\ pc = "replay" => cursor \in Slots /\ \A b \in Slots : b < cursor => IsRecord(b)
  /\ (trusted /\ pc \in {"off", "replay"}) => \A t \in Targets : Awaits(t, cursor)
  /\ (trusted /\ pc = "zero") => \A t \in Targets : home[t] \in allowed[t]

(* Blocks of the journal are zeroed from the first one on.                 *)
Zeroing ==
  pc = "zero" => /\ cursor \in 0 .. JournalBlocks - 1
                 /\ \A a \in Addresses : a \div BlockWords < cursor => journal[a] = Zero

(* A slot with the header and the payload of a record holds the image of a *)
(* transaction that was logged whole, and for the block it names.          *)
WholeAt(a) ==
  (/\ journal[a].kind = "begin" /\ journal[a + 2].kind = "sum"
   /\ \A n \in PayloadAt .. CommitAt - 1 : journal[a + n] = Word("data", journal[a + 2].val))
  => /\ journal[a + 1].kind = "target"
     /\ journal[a + 2].val \in complete[journal[a + 1].val]

InHeader(a) == pc = "log" /\ a = offset /\ cursor \in 1 .. PayloadAt - 1

Whole ==
  ~halfHeader =>
    /\ \A t \in Targets : home[t] \in complete[t]
    /\ \A a \in Slots : (a + RecordWords <= JournalWords /\ ~InHeader(a)) => WholeAt(a)

JInv == TypeOK /\ DataOld /\ Logging /\ Placing /\ Lap /\ ReplayShows /\ HomeComes
        /\ Zeroing /\ Whole

-----------------------------------------------------------------------------
(* Arithmetic of blocks and slots.                                         *)

LEMMA BlockAfter ==
  ASSUME NEW x \in Nat, NEW b \in Nat \ {0}
  PROVE  (x \div b + 1) * b \in Nat /\ x < (x \div b + 1) * b
OBVIOUS

LEMMA DivMonotone ==
  ASSUME NEW x \in Nat, NEW y \in Nat, NEW b \in Nat \ {0}, x <= y
  PROVE  x \div b <= y \div b /\ x \div b \in Nat
OBVIOUS

LEMMA Sizes ==
  ASSUME GeometryAssumption
  PROVE  /\ BlockWords \in Nat \ {0} /\ JournalBlocks \in Nat
         /\ PayloadAt = 3 /\ CommitAt = BlockWords + 3 /\ RecordWords = BlockWords + 6
         /\ JournalWords \in Nat /\ RecordWords <= JournalWords
         /\ Addresses = 0 .. JournalWords - 1
BY DEF GeometryAssumption, PayloadAt, CommitAt, RecordWords, HeaderWords, JournalWords, Addresses

LEMMA SlotsApart ==
  ASSUME GeometryAssumption, NEW a \in Slots, NEW b \in Slots
  PROVE  /\ a \in Nat /\ a + RecordWords \in Slots /\ 0 \in Slots
         /\ a < b => a + RecordWords <= b
<1>1. PICK r \in Nat \ {0} : r = RecordWords
  BY Sizes
<1>2. PICK k \in Nat : a = k * r
  BY <1>1 DEF Slots
<1>3. PICK m \in Nat : b = m * r
  BY <1>1 DEF Slots
<1>4. a \in Nat /\ 0 = 0 * r
  BY <1>2
<1>5. a + r = (k + 1) * r
  BY <1>2
<1>6. ASSUME a < b PROVE a + r <= b
  <2>1. k < m
    BY <1>2, <1>3, <1>6
  <2>2. PICK d \in Nat : m = k + 1 + d
    <3>1. m - k - 1 \in Nat /\ m = k + 1 + (m - k - 1)
      BY <2>1
    <3> QED BY <3>1
  <2>3. b = (k + 1) * r + d * r /\ d * r >= 0
    BY <1>3, <2>2
  <2> QED BY <1>4, <1>5, <2>3
<1>7. a + r \in Slots
  <2>1. a + r = (k + 1) * RecordWords /\ k + 1 \in Nat
    BY <1>1, <1>5
  <2> QED BY <2>1 DEF Slots
<1>8. 0 \in Slots
  BY <1>1, <1>4 DEF Slots
<1> QED BY <1>1, <1>4, <1>6, <1>7, <1>8

LEMMA BlocksInWords ==
  ASSUME GeometryAssumption
  PROVE  JournalBlocks <= JournalWords /\ 0 \in 0 .. JournalBlocks - 1
<1>0. BlockWords - 1 \in Nat /\ JournalBlocks \in Nat /\ JournalWords \in Nat
  BY Sizes
<1>1. PICK b \in Nat, n \in Nat, w \in Nat : b = BlockWords - 1 /\ n = JournalBlocks /\ w = JournalWords
  BY <1>0
<1>2. w = n * b + n /\ n * b >= 0
  BY <1>1, Sizes DEF JournalWords
<1>3. n # 0
  <2>1. n = 0 => w = 0
    BY <1>1, <1>2
  <2> QED BY <1>1, <2>1, Sizes
<1> QED BY <1>1, <1>2, <1>3, Sizes

-----------------------------------------------------------------------------
(* Words and records.                                                      *)

LEMMA WordFacts ==
  ASSUME NEW w \in Words
  PROVE  /\ w.kind = "sum" => w.val \in Images
         /\ w.kind = "target" => w.val \in Targets
         /\ w.kind = "data" => w.val \in Images /\ w = Word("data", w.val)
<1>1. CASE w = Zero
  BY <1>1 DEF Zero
<1>2. CASE w \in {Word("begin", "magic"), Word("commit", "magic")}
  BY <1>2 DEF Word
<1>3. CASE \E t \in Targets : w = Word("target", t)
  BY <1>3 DEF Word
<1>4. CASE \E k \in {"sum", "data"}, i \in Images : w = Word(k, i)
  BY <1>4 DEF Word
<1> QED BY <1>1, <1>2, <1>3, <1>4 DEF Words

LEMMA RecordWords1 ==
  ASSUME GeometryAssumption, NEW t, NEW i
  PROVE  /\ RecordWord(t, i, 0) = Word("begin", "magic") /\ RecordWord(t, i, 1) = Word("target", t)
         /\ RecordWord(t, i, 2) = Word("sum", i)
         /\ RecordWord(t, i, CommitAt) = Word("commit", "magic")
         /\ \A n \in PayloadAt .. CommitAt - 1 : RecordWord(t, i, n) = Word("data", i)
         /\ \A n \in Nat : RecordWord(t, i, n).kind = "data"
                             => n \in PayloadAt .. CommitAt - 1 /\ RecordWord(t, i, n).val = i
<1>1. \A n \in Nat : RecordWord(t, i, n) =
        CASE n = 0                              -> Word("begin", "magic")
          [] n = 1                              -> Word("target", t)
          [] n = 2                              -> Word("sum", i)
          [] n \in PayloadAt .. CommitAt - 1    -> Word("data", i)
          [] n = CommitAt                       -> Word("commit", "magic")
          [] OTHER                              -> Zero
  BY DEF RecordWord
<1>2. /\ RecordWord(t, i, 0) = Word("begin", "magic") /\ RecordWord(t, i, 1) = Word("target", t)
      /\ RecordWord(t, i, 2) = Word("sum", i)
      /\ RecordWord(t, i, CommitAt) = Word("commit", "magic")
  <2>1. CommitAt \in Nat /\ CommitAt \notin {0, 1, 2} /\ CommitAt \notin PayloadAt .. CommitAt - 1
        /\ \A m \in {0, 1, 2} : m \in Nat /\ m \notin PayloadAt .. CommitAt - 1
    BY Sizes
  <2>2. RecordWord(t, i, CommitAt) = Word("commit", "magic")
    BY <1>1, <2>1
  <2>3. RecordWord(t, i, 0) = Word("begin", "magic")
    BY <1>1, <2>1
  <2>4. RecordWord(t, i, 1) = Word("target", t)
    BY <1>1, <2>1
  <2>5. RecordWord(t, i, 2) = Word("sum", i)
    BY <1>1, <2>1
  <2> QED BY <2>2, <2>3, <2>4, <2>5
<1>3. \A n \in PayloadAt .. CommitAt - 1 : RecordWord(t, i, n) = Word("data", i)
  BY <1>1, Sizes
<1>4. ASSUME NEW n \in Nat, n \notin PayloadAt .. CommitAt - 1
      PROVE  RecordWord(t, i, n) \in {Word("begin", "magic"), Word("target", t), Word("sum", i),
                                      Word("commit", "magic"), Zero}
  BY <1>1, <1>4, Sizes
<1>5. ASSUME NEW n \in Nat, n \notin PayloadAt .. CommitAt - 1 PROVE RecordWord(t, i, n).kind # "data"
  BY <1>4, <1>5 DEF Word, Zero
<1>6. Word("data", i).val = i
  BY DEF Word
<1> QED BY <1>2, <1>3, <1>5, <1>6

LEMMA RecordWordTyped ==
  ASSUME GeometryAssumption, NEW t \in Targets, NEW i \in Images, NEW n \in Nat
  PROVE  RecordWord(t, i, n) \in Words
<1>1. RecordWord(t, i, n) \in {Word("begin", "magic"), Word("target", t), Word("sum", i),
                               Word("data", i), Word("commit", "magic"), Zero}
  BY Sizes DEF RecordWord
<1> QED BY <1>1 DEF Words

(* Words that agree make the same record.                                  *)
LEMMA SlotSame ==
  ASSUME GeometryAssumption, NEW a \in Nat,
         \A n \in 0 .. RecordWords - 1 : journal'[a + n] = journal[a + n]
  PROVE  /\ IsRecord(a)' <=> IsRecord(a)
         /\ TargetAt(a)' = TargetAt(a) /\ ImageAt(a)' = ImageAt(a)
         /\ journal'[a] = journal[a] /\ journal'[a + 1] = journal[a + 1]
         /\ journal'[a + 2] = journal[a + 2]
         /\ \A n \in PayloadAt .. CommitAt - 1 : journal'[a + n] = journal[a + n]
<1>1. /\ journal'[a] = journal[a] /\ journal'[a + 1] = journal[a + 1]
      /\ journal'[a + 2] = journal[a + 2] /\ journal'[a + CommitAt] = journal[a + CommitAt]
      /\ \A n \in PayloadAt .. CommitAt - 1 : journal'[a + n] = journal[a + n]
  <2>1. /\ 0 \in 0 .. RecordWords - 1 /\ 1 \in 0 .. RecordWords - 1 /\ 2 \in 0 .. RecordWords - 1
        /\ CommitAt \in 0 .. RecordWords - 1 /\ a + 0 = a
        /\ \A n \in PayloadAt .. CommitAt - 1 : n \in 0 .. RecordWords - 1
    BY Sizes
  <2> QED BY <2>1
<1> QED BY <1>1 DEF IsRecord, TargetAt, ImageAt

LEMMA RecordSame ==
  ASSUME journal' = journal
  PROVE  /\ \A a : /\ IsRecord(a)' <=> IsRecord(a)
                   /\ TargetAt(a)' = TargetAt(a) /\ ImageAt(a)' = ImageAt(a)
         /\ \A a : Reached(a)' <=> Reached(a)
BY DEF IsRecord, TargetAt, ImageAt, Reached

(* The words of a record make one.                                         *)
LEMMA WrittenIsRecord ==
  ASSUME GeometryAssumption, NEW a \in Nat, NEW t, NEW i, a + RecordWords <= JournalWords,
         \A n \in 0 .. RecordWords - 1 : journal'[a + n] = RecordWord(t, i, n)
  PROVE  IsRecord(a)' /\ TargetAt(a)' = t /\ ImageAt(a)' = i
<1>1. /\ 0 \in 0 .. RecordWords - 1 /\ 1 \in 0 .. RecordWords - 1 /\ 2 \in 0 .. RecordWords - 1
      /\ CommitAt \in 0 .. RecordWords - 1 /\ a + 0 = a
      /\ \A n \in PayloadAt .. CommitAt - 1 : n \in 0 .. RecordWords - 1
  BY Sizes
<1>2. /\ journal'[a] = Word("begin", "magic") /\ journal'[a + 1] = Word("target", t)
      /\ journal'[a + 2] = Word("sum", i) /\ journal'[a + CommitAt] = Word("commit", "magic")
      /\ \A n \in PayloadAt .. CommitAt - 1 : journal'[a + n] = Word("data", i)
  BY <1>1, RecordWords1
<1>3. Word("sum", i).val = i /\ Word("target", t).val = t
  BY DEF Word
<1>4. IsRecord(a)'
  BY <1>2, <1>3 DEF IsRecord, Word
<1> QED BY <1>2, <1>3, <1>4 DEF TargetAt, ImageAt

-----------------------------------------------------------------------------
(* The steps of a transaction.                                             *)

LEMMA InitJournal ==
  ASSUME GeometryAssumption, BoundsAssumption, Init PROVE JInv
<1>1. /\ journal = [a \in Addresses |-> Zero] /\ home = [t \in Targets |-> 0]
      /\ pc = "idle" /\ offset = 0 /\ cursor = 0 /\ applied = FALSE /\ txn \in Targets
      /\ images = 0 /\ crashes = 0 /\ errors = 0 /\ trusted = TRUE /\ halfHeader = FALSE
      /\ allowed = [t \in Targets |-> {0}] /\ complete = [t \in Targets |-> {0}]
  BY DEF Init, GeometryAssumption
<1>2. TypeOK
  <2>1. /\ 0 \in Images /\ 0 \in 0 .. JournalWords /\ 0 \in 0 .. MaxCrashes /\ 0 \in 0 .. MaxErrors
        /\ Zero \in Words
    BY Sizes DEF BoundsAssumption, Images, Words
  <2> QED BY <1>1, <2>1 DEF TypeOK
<1>3. \A a \in Addresses : journal[a].kind = "zero"
  BY <1>1 DEF Zero
<1>4. DataOld /\ Logging /\ Placing /\ ReplayShows /\ HomeComes /\ Zeroing
  BY <1>1, <1>3 DEF DataOld, Logging, Placing, ReplayShows, HomeComes, Zeroing, InSession
<1>5. 0 \in Slots /\ \A a \in Slots : a \in Nat
  <2>1. 0 = 0 * RecordWords
    BY Sizes
  <2>2. 0 \in Slots
    BY <2>1 DEF Slots
  <2> QED BY <2>2, SlotsApart
<1>6. Lap
  BY <1>1, <1>5 DEF Lap
<1>7. Whole
  <2>1. ASSUME NEW a \in Slots, a + RecordWords <= JournalWords PROVE WholeAt(a)
    <3>1. a \in Addresses
      BY <1>5, <2>1, Sizes
    <3> QED BY <1>3, <3>1 DEF WholeAt
  <2> QED BY <1>1, <2>1 DEF Whole
<1> QED BY <1>2, <1>4, <1>6, <1>7 DEF JInv

LEMMA BeginKeeps ==
  ASSUME GeometryAssumption, BoundsAssumption, JInv, NEW t \in Targets, Begin(t) PROVE JInv'
<1>1. /\ pc = "idle" /\ images < MaxTxns /\ pc' = "log" /\ cursor' = 0 /\ txn' = t
      /\ offset' = IF offset + RecordWords > JournalWords THEN 0 ELSE offset
      /\ images' = images + 1 /\ allowed' = [allowed EXCEPT ![t] = @ \cup {images + 1}]
      /\ UNCHANGED <<journal, home, applied, complete, trusted, halfHeader, crashes, errors>>
  BY DEF Begin, WrappedOffset, disk
<1>2. TypeOK /\ images \in Nat /\ images + 1 \in Images /\ offset \in 0 .. JournalWords
  BY <1>1 DEF JInv, TypeOK, Images, BoundsAssumption
<1>3. /\ offset' \in 0 .. JournalWords /\ offset' + RecordWords <= JournalWords
  BY <1>1, <1>2, Sizes
<1>4. /\ allowed' \in [Targets -> SUBSET Images] /\ images' \in allowed'[t]
      /\ \A u \in Targets : allowed[u] \subseteq allowed'[u]
  BY <1>1, <1>2 DEF TypeOK
<1>5. TypeOK'
  <2>1. cursor' \in 0 .. JournalWords
    BY <1>1, Sizes
  <2> QED BY <1>1, <1>2, <1>3, <1>4, <2>1 DEF TypeOK
<1>6. \A a \in Addresses : journal[a].kind = "data" => journal[a].val \in Nat /\ journal[a].val <= images
  <2>1. \A a \in Addresses : journal[a].kind = "data" => journal[a].val \in Images
    BY <1>2, WordFacts DEF TypeOK
  <2> QED BY <2>1 DEF JInv, DataOld, Images
<1>7. DataOld'
  <2>1. \A v \in Nat : v <= images => v <= images + 1
    BY <1>2
  <2> QED BY <1>1, <1>6, <2>1 DEF DataOld
<1>8. Logging'
  <2>1. \A a \in Addresses : journal[a] # Word("data", images + 1)
    BY <1>2, <1>6 DEF Word
  <2>2. 0 < RecordWords /\ ~(0 >= CommitAt)
    BY Sizes
  <2> QED BY <1>1, <1>3, <1>4, <2>1, <2>2 DEF Logging
<1>9. Lap'
  <2>1. /\ offset \in Slots /\ \A u \in Targets : home[u] \in allowed[u]
        /\ \A a \in Slots : a < offset =>
             /\ IsRecord(a) /\ TargetAt(a) \in Targets
             /\ Shown(a) \/ \E b \in Slots : /\ a < b /\ b < offset
                                             /\ TargetAt(b) = TargetAt(a) /\ Shown(b)
    BY <1>1 DEF JInv, Lap, InSession
  <2>2. offset' \in Slots /\ \A u \in Targets : home'[u] \in allowed'[u]
    BY <1>1, <1>4, <2>1, SlotsApart
  <2>3. ASSUME NEW a \in Slots, TargetAt(a) \in Targets, Shown(a) PROVE Shown(a)'
    BY <1>1, <1>4, <2>3, RecordSame DEF Shown
  <2>4. ASSUME NEW a \in Slots, a < offset'
        PROVE  /\ IsRecord(a)' /\ TargetAt(a)' \in Targets
               /\ Shown(a)' \/ \E b \in Slots : /\ a < b /\ b < offset'
                                                /\ TargetAt(b)' = TargetAt(a)' /\ Shown(b)'
    <3>1. offset' = offset
      BY <1>1, <2>4, SlotsApart
    <3>2. /\ IsRecord(a) /\ TargetAt(a) \in Targets
          /\ Shown(a) \/ \E b \in Slots : /\ a < b /\ b < offset
                                          /\ TargetAt(b) = TargetAt(a) /\ Shown(b)
      BY <2>1, <2>4, <3>1
    <3>3. IsRecord(a)' /\ TargetAt(a)' = TargetAt(a) /\ \A b : TargetAt(b)' = TargetAt(b)
      BY <1>1, <3>2, RecordSame
    <3> QED BY <2>3, <3>1, <3>2, <3>3
  <2> QED BY <2>2, <2>4 DEF Lap
<1>10. Whole'
  <2>1. \A a : WholeAt(a)' <=> WholeAt(a)
    BY <1>1 DEF WholeAt
  <2>2. \A a : ~InHeader(a)
    BY <1>1 DEF InHeader
  <2> QED BY <1>1, <2>1, <2>2 DEF JInv, Whole
<1>11. Placing' /\ ReplayShows' /\ HomeComes' /\ Zeroing'
  BY <1>1 DEF Placing, ReplayShows, HomeComes, Zeroing, InSession
<1> QED BY <1>5, <1>7, <1>8, <1>9, <1>10, <1>11 DEF JInv

LEMMA PlaceKeeps ==
  ASSUME GeometryAssumption, BoundsAssumption, JInv, Place PROVE JInv'
<1>1. /\ pc = "place" /\ pc' = "idle" /\ home' = [home EXCEPT ![txn] = images]
      /\ allowed' = [allowed EXCEPT ![txn] = {images}]
      /\ UNCHANGED <<journal, offset, cursor, txn, applied, images, complete, trusted,
                     halfHeader, crashes, errors>>
  BY DEF Place
<1>2. TypeOK /\ txn \in Targets /\ images \in Images
  BY DEF JInv, TypeOK
<1>3. /\ home' \in [Targets -> Images] /\ allowed' \in [Targets -> SUBSET Images]
      /\ home'[txn] = images /\ allowed'[txn] = {images}
      /\ \A u \in Targets : u # txn => home'[u] = home[u] /\ allowed'[u] = allowed[u]
  BY <1>1, <1>2 DEF TypeOK
<1>4. TypeOK'
  BY <1>1, <1>2, <1>3 DEF TypeOK
<1>5. PICK s \in Slots : s + RecordWords = offset /\ TargetAt(s) = txn /\ ImageAt(s) = images
  BY <1>1 DEF JInv, Placing
<1>6. Lap'
  <2>1. /\ offset \in Slots /\ \A u \in Targets : home[u] \in allowed[u]
        /\ \A a \in Slots : a < offset =>
             /\ IsRecord(a) /\ TargetAt(a) \in Targets
             /\ Shown(a) \/ \E b \in Slots : /\ a < b /\ b < offset
                                             /\ TargetAt(b) = TargetAt(a) /\ Shown(b)
    BY <1>1 DEF JInv, Lap, InSession
  <2>2. \A u \in Targets : home'[u] \in allowed'[u]
    BY <1>3, <2>1
  <2>3. Shown(s)' /\ s < offset
    <3>1. s < offset
      BY <1>5, SlotsApart, Sizes
    <3> QED BY <1>1, <1>3, <1>5, <3>1, RecordSame DEF Shown
  <2>4. ASSUME NEW a \in Slots, a < offset
        PROVE  /\ IsRecord(a)' /\ TargetAt(a)' \in Targets
               /\ Shown(a)' \/ \E b \in Slots : /\ a < b /\ b < offset
                                                /\ TargetAt(b)' = TargetAt(a)' /\ Shown(b)'
    <3>1. /\ IsRecord(a) /\ TargetAt(a) \in Targets
          /\ Shown(a) \/ \E b \in Slots : /\ a < b /\ b < offset
                                          /\ TargetAt(b) = TargetAt(a) /\ Shown(b)
      BY <2>1, <2>4
    <3>2. IsRecord(a)' /\ TargetAt(a)' = TargetAt(a) /\ \A b : TargetAt(b)' = TargetAt(b)
      BY <1>1, <3>1, RecordSame
    <3>3. CASE TargetAt(a) = txn
      <4>1. a = s \/ a < s
        <5>1. s < a => s + RecordWords <= a
          BY SlotsApart
        <5>2. a \in Nat /\ s \in Nat /\ offset \in Nat
          BY <1>2, SlotsApart, Sizes DEF TypeOK
        <5>3. ~(s < a)
          BY <1>5, <2>4, <5>1, <5>2
        <5> QED BY <5>2, <5>3
      <4> QED BY <1>5, <2>3, <3>2, <3>1, <3>3, <4>1
    <3>4. CASE TargetAt(a) # txn
      <4>1. ASSUME NEW b \in Slots, TargetAt(b) = TargetAt(a), Shown(b) PROVE Shown(b)'
        BY <1>1, <1>3, <3>1, <3>4, <4>1, RecordSame DEF Shown
      <4> QED BY <3>1, <3>2, <4>1
    <3> QED BY <3>3, <3>4
  <2> QED BY <1>1, <2>1, <2>2, <2>4 DEF Lap
<1>7. Whole'
  <2>1. \A a : WholeAt(a)' <=> WholeAt(a)
    BY <1>1 DEF WholeAt
  <2>2. \A a : ~InHeader(a)
    BY <1>1 DEF InHeader
  <2>3. images \in complete[txn]
    BY <1>1 DEF JInv, Placing
  <2> QED BY <1>1, <1>3, <2>1, <2>2, <2>3 DEF JInv, Whole
<1>8. DataOld' /\ Logging' /\ Placing' /\ ReplayShows' /\ HomeComes' /\ Zeroing'
  BY <1>1 DEF JInv, DataOld, Logging, Placing, ReplayShows, HomeComes, Zeroing, InSession
<1> QED BY <1>4, <1>6, <1>7, <1>8 DEF JInv

(* The write offset stays where it is: the next record overwrites what the *)
(* failed transaction has written.                                         *)
LEMMA DeviceErrorKeeps ==
  ASSUME GeometryAssumption, BoundsAssumption, JInv, DeviceError PROVE JInv'
<1>1. /\ pc \in {"log", "place"} /\ errors < MaxErrors /\ errors' = errors + 1 /\ pc' = "idle"
      /\ cursor' = 0 /\ halfHeader' = (halfHeader \/ CutsHeader)
      /\ UNCHANGED <<journal, home, offset, txn, applied, images, allowed, complete, trusted,
                     crashes>>
  BY DEF DeviceError, disk
<1>2. TypeOK'
  <2>1. cursor' \in 0 .. JournalWords /\ errors' \in 0 .. MaxErrors /\ halfHeader' \in BOOLEAN
    BY <1>1, Sizes DEF JInv, TypeOK, BoundsAssumption
  <2> QED BY <1>1, <2>1 DEF JInv, TypeOK
<1>3. Lap'
  <2>1. \A a : Shown(a)' <=> Shown(a)
    BY <1>1, RecordSame DEF Shown
  <2> QED BY <1>1, <2>1, RecordSame DEF JInv, Lap, InSession
<1>4. Whole'
  <2>1. \A a : WholeAt(a)' <=> WholeAt(a)
    BY <1>1 DEF WholeAt
  <2>2. ~halfHeader' => ~halfHeader /\ \A a : ~InHeader(a)
    BY <1>1 DEF InHeader, CutsHeader
  <2> QED BY <1>1, <2>1, <2>2 DEF JInv, Whole
<1>5. DataOld' /\ Logging' /\ Placing' /\ ReplayShows' /\ HomeComes' /\ Zeroing'
  BY <1>1 DEF JInv, DataOld, Logging, Placing, ReplayShows, HomeComes, Zeroing, InSession
<1> QED BY <1>2, <1>3, <1>4, <1>5 DEF JInv

-----------------------------------------------------------------------------
(* One block write of a record.                                            *)

(* A write goes on from the cursor, at least one word, and never from one  *)
(* part of a record into the next.                                         *)
LEMMA ChunkBounds ==
  ASSUME GeometryAssumption, JInv, pc = "log"
  PROVE  /\ cursor \in 0 .. RecordWords - 1 /\ offset \in Slots /\ offset \in Nat
         /\ offset + RecordWords <= JournalWords
         /\ ChunkEnd \in Nat /\ cursor < ChunkEnd /\ ChunkEnd <= RecordWords
         /\ cursor < PayloadAt => ChunkEnd <= PayloadAt
         /\ cursor < CommitAt => ChunkEnd <= CommitAt
<1>1. /\ cursor \in 0 .. RecordWords - 1 /\ offset \in Slots /\ offset \in Nat
      /\ offset + RecordWords <= JournalWords
  BY Sizes DEF JInv, TypeOK, Logging, Lap, InSession
<1>2. PICK x \in Nat : x = offset + cursor
  BY <1>1, Sizes
<1>3. PICK next : next = (x \div BlockWords + 1) * BlockWords
  OBVIOUS
<1>4. next \in Nat /\ x < next /\ BlockEnd = next - offset
  BY <1>2, <1>3, BlockAfter, Sizes DEF BlockEnd
<1>5. PartEnd = IF cursor < PayloadAt THEN PayloadAt
                ELSE IF cursor < CommitAt THEN CommitAt ELSE RecordWords
  BY <1>1, Sizes DEF PartEnd
<1>6. ChunkEnd = IF PartEnd < BlockEnd THEN PartEnd ELSE BlockEnd
  BY DEF ChunkEnd
<1>7. PartEnd \in Nat /\ cursor < PartEnd /\ PartEnd <= RecordWords
  BY <1>1, <1>5, Sizes
<1>8. BlockEnd \in Nat /\ cursor < BlockEnd
  BY <1>1, <1>2, <1>4, Sizes
<1>9. ChunkEnd \in Nat /\ cursor < ChunkEnd /\ ChunkEnd <= PartEnd
  BY <1>6, <1>7, <1>8
<1> QED BY <1>1, <1>5, <1>7, <1>9, Sizes

LEMMA LogWrites ==
  ASSUME GeometryAssumption, JInv, LogChunk
  PROVE  /\ journal' \in [Addresses -> Words]
         /\ \A n \in 0 .. ChunkEnd - 1 : journal'[offset + n] = RecordWord(txn, images, n)
         /\ \A a \in Addresses :
              \/ journal'[a] = journal[a]
              \/ \E n \in cursor .. ChunkEnd - 1 :
                   a = offset + n /\ journal'[a] = RecordWord(txn, images, n)
         /\ \A a \in Slots : (a # offset /\ a + RecordWords <= JournalWords) =>
              \A n \in 0 .. RecordWords - 1 : journal'[a + n] = journal[a + n]
<1>1. /\ pc = "log"
      /\ journal' = [a \in Addresses |-> IF a \in offset + cursor .. offset + ChunkEnd - 1
                                         THEN RecordWord(txn, images, a - offset) ELSE journal[a]]
  BY DEF LogChunk
<1>2. /\ cursor \in 0 .. RecordWords - 1 /\ offset \in Slots /\ offset \in Nat
      /\ offset + RecordWords <= JournalWords
      /\ ChunkEnd \in Nat /\ cursor < ChunkEnd /\ ChunkEnd <= RecordWords
  BY <1>1, ChunkBounds
<1>3. /\ journal \in [Addresses -> Words] /\ txn \in Targets /\ images \in Images
      /\ \A n \in 0 .. cursor - 1 : journal[offset + n] = RecordWord(txn, images, n)
  BY <1>1 DEF JInv, TypeOK, Logging
<1>4. PICK end \in Nat : end = ChunkEnd
  BY <1>2
<1>5. \A a \in Addresses : a \in offset + cursor .. offset + end - 1
                             => a - offset \in cursor .. end - 1 /\ a - offset \in Nat
                                /\ a = offset + (a - offset)
  BY <1>2, <1>4, Sizes
<1>6. journal' \in [Addresses -> Words]
  BY <1>1, <1>3, <1>4, <1>5, RecordWordTyped
<1>7. \A n \in 0 .. end - 1 : journal'[offset + n] = RecordWord(txn, images, n)
  <2> TAKE n \in 0 .. end - 1
  <2>1. offset + n \in Addresses /\ (offset + n) - offset = n
    BY <1>2, <1>4, Sizes
  <2>2. CASE n < cursor
    <3>1. n \in 0 .. cursor - 1 /\ offset + n \notin offset + cursor .. offset + end - 1
      BY <1>2, <1>4, <2>2, Sizes
    <3> QED BY <1>1, <1>3, <1>4, <2>1, <3>1
  <2>3. CASE ~(n < cursor)
    <3>1. offset + n \in offset + cursor .. offset + end - 1
      BY <1>2, <1>4, <2>3, Sizes
    <3> QED BY <1>1, <1>4, <2>1, <3>1
  <2> QED BY <2>2, <2>3
<1>8. ASSUME NEW a \in Addresses
      PROVE  \/ journal'[a] = journal[a]
             \/ \E n \in cursor .. end - 1 :
                  a = offset + n /\ journal'[a] = RecordWord(txn, images, n)
  <2>1. CASE a \in offset + cursor .. offset + end - 1
    <3>1. journal'[a] = RecordWord(txn, images, a - offset)
      BY <1>1, <1>4, <2>1
    <3> QED BY <1>5, <2>1, <3>1
  <2>2. CASE a \notin offset + cursor .. offset + end - 1
    BY <1>1, <1>4, <2>2
  <2> QED BY <2>1, <2>2
<1>9. ASSUME NEW a \in Slots, a # offset, a + RecordWords <= JournalWords,
             NEW n \in 0 .. RecordWords - 1
      PROVE  journal'[a + n] = journal[a + n]
  <2>1. /\ a \in Nat
        /\ a < offset => a + RecordWords <= offset
        /\ offset < a => offset + RecordWords <= a
    BY <1>2, SlotsApart
  <2>2. a + n \in Addresses
    BY <1>9, <2>1, Sizes
  <2>3. a + n < offset \/ offset + RecordWords <= a + n
    <3>1. CASE a < offset
      BY <1>2, <1>9, <2>1, <3>1, Sizes
    <3>2. CASE offset < a
      BY <1>2, <1>9, <2>1, <3>2, Sizes
    <3> QED BY <1>2, <1>9, <2>1, <3>1, <3>2
  <2>4. a + n \notin offset + cursor .. offset + end - 1
    BY <1>2, <1>4, <2>1, <2>3, Sizes
  <2> QED BY <1>1, <1>4, <2>2, <2>4
<1> QED BY <1>4, <1>6, <1>7, <1>8, <1>9

LEMMA LogChunkKeeps ==
  ASSUME GeometryAssumption, BoundsAssumption, JInv, LogChunk PROVE JInv'
<1>1. /\ pc = "log"
      /\ complete' = IF ChunkEnd = CommitAt
                     THEN [complete EXCEPT ![txn] = @ \cup {images}] ELSE complete
      /\ \/ /\ ChunkEnd = RecordWords /\ pc' = "place" /\ cursor' = 0
            /\ offset' = offset + RecordWords
         \/ /\ ChunkEnd # RecordWords /\ pc' = "log" /\ cursor' = ChunkEnd /\ offset' = offset
      /\ UNCHANGED <<home, txn, applied, images, allowed, trusted, halfHeader, crashes, errors>>
  BY DEF LogChunk
<1>2. /\ cursor \in 0 .. RecordWords - 1 /\ offset \in Slots /\ offset \in Nat
      /\ offset + RecordWords <= JournalWords
      /\ ChunkEnd \in Nat /\ cursor < ChunkEnd /\ ChunkEnd <= RecordWords
      /\ cursor < PayloadAt => ChunkEnd <= PayloadAt
      /\ cursor < CommitAt => ChunkEnd <= CommitAt
  BY <1>1, ChunkBounds
<1>3. /\ journal' \in [Addresses -> Words]
      /\ \A n \in 0 .. ChunkEnd - 1 : journal'[offset + n] = RecordWord(txn, images, n)
      /\ \A a \in Addresses :
           \/ journal'[a] = journal[a]
           \/ \E n \in cursor .. ChunkEnd - 1 :
                a = offset + n /\ journal'[a] = RecordWord(txn, images, n)
      /\ \A a \in Slots : (a # offset /\ a + RecordWords <= JournalWords) =>
           \A n \in 0 .. RecordWords - 1 : journal'[a + n] = journal[a + n]
  BY LogWrites
<1>4. TypeOK /\ txn \in Targets /\ images \in Images /\ images \in Nat
  BY DEF JInv, TypeOK, Images
<1>5. /\ images \in allowed[txn] /\ (cursor >= CommitAt => images \in complete[txn])
      /\ \A a \in Addresses : journal[a] = Word("data", images)
                                => a \in offset + PayloadAt .. offset + cursor - 1
  BY <1>1 DEF JInv, Logging
<1>6. /\ complete' \in [Targets -> SUBSET Images]
      /\ \A t \in Targets : complete[t] \subseteq complete'[t]
      /\ ChunkEnd >= CommitAt => images \in complete'[txn]
  <2>1. /\ complete' \in [Targets -> SUBSET Images]
        /\ \A t \in Targets : complete[t] \subseteq complete'[t]
        /\ ChunkEnd = CommitAt => images \in complete'[txn]
    BY <1>1, <1>4 DEF TypeOK
  <2>2. ChunkEnd >= CommitAt => ChunkEnd = CommitAt \/ cursor >= CommitAt
    BY <1>2, Sizes
  <2> QED BY <1>4, <1>5, <2>1, <2>2
<1>7. TypeOK'
  <2>1. offset' \in 0 .. JournalWords /\ cursor' \in 0 .. JournalWords
    BY <1>1, <1>2, Sizes
  <2> QED BY <1>1, <1>3, <1>4, <1>6, <2>1 DEF TypeOK
<1>8. DataOld'
  <2>1. ASSUME NEW a \in Addresses, journal'[a].kind = "data" PROVE journal'[a].val <= images
    <3>1. CASE journal'[a] = journal[a]
      BY <2>1, <3>1 DEF JInv, DataOld
    <3>2. CASE \E n \in cursor .. ChunkEnd - 1 : journal'[a] = RecordWord(txn, images, n)
      <4>1. PICK n \in cursor .. ChunkEnd - 1 : journal'[a] = RecordWord(txn, images, n)
        BY <3>2
      <4>2. n \in Nat
        BY <1>2, Sizes
      <4> QED BY <1>4, <2>1, <4>1, <4>2, RecordWords1
    <3> QED BY <1>3, <3>1, <3>2
  <2> QED BY <1>1, <2>1 DEF DataOld
<1>9. Logging'
  <2> SUFFICES ASSUME pc' = "log" PROVE Logging'
    BY DEF Logging
  <2>1. cursor' = ChunkEnd /\ offset' = offset /\ cursor' < RecordWords
    BY <1>1, <1>2, Sizes
  <2>2. ASSUME NEW a \in Addresses, journal'[a] = Word("data", images)
        PROVE  a \in offset + PayloadAt .. offset + ChunkEnd - 1
    <3>1. CASE journal'[a] = journal[a]
      <4>1. a \in offset + PayloadAt .. offset + cursor - 1
        BY <1>5, <2>2, <3>1
      <4> QED BY <1>2, <4>1, Sizes
    <3>2. CASE \E n \in cursor .. ChunkEnd - 1 :
                 a = offset + n /\ journal'[a] = RecordWord(txn, images, n)
      <4>1. PICK n \in cursor .. ChunkEnd - 1 :
              a = offset + n /\ journal'[a] = RecordWord(txn, images, n)
        BY <3>2
      <4>2. n \in Nat
        BY <1>2, Sizes
      <4>3. n \in PayloadAt .. CommitAt - 1
        <5>1. RecordWord(txn, images, n).kind = "data"
          BY <2>2, <4>1 DEF Word
        <5> QED BY <4>2, <5>1, RecordWords1
      <4> QED BY <1>2, <4>1, <4>2, <4>3, Sizes
    <3> QED BY <1>3, <3>1, <3>2
  <2> QED BY <1>1, <1>2, <1>3, <1>5, <1>6, <2>1, <2>2 DEF Logging
<1>10. ASSUME NEW s, s = offset, ChunkEnd = RecordWords
       PROVE  IsRecord(s)' /\ TargetAt(s)' = txn /\ ImageAt(s)' = images
  <2>1. \A n \in 0 .. RecordWords - 1 : journal'[s + n] = RecordWord(txn, images, n)
    BY <1>3, <1>10
  <2>2. s \in Nat /\ s + RecordWords <= JournalWords
    BY <1>2, <1>10
  <2> QED BY <2>1, <2>2, WrittenIsRecord
<1>11. ASSUME NEW a \in Slots, a # offset, a + RecordWords <= JournalWords
       PROVE  /\ IsRecord(a)' <=> IsRecord(a)
              /\ TargetAt(a)' = TargetAt(a) /\ ImageAt(a)' = ImageAt(a)
              /\ journal'[a] = journal[a] /\ journal'[a + 1] = journal[a + 1]
              /\ journal'[a + 2] = journal[a + 2]
              /\ \A n \in PayloadAt .. CommitAt - 1 : journal'[a + n] = journal[a + n]
  <2>1. \A n \in 0 .. RecordWords - 1 : journal'[a + n] = journal[a + n]
    BY <1>3, <1>11
  <2>2. a \in Nat
    BY SlotsApart
  <2> QED BY <2>1, <2>2, SlotSame
<1>12. Placing'
  <2> SUFFICES ASSUME pc' = "place" PROVE Placing'
    BY DEF Placing
  <2>1. PICK s \in Slots : s = offset
    BY <1>2
  <2>2. offset' = s + RecordWords /\ ChunkEnd = RecordWords
    BY <1>1, <2>1
  <2>3. TargetAt(s)' = txn /\ ImageAt(s)' = images
    BY <1>10, <2>1, <2>2
  <2>4. images \in complete'[txn]
    BY <1>6, <2>2, Sizes
  <2> QED BY <1>1, <1>5, <2>2, <2>3, <2>4 DEF Placing
<1>13. Lap'
  <2>1. /\ \A u \in Targets : home[u] \in allowed[u]
        /\ \A a \in Slots : a < offset =>
             /\ IsRecord(a) /\ TargetAt(a) \in Targets
             /\ Shown(a) \/ \E b \in Slots : /\ a < b /\ b < offset
                                             /\ TargetAt(b) = TargetAt(a) /\ Shown(b)
    BY <1>1 DEF JInv, Lap, InSession
  <2>2. ASSUME NEW a \in Slots, a < offset
        PROVE  /\ IsRecord(a)' /\ TargetAt(a)' = TargetAt(a)
               /\ Shown(a)' <=> Shown(a)
    <3>1. a # offset /\ a + RecordWords <= JournalWords
      BY <1>2, <2>2, SlotsApart, Sizes
    <3>2. /\ IsRecord(a)' <=> IsRecord(a)
          /\ TargetAt(a)' = TargetAt(a) /\ ImageAt(a)' = ImageAt(a)
      BY <1>11, <3>1
    <3> QED BY <1>1, <2>1, <2>2, <3>2 DEF Shown
  <2>3. ASSUME NEW a \in Slots, a < offset
        PROVE  /\ IsRecord(a)' /\ TargetAt(a)' \in Targets
               /\ Shown(a)' \/ \E b \in Slots : /\ a < b /\ b < offset
                                                /\ TargetAt(b)' = TargetAt(a)' /\ Shown(b)'
    BY <2>1, <2>2, <2>3
  <2>4. CASE pc' = "log"
    <3>1. offset' = offset
      BY <1>1, <2>4
    <3> QED BY <1>1, <1>2, <2>1, <2>3, <3>1 DEF Lap
  <2>5. CASE pc' = "place"
    <3>1. offset' = offset + RecordWords /\ ChunkEnd = RecordWords /\ offset' \in Slots
      BY <1>1, <1>2, <2>5, SlotsApart
    <3>2. ASSUME NEW a \in Slots, a < offset'
          PROVE  /\ IsRecord(a)' /\ TargetAt(a)' \in Targets
                 /\ Shown(a)' \/ \E b \in Slots : /\ a < b /\ b < offset'
                                                  /\ TargetAt(b)' = TargetAt(a)' /\ Shown(b)'
      <4>1. a \in Nat /\ (offset < a => offset + RecordWords <= a)
        BY <1>2, SlotsApart
      <4>2. a < offset \/ a = offset
        BY <1>2, <3>1, <3>2, <4>1, Sizes
      <4>3. CASE a < offset
        <5>1. \A b \in Slots : b < offset => b < offset'
          BY <1>2, <3>1, SlotsApart, Sizes
        <5> QED BY <2>3, <4>3, <5>1
      <4>4. CASE a = offset
        <5>1. IsRecord(a)' /\ TargetAt(a)' = txn /\ ImageAt(a)' = images
          BY <1>10, <3>1, <4>4
        <5>2. Shown(a)'
          BY <1>1, <1>5, <5>1 DEF Shown
        <5> QED BY <1>4, <5>1, <5>2
      <4> QED BY <4>2, <4>3, <4>4
    <3> QED BY <1>1, <2>1, <3>1, <3>2 DEF Lap
  <2> QED BY <1>1, <2>4, <2>5
<1>14. Whole'
  <2> SUFFICES ASSUME ~halfHeader' PROVE Whole'
    BY DEF Whole
  <2>1. /\ \A t \in Targets : home[t] \in complete[t]
        /\ \A a \in Slots : (a + RecordWords <= JournalWords /\ ~InHeader(a)) => WholeAt(a)
    BY <1>1 DEF JInv, Whole
  <2>2. ASSUME NEW a \in Slots, a + RecordWords <= JournalWords, ~InHeader(a)' PROVE WholeAt(a)'
    <3> SUFFICES ASSUME journal'[a].kind = "begin", journal'[a + 2].kind = "sum",
                        \A n \in PayloadAt .. CommitAt - 1 :
                          journal'[a + n] = Word("data", journal'[a + 2].val)
                 PROVE  /\ journal'[a + 1].kind = "target"
                        /\ journal'[a + 2].val \in complete'[journal'[a + 1].val]
      BY DEF WholeAt
    <3>1. a \in Nat
      BY SlotsApart
    <3>2. CASE a = offset
      <4>1. ChunkEnd >= PayloadAt
        <5>1. CASE pc' = "place"
          BY <1>1, <5>1, Sizes
        <5>2. CASE pc' = "log"
          BY <1>1, <1>2, <2>2, <3>2, <5>2, Sizes DEF InHeader
        <5> QED BY <1>1, <5>1, <5>2
      <4>2. journal'[a + 1] = Word("target", txn) /\ journal'[a + 2] = Word("sum", images)
        <5>1. 1 \in 0 .. ChunkEnd - 1 /\ 2 \in 0 .. ChunkEnd - 1
          BY <1>2, <4>1, Sizes
        <5> QED BY <1>3, <3>2, <5>1, RecordWords1
      <4>3. /\ journal'[a + 1].kind = "target" /\ journal'[a + 1].val = txn
            /\ journal'[a + 2].val = images
        BY <4>2 DEF Word
      <4>4. ChunkEnd >= CommitAt
        <5>1. CommitAt - 1 \in PayloadAt .. CommitAt - 1 /\ a + (CommitAt - 1) \in Addresses
          BY <2>2, <3>1, Sizes
        <5>2. journal'[a + (CommitAt - 1)] = Word("data", images)
          BY <4>3, <5>1
        <5>3. CASE journal'[a + (CommitAt - 1)] = journal[a + (CommitAt - 1)]
          <6>1. a + (CommitAt - 1) \in offset + PayloadAt .. offset + cursor - 1
            BY <1>5, <5>1, <5>2, <5>3
          <6> QED BY <1>2, <3>1, <3>2, <6>1, Sizes
        <5>4. CASE \E n \in cursor .. ChunkEnd - 1 : a + (CommitAt - 1) = offset + n
          BY <1>2, <3>1, <3>2, <5>4, Sizes
        <5> QED BY <1>3, <5>1, <5>3, <5>4
      <4> QED BY <1>6, <4>3, <4>4
    <3>3. CASE a # offset
      <4>1. /\ journal'[a] = journal[a] /\ journal'[a + 1] = journal[a + 1]
            /\ journal'[a + 2] = journal[a + 2]
            /\ \A n \in PayloadAt .. CommitAt - 1 : journal'[a + n] = journal[a + n]
        BY <1>11, <2>2, <3>3
      <4>2. /\ journal[a + 1].kind = "target"
            /\ journal[a + 2].val \in complete[journal[a + 1].val]
        BY <2>1, <2>2, <3>3, <4>1 DEF WholeAt, InHeader
      <4>3. journal[a + 1].val \in Targets
        <5>1. a + 1 \in Addresses
          BY <2>2, <3>1, Sizes
        <5> QED BY <1>4, <4>2, <5>1, WordFacts DEF TypeOK
      <4> QED BY <1>6, <4>1, <4>2, <4>3
    <3> QED BY <3>2, <3>3
  <2> QED BY <1>1, <1>6, <2>1, <2>2 DEF Whole
<1>15. ReplayShows' /\ HomeComes' /\ Zeroing'
  BY <1>1 DEF ReplayShows, HomeComes, Zeroing, InSession
<1> QED BY <1>7, <1>8, <1>9, <1>12, <1>13, <1>14, <1>15 DEF JInv

-----------------------------------------------------------------------------
(* Crash, mount and replay.                                                *)

(* What a replay reaches after a crash that left nothing behind the write  *)
(* offset is a record of this lap, or the one that was being written and   *)
(* whose COMMIT mark is there.                                             *)
LEMMA ReachedIsOurs ==
  ASSUME GeometryAssumption, JInv, InSession, NoLeftovers, NEW a \in Slots, Reached(a)
  PROVE  \/ a < offset
         \/ TargetAt(a) = txn /\ ImageAt(a) = images /\ images \in allowed[txn]
<1>1. /\ IsRecord(a) /\ a \in Nat /\ offset \in Slots /\ offset \in Nat
  BY SlotsApart DEF Reached, JInv, Lap
<1>2. PICK end : end = offset + (IF pc = "log" THEN cursor ELSE 0)
  OBVIOUS
<1>3. \A w \in Addresses : w >= end => journal[w].kind = "zero"
  BY <1>2 DEF NoLeftovers, Zero
<1>4. /\ a + RecordWords <= JournalWords /\ journal[a].kind = "begin"
      /\ journal[a + CommitAt].kind = "commit"
  BY <1>1 DEF IsRecord
<1>5. a \in Addresses /\ a + CommitAt \in Addresses
  BY <1>1, <1>4, Sizes
<1>6. ~(a >= end) /\ ~(a + CommitAt >= end)
  BY <1>3, <1>4, <1>5
<1>7. CASE a < offset
  BY <1>7
<1>8. CASE ~(a < offset)
  <2>1. pc = "log"
    BY <1>1, <1>2, <1>6, <1>8, Sizes
  <2>2. /\ cursor \in Nat /\ cursor < RecordWords /\ images \in allowed[txn]
        /\ \A n \in 0 .. cursor - 1 : journal[offset + n] = RecordWord(txn, images, n)
    BY <2>1 DEF JInv, TypeOK, Logging
  <2>3. a = offset
    <3>1. offset < a => offset + RecordWords <= a
      BY <1>1, SlotsApart
    <3> QED BY <1>1, <1>2, <1>6, <1>8, <2>1, <2>2, <3>1, Sizes
  <2>4. CommitAt < cursor
    BY <1>1, <1>2, <1>6, <2>1, <2>2, <2>3, Sizes
  <2>5. 1 \in 0 .. cursor - 1 /\ 2 \in 0 .. cursor - 1
    BY <2>2, <2>4, Sizes
  <2>6. journal[a + 1] = Word("target", txn) /\ journal[a + 2] = Word("sum", images)
    BY <2>2, <2>3, <2>5, RecordWords1
  <2> QED BY <2>2, <2>6 DEF TargetAt, ImageAt, Word
<1> QED BY <1>7, <1>8

LEMMA CrashKeeps ==
  ASSUME GeometryAssumption, BoundsAssumption, JInv, Crash PROVE JInv'
<1>1. /\ pc # "off" /\ crashes < MaxCrashes /\ crashes' = crashes + 1 /\ pc' = "off"
      /\ offset' = 0 /\ cursor' = 0 /\ applied' = FALSE
      /\ trusted' = IF InSession THEN NoLeftovers ELSE trusted
      /\ halfHeader' = (halfHeader \/ CutsHeader)
      /\ UNCHANGED <<journal, home, txn, images, allowed, complete, errors>>
  BY DEF Crash, disk
<1>2. TypeOK'
  <2>1. crashes' \in 0 .. MaxCrashes /\ halfHeader' \in BOOLEAN /\ 0 \in 0 .. JournalWords
    BY <1>1, Sizes DEF JInv, TypeOK, BoundsAssumption
  <2>2. trusted' \in BOOLEAN
    <3>1. NoLeftovers \in BOOLEAN /\ trusted \in BOOLEAN
      BY DEF NoLeftovers, JInv, TypeOK
    <3> QED BY <1>1, <3>1
  <2> QED BY <1>1, <2>1, <2>2 DEF JInv, TypeOK
<1>3. Whole'
  <2>1. \A a : WholeAt(a)' <=> WholeAt(a)
    BY <1>1 DEF WholeAt
  <2>2. ~halfHeader' => ~halfHeader /\ \A a : ~InHeader(a)
    BY <1>1 DEF InHeader, CutsHeader
  <2> QED BY <1>1, <2>1, <2>2 DEF JInv, Whole
<1>4. /\ \A a : TargetAt(a)' = TargetAt(a) /\ ImageAt(a)' = ImageAt(a)
      /\ \A a : Reached(a)' <=> Reached(a)
      /\ \A a : Shown(a)' <=> Shown(a)
  BY <1>1, RecordSame DEF Shown
<1>5. ReplayShows'
  <2> SUFFICES ASSUME trusted', NEW a \in Slots, Reached(a)
               PROVE  Shown(a) \/ \E b \in Slots : /\ a < b /\ Reached(b)
                                                   /\ TargetAt(b) = TargetAt(a) /\ Shown(b)
    BY <1>4 DEF ReplayShows
  <2>1. CASE InSession
    <3>1. \/ a < offset
          \/ TargetAt(a) = txn /\ ImageAt(a) = images /\ images \in allowed[txn]
      BY <1>1, <2>1, ReachedIsOurs
    <3>2. CASE a < offset
      <4>1. /\ offset \in Slots
            /\ Shown(a) \/ \E b \in Slots : /\ a < b /\ b < offset
                                            /\ TargetAt(b) = TargetAt(a) /\ Shown(b)
            /\ \A b \in Slots : b < offset => IsRecord(b)
        BY <2>1, <3>2 DEF JInv, Lap
      <4>2. ASSUME NEW b \in Slots, b < offset PROVE Reached(b)
        <5>1. \A c \in Slots : c <= b => c < offset
          BY <4>1, <4>2, SlotsApart
        <5> QED BY <4>1, <5>1 DEF Reached
      <4> QED BY <4>1, <4>2
    <3>3. CASE TargetAt(a) = txn /\ ImageAt(a) = images /\ images \in allowed[txn]
      BY <3>3 DEF Shown
    <3> QED BY <3>1, <3>2, <3>3
  <2>2. CASE ~InSession
    BY <1>1, <2>2 DEF JInv, ReplayShows
  <2> QED BY <2>1, <2>2
<1>6. HomeComes'
  <2> SUFFICES ASSUME trusted', NEW t \in Targets PROVE Awaits(t, 0)
    BY <1>1, <1>4 DEF HomeComes, Awaits
  <2>1. CASE InSession
    BY <2>1 DEF JInv, Lap, Awaits
  <2>2. CASE pc \in {"off", "replay"}
    <3>1. Awaits(t, cursor)
      BY <1>1, <2>2 DEF JInv, HomeComes, InSession
    <3>2. \A b \in Slots : 0 <= b
      BY SlotsApart
    <3> QED BY <3>1, <3>2 DEF Awaits
  <2>3. CASE pc = "zero"
    BY <1>1, <2>3 DEF JInv, HomeComes, InSession, Awaits
  <2> QED BY <2>1, <2>2, <2>3 DEF JInv, TypeOK, InSession
<1>7. DataOld' /\ Logging' /\ Placing' /\ Lap' /\ Zeroing'
  BY <1>1 DEF JInv, DataOld, Logging, Placing, Lap, Zeroing, InSession
<1> QED BY <1>2, <1>3, <1>5, <1>6, <1>7 DEF JInv

LEMMA MountKeeps ==
  ASSUME GeometryAssumption, BoundsAssumption, JInv, Mount PROVE JInv'
<1>1. /\ pc = "off" /\ pc' = "replay"
      /\ UNCHANGED <<journal, home, offset, cursor, txn, applied, images, allowed, complete,
                     trusted, halfHeader, crashes, errors>>
  BY DEF Mount, disk, hist
<1>2. TypeOK'
  BY <1>1 DEF JInv, TypeOK
<1>3. Whole'
  <2>1. \A a : WholeAt(a)' <=> WholeAt(a)
    BY <1>1 DEF WholeAt
  <2>2. \A a : ~InHeader(a)
    BY <1>1 DEF InHeader
  <2> QED BY <1>1, <2>1, <2>2 DEF JInv, Whole
<1>4. /\ \A a : TargetAt(a)' = TargetAt(a)
      /\ \A a : Reached(a)' <=> Reached(a)
      /\ \A a : Shown(a)' <=> Shown(a)
  BY <1>1, RecordSame DEF Shown
<1>5. ReplayShows'
  BY <1>1, <1>4 DEF JInv, ReplayShows, InSession
<1>6. HomeComes'
  <2>1. cursor = 0 /\ 0 \in Slots
    <3>1. 0 = 0 * RecordWords
      BY Sizes
    <3> QED BY <1>1, <3>1 DEF JInv, HomeComes, Slots
  <2>2. trusted => \A t \in Targets : Awaits(t, cursor)
    BY <1>1 DEF JInv, HomeComes
  <2>3. trusted => \A t \in Targets : Awaits(t, cursor)'
    BY <1>1, <1>4, <2>2 DEF Awaits
  <2>4. \A b \in Slots : ~(b < cursor)
    BY <2>1, SlotsApart
  <2> QED BY <1>1, <2>1, <2>3, <2>4 DEF HomeComes
<1>7. DataOld' /\ Logging' /\ Placing' /\ Lap' /\ Zeroing'
  BY <1>1 DEF JInv, DataOld, Logging, Placing, Lap, Zeroing, InSession
<1> QED BY <1>2, <1>3, <1>5, <1>6, <1>7 DEF JInv

LEMMA ReplayRecordKeeps ==
  ASSUME GeometryAssumption, BoundsAssumption, JInv, ReplayRecord PROVE JInv'
<1>1. /\ pc = "replay" /\ IsRecord(cursor) /\ applied' = TRUE /\ cursor' = cursor + RecordWords
      /\ home' = [home EXCEPT ![TargetAt(cursor)] = ImageAt(cursor)]
      /\ UNCHANGED <<journal, pc, offset, txn, images, allowed, complete, trusted, halfHeader,
                     crashes, errors>>
  BY DEF ReplayRecord, NextRecord, hist
<1>2. TypeOK /\ cursor \in Slots /\ cursor \in Nat /\ cursor + RecordWords <= JournalWords
      /\ cursor' \in Slots
  BY <1>1, SlotsApart DEF JInv, HomeComes, IsRecord
<1>3. ImageAt(cursor) \in Images
  <2>1. cursor + 2 \in Addresses /\ journal[cursor + 2].kind = "sum"
    BY <1>1, <1>2, Sizes DEF IsRecord
  <2>2. journal[cursor + 2] \in Words
    BY <1>2, <2>1 DEF TypeOK
  <2> QED BY <2>1, <2>2, WordFacts DEF ImageAt
<1>4. TypeOK'
  <2>1. home' \in [Targets -> Images]
    <3>1. home \in [Targets -> Images]
      BY <1>2 DEF TypeOK
    <3> QED BY <1>1, <1>3, <3>1
  <2>2. cursor' \in 0 .. JournalWords
    BY <1>1, <1>2, Sizes
  <2> QED BY <1>1, <1>2, <2>1, <2>2 DEF TypeOK
<1>5. Whole'
  <2> SUFFICES ASSUME ~halfHeader PROVE Whole'
    BY <1>1 DEF Whole
  <2>1. \A a : WholeAt(a)' <=> WholeAt(a)
    BY <1>1 DEF WholeAt
  <2>2. \A a : ~InHeader(a)
    BY <1>1 DEF InHeader
  <2>3. /\ \A t \in Targets : home[t] \in complete[t]
        /\ \A a \in Slots : a + RecordWords <= JournalWords => WholeAt(a)
    BY <2>2 DEF JInv, Whole
  <2>4. ImageAt(cursor) \in complete[TargetAt(cursor)]
    BY <1>1, <1>2, <2>3 DEF WholeAt, IsRecord, TargetAt, ImageAt
  <2>5. \A t \in Targets : home'[t] \in complete[t]
    BY <1>1, <1>2, <2>3, <2>4 DEF TypeOK
  <2> QED BY <1>1, <2>1, <2>3, <2>5 DEF Whole
<1>6. /\ \A a : TargetAt(a)' = TargetAt(a)
      /\ \A a : Reached(a)' <=> Reached(a)
      /\ \A a : Shown(a)' <=> Shown(a)
  BY <1>1, RecordSame DEF Shown
<1>7. Reached(cursor)
  <2>1. \A b \in Slots : b <= cursor => b < cursor \/ b = cursor
    BY <1>2, SlotsApart
  <2> QED BY <1>1, <2>1 DEF JInv, HomeComes, Reached
<1>8. ASSUME trusted, NEW t \in Targets PROVE Awaits(t, cursor)'
  <2>1. Awaits(t, cursor)
    BY <1>1, <1>8 DEF JInv, HomeComes
  <2>2. ASSUME NEW b \in Slots, cursor <= b, b # cursor PROVE cursor' <= b
    BY <1>1, <1>2, <2>2, SlotsApart
  <2>3. ASSUME NEW b \in Slots, cursor' <= b, Reached(b), TargetAt(b) = t, Shown(b)
        PROVE  Awaits(t, cursor)'
    BY <1>6, <2>3 DEF Awaits
  <2>4. ASSUME NEW b \in Slots, cursor <= b, b # cursor, Reached(b), TargetAt(b) = t, Shown(b)
        PROVE  Awaits(t, cursor)'
    BY <2>2, <2>3, <2>4
  <2>5. CASE TargetAt(cursor) # t
    <3>1. home'[t] = home[t]
      BY <1>1, <1>2, <2>5 DEF TypeOK
    <3>2. CASE home[t] \in allowed[t]
      BY <1>1, <3>1, <3>2 DEF Awaits
    <3>3. CASE \E b \in Slots : cursor <= b /\ Reached(b) /\ TargetAt(b) = t /\ Shown(b)
      BY <2>4, <2>5, <3>3
    <3> QED BY <2>1, <3>2, <3>3 DEF Awaits
  <2>6. CASE TargetAt(cursor) = t
    <3>1. home'[t] = ImageAt(cursor)
      BY <1>1, <1>2, <2>6 DEF TypeOK
    <3>2. CASE Shown(cursor)
      BY <1>1, <2>6, <3>1, <3>2 DEF Awaits, Shown
    <3>3. CASE ~Shown(cursor)
      <4>1. PICK b \in Slots : /\ cursor < b /\ Reached(b)
                               /\ TargetAt(b) = TargetAt(cursor) /\ Shown(b)
        BY <1>1, <1>2, <1>7, <1>8, <3>3 DEF JInv, ReplayShows, InSession
      <4>2. cursor <= b /\ b # cursor
        BY <1>2, <4>1, SlotsApart
      <4> QED BY <2>4, <2>6, <4>1, <4>2
    <3> QED BY <3>2, <3>3
  <2> QED BY <2>5, <2>6
<1>9. HomeComes' /\ ReplayShows'
  <2>1. ReplayShows'
    BY <1>1, <1>6 DEF JInv, ReplayShows, InSession
  <2>2. ASSUME NEW b \in Slots, b < cursor' PROVE IsRecord(b)'
    <3>1. b \in Nat /\ (cursor < b => cursor + RecordWords <= b)
      BY <1>2, SlotsApart
    <3>2. b <= cursor
      BY <1>1, <1>2, <2>2, <3>1, Sizes
    <3> QED BY <1>1, <1>7, <3>2, RecordSame DEF Reached
  <2>3. HomeComes'
    BY <1>1, <1>2, <1>8, <2>2 DEF HomeComes
  <2> QED BY <2>1, <2>3
<1>10. DataOld' /\ Logging' /\ Placing' /\ Lap' /\ Zeroing'
  BY <1>1 DEF JInv, DataOld, Logging, Placing, Lap, Zeroing, InSession
<1> QED BY <1>4, <1>5, <1>9, <1>10 DEF JInv

LEMMA MountedKeeps ==
  ASSUME GeometryAssumption, BoundsAssumption, JInv, pc \in {"replay", "zero"}, Mounted,
         journal' \in [Addresses -> Words],
         \A a \in Addresses : journal'[a] = journal[a] \/ journal'[a] = Zero,
         Whole',
         UNCHANGED <<home, txn, applied, images, complete, trusted, halfHeader, crashes, errors>>
  PROVE  JInv'
<1>1. /\ pc' = "idle" /\ cursor' = 0 /\ offset' = 0
      /\ allowed' = [t \in Targets |-> {home[t]}]
  BY DEF Mounted
<1>2. TypeOK'
  <2>1. /\ allowed' \in [Targets -> SUBSET Images] /\ 0 \in 0 .. JournalWords
    BY <1>1, Sizes DEF JInv, TypeOK
  <2> QED BY <1>1, <2>1 DEF JInv, TypeOK
<1>3. DataOld'
  <2>1. Zero.kind # "data"
    BY DEF Zero
  <2> QED BY <2>1 DEF JInv, DataOld
<1>4. Lap'
  <2>1. 0 \in Slots /\ \A a \in Slots : ~(a < 0)
    <3>1. 0 = 0 * RecordWords
      BY Sizes
    <3>2. 0 \in Slots
      BY <3>1 DEF Slots
    <3> QED BY <3>2, SlotsApart
  <2> QED BY <1>1, <2>1 DEF Lap
<1>5. Logging' /\ Placing' /\ ReplayShows' /\ HomeComes' /\ Zeroing'
  BY <1>1 DEF Logging, Placing, ReplayShows, HomeComes, Zeroing, InSession
<1> QED BY <1>2, <1>3, <1>4, <1>5 DEF JInv

LEMMA ReplayEndsKeeps ==
  ASSUME GeometryAssumption, BoundsAssumption, JInv, ReplayEnds PROVE JInv'
<1>1. /\ pc = "replay" /\ ~IsRecord(cursor)
      /\ UNCHANGED <<journal, home, txn, applied, images, complete, trusted, halfHeader, crashes,
                     errors>>
      /\ \/ pc' = "zero" /\ cursor' = 0 /\ UNCHANGED <<offset, allowed>>
         \/ Mounted
  BY DEF ReplayEnds, disk
<1>2. Whole'
  <2>1. \A a : WholeAt(a)' <=> WholeAt(a)
    BY <1>1 DEF WholeAt
  <2>2. \A a : ~InHeader(a)
    BY <1>1 DEF InHeader
  <2> QED BY <1>1, <2>1, <2>2 DEF JInv, Whole
<1>3. trusted => \A t \in Targets : home[t] \in allowed[t]
  <2>1. \A b \in Slots : cursor <= b => ~Reached(b)
    BY <1>1 DEF JInv, HomeComes, Reached
  <2> QED BY <1>1, <2>1 DEF JInv, HomeComes, Awaits
<1>4. CASE pc' = "zero" /\ cursor' = 0 /\ UNCHANGED <<offset, allowed>>
  <2>1. TypeOK'
    <3>1. cursor' \in 0 .. JournalWords
      BY <1>4, Sizes
    <3> QED BY <1>1, <1>4, <3>1 DEF JInv, TypeOK
  <2>2. ReplayShows'
    <3>1. /\ \A a : TargetAt(a)' = TargetAt(a)
          /\ \A a : Reached(a)' <=> Reached(a)
          /\ \A a : Shown(a)' <=> Shown(a)
      BY <1>1, <1>4, RecordSame DEF Shown
    <3> QED BY <1>1, <1>4, <3>1 DEF JInv, ReplayShows, InSession
  <2>3. HomeComes'
    BY <1>1, <1>3, <1>4 DEF HomeComes
  <2>4. Zeroing'
    <3>1. 0 \in 0 .. JournalBlocks - 1
      BY BlocksInWords
    <3>2. ASSUME NEW a \in Addresses PROVE ~(a \div BlockWords < 0)
      <4>1. a \in Nat /\ BlockWords \in Nat \ {0}
        BY Sizes
      <4>2. a \div BlockWords \in Nat
        BY <4>1, DivMonotone
      <4> QED BY <4>2
    <3> QED BY <1>4, <3>1, <3>2 DEF Zeroing
  <2>5. DataOld' /\ Logging' /\ Placing' /\ Lap'
    BY <1>1, <1>4 DEF JInv, DataOld, Logging, Placing, Lap, InSession
  <2> QED BY <1>2, <2>1, <2>2, <2>3, <2>4, <2>5 DEF JInv
<1>5. CASE Mounted
  BY <1>1, <1>2, <1>5, MountedKeeps DEF JInv, TypeOK
<1> QED BY <1>1, <1>4, <1>5

(* A block that is zeroed takes the header of a slot with it, or the slot  *)
(* lies behind it and is whole.                                            *)
LEMMA ZeroBlockKeeps ==
  ASSUME GeometryAssumption, BoundsAssumption, JInv, ZeroBlock PROVE JInv'
<1>1. /\ pc = "zero"
      /\ journal' = [a \in Addresses |-> IF a \div BlockWords = cursor THEN Zero ELSE journal[a]]
      /\ \/ Mounted
         \/ cursor # JournalBlocks - 1 /\ cursor' = cursor + 1 /\ UNCHANGED <<pc, offset, allowed>>
      /\ UNCHANGED <<home, txn, applied, images, complete, trusted, halfHeader, crashes, errors>>
  BY DEF ZeroBlock
<1>2. /\ cursor \in 0 .. JournalBlocks - 1 /\ TypeOK
      /\ \A a \in Addresses : a \div BlockWords < cursor => journal[a] = Zero
      /\ BlockWords \in Nat \ {0} /\ JournalBlocks \in Nat
      /\ \A a \in Addresses : a \div BlockWords \in Nat
  <2>1. \A a \in Addresses : a \in Nat
    BY Sizes
  <2>2. \A a \in Addresses : a \div BlockWords \in Nat
    BY <2>1, Sizes, DivMonotone
  <2> QED BY <1>1, <2>2, Sizes DEF JInv, Zeroing
<1>3. /\ journal' \in [Addresses -> Words]
      /\ \A a \in Addresses : journal'[a] = journal[a] \/ journal'[a] = Zero
      /\ \A a \in Addresses : a \div BlockWords <= cursor => journal'[a] = Zero
  <2>1. Zero \in Words
    BY DEF Words
  <2>2. /\ journal' \in [Addresses -> Words]
        /\ \A a \in Addresses : journal'[a] = IF a \div BlockWords = cursor THEN Zero ELSE journal[a]
    BY <1>1, <1>2, <2>1 DEF TypeOK
  <2>3. ASSUME NEW a \in Addresses, a \div BlockWords <= cursor PROVE journal'[a] = Zero
    BY <1>2, <2>2, <2>3
  <2> QED BY <2>2, <2>3
<1>4. Whole'
  <2> SUFFICES ASSUME ~halfHeader PROVE Whole'
    BY <1>1 DEF Whole
  <2>1. /\ \A t \in Targets : home[t] \in complete[t]
        /\ \A a \in Slots : a + RecordWords <= JournalWords => WholeAt(a)
    BY <1>1 DEF JInv, Whole, InHeader
  <2>2. ASSUME NEW a \in Slots, a + RecordWords <= JournalWords, journal'[a].kind = "begin"
        PROVE  WholeAt(a)'
    <3>1. a \in Nat /\ a \in Addresses
      BY <2>2, SlotsApart, Sizes
    <3>2. ~(a \div BlockWords <= cursor)
      BY <1>3, <2>2, <3>1 DEF Zero
    <3>3. ASSUME NEW n \in 0 .. RecordWords - 1 PROVE journal'[a + n] = journal[a + n]
      <4>1. a + n \in Addresses /\ a + n \in Nat /\ a <= a + n
        BY <2>2, <3>1, Sizes
      <4>2. a \div BlockWords <= (a + n) \div BlockWords
        BY <1>2, <3>1, <4>1, DivMonotone
      <4>3. (a + n) \div BlockWords # cursor
        BY <1>2, <3>1, <3>2, <4>1, <4>2
      <4> QED BY <1>1, <4>1, <4>3
    <3>4. /\ journal'[a] = journal[a] /\ journal'[a + 1] = journal[a + 1]
          /\ journal'[a + 2] = journal[a + 2]
          /\ \A n \in PayloadAt .. CommitAt - 1 : journal'[a + n] = journal[a + n]
      BY <3>1, <3>3, SlotSame
    <3> QED BY <1>1, <2>1, <2>2, <3>4 DEF WholeAt
  <2> QED BY <1>1, <2>1, <2>2 DEF Whole, WholeAt
<1>5. CASE Mounted
  BY <1>1, <1>3, <1>4, <1>5, MountedKeeps
<1>6. CASE cursor # JournalBlocks - 1 /\ cursor' = cursor + 1 /\ UNCHANGED <<pc, offset, allowed>>
  <2>1. TypeOK'
    <3>1. cursor' \in 0 .. JournalWords
      <4>1. /\ cursor \in 0 .. JournalBlocks - 1 /\ JournalBlocks \in Nat /\ JournalWords \in Nat
            /\ JournalBlocks <= JournalWords /\ cursor' = cursor + 1
        BY <1>2, <1>6, BlocksInWords, Sizes
      <4> QED BY <4>1
    <3> QED BY <1>1, <1>2, <1>3, <1>6, <3>1 DEF TypeOK
  <2>2. DataOld'
    <3>1. Zero.kind # "data"
      BY DEF Zero
    <3> QED BY <1>1, <1>3, <3>1 DEF JInv, DataOld
  <2>3. \A a \in Slots : ~Reached(a)'
    <3>1. 0 \in Slots /\ \A a \in Slots : 0 <= a
      <4>1. 0 = 0 * RecordWords
        BY Sizes
      <4>2. 0 \in Slots
        BY <4>1 DEF Slots
      <4> QED BY <4>2, SlotsApart
    <3>2. 0 \in Addresses /\ 0 \div BlockWords <= cursor
      BY <1>2, Sizes
    <3>3. ~IsRecord(0)'
      <4>1. journal'[0].kind = "zero"
        BY <1>3, <3>2 DEF Zero
      <4> QED BY <4>1 DEF IsRecord
    <3> QED BY <3>1, <3>3 DEF Reached
  <2>4. ReplayShows'
    BY <2>3 DEF ReplayShows
  <2>5. HomeComes'
    BY <1>1, <1>6 DEF JInv, HomeComes
  <2>6. Zeroing'
    <3>1. cursor' \in 0 .. JournalBlocks - 1
      BY <1>2, <1>6
    <3>2. \A a \in Addresses : a \div BlockWords < cursor' => a \div BlockWords <= cursor
      BY <1>2, <1>6
    <3> QED BY <1>3, <3>1, <3>2 DEF Zeroing
  <2>7. Logging' /\ Placing' /\ Lap'
    BY <1>1, <1>6 DEF Logging, Placing, Lap, InSession
  <2> QED BY <1>4, <2>1, <2>2, <2>4, <2>5, <2>6, <2>7 DEF JInv
<1> QED BY <1>1, <1>5, <1>6

-----------------------------------------------------------------------------
LEMMA NextJournal ==
  ASSUME GeometryAssumption, BoundsAssumption, JInv, [Next]_vars PROVE JInv'
<1>1. CASE \E t \in Targets : Begin(t)
  BY <1>1, BeginKeeps
<1>2. CASE LogChunk
  BY <1>2, LogChunkKeeps
<1>3. CASE Place
  BY <1>3, PlaceKeeps
<1>4. CASE DeviceError
  BY <1>4, DeviceErrorKeeps
<1>5. CASE Crash
  BY <1>5, CrashKeeps
<1>6. CASE Mount
  BY <1>6, MountKeeps
<1>7. CASE ReplayRecord
  BY <1>7, ReplayRecordKeeps
<1>8. CASE ReplayEnds
  BY <1>8, ReplayEndsKeeps
<1>9. CASE ZeroBlock
  BY <1>9, ZeroBlockKeeps
<1>10. CASE UNCHANGED vars
  <2>1. UNCHANGED <<journal, home, pc, offset, cursor, txn, applied, images, allowed, complete,
                    trusted, halfHeader, crashes, errors>>
    BY <1>10 DEF vars
  <2>2. \A a : /\ IsRecord(a)' <=> IsRecord(a)
               /\ TargetAt(a)' = TargetAt(a) /\ ImageAt(a)' = ImageAt(a)
    BY <2>1, RecordSame
  <2>3. /\ \A a : Reached(a)' <=> Reached(a)
        /\ \A a : Shown(a)' <=> Shown(a)
        /\ \A a : WholeAt(a)' <=> WholeAt(a)
    BY <2>1, <2>2, RecordSame DEF Shown, WholeAt
  <2>4. TypeOK' /\ DataOld' /\ Logging' /\ Placing' /\ Zeroing'
    BY <2>1, <2>2 DEF JInv, TypeOK, DataOld, Logging, Placing, Zeroing
  <2>5. Lap'
    BY <2>1, <2>2, <2>3 DEF JInv, Lap, InSession
  <2>6. ReplayShows' /\ HomeComes'
    BY <2>1, <2>2, <2>3 DEF JInv, ReplayShows, HomeComes, InSession, Awaits
  <2>7. Whole'
    BY <2>1, <2>3 DEF JInv, Whole, InHeader
  <2> QED BY <2>4, <2>5, <2>6, <2>7 DEF JInv
<1> QED BY <1>1, <1>2, <1>3, <1>4, <1>5, <1>6, <1>7, <1>8, <1>9, <1>10 DEF Next

LEMMA JournalKeepsJInv ==
  ASSUME GeometryAssumption, BoundsAssumption PROVE Spec => []JInv
<1>1. Init => JInv
  BY InitJournal
<1>2. JInv /\ [Next]_vars => JInv'
  BY NextJournal
<1> QED BY <1>1, <1>2, PTL DEF Spec

(* Every block in its place is an image that was logged whole, and for that*)
(* block: what vtx2_journal_replay applies is never a half written record, *)
(* as long as no BEGIN header was cut in two.                              *)
THEOREM OnlyWholeImagesArrive ==
  ASSUME GeometryAssumption, BoundsAssumption PROVE Spec => []OnlyWholeImages
<1>1. JInv => OnlyWholeImages
  BY DEF JInv, Whole, OnlyWholeImages
<1> QED BY <1>1, JournalKeepsJInv, PTL

(* vtx2_journal_replay brings back, for every block, the last image that a *)
(* transaction reported as written, or one started since, after a crash at *)
(* any point of a session that had left nothing else in the journal, and   *)
(* after crashes of the replay itself.                                     *)
THEOREM MountKeepsTheLatest ==
  ASSUME GeometryAssumption, BoundsAssumption PROVE Spec => MountKeepsLatest
<1>1. ASSUME JInv, Remounted, trusted, [Next]_vars PROVE \A t \in Targets : home[t] \in allowed[t]
  <2>1. CASE pc = "zero"
    BY <1>1, <2>1 DEF JInv, HomeComes
  <2>2. CASE pc = "replay"
    <3>1. ~IsRecord(cursor)
      BY <1>1, <2>2 DEF Remounted, Next, Begin, LogChunk, Place, DeviceError, Crash, Mount,
                        ReplayRecord, ReplayEnds, ZeroBlock, vars
    <3>2. \A b \in Slots : cursor <= b => ~Reached(b)
      BY <2>2, <3>1, <1>1 DEF JInv, HomeComes, Reached
    <3> QED BY <1>1, <2>2, <3>2 DEF JInv, HomeComes, Awaits
  <2> QED BY <1>1, <2>1, <2>2 DEF Remounted
<1>2. JInv /\ [Next]_vars
        => [Remounted /\ trusted => \A t \in Targets : home[t] \in allowed[t]]_vars
  BY <1>1
<1> QED BY <1>2, JournalKeepsJInv, PTL DEF Spec, MountKeepsLatest
=============================================================================
