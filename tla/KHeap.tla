-------------------------------- MODULE KHeap --------------------------------
(***************************************************************************)
(* The kernel heap (kheap.c) over the page allocator of Pmm: arenas of     *)
(* whole pages, each a doubly linked chain of blocks with a header in front*)
(* of every block; first fit, split on allocation, merge on free.          *)
(* Addresses and sizes are counted in units of 16 bytes, to which kmalloc  *)
(* rounds every request.                                                   *)
(***************************************************************************)
EXTENDS Pmm, Sequences, Functions

CONSTANTS PageUnits,    \* PMM_PAGE_SIZE
          ArenaPages,   \* KHEAP_ARENA_PAGES
          Sizes         \* the sizes asked for, after ALIGN_UP

HeaderUnits == 2        \* HEADER_SIZE: 32 bytes
MetaUnits   == 2        \* sizeof(arena_t): 32 bytes
NULL        == 0        \* page 0 is never given, so no block is there

ASSUME HeapAssumption ==
  /\ PageUnits \in Nat /\ PageUnits > HeaderUnits + MetaUnits
  /\ ArenaPages \in Nat \ {0} /\ Sizes \subseteq Nat \ {0}

VARIABLES block,      \* the blocks of all the arenas, by the address of their header
          arenas,     \* g_arena_list, the newest first
          usedUnits,  \* g_used_bytes
          freeUnits,  \* g_free_bytes
          ready,      \* kheap_init has returned
          given       \* history: <<address, size>> of the allocations not freed

heapVars == <<block, arenas, usedUnits, freeUnits, ready, given>>
vars == <<pmmVars, heapVars>>

Init ==
  /\ PmmInit
  /\ block = << >> /\ arenas = << >>
  /\ usedUnits = 0 /\ freeUnits = 0
  /\ ready = FALSE /\ given = {}

-----------------------------------------------------------------------------
(* kheap_add_arena, at page s: its metadata, then one free block.          *)
FirstBlock(s) == s * PageUnits + MetaUnits
ArenaSize(n) == n * PageUnits - MetaUnits - HeaderUnits

AddArena(s, n) ==
  /\ Take(s, n)
  /\ arenas' = <<[base |-> s, pages |-> n]>> \o arenas
  /\ UNCHANGED <<totalPages, cursor, usable, again>>

NewBlocks(s, n) ==
  [a \in DOMAIN block \cup {FirstBlock(s)} |->
     IF a = FirstBlock(s)
     THEN [free |-> TRUE, size |-> ArenaSize(n), prev |-> NULL, next |-> NULL]
     ELSE block[a]]

(* kheap_init.                                                             *)
KheapInit ==
  /\ ~ready /\ ready' = TRUE
  /\ \/ \E s \in FirstRun(ArenaPages) :
          /\ AddArena(s, ArenaPages)
          /\ block' = NewBlocks(s, ArenaPages)
          /\ freeUnits' = freeUnits + ArenaSize(ArenaPages)
     \/ FirstRun(ArenaPages) = {} /\ UNCHANGED <<pmmVars, block, arenas, freeUnits>>
  /\ UNCHANGED <<usedUnits, given>>

-----------------------------------------------------------------------------
(* split_block and take_block.                                             *)

Splits(size, needed) == size - needed > HeaderUnits + 1

RestOf(b, needed) == b + HeaderUnits + needed

Split(blocks, b, needed) ==
  LET rest == RestOf(b, needed)
      old  == blocks[b]
      new  == [free |-> TRUE, size |-> old.size - needed - HeaderUnits,
               prev |-> b, next |-> old.next]
  IN  IF ~Splits(old.size, needed) THEN blocks
      ELSE [a \in DOMAIN blocks \cup {rest} |->
              CASE a = rest     -> new
                [] a = b        -> [old EXCEPT !.size = needed, !.next = rest]
                [] a = old.next -> [blocks[a] EXCEPT !.prev = rest]
                [] OTHER        -> blocks[a]]

TakenSize(blocks, b, needed) == blocks[b].size

InUse_Forgotten(blocks, b) == blocks        \* mutant: still marked free
InUse(blocks, b) == [blocks EXCEPT ![b].free = FALSE]

(* What is asked of the block b of blocks, of which sum units were free.   *)
TakeBlock(blocks, b, needed, sum) ==
  LET split == Split(blocks, b, needed)
      size  == TakenSize(split, b, needed)
  IN  /\ block' = InUse(split, b)
      /\ freeUnits' = sum - size
      /\ usedUnits' = usedUnits + size
      /\ given' = given \cup {<<b + HeaderUnits, needed>>}

-----------------------------------------------------------------------------
(* kmalloc.                                                                *)

(* The first block that fits, along the chain that starts at b.            *)
FitFrom(b, needed) ==
  LET fit[a \in DOMAIN block \cup {NULL}] ==
        CASE a = NULL -> NULL
          [] a # NULL /\ block[a].free /\ block[a].size >= needed -> a
          [] OTHER -> fit[block[a].next]
  IN  fit[b]

Fits(needed) == {i \in DOMAIN arenas : FitFrom(FirstBlock(arenas[i].base), needed) # NULL}

KmallocFits(needed) ==
  /\ ready
  /\ \E i \in Fits(needed) :
       /\ \A j \in Fits(needed) : i <= j
       /\ TakeBlock(block, FitFrom(FirstBlock(arenas[i].base), needed), needed, freeUnits)
  /\ UNCHANGED <<pmmVars, arenas, ready>>

RoundUp(n) == (n + PageUnits - 1) \div PageUnits
PagesFor(needed) == RoundUp(needed + HeaderUnits + MetaUnits)
NeededPages(needed) == IF PagesFor(needed) < ArenaPages THEN ArenaPages ELSE PagesFor(needed)

(* No block fits: a new arena, whose block is tried.  When the pages have  *)
(* run out too, kmalloc returns NULL and nothing changes.                  *)
KmallocGrows(needed) ==
  /\ ready /\ Fits(needed) = {}
  /\ LET n == NeededPages(needed) IN
     \E s \in FirstRun(n) :
       /\ AddArena(s, n)
       /\ IF ArenaSize(n) < needed
          THEN /\ block' = NewBlocks(s, n) /\ freeUnits' = freeUnits + ArenaSize(n)
               /\ UNCHANGED <<usedUnits, given>>
          ELSE TakeBlock(NewBlocks(s, n), FirstBlock(s), needed, freeUnits + ArenaSize(n))
  /\ UNCHANGED ready

(* try_merge_with_next.                                                    *)
Relinked_NoPrev(blocks, b, n) == blocks     \* mutant: the back pointer is left
Relinked(blocks, b, n) == IF n = NULL THEN blocks ELSE [blocks EXCEPT ![n].prev = b]

MergeNext(blocks, b) ==
  LET n == blocks[b].next IN
  IF n = NULL \/ ~blocks[n].free THEN blocks
  ELSE LET linked == Relinked(blocks, b, blocks[n].next) IN
       [a \in DOMAIN blocks \ {n} |->
          IF a = b THEN [linked[b] EXCEPT !.size = @ + HeaderUnits + blocks[n].size,
                                          !.next = blocks[n].next]
                   ELSE linked[a]]

MergePrev(blocks, b) ==
  LET p == blocks[b].prev IN
  IF p = NULL \/ ~blocks[p].free THEN blocks ELSE MergeNext(blocks, p)

(* kfree of an allocation.                                                 *)
Kfree(p, n) ==
  LET b == p - HeaderUnits
      freed == [block EXCEPT ![b].free = TRUE]
  IN  /\ <<p, n>> \in given
      /\ usedUnits' = usedUnits - block[b].size
      /\ freeUnits' = freeUnits + block[b].size
      /\ block' = MergePrev(MergeNext(freed, b), b)
      /\ given' = given \ {<<p, n>>}
      /\ UNCHANGED <<pmmVars, arenas, ready>>

(* The other users of the page allocator: page tables and drivers take     *)
(* single pages.  Runs, and giving back, are what pmm.c offers: nothing in *)
(* the repository uses it yet.                                             *)
TakePage == AllocPage /\ UNCHANGED heapVars
TakeRun(n) == AllocContiguous(n) /\ UNCHANGED heapVars

IsArena(s) == \E i \in DOMAIN arenas : arenas[i].base = s
GiveBack(s, n) == ~IsArena(s) /\ Free(s, n) /\ UNCHANGED heapVars

Next ==
  \/ KheapInit
  \/ \E n \in Sizes : KmallocFits(n) \/ KmallocGrows(n)
  \/ \E a \in given : Kfree(a[1], a[2])
  \/ TakePage
  \/ \E n \in 1 .. MaxRun : TakeRun(n)
  \/ \E run \in held : GiveBack(run[1], run[2])

Spec == Init /\ [][Next]_vars

-----------------------------------------------------------------------------
(* The types, checked as a part of Tiling.                                 *)
TypeOK ==
  /\ PmmTypeOK
  /\ IsFiniteSet(DOMAIN block)
  /\ \A a \in DOMAIN block :
       block[a] \in [free : BOOLEAN, size : Nat \ {0}, prev : Nat, next : Nat]
  /\ arenas \in Seq([base : Pages \ {0}, pages : 1 .. NumPages])
  /\ usedUnits \in Nat /\ freeUnits \in Nat /\ ready \in BOOLEAN
  /\ given \subseteq (Nat \X Sizes)

InArena(a, i) == a \div PageUnits \in Run(arenas[i].base, arenas[i].pages)
EndOf(i) == (arenas[i].base + arenas[i].pages) * PageUnits

(* Splits and merges keep every arena tiled by its blocks: each block ends *)
(* where the next begins or where the arena does, the two directions of the*)
(* chain agree, and no two neighbours are free.                            *)
Tiling ==
  TypeOK /\ \A i \in DOMAIN arenas :
    LET mine == {a \in DOMAIN block : InArena(a, i)}
        first == FirstBlock(arenas[i].base)
        end(a) == a + HeaderUnits + block[a].size
    IN  /\ first \in mine /\ block[first].prev = NULL
        /\ \A a \in mine :
             \/ block[a].next = NULL /\ end(a) = EndOf(i)
             \/ /\ block[a].next = end(a) /\ end(a) \in mine
                /\ block[end(a)].prev = a /\ ~(block[a].free /\ block[end(a)].free)

(* Every allocation lies whole inside a block of its own, marked used, in  *)
(* pages the heap holds.                                                   *)
AllocationsApart ==
  /\ \A a \in given :
       LET b == a[1] - HeaderUnits IN
       /\ b \in DOMAIN block /\ ~block[b].free /\ a[2] <= block[b].size
       /\ \A u \in a[1] .. a[1] + a[2] - 1 : u \div PageUnits \in HeldPages
  /\ \A a, c \in given : a # c => a[1] + a[2] <= c[1] \/ c[1] + c[2] <= a[1]
  /\ Cardinality(given) = Cardinality({b \in DOMAIN block : ~block[b].free})
=============================================================================
