--------------------------------- MODULE Pmm ---------------------------------
(***************************************************************************)
(* The physical page allocator (pmm.c): a bitmap built from the firmware's *)
(* memory map, single pages taken round the bitmap from a cursor, runs of  *)
(* pages taken first fit.  Page 0 is never given, because address 0 is how *)
(* a failure is reported.                                                  *)
(***************************************************************************)
EXTENDS Integers, FiniteSets, Sequences

CONSTANTS NumPages,     \* PMM_MAX_TRACKED_PAGES
          MemoryMaps,   \* memory maps: the conventional regions, in order
          MaxRun        \* the longest run asked for

Region == [start : Nat, count : Nat]
PagesOf(r) == r.start .. r.start + r.count - 1

(* Regions may overlap: the loader of the BIOS (stage2.asm) writes the low *)
(* halves of what the firmware lists, unchecked.                           *)
ASSUME PagesAssumption == NumPages \in Nat \ {0} /\ MaxRun \in Nat
ASSUME MapsAssumption == MemoryMaps \subseteq Seq(Region)

VARIABLES free,       \* the pages whose bit in g_bitmap is clear
          freePages,  \* g_free_pages
          totalPages, \* g_total_pages
          cursor,     \* g_alloc_cursor
          usable,     \* history: the pages the memory map gave
          again,      \* history: how often it listed a page listed before
          held        \* history: the runs handed out and not given back

pmmVars == <<free, freePages, totalPages, cursor, usable, again, held>>

Pages == 0 .. NumPages - 1

-----------------------------------------------------------------------------
(* pmm_init.                                                               *)

Tracked(r) == {p \in PagesOf(r) : p # 0 /\ p < NumPages}

(* g_free_pages goes up with every bit that is cleared, whatever it was.   *)
Cleared(map) == UNION {{i} \X Tracked(map[i]) : i \in DOMAIN map}

(* The clearings of a bit that an earlier region had cleared.              *)
Again(map) == {c \in Cleared(map) : \E i \in 1 .. c[1] - 1 : c[2] \in Tracked(map[i])}

(* The end of the last region, unless it lies past the bitmap.             *)
Ends(map) == {map[i].start + map[i].count : i \in DOMAIN map} \cap 0 .. NumPages
Highest(S) == CHOOSE x \in S \cup {0} : \A y \in S \cup {0} : y <= x

PmmInit ==
  \E map \in MemoryMaps :
    /\ free       = UNION {Tracked(map[i]) : i \in DOMAIN map}
    /\ usable     = UNION {PagesOf(map[i]) : i \in DOMAIN map}
    /\ again      = Cardinality(Again(map))
    /\ freePages  = Cardinality(Cleared(map))
    /\ totalPages = Highest(Ends(map))
    /\ cursor     = 0
    /\ held       = {}

-----------------------------------------------------------------------------
Run(s, n) == s .. s + n - 1

(* The free page nearest to the cursor, going round.                       *)
Distance(p) == (p - cursor) % NumPages
NextFree == {p \in free : \A q \in free : Distance(p) <= Distance(q)}

(* The first run of n free pages, from page 0 on.                          *)
IsFreeRun(s, n) == Run(s, n) \subseteq free
FirstRun(n) == {s \in free : IsFreeRun(s, n) /\ \A t \in free : t < s => ~IsFreeRun(t, n)}

Counted(n) == n

Marked_First(s, n) == {s}           \* mutant: only the first bit is set
Marked(s, n) == Run(s, n)

Take(s, n) ==
  /\ free' = free \ Marked(s, n)
  /\ freePages' = freePages - Counted(n)
  /\ held' = held \cup {<<s, n>>}

After(p) == p + 1

(* pmm_alloc_page; nothing changes when it returns 0.                      *)
AllocPage ==
  /\ \E p \in NextFree : Take(p, 1) /\ cursor' = After(p)
  /\ UNCHANGED <<totalPages, usable, again>>

(* pmm_alloc_contiguous.                                                   *)
AllocContiguous(n) ==
  /\ \E s \in FirstRun(n) : Take(s, n)
  /\ UNCHANGED <<totalPages, cursor, usable, again>>

Released(s, n) == Run(s, n)

(* pmm_free_contiguous, and pmm_free_page when n is 1, of a run held.      *)
Free(s, n) ==
  /\ <<s, n>> \in held
  /\ free' = free \cup Released(s, n)
  /\ freePages' = freePages + Cardinality(Released(s, n) \ free)
  /\ held' = held \ {<<s, n>>}
  /\ UNCHANGED <<totalPages, cursor, usable, again>>

-----------------------------------------------------------------------------
PmmTypeOK ==
  /\ free \subseteq Pages
  /\ freePages \in Nat /\ again \in Nat /\ totalPages \in 0 .. NumPages
  /\ cursor \in 0 .. NumPages
  /\ held \subseteq Pages \X (1 .. NumPages)

HeldPages == UNION {Run(run[1], run[2]) : run \in held}

(* Two runs handed out never share a page, a page handed out is not free,  *)
(* and none is lost or invented: the pages free and the pages handed out   *)
(* are those the memory map gave, without page 0, which stands for failure.*)
(* The count of free pages, kept apart from the bitmap, is exact, but for  *)
(* the pages that the memory map lists again (pmm.c:55), which it never    *)
(* loses.                                                                  *)
PagesPartitioned ==
  /\ \A r, s \in held : r # s => Run(r[1], r[2]) \cap Run(s[1], s[2]) = {}
  /\ HeldPages \cap free = {}
  /\ free \cup HeldPages = (usable \cap Pages) \ {0}
  /\ freePages = Cardinality(free) + again
=============================================================================
