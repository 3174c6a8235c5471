------------------------------- MODULE Paging -------------------------------
(***************************************************************************)
(* The page tables (paging.c) over the page allocator and beside the heap: *)
(* kernel_main builds an identity map of the first gigabytes once, before  *)
(* anything but the heap has taken a page; the AHCI and xHCI drivers later *)
(* add the registers of their devices, which may lie above it.             *)
(* Addresses are page numbers; a huge page is one entry of a directory.    *)
(***************************************************************************)
EXTENDS KHeap

CONSTANTS Entries,      \* ENTRIES_PER_TABLE
          Gibs,         \* IDENTITY_MAP_GIB
          Regions       \* the device registers mapped, in half pages

PagesPerGib == Entries * Entries
Identity    == 0 .. Gibs * PagesPerGib - 1
Virtual     == 0 .. Entries * Entries * PagesPerGib - 1

(* The allocator tracks no page above the identity map: a new table can    *)
(* always be written.                                                      *)
ASSUME PagingAssumption ==
  /\ Entries \in Nat \ {0, 1} /\ Gibs \in 1 .. Entries
  /\ Pages \subseteq Identity
  /\ Regions \subseteq [addr : Nat, size : Nat \ {0}]

VARIABLES table,    \* what each page of memory says when read as a table
          root,     \* g_pml4_phys, or 0 before paging_init
          booted,   \* paging_init has returned
          todo,     \* the pages paging_identity_map_region has yet to look at
          asked,    \* history: the pages of the call in progress
          mapped    \* history: the pages of the calls that returned true

pagingVars == <<table, root, booted, todo, asked, mapped>>
allVars == <<vars, pagingVars>>

Absent      == [to |-> 0, present |-> FALSE, huge |-> FALSE]
Pointer(p)  == [to |-> p, present |-> TRUE, huge |-> FALSE]
Huge(p)     == [to |-> p, present |-> TRUE, huge |-> TRUE]

Index      == 0 .. Entries - 1

(* What the firmware left in a page: anything, here what most misleads.    *)
Stale == [i \in Index |-> Huge(0)]

(* zero_table, on the page of a new table.                                 *)
Zeroed_Not(old) == old              \* mutant: built on what the page held
Zeroed(old) == [i \in Index |-> Absent]

MInit ==
  /\ Init
  /\ table = [p \in Pages |-> Stale]
  /\ root = 0 /\ booted = FALSE
  /\ todo = {} /\ asked = {} /\ mapped = {}

-----------------------------------------------------------------------------
(* What k calls of pmm_alloc_page return, one after the other: the free    *)
(* pages in their order from the cursor, then 0.                           *)
Rank(p)  == Cardinality({q \in free : Distance(q) <= Distance(p)})
Nth(k)   == IF k > Cardinality(free) THEN 0 ELSE CHOOSE p \in free : Rank(p) = k

Taken_ButLast(k) == {p \in free : Rank(p) < k}     \* mutant: the last is left free
Taken(k) == {p \in free : Rank(p) <= k}

TakePages(k) ==
  LET taken == Taken(k) IN
  /\ free' = free \ taken
  /\ freePages' = freePages - Cardinality(taken)
  /\ held' = held \cup {<<p, 1>> : p \in taken}
  /\ cursor' = IF taken = {} THEN cursor
               ELSE After(CHOOSE p \in taken : \A q \in taken : Rank(q) <= Rank(p))
  /\ UNCHANGED <<totalPages, usable, again>>

-----------------------------------------------------------------------------
(* paging_init.                                                            *)

HugeTable(g) == [i \in Index |-> Huge(g * PagesPerGib + i * Entries)]

(* No result of pmm_alloc_page is looked at: without memory a table is     *)
(* built in page 0.                                                        *)
PagingInit ==
  /\ ready /\ ~booted /\ booted' = TRUE
  /\ TakePages(2 + Gibs)
  /\ root' = Nth(1)
  /\ LET top == [table EXCEPT ![Nth(1)] = Zeroed(@), ![Nth(2)] = Zeroed(@)]
         built[g \in 0 .. Gibs] ==
           IF g = 0 THEN [top EXCEPT ![Nth(1)][0] = Pointer(Nth(2))]
           ELSE LET before == built[g - 1] IN
                [before EXCEPT ![Nth(2 + g)] = HugeTable(g - 1),
                               ![Nth(2)][g - 1] = Pointer(Nth(2 + g))]
     IN  table' = built[Gibs]
  /\ UNCHANGED <<heapVars, todo, asked, mapped>>

-----------------------------------------------------------------------------
(* paging_identity_map_region, page by page.                               *)

(* The index of page v in the table of level 3 (PML4), 2, 1 or 0, of which *)
(* each entry stands for that many pages.                                  *)
Span == <<1, Entries, Entries * Entries, Entries * Entries * Entries>>
At(v, level) == (v \div Span[level + 1]) % Entries

LastPage(r) == (r.addr + r.size + 1) \div 2 - 1
Touched(r)  == {half \div 2 : half \in r.addr .. r.addr + r.size - 1}

(* No register lies beyond what four levels of tables can map: the code    *)
(* would drop the bits above and map another address to it.                *)
ASSUME RegionsAssumption == \A r \in Regions : LastPage(r) \in Virtual

MapRegion(r) ==
  /\ booted /\ root # 0 /\ todo = {}
  /\ todo' = r.addr \div 2 .. LastPage(r)
  /\ asked' = Touched(r)
  /\ UNCHANGED <<vars, table, root, booted, mapped>>

(* table_child_or_create, from where the walk has come: the tables so far, *)
(* the table reached, the pages taken, and whether it goes on.             *)
Child(w, i) ==
  LET new == Nth(w.taken + 1) IN
  CASE ~w.ok -> w
    [] w.ok /\ w.tables[w.at][i].present -> [w EXCEPT !.at = w.tables[w.at][i].to]
    [] w.ok /\ ~w.tables[w.at][i].present /\ new = 0 -> [w EXCEPT !.ok = FALSE]
    [] OTHER -> [ok |-> TRUE, taken |-> w.taken + 1, at |-> new,
                 tables |-> [w.tables EXCEPT ![new] = Zeroed(@),
                                             ![w.at][i] = Pointer(new)]]

Directory(v) ==
  Child(Child([ok |-> TRUE, taken |-> 0, at |-> root, tables |-> table], At(v, 3)), At(v, 2))

(* Where the entry of page v goes, unless a huge page already covers it.   *)
LeafTable(v) ==
  LET pd == Directory(v) IN
  IF pd.ok /\ pd.tables[pd.at][At(v, 1)].huge THEN pd ELSE Child(pd, At(v, 1))

WithEntry(w, v) ==
  IF w.tables[w.at][At(v, 0)].present \/ Directory(v).tables[Directory(v).at][At(v, 1)].huge
  THEN w.tables
  ELSE [w.tables EXCEPT ![w.at][At(v, 0)] = Pointer(v)]

(* A page below the limit is mapped already.  The call ends with false when*)
(* a table cannot be had; what it has mapped stays.                        *)
MapPage ==
  \E v \in todo :
    /\ \A u \in todo : v <= u
    /\ IF v \in Identity
       THEN todo' = todo \ {v} /\ UNCHANGED <<pmmVars, table>>
       ELSE LET w == LeafTable(v) IN
            /\ TakePages(w.taken)
            /\ table' = IF w.ok THEN WithEntry(w, v) ELSE w.tables
            /\ todo' = IF w.ok THEN todo \ {v} ELSE {}
    /\ mapped' = IF todo = {v} /\ todo' = {} /\ (v \in Identity \/ LeafTable(v).ok)
                 THEN mapped \cup asked ELSE mapped
    /\ UNCHANGED <<heapVars, root, booted, asked>>

-----------------------------------------------------------------------------
(* The tables in use, by their level: what a walk from the root reaches.   *)
Follow(t, i) == IF t = 0 \/ ~table[t][i].present \/ table[t][i].huge THEN 0 ELSE table[t][i].to

Below(T)  == {Follow(t, i) : t \in T, i \in Index} \ {0}
Tables    == <<{root}, Below({root}), Below(Below({root})), Below(Below(Below({root})))>>
TablePages == UNION {Tables[l] : l \in 1 .. 4}

(* The tables are never given back.                                        *)
MNext ==
  \/ KheapInit /\ UNCHANGED pagingVars
  \/ PagingInit
  \/ \E r \in Regions : MapRegion(r)
  \/ MapPage
  \/ /\ booted /\ todo = {}
     /\ \/ \E n \in Sizes : KmallocFits(n) \/ KmallocGrows(n)
        \/ \E a \in given : Kfree(a[1], a[2])
        \/ TakePage
        \/ \E n \in 1 .. MaxRun : TakeRun(n)
        \/ \E run \in held : run[1] \notin TablePages /\ GiveBack(run[1], run[2])
     /\ UNCHANGED pagingVars

MSpec == MInit /\ [][MNext]_allVars

-----------------------------------------------------------------------------
(* There were pages enough for the tables when paging_init ran.            *)
Enough == booted /\ Cardinality((usable \cap Pages) \ {0}) >= ArenaPages + 2 + Gibs

(* What the processor finds for page v, or -1.                             *)
Translate(v) ==
  LET pd == Follow(Follow(root, At(v, 3)), At(v, 2)) IN
  CASE pd = 0 -> -1
    [] pd # 0 /\ table[pd][At(v, 1)].huge -> table[pd][At(v, 1)].to + At(v, 0)
    [] pd # 0 /\ ~table[pd][At(v, 1)].huge ->
         LET pt == Follow(pd, At(v, 1)) IN
         IF pt = 0 \/ ~table[pt][At(v, 0)].present THEN -1 ELSE table[pt][At(v, 0)].to

(* Whatever regions are mapped, in whatever order and with whatever        *)
(* failures half way, no address ever translates to another one, all of    *)
(* the memory below the limit is there, and so is every page of a region   *)
(* whose call returned true.                                               *)
IdentityHolds ==
  Enough => /\ \A v \in Identity \cup mapped : Translate(v) = v
            /\ \A v \in Virtual : Translate(v) \in {v, -1}

(* Each table is a page of its own, held by nobody else and never free, so *)
(* that no allocation of the heap or a driver can overwrite the map.       *)
TablesApart ==
  Enough => /\ TablePages \cap free = {}
            /\ \A t \in TablePages : <<t, 1>> \in held /\ ~IsArena(t)
            /\ \A k, l \in 1 .. 4 : k # l => Tables[k] \cap Tables[l] = {}
=============================================================================
