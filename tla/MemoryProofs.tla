---------------------------- MODULE MemoryProofs ----------------------------
(***************************************************************************)
(* Pages and heap blocks are never shared and never lost, for every memory *)
(* map, every size of page, arena and request, and beside the page tables; *)
(* the tables map every address to itself or not at all, for every number  *)
(* of entries of a table and every set of regions.                         *)
(***************************************************************************)
EXTENDS Paging, FiniteSetTheorems, SequenceTheorems, TLAPS

USE PagesAssumption, HeapAssumption

-----------------------------------------------------------------------------
(* Finite sets of numbers.                                                 *)

LEMMA PagesFinite == IsFiniteSet(Pages)
<1>1. NumPages - 1 \in Int
  OBVIOUS
<1> QED BY <1>1, FS_Interval DEF Pages

(* The rank of a member among the members: every rank is taken.            *)
LEMMA RankTaken ==
  ASSUME NEW C, C \subseteq Int, IsFiniteSet(C), NEW i \in 1 .. Cardinality(C)
  PROVE  \E e \in C : Cardinality({c \in C : c < e}) = i - 1
<1> DEFINE rank == [e \in C |-> Cardinality({c \in C : c < e})]
<1>2. Cardinality(C) \in Nat
  BY FS_CardinalityType
<1>3. PICK n \in Nat : n = Cardinality(C)
  BY <1>2
<1>4. ASSUME NEW e \in C
      PROVE  /\ IsFiniteSet({c \in C : c < e}) /\ rank[e] \in 0 .. n - 1
             /\ rank[e] = Cardinality({c \in C : c < e})
  <2>1. {c \in C : c < e} \in SUBSET C /\ e \notin {c \in C : c < e} /\ e \in C
    BY <1>4
  <2>2. IsFiniteSet({c \in C : c < e}) /\ Cardinality({c \in C : c < e}) \in Nat
        /\ Cardinality({c \in C : c < e}) <= n
        /\ Cardinality({c \in C : c < e}) # n
    BY <1>2, <1>3, <2>1, FS_Subset, FS_CardinalityType
  <2> QED BY <1>3, <1>4, <2>2
<1>5. ASSUME NEW d \in C, NEW e \in C, d < e
      PROVE  rank[d] # rank[e]
  <2>1. {c \in C : c < d} \in SUBSET {c \in C : c < e}
    <3>1. ASSUME NEW c \in C, c < d PROVE c < e
      <4>1. c \in Int /\ d \in Int /\ e \in Int
        OBVIOUS
      <4> QED BY <1>5, <3>1, <4>1
    <3> QED BY <3>1
  <2>2. d \in {c \in C : c < e} /\ d \notin {c \in C : c < d}
    <3>1. d \in Int
      OBVIOUS
    <3> QED BY <1>5, <3>1
  <2> QED BY <1>4, <2>1, <2>2, FS_Subset
<1>6. rank \in Injection(C, 0 .. n - 1)
  <2>1. rank \in [C -> 0 .. n - 1]
    BY <1>4
  <2>2. ASSUME NEW d \in C, NEW e \in C, rank[d] = rank[e] PROVE d = e
    <3>1. ~(d < e) /\ ~(e < d)
      BY <1>5, <2>2
    <3>2. d \in Int /\ e \in Int
      OBVIOUS
    <3> QED BY <3>1, <3>2
  <2> QED BY <2>1, <2>2 DEF Injection, IsInjective
<1>7. IsFiniteSet(0 .. n - 1) /\ Cardinality(0 .. n - 1) = n
  <2>1. /\ IsFiniteSet(0 .. n - 1)
        /\ Cardinality(0 .. n - 1) = IF 0 > n - 1 THEN 0 ELSE n - 1 - 0 + 1
    BY FS_Interval
  <2> QED BY <2>1
<1>8. rank \in Surjection(C, 0 .. n - 1)
  BY <1>3, <1>6, <1>7, FS_Injection
<1>9. i - 1 \in 0 .. n - 1
  BY <1>3
<1>10. PICK e \in C : rank[e] = i - 1
  BY <1>8, <1>9 DEF Surjection
<1> QED BY <1>4, <1>10

LEMMA HasMinimum ==
  ASSUME NEW C, C \subseteq Int, IsFiniteSet(C), C # {}
  PROVE  \E e \in C : \A c \in C : e <= c
<1>1. Cardinality(C) \in Nat /\ Cardinality(C) # 0
  BY FS_CardinalityType, FS_EmptySet
<1>2. 1 \in 1 .. Cardinality(C)
  BY <1>1
<1>3. PICK e \in C : Cardinality({c \in C : c < e}) = 0
  <2>1. PICK i \in 1 .. Cardinality(C) : i = 1
    BY <1>2
  <2>2. \E e \in C : Cardinality({c \in C : c < e}) = i - 1
    BY RankTaken
  <2> QED BY <2>1, <2>2
<1>4. {c \in C : c < e} = {}
  <2>1. {c \in C : c < e} \in SUBSET C
    OBVIOUS
  <2>2. IsFiniteSet({c \in C : c < e})
    BY <2>1, FS_Subset
  <2> QED BY <1>3, <2>2, FS_EmptySet
<1>5. ASSUME NEW c \in C PROVE e <= c
  <2>1. c \in Int /\ e \in Int /\ ~(c < e)
    BY <1>4
  <2> QED BY <2>1
<1> QED BY <1>5

LEMMA HasMaximum ==
  ASSUME NEW C, C \subseteq Int, IsFiniteSet(C), C # {}
  PROVE  \E e \in C : \A c \in C : c <= e
<1>1. PICK n \in Nat : n = Cardinality(C) /\ n # 0
  BY FS_CardinalityType, FS_EmptySet
<1>2. PICK e \in C : Cardinality({c \in C : c < e}) = n - 1
  <2>1. PICK i \in 1 .. Cardinality(C) : i = n
    BY <1>1
  <2>2. \E e \in C : Cardinality({c \in C : c < e}) = i - 1
    BY RankTaken
  <2> QED BY <2>1, <2>2
<1>3. ASSUME NEW c \in C, e < c PROVE FALSE
  <2>1. {d \in C : d < e} \in SUBSET C /\ IsFiniteSet({d \in C : d < e})
    BY FS_Subset
  <2>2. e \notin {d \in C : d < e} /\ c \notin {d \in C : d < e} /\ e # c
    <3>1. e \in Int /\ c \in Int
      OBVIOUS
    <3> QED BY <1>3, <3>1
  <2>3. PICK D : D = {d \in C : d < e} \cup {e}
    OBVIOUS
  <2>4. IsFiniteSet(D) /\ Cardinality(D) = n - 1 + 1
    BY <1>2, <2>1, <2>2, <2>3, FS_AddElement
  <2>5. D \in SUBSET C /\ Cardinality(D) = n
    BY <1>1, <2>3, <2>4
  <2>6. D = C
    BY <1>1, <2>5, FS_Subset
  <2> QED BY <1>3, <2>2, <2>3, <2>6
<1>4. ASSUME NEW c \in C PROVE c <= e
  <2>1. c \in Int /\ e \in Int
    OBVIOUS
  <2> QED BY <1>3, <2>1
<1> QED BY <1>4

-----------------------------------------------------------------------------
(* The page allocator.                                                     *)

PInv == PmmTypeOK /\ PagesPartitioned

LEMMA PagesCount ==
  ASSUME NEW S \in SUBSET Pages
  PROVE  IsFiniteSet(S) /\ Cardinality(S) \in 0 .. NumPages
<1>1. Cardinality(Pages) = NumPages
  <2>1. PICK e \in Int : e = NumPages - 1
    OBVIOUS
  <2>2. Cardinality(0 .. e) = IF 0 > e THEN 0 ELSE e - 0 + 1
    BY FS_Interval
  <2> QED BY <2>1, <2>2 DEF Pages
<1>2. IsFiniteSet(S) /\ Cardinality(S) \in Nat /\ Cardinality(S) <= Cardinality(Pages)
  BY PagesFinite, FS_Subset, FS_CardinalityType
<1> QED BY <1>1, <1>2

LEMMA FreeFinite ==
  ASSUME PInv
  PROVE  /\ IsFiniteSet(free) /\ free \subseteq Pages /\ 0 \notin free
         /\ Cardinality(free) \in 0 .. NumPages
<1>1. free \subseteq Pages /\ 0 \notin free
  BY DEF PInv, PmmTypeOK, PagesPartitioned
<1> QED BY <1>1, PagesCount

LEMMA RunFacts ==
  ASSUME NEW s \in Nat, NEW n \in Nat
  PROVE  /\ IsFiniteSet(Run(s, n)) /\ Cardinality(Run(s, n)) = n
         /\ \A p : p \in Run(s, n) <=> p \in Int /\ s <= p /\ p < s + n
<1>1. PICK e \in Int : e = s + n - 1
  OBVIOUS
<1>2. IsFiniteSet(s .. e) /\ Cardinality(s .. e) = IF s > e THEN 0 ELSE e - s + 1
  BY FS_Interval
<1>3. Run(s, n) = s .. e
  BY <1>1 DEF Run
<1>4. Cardinality(Run(s, n)) = n
  BY <1>1, <1>2, <1>3
<1> QED BY <1>1, <1>2, <1>3, <1>4

LEMMA HeldFacts ==
  ASSUME PInv, NEW r \in held
  PROVE  /\ r[1] \in Nat /\ r[2] \in 1 .. NumPages /\ r = <<r[1], r[2]>>
         /\ Run(r[1], r[2]) \subseteq HeldPages
         /\ Run(r[1], r[2]) \cap free = {} /\ r[1] \in Run(r[1], r[2])
<1>1. r[1] \in Nat /\ r[2] \in 1 .. NumPages /\ r = <<r[1], r[2]>>
  BY DEF PInv, PmmTypeOK, Pages
<1>2. Run(r[1], r[2]) \subseteq HeldPages
  BY DEF HeldPages
<1>3. HeldPages \cap free = {}
  BY DEF PInv, PagesPartitioned
<1>4. r[1] \in Run(r[1], r[2])
  BY <1>1, RunFacts
<1> QED BY <1>1, <1>2, <1>3, <1>4

(* Taking pages that are free: the runs R, which cover the pages T.        *)
LEMMA TakeRuns ==
  ASSUME PInv, NEW R, NEW T, R \subseteq Pages \X (1 .. NumPages), T \subseteq free,
         T = UNION {Run(r[1], r[2]) : r \in R},
         \A r, s \in R : r # s => Run(r[1], r[2]) \cap Run(s[1], s[2]) = {},
         free' = free \ T, freePages' = freePages - Cardinality(T),
         held' = held \cup R, UNCHANGED <<totalPages, usable, again>>,
         cursor' \in 0 .. NumPages
  PROVE  PInv'
<1>1. /\ IsFiniteSet(free) /\ free \subseteq Pages /\ Cardinality(free) \in Nat
      /\ free' \subseteq Pages /\ IsFiniteSet(T) /\ Cardinality(T) \in Nat
  BY FreeFinite, FS_Subset, FS_CardinalityType
<1>2. PICK U : U = UNION {Run(r[1], r[2]) : r \in held'}
  OBVIOUS
<1>3. U = HeldPages \cup T
  BY <1>2 DEF HeldPages
<1>4. HeldPages' = U
  BY <1>2 DEF HeldPages
<1>5. freePages' = Cardinality(free') + again' /\ freePages' \in Nat
  <2>1. free \cap T = T
    OBVIOUS
  <2>2. IsFiniteSet(free') /\ Cardinality(free') = Cardinality(free) - Cardinality(T)
    BY <1>1, <2>1, FS_Difference
  <2>3. Cardinality(free') \in Nat
    BY <2>2, FS_CardinalityType
  <2>4. freePages = Cardinality(free) + again /\ again \in Nat /\ again' = again
    BY DEF PInv, PagesPartitioned, PmmTypeOK
  <2> QED BY <1>1, <2>2, <2>3, <2>4
<1>6. PmmTypeOK'
  BY <1>1, <1>5 DEF PInv, PmmTypeOK
<1>7. ASSUME NEW r \in held', NEW s \in held', r # s
      PROVE  Run(r[1], r[2]) \cap Run(s[1], s[2]) = {}
  <2>1. CASE r \in held /\ s \in held
    BY <1>7, <2>1 DEF PInv, PagesPartitioned
  <2>2. CASE r \in R /\ s \in R
    BY <1>7, <2>2
  <2>3. CASE r \in held /\ s \in R
    <3>1. Run(r[1], r[2]) \cap free = {} /\ Run(s[1], s[2]) \subseteq T
      BY <2>3, HeldFacts
    <3> QED BY <3>1
  <2>4. CASE r \in R /\ s \in held
    <3>1. Run(s[1], s[2]) \cap free = {} /\ Run(r[1], r[2]) \subseteq T
      BY <2>4, HeldFacts
    <3> QED BY <3>1
  <2> QED BY <2>1, <2>2, <2>3, <2>4
<1>8. /\ HeldPages \cap free = {}
      /\ free \cup HeldPages = (usable \cap Pages) \ {0}
  BY DEF PInv, PagesPartitioned
<1>9. U \cap free' = {} /\ free' \cup U = (usable' \cap Pages) \ {0}
  BY <1>3, <1>8
<1>10. PagesPartitioned'
  BY <1>4, <1>5, <1>7, <1>9 DEF PagesPartitioned
<1> QED BY <1>6, <1>10 DEF PInv

LEMMA TakeFacts ==
  ASSUME PInv, NEW s \in free, NEW n \in Nat \ {0}, IsFreeRun(s, n), Take(s, n),
         UNCHANGED <<totalPages, usable, again>>, cursor' \in 0 .. NumPages
  PROVE  /\ PInv' /\ free' = free \ Run(s, n) /\ held' = held \cup {<<s, n>>}
         /\ s \in Pages /\ s # 0 /\ n \in 1 .. NumPages
         /\ Run(s, n) \subseteq free
<1>1. /\ s \in Pages /\ s \in Nat /\ s # 0 /\ free \subseteq Pages
      /\ IsFreeRun(s, n) /\ Run(s, n) \subseteq free
  BY FreeFinite DEF Pages, IsFreeRun
<1>2. n \in 1 .. NumPages
  <2>1. s + n - 1 \in Run(s, n)
    BY <1>1, RunFacts
  <2>2. s + n - 1 \in Pages
    BY <1>1, <2>1
  <2> QED BY <1>1, <2>2 DEF Pages
<1>3. /\ free' = free \ Run(s, n) /\ freePages' = freePages - n
      /\ held' = held \cup {<<s, n>>}
  BY DEF Take, Marked, Counted
<1>4. Cardinality(Run(s, n)) = n
  BY <1>1, RunFacts
<1>5. PICK R, T : R = {<<s, n>>} /\ T = Run(s, n)
  OBVIOUS
<1>6. R \subseteq Pages \X (1 .. NumPages) /\ T = UNION {Run(r[1], r[2]) : r \in R}
  BY <1>1, <1>2, <1>5
<1>7. PInv'
  <2>1. \A r, t \in R : r = t
    BY <1>5
  <2> QED BY <1>1, <1>3, <1>4, <1>5, <1>6, <2>1, TakeRuns
<1> QED BY <1>1, <1>2, <1>3, <1>7

LEMMA AllocPageFacts ==
  ASSUME PInv, AllocPage
  PROVE  PInv' /\ held \subseteq held'
<1>1. PICK p \in free : Take(p, 1) /\ cursor' = After(p)
  BY DEF AllocPage, NextFree
<1>2. UNCHANGED <<totalPages, usable, again>> /\ p \in Pages
  BY FreeFinite DEF AllocPage
<1>3. cursor' \in 0 .. NumPages
  BY <1>1, <1>2 DEF After, Pages
<1>4. IsFreeRun(p, 1)
  <2>1. \A q : q \in Run(p, 1) => q = p
    BY <1>2 DEF Run, Pages
  <2> QED BY <2>1 DEF IsFreeRun
<1>5. PICK n \in Nat \ {0} : n = 1
  OBVIOUS
<1> QED BY <1>1, <1>2, <1>3, <1>4, <1>5, TakeFacts

LEMMA AllocContiguousFacts ==
  ASSUME PInv, NEW n \in Nat \ {0}, AllocContiguous(n)
  PROVE  PInv' /\ held \subseteq held'
<1>1. PICK s \in free : Take(s, n) /\ IsFreeRun(s, n)
  BY DEF AllocContiguous, FirstRun
<1>2. UNCHANGED <<totalPages, cursor, usable, again>> /\ cursor' \in 0 .. NumPages
  BY DEF AllocContiguous, PInv, PmmTypeOK
<1> QED BY <1>1, <1>2, TakeFacts

LEMMA ReleaseFacts ==
  ASSUME PInv, NEW s, NEW n, Free(s, n)
  PROVE  PInv' /\ held' = held \ {<<s, n>>}
<1>1. PICK r \in held : r = <<s, n>>
  BY DEF Free
<1>2. s \in Nat /\ n \in 1 .. NumPages /\ s = r[1] /\ n = r[2]
  BY <1>1, HeldFacts
<1>3. PICK T : T = Run(s, n)
  OBVIOUS
<1>4. /\ free' = free \cup T /\ freePages' = freePages + Cardinality(T \ free)
      /\ held' = held \ {r} /\ UNCHANGED <<totalPages, cursor, usable, again>>
  BY <1>1, <1>3 DEF Free, Released
<1>5. /\ T \cap free = {} /\ T \subseteq HeldPages /\ IsFiniteSet(T) /\ Cardinality(T) \in Nat
  BY <1>2, <1>3, HeldFacts, RunFacts
<1>6. PICK U : U = UNION {Run(x[1], x[2]) : x \in held'}
  OBVIOUS
<1>7. HeldPages' = U
  BY <1>6 DEF HeldPages
<1>8. U = HeldPages \ T
  <2>1. ASSUME NEW x \in held' PROVE Run(x[1], x[2]) \cap T = {} /\ Run(x[1], x[2]) \subseteq HeldPages
    <3>1. x \in held /\ x # r
      BY <1>4
    <3> QED BY <1>2, <1>3, <3>1 DEF PInv, PagesPartitioned, HeldPages
  <2>2. ASSUME NEW p \in HeldPages, p \notin T PROVE p \in U
    <3>1. PICK x \in held : p \in Run(x[1], x[2])
      BY DEF HeldPages
    <3>2. x # r
      BY <1>2, <1>3, <2>2, <3>1
    <3> QED BY <1>4, <1>6, <3>1, <3>2
  <2> QED BY <1>6, <2>1, <2>2
<1>9. /\ HeldPages \cap free = {}
      /\ free \cup HeldPages = (usable \cap Pages) \ {0} /\ freePages = Cardinality(free) + again
      /\ again \in Nat /\ again' = again
  BY <1>4 DEF PInv, PagesPartitioned, PmmTypeOK
<1>10. U \cap free' = {} /\ free' \cup U = (usable' \cap Pages) \ {0}
  BY <1>4, <1>5, <1>8, <1>9
<1>11. free' \subseteq Pages /\ IsFiniteSet(free')
  BY <1>10, PagesFinite, FS_Subset
<1>12. freePages' = Cardinality(free') + again' /\ freePages' \in Nat
  <2>1. IsFiniteSet(free) /\ Cardinality(free) \in Nat
    BY FreeFinite
  <2>2. Cardinality(free \cap T) = 0
    <3>1. free \cap T = {} /\ Cardinality({}) = 0
      BY <1>5, FS_EmptySet
    <3> QED BY <3>1, Zenon
  <2>3. Cardinality(free') = Cardinality(free) + Cardinality(T)
    <3>1. Cardinality(free') = Cardinality(free) + Cardinality(T) - Cardinality(free \cap T)
      BY <1>4, <1>5, <2>1, FS_Union
    <3> QED BY <1>5, <2>1, <2>2, <3>1
  <2>4. T \ free = T
    BY <1>5
  <2> QED BY <1>4, <1>5, <1>9, <2>1, <2>3, <2>4
<1>13. held' \subseteq Pages \X (1 .. NumPages)
  BY <1>4 DEF PInv, PmmTypeOK
<1>14. PmmTypeOK'
  BY <1>4, <1>11, <1>12, <1>13 DEF PInv, PmmTypeOK
<1>15. \A x, y \in held' : x # y => Run(x[1], x[2]) \cap Run(y[1], y[2]) = {}
  BY <1>4 DEF PInv, PagesPartitioned
<1>16. PagesPartitioned'
  BY <1>7, <1>10, <1>12, <1>15 DEF PagesPartitioned
<1> QED BY <1>1, <1>4, <1>14, <1>16 DEF PInv

LEMMA TakePagesFacts ==
  ASSUME PInv, NEW k \in Int, TakePages(k)
  PROVE  PInv' /\ held \subseteq held'
<1>1. PICK T : T = Taken(k)
  OBVIOUS
<1>2. /\ T \subseteq free /\ free' = free \ T /\ freePages' = freePages - Cardinality(T)
      /\ held' = held \cup {<<p, 1>> : p \in T} /\ UNCHANGED <<totalPages, usable, again>>
      /\ cursor' = IF T = {} THEN cursor
                   ELSE After(CHOOSE p \in T : \A q \in T : Rank(q) <= Rank(p))
  BY <1>1 DEF TakePages, Taken
<1>3. IsFiniteSet(free) /\ free \subseteq Pages /\ Cardinality(free) \in Nat
  BY FreeFinite
<1>4. ASSUME NEW p \in free PROVE Rank(p) \in 0 .. Cardinality(free)
  <2>1. PICK S : S = {q \in free : Distance(q) <= Distance(p)}
    OBVIOUS
  <2>2. IsFiniteSet(S) /\ Cardinality(S) <= Cardinality(free) /\ Cardinality(S) \in Nat
    BY <1>3, <2>1, FS_Subset, FS_CardinalityType
  <2> QED BY <1>3, <2>1, <2>2 DEF Rank
<1>5. cursor' \in 0 .. NumPages
  <2>1. CASE T = {}
    BY <1>2, <2>1 DEF PInv, PmmTypeOK
  <2>2. CASE T # {}
    <3>1. PICK R : R = {Rank(p) : p \in T}
      OBVIOUS
    <3>2. R \subseteq 0 .. Cardinality(free) /\ R # {}
      BY <1>2, <1>4, <2>2, <3>1
    <3>3. IsFiniteSet(R)
      <4>1. IsFiniteSet(0 .. Cardinality(free))
        BY <1>3, FS_Interval
      <4> QED BY <3>2, <4>1, FS_Subset
    <3>4. PICK m \in R : \A x \in R : x <= m
      <4>1. R \subseteq Int
        BY <1>3, <3>2
      <4> QED BY <3>2, <3>3, <4>1, HasMaximum
    <3>5. \E p \in T : \A q \in T : Rank(q) <= Rank(p)
      BY <3>1, <3>4
    <3>6. PICK p \in T : cursor' = After(p)
      <4>1. (CHOOSE p \in T : \A q \in T : Rank(q) <= Rank(p)) \in T
        BY <3>5
      <4> QED BY <1>2, <2>2, <4>1
    <3>7. p \in Pages
      BY <1>2, <1>3
    <3> QED BY <3>6, <3>7 DEF After, Pages
  <2> QED BY <2>1, <2>2
<1>6. PICK R : R = {<<p, 1>> : p \in T}
  OBVIOUS
<1>7. ASSUME NEW p \in T PROVE Run(p, 1) = {p}
  <2>1. p \in Int
    BY <1>2, <1>3 DEF Pages
  <2>2. \A q : q \in Run(p, 1) <=> q = p
    BY <2>1 DEF Run
  <2> QED BY <2>2
<1>8. R \subseteq Pages \X (1 .. NumPages) /\ T = UNION {Run(r[1], r[2]) : r \in R}
      /\ \A r, s \in R : r # s => Run(r[1], r[2]) \cap Run(s[1], s[2]) = {}
  <2>1. \A r \in R : \E p \in T : r = <<p, 1>> /\ r[1] = p /\ r[2] = 1 /\ Run(r[1], r[2]) = {p}
    BY <1>6, <1>7
  <2>2. R \subseteq Pages \X (1 .. NumPages)
    <3>1. T \subseteq Pages /\ 1 \in 1 .. NumPages
      BY <1>2, <1>3
    <3> QED BY <1>6, <3>1
  <2>3. T = UNION {Run(r[1], r[2]) : r \in R}
    <3>1. ASSUME NEW p \in T PROVE \E r \in R : p \in Run(r[1], r[2])
      <4>1. PICK r : r = <<p, 1>>
        OBVIOUS
      <4>2. r \in R
        BY <1>6, <4>1
      <4>3. p \in Run(r[1], r[2])
        BY <1>7, <4>1
      <4> QED BY <4>2, <4>3
    <3>2. \A r \in R : Run(r[1], r[2]) \subseteq T
      BY <2>1
    <3> QED BY <3>1, <3>2
  <2>4. ASSUME NEW r \in R, NEW s \in R, r # s PROVE Run(r[1], r[2]) \cap Run(s[1], s[2]) = {}
    <3>1. PICK p \in T, q \in T : /\ r = <<p, 1>> /\ Run(r[1], r[2]) = {p}
                                  /\ s = <<q, 1>> /\ Run(s[1], s[2]) = {q}
      BY <2>1
    <3>2. p # q
      BY <2>4, <3>1
    <3> QED BY <3>1, <3>2
  <2> QED BY <2>2, <2>3, <2>4
<1>9. PInv'
  <2>1. held' = held \cup R
    BY <1>2, <1>6
  <2> QED BY <1>2, <1>5, <1>8, <2>1, TakeRuns
<1> QED BY <1>2, <1>9

(* A page of the map has a first region that lists it.                     *)
LEMMA FirstRegion ==
  ASSUME NEW C, C \subseteq Nat, C # {}
  PROVE  \E e \in C : \A c \in 1 .. e - 1 : c \notin C
<1>1. PICK d \in C : TRUE
  OBVIOUS
<1>2. PICK D : D = {0 - c : c \in {c \in C : c <= d}}
  OBVIOUS
<1>3. D \subseteq Int /\ D # {} /\ IsFiniteSet(D)
  <2>1. D \subseteq 0 - d .. 0 /\ 0 - d \in D /\ d \in Nat
    BY <1>1, <1>2
  <2>2. PICK lo \in Int : lo = 0 - d
    BY <2>1
  <2>3. IsFiniteSet(lo .. 0)
    BY FS_Interval
  <2>4. D \subseteq lo .. 0
    BY <2>1, <2>2
  <2>5. IsFiniteSet(D)
    BY <2>3, <2>4, FS_Subset
  <2> QED BY <2>1, <2>4, <2>5
<1>4. PICK m \in D : \A x \in D : x <= m
  BY <1>3, HasMaximum
<1>5. PICK e \in C : e <= d /\ m = 0 - e
  BY <1>2, <1>4
<1>6. ASSUME NEW c \in 1 .. e - 1, c \in C PROVE FALSE
  <2>1. c <= d /\ c < e /\ c \in Nat /\ e \in Nat /\ d \in Nat
    BY <1>5, <1>6
  <2>2. 0 - c \in D
    BY <1>2, <1>6, <2>1
  <2> QED BY <1>4, <1>5, <2>1, <2>2
<1> QED BY <1>6

LEMMA TrackedFinite ==
  ASSUME NEW map \in Seq(Region)
  PROVE  /\ \A i \in DOMAIN map : Tracked(map[i]) = (PagesOf(map[i]) \cap Pages) \ {0}
         /\ IsFiniteSet(Cleared(map))
<1>1. ASSUME NEW i \in DOMAIN map
      PROVE  Tracked(map[i]) = (PagesOf(map[i]) \cap Pages) \ {0}
  <2>1. map[i] \in Region
    BY ElementOfSeq
  <2>2. ASSUME NEW p \in PagesOf(map[i]) PROVE p \in Nat
    BY <2>1, <2>2 DEF Region, PagesOf
  <2> QED BY <2>2 DEF Tracked, Pages
<1>2. PICK D : D = DOMAIN map
  OBVIOUS
<1>3. IsFiniteSet(D)
  <2>1. PICK n \in Nat : n = Len(map)
    BY LenProperties
  <2>2. IsFiniteSet(1 .. n)
    BY FS_Interval
  <2> QED BY <1>2, <2>1, <2>2, LenProperties
<1>4. IsFiniteSet(Cleared(map))
  <2>1. IsFiniteSet(D \X Pages)
    BY <1>3, PagesFinite, FS_Product
  <2>2. \A i \in D : Tracked(map[i]) \subseteq Pages
    BY <1>1, <1>2
  <2>3. PICK F : F = [i \in D |-> Tracked(map[i])]
    OBVIOUS
  <2>4. Cleared(map) = UNION {{i} \X F[i] : i \in D}
    BY <1>2, <2>3 DEF Cleared
  <2>5. \A i \in D : F[i] \subseteq Pages
    BY <2>2, <2>3
  <2>6. UNION {{i} \X F[i] : i \in D} \subseteq D \X Pages
    BY <2>5
  <2> QED BY <2>1, <2>4, <2>6, FS_Subset
<1> QED BY <1>1, <1>4

(* pmm_init counts each bit once for the region that clears it first, and  *)
(* once more for each region that lists it again.                          *)
LEMMA ClearedCount ==
  ASSUME NEW map \in Seq(Region), NEW F, F = UNION {Tracked(map[i]) : i \in DOMAIN map}
  PROVE  /\ F \subseteq Pages
         /\ Cardinality(Cleared(map)) = Cardinality(F) + Cardinality(Again(map))
         /\ Cardinality(Again(map)) \in Nat
<1> DEFINE C == Cleared(map)
           A == Again(map)
           B == C \ A
           f == [x \in B |-> x[2]]
<1>1. \A x : x \in C <=> \E i \in DOMAIN map : \E p \in Tracked(map[i]) : x = <<i, p>>
  BY DEF Cleared
<1>2. A \subseteq C /\ IsFiniteSet(C) /\ F \subseteq Pages
  BY TrackedFinite DEF Again
<1>3. DOMAIN map = 1 .. Len(map) /\ Len(map) \in Nat
  BY LenProperties
<1>4. \A x \in B : \A i \in 1 .. x[1] - 1 : x[2] \notin Tracked(map[i])
  BY DEF Again
<1>5. f \in [B -> F]
  <2>1. ASSUME NEW x \in B PROVE x[2] \in F
    BY <1>1
  <2> QED BY <2>1
<1>6. ASSUME NEW x \in B, NEW y \in B, f[x] = f[y] PROVE x = y
  <2>0. \A z \in B : \E i \in DOMAIN map : \E p \in F : z = <<i, p>> /\ p \in Tracked(map[i])
    BY <1>1
  <2>1. PICK i \in DOMAIN map, j \in DOMAIN map, p \in F, q \in F :
          /\ x = <<i, p>> /\ p \in Tracked(map[i])
          /\ y = <<j, q>> /\ q \in Tracked(map[j])
    BY <2>0
  <2>2. p = q
    BY <1>6, <2>1
  <2>3. ~(i < j)
    BY <1>3, <1>4, <2>1, <2>2
  <2>4. ~(j < i)
    BY <1>3, <1>4, <2>1, <2>2
  <2>5. i = j
    BY <1>3, <2>3, <2>4
  <2> QED BY <2>1, <2>2, <2>5
<1>7. ASSUME NEW p \in F PROVE \E x \in B : f[x] = p
  <2>1. PICK I : I = {i \in DOMAIN map : p \in Tracked(map[i])}
    OBVIOUS
  <2>2. I \subseteq Nat /\ I # {}
    BY <1>3, <2>1
  <2>3. PICK i \in I : \A j \in 1 .. i - 1 : j \notin I
    BY <2>2, FirstRegion
  <2>4. \A j \in 1 .. i - 1 : p \notin Tracked(map[j])
    <3>1. \A j \in 1 .. i - 1 : j \in DOMAIN map
      BY <1>3, <2>1
    <3> QED BY <2>1, <2>3, <3>1
  <2>5. PICK x : x = <<i, p>>
    OBVIOUS
  <2>6. x \in C
    BY <1>1, <2>1, <2>5
  <2>7. x \notin A
    BY <2>4, <2>5 DEF Again
  <2>8. x \in B /\ x[2] = p
    BY <2>5, <2>6, <2>7
  <2> QED BY <2>8
<1>8. f \in Injection(B, F) /\ f \in Surjection(B, F)
  BY <1>5, <1>6, <1>7 DEF Injection, Surjection, IsInjective
<1>9. IsFiniteSet(B) /\ IsFiniteSet(A) /\ IsFiniteSet(F)
  BY <1>2, PagesFinite, FS_Subset
<1>10. Cardinality(B) = Cardinality(F)
  <2> HIDE DEF B, f
  <2> QED BY <1>8, <1>9, FS_Injection
<1>11. Cardinality(B) = Cardinality(C) - Cardinality(A)
  <2>1. C \cap A = A
    BY <1>2
  <2> QED BY <1>2, <2>1, FS_Difference
<1>12. Cardinality(A) \in Nat /\ Cardinality(C) \in Nat /\ Cardinality(F) \in Nat
  BY <1>2, <1>9, FS_CardinalityType
<1> HIDE DEF A, B, C
<1>13. Cardinality(C) = Cardinality(F) + Cardinality(A)
  BY <1>10, <1>11, <1>12
<1> QED BY <1>2, <1>12, <1>13 DEF A, C

LEMMA PmmInitFacts ==
  ASSUME PmmInit
  PROVE  PInv /\ held = {}
<1>1. PICK map \in MemoryMaps :
        /\ free       = UNION {Tracked(map[i]) : i \in DOMAIN map}
        /\ usable     = UNION {PagesOf(map[i]) : i \in DOMAIN map}
        /\ again      = Cardinality(Again(map))
        /\ freePages  = Cardinality(Cleared(map))
        /\ totalPages = Highest(Ends(map))
        /\ cursor     = 0
        /\ held       = {}
  BY DEF PmmInit
<1>2. map \in Seq(Region)
  BY MapsAssumption
<1>3. free = (usable \cap Pages) \ {0}
  BY <1>1, <1>2, TrackedFinite
<1>4. /\ free \subseteq Pages /\ freePages = Cardinality(free) + again /\ again \in Nat
      /\ freePages \in Nat
  <2>1. /\ Cardinality(Cleared(map)) = Cardinality(free) + Cardinality(Again(map))
        /\ Cardinality(Again(map)) \in Nat /\ free \subseteq Pages
    BY <1>1, <1>2, ClearedCount
  <2>2. Cardinality(free) \in Nat
    BY <2>1, PagesCount
  <2> QED BY <1>1, <2>1, <2>2
<1>5. totalPages \in 0 .. NumPages
  <2>1. PICK E : E = Ends(map) \cup {0}
    OBVIOUS
  <2>2. E \subseteq 0 .. NumPages /\ E # {} /\ E \subseteq Int
    BY <2>1 DEF Ends
  <2>3. IsFiniteSet(E)
    <3>1. IsFiniteSet(0 .. NumPages)
      BY FS_Interval
    <3> QED BY <2>2, <3>1, FS_Subset
  <2>4. \E x \in E : \A y \in E : y <= x
    BY <2>2, <2>3, HasMaximum
  <2>5. (CHOOSE x \in E : \A y \in E : y <= x) \in E
    BY <2>4
  <2> QED BY <1>1, <2>1, <2>2, <2>5 DEF Highest
<1>6. HeldPages = {}
  BY <1>1 DEF HeldPages
<1>7. PmmTypeOK
  BY <1>1, <1>4, <1>5 DEF PmmTypeOK
<1>8. PagesPartitioned
  BY <1>1, <1>3, <1>4, <1>6 DEF PagesPartitioned
<1> QED BY <1>1, <1>7, <1>8 DEF PInv

-----------------------------------------------------------------------------
(* The blocks B of the arenas, which take the runs of pages R.             *)

BlockType == [free : BOOLEAN, size : Nat \ {0}, prev : Nat, next : Nat]
Blocks(B) == \A a \in DOMAIN B : a \in Nat \ {0} /\ B[a] \in BlockType

End(B, a) == a + HeaderUnits + B[a].size

(* The units of the run of pages r.                                        *)
Lo(r) == r[1] * PageUnits
Hi(r) == (r[1] + r[2]) * PageUnits

RunType == Pages \X (1 .. NumPages)
ApartRuns(R) == \A r, t \in R : r # t => Hi(r) <= Lo(t) \/ Hi(t) <= Lo(r)

(* Each block leads to the one that begins where it ends, and back.        *)
Links(B) ==
  \A a \in DOMAIN B :
    \/ B[a].next = NULL
    \/ B[a].next = End(B, a) /\ B[a].next \in DOMAIN B /\ B[B[a].next].prev = a
Backs(B) ==
  \A a \in DOMAIN B :
    B[a].prev # NULL => B[a].prev \in DOMAIN B /\ B[B[a].prev].next = a

(* No block begins inside another.                                         *)
Apart(B) == \A a, c \in DOMAIN B : a < c => End(B, a) <= c

(* A block lies inside a run, and is its first or its last when it has no  *)
(* neighbour on that side.                                                 *)
Within(B, a, r) ==
  /\ Lo(r) + MetaUnits <= a /\ End(B, a) <= Hi(r)
  /\ B[a].next = NULL => End(B, a) = Hi(r)
  /\ B[a].prev = NULL => a = Lo(r) + MetaUnits
Inside(B, R) == \A a \in DOMAIN B : \E r \in R : Within(B, a, r)
Firsts(B, R) ==
  \A r \in R : Lo(r) + MetaUnits \in DOMAIN B /\ B[Lo(r) + MetaUnits].prev = NULL

Shape(B, R) ==
  Blocks(B) /\ Links(B) /\ Backs(B) /\ Apart(B) /\ Inside(B, R) /\ Firsts(B, R)

(* Of two neighbours one is in use, unless the second is x.                *)
Pair(B, a)   == B[a].next # NULL /\ B[a].free /\ B[B[a].next].free
NoPair(B, x) == \A a \in DOMAIN B : Pair(B, a) => B[a].next = x

Unchanged(B, C, a) ==
  a \in DOMAIN C /\ C[a].free = B[a].free /\ C[a].size = B[a].size /\ C[a].next = B[a].next

LEMMA FieldFacts ==
  ASSUME NEW r \in BlockType
  PROVE  r.free \in BOOLEAN /\ r.size \in Nat \ {0} /\ r.prev \in Nat /\ r.next \in Nat
BY DEF BlockType

WithFree(r, f)    == [r EXCEPT !.free = f]
WithPrev(r, p)    == [r EXCEPT !.prev = p]
WithNext(r, z, n) == [r EXCEPT !.size = z, !.next = n]

LEMMA SetFree ==
  ASSUME NEW r \in BlockType, NEW f \in BOOLEAN
  PROVE  /\ WithFree(r, f) \in BlockType /\ WithFree(r, f).free = f
         /\ WithFree(r, f).size = r.size /\ WithFree(r, f).prev = r.prev
         /\ WithFree(r, f).next = r.next
BY DEF BlockType, WithFree

LEMMA SetPrev ==
  ASSUME NEW r \in BlockType, NEW p \in Nat
  PROVE  /\ WithPrev(r, p) \in BlockType /\ WithPrev(r, p).free = r.free
         /\ WithPrev(r, p).size = r.size /\ WithPrev(r, p).prev = p
         /\ WithPrev(r, p).next = r.next
BY DEF BlockType, WithPrev

LEMMA SetNext ==
  ASSUME NEW r \in BlockType, NEW z \in Nat \ {0}, NEW n \in Nat
  PROVE  /\ WithNext(r, z, n) \in BlockType /\ WithNext(r, z, n).free = r.free
         /\ WithNext(r, z, n).size = z /\ WithNext(r, z, n).prev = r.prev
         /\ WithNext(r, z, n).next = n
BY DEF BlockType, WithNext

(* take_block, and split_block when it splits.                             *)
Whole(B, C, b) ==
  /\ DOMAIN C = DOMAIN B
  /\ C[b].free = FALSE /\ C[b].size = B[b].size /\ C[b].next = B[b].next
  /\ C[b].prev = B[b].prev
  /\ \A a \in DOMAIN B \ {b} : C[a] = B[a]

Cut(B, C, b, needed, rest) ==
  /\ DOMAIN C = DOMAIN B \cup {rest}
  /\ C[b].free = FALSE /\ C[b].size = needed /\ C[b].next = rest /\ C[b].prev = B[b].prev
  /\ C[rest].free = TRUE /\ C[rest].size = B[b].size - needed - HeaderUnits
  /\ C[rest].next = B[b].next /\ C[rest].prev = b
  /\ \A a \in DOMAIN B \ {b} :
       Unchanged(B, C, a) /\ C[a].prev = IF a = B[b].next THEN rest ELSE B[a].prev

LEMMA SplitShape ==
  ASSUME NEW B, Blocks(B), NEW b \in DOMAIN B, NEW needed \in Nat \ {0},
         needed <= B[b].size, B[b].next # b, NEW rest, rest = RestOf(b, needed),
         Splits(B[b].size, needed) => rest \notin DOMAIN B /\ rest # B[b].next,
         NEW C, C = InUse(Split(B, b, needed), b)
  PROVE  /\ Blocks(C)
         /\ \/ ~Splits(B[b].size, needed) /\ Whole(B, C, b)
            \/ Splits(B[b].size, needed) /\ Cut(B, C, b, needed, rest)
         /\ TakenSize(Split(B, b, needed), b, needed) = C[b].size
<1>1. PICK old, z, nx : old = B[b] /\ z = old.size /\ nx = old.next
  OBVIOUS
<1>2. old \in BlockType /\ b \in Nat \ {0} /\ z \in Nat \ {0} /\ nx \in Nat
  BY <1>1, FieldFacts DEF Blocks
<1>3. rest \in Nat \ {0} /\ rest = b + HeaderUnits + needed
  BY <1>2 DEF RestOf, HeaderUnits
<1>4. CASE ~Splits(z, needed)
  <2>1. PICK u : u = WithFree(old, FALSE)
    OBVIOUS
  <2>2. /\ u \in BlockType /\ u.free = FALSE /\ u.size = z /\ u.next = nx
        /\ u.prev = old.prev
    BY <1>1, <1>2, <2>1, SetFree
  <2>3. C = [B EXCEPT ![b].free = FALSE]
    BY <1>1, <1>4 DEF Split, InUse
  <2>4. C = [B EXCEPT ![b] = u]
    BY <1>1, <2>1, <2>3 DEF WithFree
  <2>5. DOMAIN C = DOMAIN B /\ C[b] = u /\ \A a \in DOMAIN B \ {b} : C[a] = B[a]
    BY <2>4
  <2>6. Blocks(C)
    BY <2>2, <2>5 DEF Blocks
  <2>7. TakenSize(Split(B, b, needed), b, needed) = C[b].size
    <3>1. Split(B, b, needed) = B
      BY <1>1, <1>4 DEF Split
    <3> QED BY <1>1, <2>2, <2>5, <3>1 DEF TakenSize
  <2> QED BY <1>1, <1>4, <2>2, <2>5, <2>6, <2>7 DEF Whole
<1>5. CASE Splits(z, needed)
  <2>1. PICK u, v, w : /\ u = WithNext(old, needed, rest)
                       /\ v = WithFree(u, FALSE)
                       /\ w = [free |-> TRUE, size |-> old.size - needed - HeaderUnits,
                               prev |-> b, next |-> old.next]
    OBVIOUS
  <2>2. u \in BlockType /\ u.size = needed /\ u.next = rest /\ u.prev = old.prev
    <3>1. u = WithNext(old, needed, rest) /\ rest \in Nat /\ old \in BlockType
      BY <1>2, <1>3, <2>1
    <3> QED BY <3>1, SetNext
  <2>3. /\ v \in BlockType /\ v.free = FALSE /\ v.size = needed /\ v.next = rest
        /\ v.prev = old.prev
    <3>1. v = WithFree(u, FALSE) /\ FALSE \in BOOLEAN
      BY <2>1
    <3> QED BY <2>2, <3>1, SetFree
  <2>4. /\ w \in BlockType /\ w.free = TRUE /\ w.size = z - needed - HeaderUnits
        /\ w.prev = b /\ w.next = nx
    <3>1. z - needed - HeaderUnits \in Nat \ {0}
      BY <1>2, <1>5 DEF Splits, HeaderUnits
    <3> QED BY <1>1, <1>2, <2>1, <3>1 DEF BlockType
  <2>5. PICK D : D = Split(B, b, needed)
    OBVIOUS
  <2>6. D = [a \in DOMAIN B \cup {rest} |->
               CASE a = rest     -> w
                 [] a = b        -> u
                 [] a = old.next -> [B[a] EXCEPT !.prev = rest]
                 [] OTHER        -> B[a]]
    BY <1>1, <1>5, <2>1, <2>5 DEF Split, WithNext
  <2>7. rest \notin DOMAIN B /\ rest # nx /\ nx # b
    BY <1>1, <1>5
  <2>8. /\ DOMAIN D = DOMAIN B \cup {rest} /\ D[rest] = w /\ D[b] = u
        /\ \A a \in DOMAIN B \ {b} :
             D[a] = IF a = nx THEN [B[a] EXCEPT !.prev = rest] ELSE B[a]
    BY <1>1, <2>6, <2>7
  <2>9. C = [D EXCEPT ![b].free = FALSE]
    BY <2>5 DEF InUse
  <2>10. C = [D EXCEPT ![b] = v]
    BY <2>1, <2>8, <2>9 DEF WithFree
  <2>11. /\ DOMAIN C = DOMAIN B \cup {rest} /\ C[rest] = w /\ C[b] = v
         /\ \A a \in DOMAIN B \ {b} : C[a] = D[a]
    BY <2>7, <2>8, <2>10
  <2>12. ASSUME NEW a \in DOMAIN B, a # b
         PROVE  /\ C[a] \in BlockType /\ Unchanged(B, C, a)
                /\ C[a].prev = IF a = nx THEN rest ELSE B[a].prev
    <3>1. PICK r \in BlockType : r = B[a]
      BY DEF Blocks
    <3>2. a \in DOMAIN C /\ C[a] = IF a = nx THEN [r EXCEPT !.prev = rest] ELSE r
      BY <2>8, <2>11, <2>12, <3>1
    <3>3. CASE a = nx
      <4>1. PICK x : x = WithPrev(r, rest)
        OBVIOUS
      <4>2. /\ x \in BlockType /\ x.free = r.free /\ x.size = r.size
            /\ x.prev = rest /\ x.next = r.next
        <5>1. rest \in Nat /\ r \in BlockType
          BY <1>3
        <5> QED BY <4>1, <5>1, SetPrev
      <4>3. C[a] = x
        BY <3>2, <3>3, <4>1 DEF WithPrev
      <4> QED BY <3>1, <3>2, <3>3, <4>2, <4>3 DEF Unchanged
    <3>4. CASE a # nx
      BY <3>1, <3>2, <3>4 DEF Unchanged
    <3> QED BY <3>3, <3>4
  <2>13. Blocks(C)
    BY <1>2, <1>3, <2>3, <2>4, <2>11, <2>12 DEF Blocks
  <2>14. Cut(B, C, b, needed, rest)
    BY <1>1, <2>3, <2>4, <2>11, <2>12 DEF Cut
  <2>15. TakenSize(Split(B, b, needed), b, needed) = C[b].size
    <3>1. D[b].size = needed /\ C[b].size = needed
      BY <2>2, <2>3, <2>8, <2>11
    <3> QED BY <2>5, <3>1 DEF TakenSize
  <2> QED BY <1>1, <1>5, <2>13, <2>14, <2>15
<1> QED BY <1>1, <1>4, <1>5

(* try_merge_with_next.                                                    *)
Joined(B, C, b, n) ==
  /\ n \in DOMAIN B /\ B[n].free /\ n # b
  /\ DOMAIN C = DOMAIN B \ {n}
  /\ C[b].free = B[b].free /\ C[b].size = B[b].size + HeaderUnits + B[n].size
  /\ C[b].next = B[n].next /\ C[b].prev = B[b].prev
  /\ \A a \in DOMAIN B \ {b, n} :
       Unchanged(B, C, a) /\ C[a].prev = IF a = B[n].next THEN b ELSE B[a].prev

LEMMA MergeShape ==
  ASSUME NEW B, Blocks(B), NEW b \in DOMAIN B, NEW n, n = B[b].next,
         n # NULL => n \in DOMAIN B /\ n # b /\ B[n].next # b /\ B[n].next # n
                     /\ B[n].next \in DOMAIN B \cup {NULL},
         NEW C, C = MergeNext(B, b)
  PROVE  /\ Blocks(C)
         /\ \/ (n = NULL \/ ~B[n].free) /\ C = B
            \/ n # NULL /\ Joined(B, C, b, n)
<1>1. CASE n = NULL \/ ~B[n].free
  BY <1>1 DEF MergeNext
<1>2. CASE n # NULL /\ B[n].free
  <2>1. PICK rb \in BlockType, rn \in BlockType : rb = B[b] /\ rn = B[n]
    BY <1>2 DEF Blocks
  <2>2. PICK nn, L : nn = rn.next /\ L = Relinked(B, b, nn)
    OBVIOUS
  <2>3. /\ n \in DOMAIN B /\ n # b /\ nn # b /\ nn # n /\ nn \in DOMAIN B \cup {NULL}
        /\ NULL \notin DOMAIN B
    BY <1>2, <2>1, <2>2 DEF Blocks, NULL
  <2>4. /\ DOMAIN L = DOMAIN B
        /\ \A a \in DOMAIN B : L[a] = IF a = nn THEN [B[a] EXCEPT !.prev = b] ELSE B[a]
    <3>1. CASE nn = NULL
      BY <2>2, <2>3, <3>1 DEF Relinked
    <3>2. CASE nn # NULL
      <4>1. L = [B EXCEPT ![nn].prev = b]
        BY <2>2, <3>2 DEF Relinked
      <4> QED BY <2>3, <3>2, <4>1
    <3> QED BY <3>1, <3>2
  <2>5. C = [a \in DOMAIN B \ {n} |->
               IF a = b THEN [L[b] EXCEPT !.size = @ + HeaderUnits + B[n].size,
                                          !.next = B[n].next]
                        ELSE L[a]]
    BY <1>2, <2>1, <2>2 DEF MergeNext
  <2>6. L[b] = rb
    BY <2>1, <2>3, <2>4
  <2>7. PICK z, x : z = rb.size + HeaderUnits + rn.size /\ x = WithNext(rb, z, nn)
    OBVIOUS
  <2>8. /\ x \in BlockType /\ x.free = rb.free /\ x.size = z /\ x.next = nn /\ x.prev = rb.prev
    <3>1. rb.size \in Nat \ {0} /\ rn.size \in Nat \ {0} /\ nn \in Nat
      BY <2>2, FieldFacts
    <3>2. z \in Nat \ {0}
      BY <2>7, <3>1 DEF HeaderUnits
    <3>3. x = WithNext(rb, z, nn) /\ rb \in BlockType
      BY <2>7
    <3>4. nn \in Nat /\ rb \in BlockType
      BY <3>1
    <3>5. /\ WithNext(rb, z, nn) \in BlockType /\ WithNext(rb, z, nn).free = rb.free
          /\ WithNext(rb, z, nn).size = z /\ WithNext(rb, z, nn).prev = rb.prev
          /\ WithNext(rb, z, nn).next = nn
      BY <3>2, <3>4, SetNext
    <3> QED BY <3>3, <3>5, Zenon
  <2>9. DOMAIN C = DOMAIN B \ {n} /\ C[b] = x /\ \A a \in DOMAIN B \ {b, n} : C[a] = L[a]
    <3>1. x = [L[b] EXCEPT !.size = @ + HeaderUnits + B[n].size, !.next = B[n].next]
      BY <2>1, <2>2, <2>6, <2>7 DEF WithNext
    <3>2. C = [a \in DOMAIN B \ {n} |-> IF a = b THEN x ELSE L[a]]
      BY <2>5, <3>1
    <3> QED BY <2>3, <3>2
  <2>10. ASSUME NEW a \in DOMAIN B, a # b, a # n
         PROVE  /\ C[a] \in BlockType /\ Unchanged(B, C, a)
                /\ C[a].prev = IF a = nn THEN b ELSE B[a].prev
    <3>1. PICK r \in BlockType : r = B[a]
      BY DEF Blocks
    <3>2. a \in DOMAIN C /\ C[a] = IF a = nn THEN [r EXCEPT !.prev = b] ELSE r
      BY <2>4, <2>9, <2>10, <3>1
    <3>3. CASE a = nn
      <4>1. PICK y : y = WithPrev(r, b)
        OBVIOUS
      <4>2. /\ y \in BlockType /\ y.free = r.free /\ y.size = r.size
            /\ y.prev = b /\ y.next = r.next
        <5>1. b \in Nat /\ r \in BlockType
          BY DEF Blocks
        <5>2. /\ WithPrev(r, b) \in BlockType /\ WithPrev(r, b).free = r.free
              /\ WithPrev(r, b).size = r.size /\ WithPrev(r, b).prev = b
              /\ WithPrev(r, b).next = r.next
          BY <5>1, SetPrev
        <5> QED BY <4>1, <5>2
      <4>3. C[a] = y
        BY <3>2, <3>3, <4>1 DEF WithPrev
      <4> QED BY <3>1, <3>2, <3>3, <4>2, <4>3 DEF Unchanged
    <3>4. CASE a # nn
      BY <3>1, <3>2, <3>4 DEF Unchanged
    <3> QED BY <3>3, <3>4
  <2>11. Blocks(C)
    BY <2>8, <2>9, <2>10 DEF Blocks
  <2>12. Joined(B, C, b, n)
    BY <1>2, <2>1, <2>2, <2>3, <2>7, <2>8, <2>9, <2>10 DEF Joined
  <2> QED BY <1>2, <2>11, <2>12
<1> QED BY <1>1, <1>2

-----------------------------------------------------------------------------
(* The steps of the whole system, as the page allocator sees them.         *)

Walks(T)  == [ok : BOOLEAN, taken : Nat, at : T, tables : T]
IsWalk(w) == \E T : w \in Walks(T)

LEMMA ChildWalk ==
  ASSUME NEW w, IsWalk(w), NEW i
  PROVE  IsWalk(Child(w, i))
<1>1. PICK T : w \in Walks(T)
  BY DEF IsWalk
<1>2. PICK new : new = Nth(w.taken + 1)
  OBVIOUS
<1>3. PICK x : x = w.tables[w.at][i].to
  OBVIOUS
<1>4. PICK y : y = [w.tables EXCEPT ![new] = Zeroed(@), ![w.at][i] = Pointer(new)]
  OBVIOUS
<1>5. PICK U : U = T \cup {x, new, y}
  OBVIOUS
<1>6. /\ w \in Walks(U) /\ [w EXCEPT !.at = x] \in Walks(U)
      /\ [w EXCEPT !.ok = FALSE] \in Walks(U)
  BY <1>1, <1>5 DEF Walks
<1>7. [ok |-> TRUE, taken |-> w.taken + 1, at |-> new, tables |-> y] \in Walks(U)
  BY <1>1, <1>5 DEF Walks
<1>8. \/ Child(w, i) = w
      \/ Child(w, i) = [w EXCEPT !.at = x]
      \/ Child(w, i) = [w EXCEPT !.ok = FALSE]
      \/ Child(w, i) = [ok |-> TRUE, taken |-> w.taken + 1, at |-> new, tables |-> y]
  BY <1>2, <1>3, <1>4 DEF Child
<1>9. Child(w, i) \in Walks(U)
  BY <1>6, <1>7, <1>8
<1> QED BY <1>9 DEF IsWalk

LEMMA LeafWalk ==
  ASSUME NEW v
  PROVE  LeafTable(v).taken \in Nat
<1>1. PICK w : w = [ok |-> TRUE, taken |-> 0, at |-> root, tables |-> table]
  OBVIOUS
<1>2. IsWalk(w)
  <2>1. w \in Walks({root, table})
    BY <1>1 DEF Walks
  <2> QED BY <2>1 DEF IsWalk
<1>3. IsWalk(Directory(v))
  <2>1. IsWalk(Child(w, At(v, 3)))
    BY <1>2, ChildWalk
  <2> QED BY <1>1, <2>1, ChildWalk DEF Directory
<1>4. IsWalk(LeafTable(v))
  BY <1>3, ChildWalk DEF LeafTable
<1>5. ASSUME NEW x, IsWalk(x) PROVE x.taken \in Nat
  BY <1>5 DEF IsWalk, Walks
<1> QED BY <1>4, <1>5

LEMMA NeededPagesType ==
  ASSUME NEW needed \in Nat
  PROVE  NeededPages(needed) \in Nat \ {0} /\ ArenaPages \in Nat \ {0}
<1>1. PICK n : n = PagesFor(needed)
  OBVIOUS
<1>2. n \in Int
  BY <1>1 DEF PagesFor, RoundUp, HeaderUnits, MetaUnits
<1> QED BY <1>1, <1>2 DEF NeededPages

-----------------------------------------------------------------------------
(* Runs of pages and the units in them.                                    *)

LEMMA Scaled ==
  ASSUME NEW x \in Nat, NEW y \in Nat, x <= y
  PROVE  x * PageUnits <= y * PageUnits /\ x * PageUnits \in Nat
<1>1. PICK d \in Nat : y = x + d
  BY y = x + (y - x), y - x \in Nat
<1>2. PageUnits \in Nat
  BY DEF HeaderUnits, MetaUnits
<1>3. d * PageUnits \in Nat /\ x * PageUnits \in Nat
  BY <1>2
<1>4. y * PageUnits = x * PageUnits + d * PageUnits
  BY <1>1, <1>2
<1> QED BY <1>3, <1>4

LEMMA ExtentFacts ==
  ASSUME NEW r \in RunType
  PROVE  /\ Lo(r) \in Nat /\ Hi(r) \in Nat
         /\ Hi(r) = Lo(r) + r[2] * PageUnits /\ r[2] * PageUnits \in Nat
         /\ r[2] * PageUnits > HeaderUnits + MetaUnits
<1>1. PICK s \in Nat, n \in Nat \ {0} : s = r[1] /\ n = r[2]
  BY DEF RunType, Pages
<1>2. PageUnits \in Nat /\ PageUnits > HeaderUnits + MetaUnits
  OBVIOUS
<1>3. (s + n) * PageUnits = s * PageUnits + n * PageUnits
  BY <1>2
<1>4. 1 * PageUnits <= n * PageUnits /\ n * PageUnits \in Nat /\ s * PageUnits \in Nat
  BY Scaled
<1>5. PICK k \in Nat, j \in Nat : k = n * PageUnits /\ j = s * PageUnits
  BY <1>4
<1>6. PageUnits <= k /\ Hi(r) = j + k /\ Lo(r) = j
  BY <1>1, <1>2, <1>3, <1>4, <1>5 DEF Hi, Lo
<1> QED BY <1>1, <1>2, <1>5, <1>6 DEF HeaderUnits, MetaUnits

LEMMA ExtentsApart ==
  ASSUME NEW r \in RunType, NEW t \in RunType,
         Run(r[1], r[2]) \cap Run(t[1], t[2]) = {}
  PROVE  Hi(r) <= Lo(t) \/ Hi(t) <= Lo(r)
<1>1. PICK s \in Nat, n \in Nat \ {0} : s = r[1] /\ n = r[2]
  BY DEF RunType, Pages
<1>2. PICK u \in Nat, m \in Nat \ {0} : u = t[1] /\ m = t[2]
  BY DEF RunType, Pages
<1>3. s + n <= u \/ u + m <= s
  <2>1. Run(s, n) \cap Run(u, m) = {}
    BY <1>1, <1>2
  <2>2. s \notin Run(u, m) /\ u \notin Run(s, n)
    BY <2>1, RunFacts
  <2> QED BY <2>2, RunFacts
<1>4. s + n <= u => (s + n) * PageUnits <= u * PageUnits
  BY Scaled
<1>5. u + m <= s => (u + m) * PageUnits <= s * PageUnits
  BY Scaled
<1> QED BY <1>1, <1>2, <1>3, <1>4, <1>5 DEF Hi, Lo

LEMMA PageOfUnit ==
  ASSUME NEW r \in RunType, NEW a \in Nat
  PROVE  a \div PageUnits \in Run(r[1], r[2]) <=> Lo(r) <= a /\ a < Hi(r)
<1>1. PICK s \in Nat, n \in Nat \ {0} : s = r[1] /\ n = r[2]
  BY DEF RunType, Pages
<1>2. PICK q \in Nat, k \in Nat : q = a \div PageUnits /\ k = a % PageUnits
                                 /\ a = PageUnits * q + k /\ k < PageUnits
  BY DEF HeaderUnits, MetaUnits
<1>3. q \in Run(s, n) <=> s <= q /\ q < s + n
  BY RunFacts
<1>4. s <= q <=> s * PageUnits <= a
  <2>1. s <= q => s * PageUnits <= q * PageUnits
    BY Scaled
  <2>2. q + 1 <= s => (q + 1) * PageUnits <= s * PageUnits
    BY Scaled
  <2>3. (q + 1) * PageUnits = q * PageUnits + PageUnits /\ PageUnits * q = q * PageUnits
    OBVIOUS
  <2>4. PICK x \in Nat, y \in Nat : x = q * PageUnits /\ y = s * PageUnits
    BY Scaled
  <2> QED BY <1>2, <2>1, <2>2, <2>3, <2>4
<1>5. q < s + n <=> a < (s + n) * PageUnits
  <2>1. s + n <= q => (s + n) * PageUnits <= q * PageUnits
    BY Scaled
  <2>2. q + 1 <= s + n => (q + 1) * PageUnits <= (s + n) * PageUnits
    BY Scaled
  <2>3. (q + 1) * PageUnits = q * PageUnits + PageUnits /\ PageUnits * q = q * PageUnits
    OBVIOUS
  <2>4. PICK x \in Nat, y \in Nat : x = q * PageUnits /\ y = (s + n) * PageUnits
    BY Scaled
  <2> QED BY <1>2, <2>1, <2>2, <2>3, <2>4
<1> QED BY <1>1, <1>2, <1>3, <1>4, <1>5 DEF Lo, Hi

-----------------------------------------------------------------------------
(* What taking, splitting and joining blocks does to the chains.           *)

LEMMA BlockFacts ==
  ASSUME NEW B, Blocks(B), NEW a \in DOMAIN B
  PROVE  /\ a \in Nat \ {0} /\ a # NULL /\ B[a].free \in BOOLEAN
         /\ B[a].size \in Nat \ {0} /\ B[a].prev \in Nat /\ B[a].next \in Nat
         /\ End(B, a) = a + HeaderUnits + B[a].size /\ End(B, a) \in Nat
         /\ a + HeaderUnits < End(B, a)
<1>1. PICK r \in BlockType : r = B[a] /\ a \in Nat \ {0}
  BY DEF Blocks
<1>2. /\ r.free \in BOOLEAN /\ r.size \in Nat \ {0} /\ r.prev \in Nat /\ r.next \in Nat
  BY FieldFacts
<1> QED BY <1>1, <1>2 DEF NULL, End, HeaderUnits

LEMMA ShapeFacts ==
  ASSUME NEW B, NEW R, Shape(B, R), NEW a \in DOMAIN B
  PROVE  /\ B[a].next # NULL => /\ B[a].next = End(B, a) /\ B[a].next \in DOMAIN B
                                /\ B[B[a].next].prev = a /\ a < B[a].next
         /\ B[a].prev # NULL => B[a].prev \in DOMAIN B /\ B[B[a].prev].next = a /\ B[a].prev < a
<1>1. Blocks(B) /\ Links(B) /\ Backs(B)
  BY DEF Shape
<1>2. B[a].next # NULL => /\ B[a].next = End(B, a) /\ B[a].next \in DOMAIN B
                          /\ B[B[a].next].prev = a /\ a < B[a].next
  <2>1. a + HeaderUnits < End(B, a) /\ a \in Nat /\ End(B, a) \in Nat
    BY <1>1, BlockFacts
  <2> QED BY <1>1, <2>1 DEF Links, HeaderUnits
<1>3. ASSUME NEW p, p = B[a].prev, p # NULL PROVE p \in DOMAIN B /\ B[p].next = a /\ p < a
  <2>1. p \in DOMAIN B /\ B[p].next = a
    BY <1>1, <1>3 DEF Backs
  <2>2. a # NULL
    BY <1>1, BlockFacts
  <2>3. End(B, p) = a
    BY <1>1, <2>1, <2>2 DEF Links
  <2>4. p + HeaderUnits < End(B, p) /\ p \in Nat /\ End(B, p) \in Nat
    BY <1>1, <2>1, BlockFacts
  <2> QED BY <2>1, <2>3, <2>4 DEF HeaderUnits
<1> QED BY <1>2, <1>3

(* Nothing in a chain depends on which of its blocks are free.             *)
LEMMA SameShape ==
  ASSUME NEW B, NEW C, NEW R, Shape(B, R), Blocks(C), DOMAIN C = DOMAIN B,
         \A a \in DOMAIN B : /\ C[a].size = B[a].size /\ C[a].next = B[a].next
                             /\ C[a].prev = B[a].prev
  PROVE  Shape(C, R)
<1>1. \A a \in DOMAIN B : End(C, a) = End(B, a)
  BY DEF End
<1>2. Links(C) /\ Backs(C) /\ Apart(C) /\ Inside(C, R) /\ Firsts(C, R)
  <2>1. Links(C)
    BY <1>1 DEF Shape, Links
  <2>2. Backs(C)
    <3>1. ASSUME NEW a \in DOMAIN C
          PROVE  C[a].prev # NULL => C[a].prev \in DOMAIN C /\ C[C[a].prev].next = a
      <4>1. PICK p : p = B[a].prev
        OBVIOUS
      <4>2. C[a].prev = p
        BY <4>1
      <4>3. p # NULL => p \in DOMAIN B /\ B[p].next = a
        BY <4>1 DEF Shape, Backs
      <4>4. p \in DOMAIN B => C[p].next = B[p].next
        OBVIOUS
      <4> QED BY <4>2, <4>3, <4>4, Zenon
    <3> QED BY <3>1 DEF Backs
  <2>3. Apart(C)
    BY <1>1 DEF Shape, Apart
  <2>4. Inside(C, R)
    BY <1>1 DEF Shape, Inside, Within
  <2>5. Firsts(C, R)
    BY DEF Shape, Firsts
  <2> QED BY <2>1, <2>2, <2>3, <2>4, <2>5
<1> QED BY <1>2 DEF Shape

LEMMA CutShape ==
  ASSUME NEW B, NEW C, NEW R, R \subseteq RunType, NEW b, NEW needed \in Nat \ {0}, NEW rest,
         Shape(B, R), b \in DOMAIN B, rest = RestOf(b, needed),
         Splits(B[b].size, needed), Cut(B, C, b, needed, rest), Blocks(C)
  PROVE  Shape(C, R)
<1>1. PICK n : n = B[b].next
  OBVIOUS
<1>2. /\ DOMAIN C = DOMAIN B \cup {rest}
      /\ C[b].size = needed /\ C[b].next = rest /\ C[b].prev = B[b].prev
      /\ C[rest].size = B[b].size - needed - HeaderUnits
      /\ C[rest].next = n /\ C[rest].prev = b
      /\ \A a \in DOMAIN B \ {b} :
           /\ C[a].size = B[a].size /\ C[a].next = B[a].next
           /\ C[a].prev = IF a = n THEN rest ELSE B[a].prev
  BY <1>1 DEF Cut, Unchanged
<1>3. Blocks(B) /\ Links(B) /\ Backs(B) /\ Apart(B) /\ Inside(B, R) /\ Firsts(B, R)
  BY DEF Shape
<1>4. /\ b \in Nat \ {0} /\ B[b].size \in Nat \ {0} /\ n \in Nat
      /\ End(B, b) = b + HeaderUnits + B[b].size
  BY <1>1, <1>3, BlockFacts
<1>5. rest = b + HeaderUnits + needed /\ B[b].size - needed > HeaderUnits + 1
  BY DEF RestOf, Splits
<1>6. b < rest /\ rest < End(B, b) /\ rest \in Nat \ {0} /\ rest # NULL /\ b # NULL
  BY <1>4, <1>5 DEF HeaderUnits, NULL
<1>7. rest \notin DOMAIN B
  BY <1>3, <1>4, <1>6, BlockFacts DEF Apart
<1>8. End(C, b) = rest /\ End(C, rest) = End(B, b)
      /\ \A a \in DOMAIN B \ {b} : End(C, a) = End(B, a)
  <2>1. End(C, b) = rest
    BY <1>2, <1>5 DEF End
  <2>2. End(C, rest) = End(B, b)
    BY <1>2, <1>4, <1>5 DEF End, HeaderUnits
  <2> QED BY <1>2, <2>1, <2>2 DEF End
<1>9. n # NULL => n = End(B, b) /\ n \in DOMAIN B /\ B[n].prev = b /\ n # b /\ n # rest
  BY <1>1, <1>7, ShapeFacts, <1>4
<1>10. Links(C)
  <2>1. ASSUME NEW a \in DOMAIN C
        PROVE  \/ C[a].next = NULL
               \/ /\ C[a].next = End(C, a) /\ C[a].next \in DOMAIN C
                  /\ C[C[a].next].prev = a
    <3>1. CASE a = b
      BY <1>2, <1>8, <3>1
    <3>2. CASE a = rest
      BY <1>2, <1>8, <1>9, <3>2
    <3>3. CASE a \in DOMAIN B /\ a # b /\ B[a].next # NULL
      <4>1. PICK c : c = B[a].next
        OBVIOUS
      <4>2. C[a].next = c /\ c = End(B, a) /\ c \in DOMAIN B /\ B[c].prev = a
        BY <1>2, <1>3, <3>3, <4>1 DEF Links
      <4>3. c # n
        <5>1. c = n => n # NULL
          BY <3>3, <4>1
        <5> QED BY <1>9, <3>3, <4>2, <5>1
      <4>4. C[c].prev = a
        BY <1>2, <4>2, <4>3
      <4> QED BY <1>2, <1>8, <3>3, <4>2, <4>4
    <3>4. CASE a \in DOMAIN B /\ a # b /\ B[a].next = NULL
      BY <1>2, <3>4
    <3> QED BY <1>2, <3>1, <3>2, <3>3, <3>4
  <2> QED BY <2>1 DEF Links
<1>11. Backs(C)
  <2>1. ASSUME NEW a \in DOMAIN C
        PROVE  C[a].prev # NULL => C[a].prev \in DOMAIN C /\ C[C[a].prev].next = a
    <3>1. CASE a = rest
      BY <1>2, <3>1
    <3>2. CASE a = n /\ a \in DOMAIN B
      <4>1. n # NULL /\ a # b
        BY <1>3, <1>9, <3>2, BlockFacts
      <4>2. C[a].prev = rest
        BY <1>2, <3>2, <4>1
      <4> QED BY <1>2, <3>2, <4>2
    <3>3. CASE a \in DOMAIN B /\ a # n /\ B[a].prev # NULL
      <4>1. PICK p : p = B[a].prev
        OBVIOUS
      <4>2. p \in DOMAIN B /\ B[p].next = a
        BY <1>3, <3>3, <4>1 DEF Backs
      <4>3. p # b
        BY <1>1, <3>3, <4>2
      <4>4. C[p].next = a /\ C[a].prev = p /\ p \in DOMAIN C
        BY <1>2, <3>3, <4>1, <4>2, <4>3
      <4> QED BY <4>4
    <3>4. CASE a \in DOMAIN B /\ a # n /\ B[a].prev = NULL
      <4>1. C[a].prev = B[a].prev
        <5>1. CASE a = b
          BY <1>2, <5>1
        <5>2. CASE a # b
          BY <1>2, <3>4, <5>2
        <5> QED BY <5>1, <5>2
      <4> QED BY <3>4, <4>1, Zenon
    <3> QED BY <1>2, <3>1, <3>2, <3>3, <3>4
  <2> QED BY <2>1 DEF Backs
<1>12. Apart(C)
  <2>1. ASSUME NEW a \in DOMAIN C, NEW c \in DOMAIN C, a < c PROVE End(C, a) <= c
    <3>1. a \in Nat /\ c \in Nat
      BY BlockFacts
    <3>2. CASE a = rest
      <4>1. c \in DOMAIN B /\ b < c
        BY <1>2, <1>4, <1>6, <2>1, <3>1, <3>2
      <4> QED BY <1>3, <1>8, <3>2, <4>1 DEF Apart
    <3>3. CASE c = rest
      <4>1. a \in DOMAIN B
        BY <1>2, <1>6, <2>1, <3>1, <3>3
      <4>2. CASE a = b
        BY <1>6, <1>8, <3>3, <4>2
      <4>3. CASE a < b
        <5>1. End(B, a) <= b /\ End(C, a) = End(B, a) /\ End(B, a) \in Nat
          BY <1>3, <1>4, <1>8, <4>1, <4>3, BlockFacts DEF Apart
        <5> QED BY <1>4, <1>6, <3>3, <5>1
      <4>4. CASE b < a
        <5>1. End(B, b) <= a
          BY <1>3, <4>1, <4>4 DEF Apart
        <5> QED BY <1>3, <1>4, <1>6, <2>1, <3>1, <3>3, <5>1, BlockFacts
      <4> QED BY <1>4, <3>1, <4>2, <4>3, <4>4
    <3>4. CASE a \in DOMAIN B /\ c \in DOMAIN B
      <4>1. End(B, a) <= c
        BY <1>3, <2>1, <3>4 DEF Apart
      <4>2. CASE a = b
        <5>1. End(B, b) \in Nat
          BY <1>3, BlockFacts
        <5> QED BY <1>6, <1>8, <3>1, <4>1, <4>2, <5>1
      <4>3. CASE a # b
        BY <1>8, <3>4, <4>1, <4>3
      <4> QED BY <4>2, <4>3
    <3> QED BY <1>2, <3>2, <3>3, <3>4
  <2> QED BY <2>1 DEF Apart
<1>13. PICK s \in R : Within(B, b, s) /\ Hi(s) \in Nat /\ Lo(s) \in Nat
  BY <1>3, ExtentFacts DEF Inside
<1>14. Inside(C, R)
  <2>1. ASSUME NEW a \in DOMAIN C PROVE \E r \in R : Within(C, a, r)
    <3>1. CASE a = b
      <4>1. Within(C, b, s)
        <5>1. Lo(s) + MetaUnits <= b /\ End(B, b) <= Hi(s)
          BY <1>13 DEF Within
        <5>2. B[b].prev = NULL => b = Lo(s) + MetaUnits
          BY <1>13 DEF Within
        <5>3. End(B, b) \in Nat
          BY <1>3, BlockFacts
        <5> QED BY <1>2, <1>6, <1>8, <1>13, <5>1, <5>2, <5>3 DEF Within
      <4> QED BY <3>1, <4>1
    <3>2. CASE a = rest
      <4>1. Lo(s) + MetaUnits <= b /\ End(B, b) <= Hi(s) /\ (n = NULL => End(B, b) = Hi(s))
        BY <1>1, <1>13 DEF Within
      <4>2. Lo(s) + MetaUnits <= rest
        BY <1>4, <1>6, <1>13, <4>1 DEF MetaUnits
      <4> QED BY <1>2, <1>6, <1>8, <3>2, <4>1, <4>2 DEF Within
    <3>3. CASE a \in DOMAIN B /\ a # b
      <4>1. PICK r \in R : Within(B, a, r)
        BY <1>3, <3>3 DEF Inside
      <4>2. C[a].prev = NULL => B[a].prev = NULL
        BY <1>2, <1>6, <3>3
      <4>3. C[a].next = B[a].next /\ End(C, a) = End(B, a)
        BY <1>2, <1>8, <3>3
      <4>4. Within(C, a, r)
        BY <4>1, <4>2, <4>3 DEF Within
      <4> QED BY <4>4
    <3> QED BY <1>2, <3>1, <3>2, <3>3
  <2> QED BY <2>1 DEF Inside
<1>15. Firsts(C, R)
  <2>1. ASSUME NEW r \in R, NEW f, f = Lo(r) + MetaUnits
        PROVE  f \in DOMAIN C /\ C[f].prev = NULL
    <3>1. f \in DOMAIN B /\ B[f].prev = NULL
      BY <1>3, <2>1 DEF Firsts
    <3>2. f # n
      <4>1. f # NULL
        BY <1>3, <3>1, BlockFacts
      <4> QED BY <1>6, <1>9, <3>1, <4>1
    <3> QED BY <1>2, <3>1, <3>2
  <2> QED BY <2>1 DEF Firsts
<1> QED BY <1>10, <1>11, <1>12, <1>14, <1>15 DEF Shape

LEMMA JoinShape ==
  ASSUME NEW B, NEW C, NEW R, R \subseteq RunType, ApartRuns(R), NEW b, NEW n,
         Shape(B, R), b \in DOMAIN B, n = B[b].next, n # NULL, Joined(B, C, b, n), Blocks(C)
  PROVE  Shape(C, R)
<1>1. PICK m : m = B[n].next
  OBVIOUS
<1>2. /\ n \in DOMAIN B /\ n # b /\ DOMAIN C = DOMAIN B \ {n}
      /\ C[b].size = B[b].size + HeaderUnits + B[n].size
      /\ C[b].next = m /\ C[b].prev = B[b].prev
      /\ \A a \in DOMAIN B \ {b, n} :
           /\ C[a].size = B[a].size /\ C[a].next = B[a].next
           /\ C[a].prev = IF a = m THEN b ELSE B[a].prev
  BY <1>1 DEF Joined, Unchanged
<1>3. Blocks(B) /\ Links(B) /\ Backs(B) /\ Apart(B) /\ Inside(B, R) /\ Firsts(B, R)
  BY DEF Shape
<1>4. /\ b \in Nat \ {0} /\ B[b].size \in Nat \ {0} /\ End(B, b) = b + HeaderUnits + B[b].size
      /\ n \in Nat \ {0} /\ B[n].size \in Nat \ {0} /\ End(B, n) = n + HeaderUnits + B[n].size
      /\ b # NULL /\ m \in Nat
  BY <1>1, <1>2, <1>3, BlockFacts
<1>5. n = End(B, b) /\ B[n].prev = b /\ b < n
  BY ShapeFacts
<1>6. m # NULL => m = End(B, n) /\ m \in DOMAIN B /\ B[m].prev = n /\ n < m /\ m # b
  <2>1. m # NULL => m = End(B, n) /\ m \in DOMAIN B /\ B[m].prev = n /\ n < m
    BY <1>1, <1>2, ShapeFacts
  <2> QED BY <1>4, <1>5, <2>1
<1>7. /\ End(C, b) = End(B, n)
      /\ \A a \in DOMAIN B \ {b, n} : End(C, a) = End(B, a)
  <2>1. End(C, b) = End(B, n)
    BY <1>2, <1>4, <1>5 DEF End, HeaderUnits
  <2> QED BY <1>2, <2>1 DEF End
<1>8. Links(C)
  <2>1. ASSUME NEW a \in DOMAIN C, C[a].next # NULL
        PROVE  /\ C[a].next = End(C, a) /\ C[a].next \in DOMAIN C
               /\ C[C[a].next].prev = a
    <3>1. CASE a = b
      BY <1>2, <1>4, <1>6, <1>7, <2>1, <3>1
    <3>2. CASE a # b
      <4>1. PICK c : c = B[a].next
        OBVIOUS
      <4>2. a \in DOMAIN B \ {b, n} /\ C[a].next = c /\ c # NULL /\ End(C, a) = End(B, a)
        BY <1>2, <1>7, <2>1, <3>2, <4>1
      <4>3. c = End(B, a) /\ c \in DOMAIN B /\ B[c].prev = a
        BY <1>3, <4>1, <4>2 DEF Links
      <4>4. c # n /\ c # m
        BY <1>5, <1>6, <4>2, <4>3
      <4>5. C[c].prev = a
        <5>1. CASE c = b
          BY <1>2, <4>3, <5>1
        <5>2. CASE c # b
          BY <1>2, <4>3, <4>4, <5>2
        <5> QED BY <5>1, <5>2
      <4>6. c \in DOMAIN C
        BY <1>2, <4>3, <4>4
      <4> QED BY <4>2, <4>3, <4>5, <4>6
    <3> QED BY <3>1, <3>2
  <2> QED BY <2>1 DEF Links
<1>9. Backs(C)
  <2>1. ASSUME NEW a \in DOMAIN C, C[a].prev # NULL
        PROVE  C[a].prev \in DOMAIN C /\ C[C[a].prev].next = a
    <3>1. CASE a = b
      <4>1. PICK p : p = B[b].prev
        OBVIOUS
      <4>2. C[a].prev = p /\ p \in DOMAIN B /\ B[p].next = b /\ p < b /\ p # NULL
        BY <1>2, <2>1, <3>1, <4>1, ShapeFacts
      <4>3. p # n /\ p # b
        BY <1>4, <1>5, <4>2
      <4> QED BY <1>2, <3>1, <4>2, <4>3
    <3>2. CASE a = m
      <4>1. a # b
        BY <1>3, <1>6, <3>2, BlockFacts, <1>2
      <4> QED BY <1>2, <3>2, <4>1
    <3>3. CASE a # b /\ a # m
      <4>1. PICK p : p = B[a].prev
        OBVIOUS
      <4>2. C[a].prev = p
        BY <1>2, <3>3, <4>1
      <4>3. p \in DOMAIN B /\ B[p].next = a
        BY <1>2, <1>3, <2>1, <4>1, <4>2 DEF Backs
      <4>4. p # n /\ p # b
        BY <1>1, <1>2, <3>3, <4>3
      <4> QED BY <1>2, <4>2, <4>3, <4>4
    <3> QED BY <3>1, <3>2, <3>3
  <2> QED BY <2>1 DEF Backs
<1>10. Apart(C)
  <2>1. ASSUME NEW a \in DOMAIN C, NEW c \in DOMAIN C, a < c PROVE End(C, a) <= c
    <3>1. a \in DOMAIN B /\ c \in DOMAIN B /\ a # n /\ c # n /\ a \in Nat /\ c \in Nat
      BY <1>2, <1>3, BlockFacts
    <3>2. End(B, a) <= c
      BY <1>3, <2>1, <3>1 DEF Apart
    <3>3. CASE a = b
      <4>1. n < c
        BY <1>4, <1>5, <3>1, <3>2, <3>3
      <4>2. End(B, n) <= c
        BY <1>2, <1>3, <3>1, <4>1 DEF Apart
      <4> QED BY <1>7, <3>3, <4>2
    <3>4. CASE a # b
      BY <1>7, <3>1, <3>2, <3>4
    <3> QED BY <3>3, <3>4
  <2> QED BY <2>1 DEF Apart
<1>11. Inside(C, R)
  <2>1. ASSUME NEW a \in DOMAIN C PROVE \E r \in R : Within(C, a, r)
    <3>1. CASE a = b
      <4>1. PICK r \in R : Within(B, b, r) /\ Hi(r) \in Nat /\ Lo(r) \in Nat
        BY <1>3, ExtentFacts DEF Inside
      <4>2. PICK t \in R : Within(B, n, t) /\ Hi(t) \in Nat /\ Lo(t) \in Nat
        BY <1>2, <1>3, ExtentFacts DEF Inside
      <4>3. /\ Lo(r) + MetaUnits <= b /\ n <= Hi(r) /\ Lo(t) + MetaUnits <= n
            /\ End(B, n) <= Hi(t) /\ (m = NULL => End(B, n) = Hi(t))
            /\ (B[b].prev = NULL => b = Lo(r) + MetaUnits)
        BY <1>1, <1>5, <4>1, <4>2 DEF Within
      <4>4. r = t
        <5>1. ~(Hi(r) <= Lo(t))
          BY <1>4, <4>1, <4>2, <4>3 DEF MetaUnits
        <5>2. ~(Hi(t) <= Lo(r))
          <6>1. n < End(B, n) /\ End(B, n) \in Nat
            BY <1>4 DEF HeaderUnits
          <6> QED BY <1>4, <1>5, <4>1, <4>2, <4>3, <6>1 DEF MetaUnits
        <5> QED BY <5>1, <5>2 DEF ApartRuns
      <4>5. Within(C, b, r)
        BY <1>2, <1>7, <4>3, <4>4 DEF Within
      <4> QED BY <3>1, <4>5
    <3>2. CASE a # b
      <4>1. a \in DOMAIN B \ {b, n}
        BY <1>2, <3>2
      <4>2. PICK r \in R : Within(B, a, r)
        BY <1>3, <4>1 DEF Inside
      <4>3. C[a].prev = NULL => B[a].prev = NULL
        BY <1>2, <1>4, <4>1
      <4>4. C[a].next = B[a].next /\ End(C, a) = End(B, a)
        BY <1>2, <1>7, <4>1
      <4>5. Within(C, a, r)
        BY <4>2, <4>3, <4>4 DEF Within
      <4> QED BY <4>5
    <3> QED BY <3>1, <3>2
  <2> QED BY <2>1 DEF Inside
<1>12. Firsts(C, R)
  <2>1. ASSUME NEW r \in R, NEW f, f = Lo(r) + MetaUnits
        PROVE  f \in DOMAIN C /\ C[f].prev = NULL
    <3>1. f \in DOMAIN B /\ B[f].prev = NULL
      BY <1>3, <2>1 DEF Firsts
    <3>2. f # n
      BY <1>4, <1>5, <3>1
    <3>3. f # m
      <4>1. f # NULL /\ n # NULL
        BY <1>3, <3>1, BlockFacts
      <4> QED BY <1>6, <3>1, <4>1
    <3>4. CASE f = b
      BY <1>2, <3>1, <3>2, <3>4
    <3>5. CASE f # b
      BY <1>2, <3>1, <3>2, <3>3, <3>5
    <3> QED BY <3>4, <3>5
  <2> QED BY <2>1 DEF Firsts
<1> QED BY <1>8, <1>9, <1>10, <1>11, <1>12 DEF Shape

LEMMA CutPairs ==
  ASSUME NEW B, NEW C, NEW R, NEW b, NEW needed, NEW rest,
         Shape(B, R), b \in DOMAIN B, B[b].free, rest \notin DOMAIN B, rest # NULL,
         Cut(B, C, b, needed, rest), NoPair(B, NULL)
  PROVE  NoPair(C, NULL)
<1> SUFFICES ASSUME NEW a \in DOMAIN C, Pair(C, a) PROVE FALSE
  BY DEF NoPair
<1>1. /\ DOMAIN C = DOMAIN B \cup {rest} /\ C[b].free = FALSE
      /\ C[rest].next = B[b].next
      /\ \A c \in DOMAIN B \ {b} : C[c].free = B[c].free /\ C[c].next = B[c].next
  BY DEF Cut, Unchanged
<1>2. C[a].next # NULL /\ C[a].free /\ C[C[a].next].free
  BY DEF Pair
<1>3. a # b /\ C[a].next # b
  BY <1>1, <1>2
<1>4. PICK d : d \in DOMAIN B /\ B[d].next = C[a].next /\ B[d].free
  <2>1. CASE a = rest
    BY <1>1, <2>1
  <2>2. CASE a # rest
    BY <1>1, <1>2, <1>3, <2>2
  <2> QED BY <2>1, <2>2
<1>5. PICK c : c = B[d].next
  OBVIOUS
<1>6. c \in DOMAIN B /\ c # NULL /\ c # b
  BY <1>2, <1>3, <1>4, <1>5, ShapeFacts
<1>7. B[c].free
  BY <1>1, <1>2, <1>4, <1>5, <1>6
<1> QED BY <1>4, <1>5, <1>6, <1>7 DEF NoPair, Pair

LEMMA WholePairs ==
  ASSUME NEW B, NEW C, NEW R, NEW b, Shape(B, R), b \in DOMAIN B,
         Whole(B, C, b), NoPair(B, NULL)
  PROVE  NoPair(C, NULL)
<1> SUFFICES ASSUME NEW a \in DOMAIN C, Pair(C, a) PROVE FALSE
  BY DEF NoPair
<1>1. /\ DOMAIN C = DOMAIN B /\ C[b].free = FALSE
      /\ \A c \in DOMAIN B \ {b} : C[c] = B[c]
  BY DEF Whole
<1>2. C[a].next # NULL /\ C[a].free /\ C[C[a].next].free
  BY DEF Pair
<1>3. PICK c : c = B[a].next
  OBVIOUS
<1>4. a # b /\ C[a] = B[a] /\ c # b /\ c # NULL /\ B[a].free
  BY <1>1, <1>2, <1>3
<1>5. c \in DOMAIN B /\ B[c].free
  BY <1>1, <1>2, <1>3, <1>4, ShapeFacts
<1> QED BY <1>1, <1>3, <1>4, <1>5 DEF NoPair, Pair

LEMMA JoinPairs ==
  ASSUME NEW B, NEW C, NEW R, NEW b, NEW n, NEW x \in {b, NULL},
         Shape(B, R), b \in DOMAIN B, n = B[b].next, n # NULL, Joined(B, C, b, n),
         \A a \in DOMAIN B : Pair(B, a) => a = b \/ B[a].next = x
  PROVE  NoPair(C, x)
<1> SUFFICES ASSUME NEW a \in DOMAIN C, Pair(C, a) PROVE C[a].next = x
  BY DEF NoPair
<1>1. /\ DOMAIN C = DOMAIN B \ {n} /\ n \in DOMAIN B /\ B[n].free
      /\ C[b].free = B[b].free /\ C[b].next = B[n].next
      /\ \A c \in DOMAIN B \ {b, n} : C[c].free = B[c].free /\ C[c].next = B[c].next
  BY DEF Joined, Unchanged
<1>2. C[a].next # NULL /\ C[a].free /\ C[C[a].next].free
  BY DEF Pair
<1>3. Blocks(B) /\ b \in Nat /\ n \in Nat /\ b < n /\ B[n].prev = b
  BY <1>1, BlockFacts, ShapeFacts DEF Shape
<1>4. PICK c : c = C[a].next
  OBVIOUS
<1>5. CASE a = b
  <2>1. c = B[n].next /\ c \in DOMAIN B /\ n < c /\ c \in Nat
    BY <1>1, <1>2, <1>3, <1>4, <1>5, ShapeFacts, BlockFacts
  <2>2. c # b /\ c # n
    BY <1>3, <2>1
  <2>3. B[c].free
    BY <1>1, <1>2, <1>4, <2>1, <2>2
  <2>4. Pair(B, n)
    BY <1>1, <1>2, <1>4, <2>1, <2>3 DEF Pair
  <2> QED BY <1>1, <1>2, <1>3, <1>4, <2>1, <2>2, <2>4
<1>6. CASE a # b
  <2>1. a \in DOMAIN B /\ a # n /\ B[a].next = c /\ B[a].free /\ c # NULL
    BY <1>1, <1>2, <1>4, <1>6
  <2>2. c \in DOMAIN B /\ B[c].prev = a
    BY <2>1, ShapeFacts
  <2>3. c # n
    BY <1>3, <1>6, <2>2
  <2>4. B[c].free
    BY <1>1, <1>2, <1>4, <2>2, <2>3
  <2>5. Pair(B, a)
    BY <2>1, <2>4 DEF Pair
  <2> QED BY <1>4, <1>6, <2>1, <2>5
<1> QED BY <1>5, <1>6

-----------------------------------------------------------------------------
(* The units of the arenas, past the metadata and the first header, are    *)
(* those inside the blocks in use, which g_used_bytes counts, and the rest,*)
(* which g_free_bytes counts: the headers that splitting adds stay there.  *)

Used(B)     == {a \in DOMAIN B : ~B[a].free}
Payload(B)  == {u \in Nat : \E a \in Used(B) : a + HeaderUnits <= u /\ u < End(B, a)}
Space(R)    == {u \in Nat : \E r \in R : Lo(r) + MetaUnits + HeaderUnits <= u /\ u < Hi(r)}

Counts(B, R, uu, fu) ==
  uu = Cardinality(Payload(B)) /\ fu = Cardinality(Space(R) \ Payload(B))

(* Each allocation has a block in use of its own, and each such block one. *)
Given(B, G) ==
  /\ G \subseteq Nat \X Sizes
  /\ \A g \in G : g[1] - HeaderUnits \in Used(B) /\ g[2] <= B[g[1] - HeaderUnits].size
  /\ \A g, h \in G : g[1] = h[1] => g = h
  /\ \A a \in Used(B) : \E g \in G : g[1] = a + HeaderUnits

HInv(B, R, G, uu, fu) ==
  /\ R \subseteq RunType /\ ApartRuns(R) /\ IsFiniteSet(DOMAIN B)
  /\ Shape(B, R) /\ NoPair(B, NULL)
  /\ Counts(B, R, uu, fu) /\ Given(B, G)

(* The block b comes into use, with size units, or goes out of it.         *)
Took(B, C, b, size) ==
  /\ Used(C) = Used(B) \cup {b} /\ C[b].size = size
  /\ \A a \in Used(B) : C[a].size = B[a].size
Gave(B, C, b) ==
  /\ Used(C) = Used(B) \ {b}
  /\ \A a \in Used(C) : C[a].size = B[a].size

LEMMA SpaceFinite ==
  ASSUME NEW R, R \subseteq RunType
  PROVE  IsFiniteSet(Space(R))
<1>1. PICK top \in Nat : top = (NumPages + NumPages) * PageUnits
  BY Scaled
<1>2. ASSUME NEW r \in R PROVE Hi(r) <= top /\ Hi(r) \in Nat
  <2>1. r[1] + r[2] <= NumPages + NumPages /\ r[1] + r[2] \in Nat
    BY DEF RunType, Pages
  <2> QED BY <1>1, <2>1, Scaled DEF Hi
<1>3. Space(R) \in SUBSET (0 .. top)
  BY <1>1, <1>2 DEF Space
<1>4. IsFiniteSet(0 .. top)
  BY <1>1, FS_Interval
<1> QED BY <1>3, <1>4, FS_Subset

LEMMA Interval ==
  ASSUME NEW a \in Nat, NEW n \in Nat
  PROVE  /\ IsFiniteSet({u \in Nat : a <= u /\ u < a + n})
         /\ Cardinality({u \in Nat : a <= u /\ u < a + n}) = n
<1>1. {u \in Nat : a <= u /\ u < a + n} = Run(a, n)
  BY RunFacts
<1>2. IsFiniteSet(Run(a, n)) /\ Cardinality(Run(a, n)) = n
  BY RunFacts
<1> QED BY <1>1, <1>2, Zenon

LEMMA PayloadInSpace ==
  ASSUME NEW B, NEW R, R \subseteq RunType, Shape(B, R)
  PROVE  /\ Payload(B) \subseteq Space(R)
         /\ IsFiniteSet(Payload(B)) /\ IsFiniteSet(Space(R) \ Payload(B))
<1>1. ASSUME NEW u \in Payload(B) PROVE u \in Space(R)
  <2>1. PICK a \in Used(B) : a + HeaderUnits <= u /\ u < End(B, a) /\ u \in Nat
    BY DEF Payload
  <2>2. a \in DOMAIN B /\ a \in Nat /\ End(B, a) \in Nat
    BY BlockFacts DEF Used, Shape
  <2>3. PICK r \in R : Lo(r) + MetaUnits <= a /\ End(B, a) <= Hi(r)
    BY <2>2 DEF Shape, Inside, Within
  <2>4. Lo(r) \in Nat /\ Hi(r) \in Nat
    BY ExtentFacts
  <2>5. Lo(r) + MetaUnits + HeaderUnits <= u /\ u < Hi(r)
    BY <2>1, <2>2, <2>3, <2>4 DEF HeaderUnits, MetaUnits
  <2> QED BY <2>1, <2>5 DEF Space
<1>2. Payload(B) \in SUBSET Space(R) /\ Space(R) \ Payload(B) \in SUBSET Space(R)
  BY <1>1
<1> QED BY <1>1, <1>2, SpaceFinite, FS_Subset

(* Counting: the units I move from Q, which becomes D, to P, which becomes C. *)
Moves(P, Q, I, C, D) ==
  /\ IsFiniteSet(P) /\ IsFiniteSet(Q)
  /\ P \cap I = {} /\ I \subseteq Q /\ C = P \cup I /\ D = Q \ I

LEMMA MovedUnits ==
  ASSUME NEW P, NEW Q, NEW I, NEW C, NEW D, Moves(P, Q, I, C, D)
  PROVE  /\ Cardinality(C) = Cardinality(P) + Cardinality(I)
         /\ Cardinality(D) = Cardinality(Q) - Cardinality(I)
<1>1. /\ IsFiniteSet(P) /\ IsFiniteSet(Q) /\ I \in SUBSET Q
      /\ P \cap I = {} /\ Q \cap I = I /\ C = P \cup I /\ D = Q \ I
  BY DEF Moves
<1>2. /\ IsFiniteSet(I) /\ Cardinality(P) \in Nat
      /\ Cardinality(Q) \in Nat /\ Cardinality(I) \in Nat
  BY <1>1, FS_Subset, FS_CardinalityType
<1>3. Cardinality(P \cap I) = 0 /\ Cardinality(Q \cap I) = Cardinality(I)
  BY <1>1, FS_EmptySet, Zenon
<1>4. Cardinality(C) = Cardinality(P) + Cardinality(I) - Cardinality(P \cap I)
  BY <1>1, <1>2, FS_Union
<1>5. Cardinality(D) = Cardinality(Q) - Cardinality(Q \cap I)
  BY <1>1, FS_Difference
<1> QED BY <1>2, <1>3, <1>4, <1>5

(* The units inside the block b.                                           *)
Inner(b, n) == {u \in Nat : b + HeaderUnits <= u /\ u < b + HeaderUnits + n}

LEMMA InnerApart ==
  ASSUME NEW B, NEW R, Shape(B, R), NEW b \in Used(B), NEW a \in Used(B), a # b,
         NEW u \in Inner(b, B[b].size)
  PROVE  ~(a + HeaderUnits <= u /\ u < End(B, a))
<1>1. /\ a \in DOMAIN B /\ b \in DOMAIN B /\ a \in Nat /\ b \in Nat /\ Apart(B)
      /\ End(B, a) \in Nat /\ End(B, b) \in Nat /\ End(B, b) = b + HeaderUnits + B[b].size
  BY BlockFacts DEF Shape, Used
<1>2. b + HeaderUnits <= u /\ u < End(B, b) /\ u \in Nat
  BY <1>1 DEF Inner
<1>3. (a < b => End(B, a) <= b) /\ (b < a => End(B, b) <= a)
  BY <1>1 DEF Apart
<1> QED BY <1>1, <1>2, <1>3 DEF HeaderUnits

LEMMA TookCounts ==
  ASSUME NEW B, NEW C, NEW R, NEW b \in Nat, NEW size \in Nat \ {0}, NEW uu, NEW fu,
         R \subseteq RunType, Shape(B, R), Shape(C, R), b \notin Used(B),
         Counts(B, R, uu, fu), Took(B, C, b, size)
  PROVE  Counts(C, R, uu + size, fu - size)
<1>1. PICK I, P, S : I = Inner(b, size) /\ P = Payload(B) /\ S = Space(R)
  OBVIOUS
<1>2. IsFiniteSet(I) /\ Cardinality(I) = size
  <2>1. PICK a \in Nat : a = b + HeaderUnits
    BY DEF HeaderUnits
  <2>2. I = {u \in Nat : a <= u /\ u < a + size}
    BY <1>1, <2>1 DEF Inner
  <2>3. size \in Nat
    OBVIOUS
  <2> HIDE <1>1, <2>1
  <2> QED BY <2>2, <2>3, Interval
<1>3. Used(C) = Used(B) \cup {b} /\ C[b].size = size
      /\ \A a \in Used(B) : C[a].size = B[a].size
  BY DEF Took
<1>4. End(C, b) = b + HeaderUnits + size /\ \A a \in Used(B) : End(C, a) = End(B, a)
  BY <1>3 DEF End
<1>5. Payload(C) = P \cup I
  <2>1. ASSUME NEW u \in Nat PROVE u \in Payload(C) <=> u \in P \/ u \in I
    <3>1. u \in I <=> b + HeaderUnits <= u /\ u < End(C, b)
      BY <1>1, <1>4 DEF Inner
    <3>2. u \in P <=> \E a \in Used(B) : a + HeaderUnits <= u /\ u < End(B, a)
      BY <1>1 DEF Payload
    <3>3. u \in Payload(C) <=> \E a \in Used(C) : a + HeaderUnits <= u /\ u < End(C, a)
      BY DEF Payload
    <3> QED BY <1>3, <1>4, <3>1, <3>2, <3>3
  <2>2. Payload(C) \subseteq Nat /\ P \subseteq Nat /\ I \subseteq Nat
    BY <1>1 DEF Payload, Inner
  <2> QED BY <2>1, <2>2
<1>6. I \cap P = {}
  <2>1. ASSUME NEW u \in I, u \in P PROVE FALSE
    <3>1. PICK a \in Used(B) : a + HeaderUnits <= u /\ u < End(B, a)
      BY <1>1, <2>1 DEF Payload
    <3>2. a \in Used(C) /\ b \in Used(C) /\ a # b /\ End(C, a) = End(B, a)
          /\ u \in Inner(b, C[b].size)
      BY <1>1, <1>3, <1>4
    <3> QED BY <3>1, <3>2, InnerApart
  <2> QED BY <2>1
<1>7. P \subseteq S /\ I \subseteq S /\ IsFiniteSet(S)
  BY <1>1, <1>5, PayloadInSpace, SpaceFinite
<1>8. I \subseteq S \ P
  BY <1>6, <1>7
<1>9. PICK Q, X, Y : Q = S \ P /\ X = Payload(C) /\ Y = S \ Payload(C)
  OBVIOUS
<1>10. Moves(P, Q, I, X, Y)
  BY <1>1, <1>5, <1>6, <1>8, <1>9, PayloadInSpace DEF Moves
<1>11. Cardinality(X) = Cardinality(P) + size /\ Cardinality(Y) = Cardinality(Q) - size
  BY <1>2, <1>10, MovedUnits
<1>12. uu = Cardinality(P) /\ fu = Cardinality(Q)
  BY <1>1, <1>9 DEF Counts
<1> QED BY <1>1, <1>9, <1>11, <1>12 DEF Counts

LEMMA GaveCounts ==
  ASSUME NEW B, NEW C, NEW R, NEW b \in Used(B), NEW size, size = B[b].size,
         NEW uu, NEW fu, R \subseteq RunType, Shape(B, R),
         Counts(B, R, uu, fu), Gave(B, C, b)
  PROVE  Counts(C, R, uu - size, fu + size)
<1>1. PICK I, P, S : I = Inner(b, size) /\ P = Payload(B) /\ S = Space(R)
  OBVIOUS
<1>2. b \in DOMAIN B /\ b \in Nat /\ size \in Nat /\ End(B, b) = b + HeaderUnits + size
  BY BlockFacts DEF Used, Shape
<1>3. IsFiniteSet(I) /\ Cardinality(I) = size
  <2>1. PICK a \in Nat : a = b + HeaderUnits
    BY <1>2 DEF HeaderUnits
  <2>2. I = {u \in Nat : a <= u /\ u < a + size}
    BY <1>1, <2>1 DEF Inner
  <2> HIDE <1>1, <2>1
  <2> QED BY <1>2, <2>2, Interval
<1>4. /\ Used(C) = Used(B) \ {b}
      /\ \A a \in Used(C) : C[a].size = B[a].size
  BY DEF Gave
<1>5. \A a \in Used(C) : End(C, a) = End(B, a)
  BY <1>4 DEF End
<1>6. ASSUME NEW u \in I, NEW a \in Used(B), a # b
      PROVE  ~(a + HeaderUnits <= u /\ u < End(B, a))
  <2>1. u \in Inner(b, B[b].size)
    BY <1>1
  <2> QED BY <1>6, <2>1, InnerApart
<1>7. Payload(C) = P \ I
  <2>1. ASSUME NEW u \in Nat PROVE u \in Payload(C) <=> u \in P /\ u \notin I
    <3>1. u \in I <=> b + HeaderUnits <= u /\ u < End(B, b)
      BY <1>1, <1>2 DEF Inner
    <3>2. u \in P <=> \E a \in Used(B) : a + HeaderUnits <= u /\ u < End(B, a)
      BY <1>1 DEF Payload
    <3>3. u \in Payload(C) <=> \E a \in Used(C) : a + HeaderUnits <= u /\ u < End(C, a)
      BY DEF Payload
    <3>4. ASSUME u \in Payload(C) PROVE u \in P /\ u \notin I
      <4>1. PICK a \in Used(C) : a + HeaderUnits <= u /\ u < End(C, a)
        BY <3>3, <3>4
      <4>2. a \in Used(B) /\ a # b /\ End(C, a) = End(B, a)
        BY <1>4, <1>5
      <4> QED BY <1>6, <3>2, <4>1, <4>2
    <3>5. ASSUME u \in P, u \notin I PROVE u \in Payload(C)
      <4>1. PICK a \in Used(B) : a + HeaderUnits <= u /\ u < End(B, a)
        BY <3>2, <3>5
      <4>2. a # b
        BY <3>1, <3>5, <4>1
      <4>3. a \in Used(C) /\ End(C, a) = End(B, a)
        BY <1>4, <1>5, <4>2
      <4> QED BY <3>3, <4>1, <4>3
    <3> QED BY <3>4, <3>5
  <2>2. Payload(C) \subseteq Nat /\ P \subseteq Nat
    BY <1>1 DEF Payload
  <2> QED BY <2>1, <2>2
<1>8. I \subseteq P
  <2>1. ASSUME NEW u \in I PROVE u \in P
    BY <1>1, <1>2 DEF Inner, Payload
  <2> QED BY <2>1
<1>9. P \subseteq S /\ IsFiniteSet(S)
  BY <1>1, PayloadInSpace, SpaceFinite
<1>10. PICK Q, X, Y : Q = S \ P /\ X = Payload(C) /\ Y = S \ Payload(C)
  OBVIOUS
<1>11. Moves(Q, P, I, Y, X)
  BY <1>1, <1>7, <1>8, <1>9, <1>10, PayloadInSpace DEF Moves
<1>12. Cardinality(X) = Cardinality(P) - size /\ Cardinality(Y) = Cardinality(Q) + size
  BY <1>3, <1>11, MovedUnits
<1>13. uu = Cardinality(P) /\ fu = Cardinality(Q)
  BY <1>1, <1>10 DEF Counts
<1> QED BY <1>1, <1>10, <1>12, <1>13 DEF Counts

LEMMA TookGiven ==
  ASSUME NEW B, NEW C, NEW G, NEW b \in Nat, NEW size \in Nat, NEW needed \in Sizes,
         needed <= size, b \notin Used(B), Given(B, G), Took(B, C, b, size)
  PROVE  Given(C, G \cup {<<b + HeaderUnits, needed>>})
<1>1. PICK g : g = <<b + HeaderUnits, needed>>
  OBVIOUS
<1>2. /\ g[1] = b + HeaderUnits /\ g[2] = needed /\ g \in Nat \X Sizes
      /\ g[1] - HeaderUnits = b
  BY <1>1 DEF HeaderUnits
<1>3. /\ G \subseteq Nat \X Sizes
      /\ \A h \in G : h[1] - HeaderUnits \in Used(B) /\ h[2] <= B[h[1] - HeaderUnits].size
      /\ \A f, h \in G : f[1] = h[1] => f = h
      /\ \A a \in Used(B) : \E h \in G : h[1] = a + HeaderUnits
  BY DEF Given
<1>4. /\ Used(C) = Used(B) \cup {b} /\ C[b].size = size
      /\ \A a \in Used(B) : C[a].size = B[a].size
  BY DEF Took
<1>5. \A h \in G : h[1] # g[1]
  BY <1>2, <1>3
<1>6. PICK H : H = G \cup {g}
  OBVIOUS
<1>7. \A h \in H : h[1] - HeaderUnits \in Used(C) /\ h[2] <= C[h[1] - HeaderUnits].size
  <2>1. ASSUME NEW h \in G
        PROVE  h[1] - HeaderUnits \in Used(C) /\ h[2] <= C[h[1] - HeaderUnits].size
    <3>1. PICK a : a = h[1] - HeaderUnits
      OBVIOUS
    <3>2. a \in Used(B) /\ h[2] <= B[a].size
      BY <1>3, <3>1
    <3>3. a \in Used(C) /\ C[a].size = B[a].size
      BY <1>4, <3>2
    <3> QED BY <3>1, <3>2, <3>3
  <2>2. g[1] - HeaderUnits \in Used(C) /\ g[2] <= C[g[1] - HeaderUnits].size
    BY <1>2, <1>4
  <2> QED BY <1>6, <2>1, <2>2
<1>8. \A f, h \in H : f[1] = h[1] => f = h
  BY <1>3, <1>5, <1>6
<1>9. \A a \in Used(C) : \E h \in H : h[1] = a + HeaderUnits
  BY <1>2, <1>3, <1>4, <1>6
<1>10. H \subseteq Nat \X Sizes
  BY <1>2, <1>3, <1>6
<1>11. Given(C, H)
  BY <1>7, <1>8, <1>9, <1>10 DEF Given
<1> QED BY <1>1, <1>6, <1>11

LEMMA GaveGiven ==
  ASSUME NEW B, NEW C, NEW G, NEW g \in G, NEW b, b = g[1] - HeaderUnits,
         Blocks(B), Given(B, G), Gave(B, C, b)
  PROVE  Given(C, G \ {g})
<1>1. /\ G \subseteq Nat \X Sizes
      /\ \A h \in G : h[1] - HeaderUnits \in Used(B) /\ h[2] <= B[h[1] - HeaderUnits].size
      /\ \A f, h \in G : f[1] = h[1] => f = h
      /\ \A a \in Used(B) : \E h \in G : h[1] = a + HeaderUnits
  BY DEF Given
<1>2. /\ Used(C) = Used(B) \ {b}
      /\ \A a \in Used(C) : C[a].size = B[a].size
  BY DEF Gave
<1>3. PICK H : H = G \ {g}
  OBVIOUS
<1>4. ASSUME NEW h \in H
      PROVE  h[1] - HeaderUnits \in Used(C) /\ h[2] <= C[h[1] - HeaderUnits].size
  <2>1. PICK a : a = h[1] - HeaderUnits
    OBVIOUS
  <2>2. h[1] \in Nat /\ g[1] \in Nat /\ h[1] # g[1] /\ h \in G
    BY <1>1, <1>3
  <2>3. a # b
    BY <2>1, <2>2 DEF HeaderUnits
  <2>4. a \in Used(B) /\ h[2] <= B[a].size
    BY <1>1, <2>1, <2>2
  <2>5. a \in Used(C) /\ C[a].size = B[a].size
    BY <1>2, <2>3, <2>4
  <2> QED BY <2>1, <2>4, <2>5
<1>5. ASSUME NEW a \in Used(C) PROVE \E h \in H : h[1] = a + HeaderUnits
  <2>1. PICK h \in G : h[1] = a + HeaderUnits
    BY <1>1, <1>2
  <2>2. h # g
    <3>1. a \in Nat /\ a # b
      BY <1>2 DEF Used, Blocks
    <3>2. a = h[1] - HeaderUnits
      BY <2>1, <3>1 DEF HeaderUnits
    <3> QED BY <3>1, <3>2
  <2> QED BY <1>3, <2>1, <2>2
<1>6. Given(C, H)
  BY <1>1, <1>3, <1>4, <1>5 DEF Given
<1> QED BY <1>3, <1>6

-----------------------------------------------------------------------------
(* The steps of the heap.                                                  *)

LEMMA TakeStep ==
  ASSUME NEW B, NEW R, NEW G, NEW uu, NEW sum, HInv(B, R, G, uu, sum),
         NEW b \in DOMAIN B, B[b].free, NEW needed \in Sizes, needed <= B[b].size,
         NEW C, C = InUse(Split(B, b, needed), b),
         NEW size, size = TakenSize(Split(B, b, needed), b, needed),
         NEW H, H = G \cup {<<b + HeaderUnits, needed>>},
         NEW u, u = uu + size, NEW v, v = sum - size
  PROVE  HInv(C, R, H, u, v)
<1>1. /\ R \subseteq RunType /\ ApartRuns(R) /\ IsFiniteSet(DOMAIN B)
      /\ Shape(B, R) /\ NoPair(B, NULL) /\ Counts(B, R, uu, sum) /\ Given(B, G)
      /\ Blocks(B) /\ Apart(B)
  BY DEF HInv, Shape
<1>2. /\ b \in Nat /\ b # NULL /\ B[b].size \in Nat \ {0} /\ B[b].next \in Nat
      /\ End(B, b) = b + HeaderUnits + B[b].size /\ needed \in Nat \ {0}
  BY <1>1, BlockFacts
<1>3. B[b].next # b /\ (B[b].next # NULL => B[b].next = End(B, b))
  BY <1>1, <1>2, ShapeFacts
<1>4. PICK rest : rest = RestOf(b, needed)
  OBVIOUS
<1>5. ASSUME Splits(B[b].size, needed)
      PROVE  rest \notin DOMAIN B /\ rest # B[b].next /\ rest # NULL /\ rest \in Nat
  <2>1. rest \in Nat /\ b < rest /\ rest < End(B, b) /\ rest # NULL
    BY <1>2, <1>4, <1>5 DEF RestOf, Splits, HeaderUnits, NULL
  <2>2. rest \notin DOMAIN B
    BY <1>1, <1>2, <2>1 DEF Apart, HeaderUnits
  <2>3. rest # B[b].next
    BY <1>2, <1>3, <2>1
  <2> QED BY <2>1, <2>2, <2>3
<1>6. /\ Blocks(C)
      /\ \/ ~Splits(B[b].size, needed) /\ Whole(B, C, b)
         \/ Splits(B[b].size, needed) /\ Cut(B, C, b, needed, rest)
      /\ size = C[b].size
  BY <1>1, <1>2, <1>3, <1>4, <1>5, SplitShape
<1>7. /\ Shape(C, R) /\ NoPair(C, NULL) /\ IsFiniteSet(DOMAIN C) /\ b \in DOMAIN C
      /\ needed <= size /\ Took(B, C, b, size)
  <2>1. CASE ~Splits(B[b].size, needed) /\ Whole(B, C, b)
    <3>1. /\ DOMAIN C = DOMAIN B /\ C[b].free = FALSE /\ C[b].size = B[b].size
          /\ C[b].next = B[b].next /\ C[b].prev = B[b].prev
          /\ \A a \in DOMAIN B \ {b} : C[a] = B[a]
      BY <2>1 DEF Whole
    <3>2. \A a \in DOMAIN B : /\ C[a].size = B[a].size /\ C[a].next = B[a].next
                              /\ C[a].prev = B[a].prev
      BY <3>1
    <3>3. Shape(C, R)
      BY <1>1, <1>6, <3>1, <3>2, SameShape
    <3>4. NoPair(C, NULL)
      BY <1>1, <2>1, WholePairs
    <3>5. Used(C) = Used(B) \cup {b}
      BY <3>1 DEF Used
    <3>6. Took(B, C, b, size)
      BY <1>6, <3>2, <3>5 DEF Took, Used
    <3> QED BY <1>1, <1>6, <3>1, <3>3, <3>4, <3>6
  <2>2. CASE Splits(B[b].size, needed) /\ Cut(B, C, b, needed, rest)
    <3>1. /\ DOMAIN C = DOMAIN B \cup {rest} /\ C[b].free = FALSE /\ C[b].size = needed
          /\ C[rest].free = TRUE
          /\ \A a \in DOMAIN B \ {b} : C[a].free = B[a].free /\ C[a].size = B[a].size
      BY <2>2 DEF Cut, Unchanged
    <3>2. rest \notin DOMAIN B /\ rest # NULL
      BY <1>5, <2>2
    <3>3. Shape(C, R)
      BY <1>1, <1>2, <1>4, <1>6, <2>2, CutShape
    <3>4. NoPair(C, NULL)
      BY <1>1, <2>2, <3>2, CutPairs
    <3>5. IsFiniteSet(DOMAIN C)
      BY <1>1, <3>1, FS_AddElement
    <3>6. Used(C) = Used(B) \cup {b}
      BY <3>1, <3>2 DEF Used
    <3>7. Took(B, C, b, size)
      BY <1>6, <3>1, <3>6 DEF Took, Used
    <3> QED BY <1>2, <1>6, <3>1, <3>3, <3>4, <3>5, <3>7
  <2> QED BY <1>6, <2>1, <2>2
<1>8. size \in Nat \ {0} /\ b \notin Used(B)
  BY <1>6, <1>7, BlockFacts DEF Used
<1>9. Counts(C, R, uu + size, sum - size)
  BY <1>1, <1>2, <1>7, <1>8, TookCounts
<1>10. Given(C, G \cup {<<b + HeaderUnits, needed>>})
  BY <1>1, <1>2, <1>7, <1>8, TookGiven
<1> QED BY <1>1, <1>7, <1>9, <1>10 DEF HInv

(* Two free neighbours begin with b, or end with x.                        *)
OnlyAt(B, b, x) == \A a \in DOMAIN B : Pair(B, a) => a = b \/ B[a].next = x

Mergeable(B, R, b, x) ==
  /\ R \subseteq RunType /\ ApartRuns(R) /\ Shape(B, R) /\ IsFiniteSet(DOMAIN B)
  /\ b \in DOMAIN B /\ B[b].free /\ x \in {b, NULL} /\ OnlyAt(B, b, x)
Merged(B, R, b, x, C) ==
  /\ Shape(C, R) /\ NoPair(C, x) /\ IsFiniteSet(DOMAIN C)
  /\ b \in DOMAIN C /\ C[b].free /\ Used(C) = Used(B)
  /\ \A a \in Used(B) : C[a].size = B[a].size

LEMMA MergeStep ==
  ASSUME NEW B, NEW R, NEW b, NEW x, Mergeable(B, R, b, x), NEW C, C = MergeNext(B, b)
  PROVE  Merged(B, R, b, x, C)
<1>0. /\ R \subseteq RunType /\ ApartRuns(R) /\ Shape(B, R) /\ IsFiniteSet(DOMAIN B)
      /\ b \in DOMAIN B /\ B[b].free /\ x \in {b, NULL} /\ OnlyAt(B, b, x)
  BY DEF Mergeable
<1>1. PICK n : n = B[b].next
  OBVIOUS
<1>2. Blocks(B)
  BY <1>0 DEF Shape
<1>3. b \in Nat /\ b # NULL /\ n \in Nat
  BY <1>0, <1>1, <1>2, BlockFacts
<1>4. ASSUME n # NULL
      PROVE  /\ n \in DOMAIN B /\ n # b /\ B[n].next # b /\ B[n].next # n
             /\ B[n].next \in DOMAIN B \cup {NULL}
  <2>1. n \in DOMAIN B /\ b < n
    BY <1>0, <1>1, <1>4, ShapeFacts
  <2>2. PICK m : m = B[n].next
    OBVIOUS
  <2>3. m # NULL => m \in DOMAIN B /\ n < m
    BY <1>0, <2>1, <2>2, ShapeFacts
  <2>4. m \in Nat
    BY <1>2, <2>1, <2>2, BlockFacts
  <2> QED BY <1>3, <1>4, <2>1, <2>2, <2>3, <2>4
<1>5. /\ Blocks(C)
      /\ \/ (n = NULL \/ ~B[n].free) /\ C = B
         \/ n # NULL /\ Joined(B, C, b, n)
  BY <1>0, <1>1, <1>2, <1>4, MergeShape
<1>6. CASE (n = NULL \/ ~B[n].free) /\ C = B
  <2>1. ~Pair(B, b)
    BY <1>1, <1>6 DEF Pair
  <2>2. NoPair(B, x)
    BY <1>0, <2>1 DEF NoPair, OnlyAt
  <2> QED BY <1>0, <1>6, <2>2 DEF Merged
<1>7. CASE n # NULL /\ Joined(B, C, b, n)
  <2>1. Shape(C, R)
    BY <1>0, <1>1, <1>5, <1>7, JoinShape
  <2>2. NoPair(C, x)
    BY <1>0, <1>1, <1>7, JoinPairs DEF OnlyAt
  <2>3. /\ n \in DOMAIN B /\ B[n].free /\ n # b /\ DOMAIN C = DOMAIN B \ {n}
        /\ C[b].free = B[b].free
        /\ \A a \in DOMAIN B \ {b, n} : C[a].free = B[a].free /\ C[a].size = B[a].size
    BY <1>7 DEF Joined, Unchanged
  <2>4. C[b].free
    BY <1>0, <2>3, Zenon
  <2>5. Used(C) = Used(B)
    BY <2>3, <2>4 DEF Used
  <2>6. \A a \in Used(B) : C[a].size = B[a].size
    BY <1>0, <2>3 DEF Used
  <2>7. IsFiniteSet(DOMAIN C)
    BY <1>0, <2>3, FS_Subset
  <2>8. b \in DOMAIN C
    BY <1>0, <2>3
  <2> QED BY <2>1, <2>2, <2>4, <2>5, <2>6, <2>7, <2>8 DEF Merged
<1> QED BY <1>5, <1>6, <1>7

LEMMA FreeStep ==
  ASSUME NEW B, NEW R, NEW G, NEW uu, NEW fu, HInv(B, R, G, uu, fu), NEW g \in G,
         NEW b, b = g[1] - HeaderUnits, NEW F, F = [B EXCEPT ![b].free = TRUE],
         NEW C, C = MergePrev(MergeNext(F, b), b), NEW size, size = B[b].size,
         NEW H, H = G \ {g}, NEW u, u = uu - size, NEW z, z = fu + size
  PROVE  HInv(C, R, H, u, z)
<1>1. /\ R \subseteq RunType /\ ApartRuns(R) /\ IsFiniteSet(DOMAIN B)
      /\ Shape(B, R) /\ NoPair(B, NULL) /\ Counts(B, R, uu, fu) /\ Given(B, G)
      /\ Blocks(B)
  BY DEF HInv, Shape
<1>2. b \in Used(B) /\ b \in DOMAIN B
  BY <1>1 DEF Given, Used
<1>3. PICK old \in BlockType : old = B[b]
  BY <1>1, <1>2 DEF Blocks
<1>4. PICK v : v = WithFree(old, TRUE)
  OBVIOUS
<1>5. v \in BlockType /\ v.free = TRUE /\ v.size = old.size /\ v.prev = old.prev /\ v.next = old.next
  <2>1. TRUE \in BOOLEAN
    OBVIOUS
  <2> QED BY <1>4, <2>1, SetFree
<1>6. F = [B EXCEPT ![b] = v]
  BY <1>3, <1>4 DEF WithFree
<1>7. DOMAIN F = DOMAIN B /\ F[b] = v /\ \A a \in DOMAIN B \ {b} : F[a] = B[a]
  BY <1>2, <1>6
<1>8. Blocks(F)
  BY <1>1, <1>5, <1>7 DEF Blocks
<1>9. \A a \in DOMAIN B : F[a].size = B[a].size /\ F[a].next = B[a].next /\ F[a].prev = B[a].prev
  BY <1>3, <1>5, <1>7
<1>10. Shape(F, R)
  BY <1>1, <1>7, <1>8, <1>9, SameShape
<1>11. F[b].free = TRUE
  BY <1>5, <1>7
<1>12. Used(F) = Used(B) \ {b}
  BY <1>7, <1>11 DEF Used
<1>13. ASSUME NEW a \in DOMAIN F, Pair(F, a) PROVE a = b \/ F[a].next = b
  <2>1. SUFFICES ASSUME a # b, F[a].next # b PROVE FALSE
    OBVIOUS
  <2>2. PICK c : c = F[a].next
    OBVIOUS
  <2>3. c # NULL /\ F[a].free /\ F[c].free
    BY <1>13, <2>2 DEF Pair
  <2>4. c \in DOMAIN F
    BY <1>10, <2>2, <2>3, ShapeFacts
  <2>5. F[a] = B[a] /\ F[c] = B[c] /\ a \in DOMAIN B
    BY <1>7, <2>1, <2>2, <2>4
  <2>6. Pair(B, a)
    BY <2>2, <2>3, <2>5 DEF Pair
  <2>7. B[a].next # NULL
    BY <2>2, <2>3, <2>5
  <2> QED BY <1>1, <2>5, <2>6, <2>7 DEF NoPair
<1>14. PICK D : D = MergeNext(F, b)
  OBVIOUS
<1>15. /\ Shape(D, R) /\ NoPair(D, b) /\ IsFiniteSet(DOMAIN D)
       /\ b \in DOMAIN D /\ D[b].free /\ Used(D) = Used(F)
       /\ \A a \in Used(F) : D[a].size = F[a].size
  <2>1. b \in {b, NULL} /\ b \in DOMAIN F /\ F[b].free /\ IsFiniteSet(DOMAIN F)
    BY <1>1, <1>2, <1>7, <1>11
  <2>2. OnlyAt(F, b, b)
    BY <1>13 DEF OnlyAt
  <2>3. Mergeable(F, R, b, b)
    BY <1>1, <1>10, <2>1, <2>2 DEF Mergeable
  <2>4. Merged(F, R, b, b, D)
    BY <1>14, <2>3, MergeStep
  <2> QED BY <2>4 DEF Merged
<1>16. PICK p : p = D[b].prev
  OBVIOUS
<1>17. /\ Shape(C, R) /\ NoPair(C, NULL) /\ IsFiniteSet(DOMAIN C) /\ Used(C) = Used(D)
       /\ \A a \in Used(D) : C[a].size = D[a].size
  <2>1. CASE p = NULL \/ ~D[p].free
    <3>1. C = D
      BY <1>14, <1>16, <2>1 DEF MergePrev
    <3>2. NoPair(D, NULL)
      <4>1. ASSUME NEW a \in DOMAIN D, Pair(D, a) PROVE FALSE
        <5>1. D[a].next = b
          BY <1>15, <4>1 DEF NoPair
        <5>2. b # NULL
          BY <1>1, <1>2, BlockFacts
        <5>3. D[b].prev = a /\ a # NULL
          BY <1>15, <5>1, <5>2, ShapeFacts, BlockFacts DEF Shape
        <5> QED BY <1>16, <2>1, <4>1, <5>3 DEF Pair
      <4> QED BY <4>1 DEF NoPair
    <3> QED BY <1>15, <3>1, <3>2
  <2>2. CASE p # NULL /\ D[p].free
    <3>1. C = MergeNext(D, p)
      BY <1>14, <1>16, <2>2 DEF MergePrev
    <3>2. p \in DOMAIN D /\ D[p].next = b
      BY <1>15, <1>16, <2>2, ShapeFacts
    <3>3. ASSUME NEW a \in DOMAIN D, Pair(D, a) PROVE a = p
      <4>1. D[a].next = b
        BY <1>15, <3>3 DEF NoPair
      <4>2. b # NULL
        BY <1>1, <1>2, BlockFacts
      <4> QED BY <1>15, <1>16, <4>1, <4>2, ShapeFacts
    <3>4. NULL \in {p, NULL} /\ OnlyAt(D, p, NULL)
      BY <3>3 DEF OnlyAt
    <3>5. Mergeable(D, R, p, NULL)
      BY <1>1, <1>15, <2>2, <3>2, <3>4 DEF Mergeable
    <3>6. Merged(D, R, p, NULL, C)
      BY <3>1, <3>5, MergeStep
    <3> QED BY <3>6 DEF Merged
  <2> QED BY <2>1, <2>2
<1>18. Gave(B, C, b)
  <2>1. Used(C) = Used(B) \ {b}
    BY <1>12, <1>15, <1>17
  <2>2. ASSUME NEW a \in Used(C) PROVE C[a].size = B[a].size
    <3>1. a \in Used(F) /\ a \in Used(D) /\ a \in DOMAIN B
      BY <1>12, <1>15, <1>17, <2>1 DEF Used
    <3>2. C[a].size = D[a].size /\ D[a].size = F[a].size /\ F[a].size = B[a].size
      BY <1>9, <1>15, <1>17, <3>1
    <3> QED BY <3>2
  <2> QED BY <2>1, <2>2 DEF Gave
<1>19. Counts(C, R, uu - size, fu + size)
  BY <1>1, <1>2, <1>18, GaveCounts
<1>20. Given(C, G \ {g})
  BY <1>1, <1>18, GaveGiven
<1> QED BY <1>1, <1>17, <1>19, <1>20 DEF HInv

(* The run r lies apart from the runs R.                                   *)
Clear(R, r) == \A t \in R : Hi(t) <= Lo(r) \/ Hi(r) <= Lo(t)

LEMMA ArenaStep ==
  ASSUME NEW R, NEW G, NEW uu, NEW fu, HInv(block, R, G, uu, fu),
         NEW s, NEW n, NEW r \in RunType, r = <<s, n>>,
         Clear(R, r),
         NEW C, C = NewBlocks(s, n), NEW f, f = FirstBlock(s),
         NEW S, S = R \cup {r}, NEW z, z = fu + ArenaSize(n)
  PROVE  HInv(C, S, G, uu, z)
<1>1. PICK B : B = block
  OBVIOUS
<1>2. /\ R \subseteq RunType /\ ApartRuns(R) /\ IsFiniteSet(DOMAIN B)
      /\ Shape(B, R) /\ NoPair(B, NULL) /\ Counts(B, R, uu, fu) /\ Given(B, G)
      /\ Blocks(B) /\ Links(B) /\ Backs(B) /\ Apart(B) /\ Inside(B, R) /\ Firsts(B, R)
  BY <1>1 DEF HInv, Shape
<1>3. PICK lo \in Nat, hi \in Nat, size \in Nat \ {0} :
        /\ lo = Lo(r) /\ hi = Hi(r) /\ size = ArenaSize(n)
        /\ hi = lo + size + MetaUnits + HeaderUnits
  <2>1. PICK k : k = n * PageUnits
    OBVIOUS
  <2>2. /\ Lo(r) \in Nat /\ Hi(r) \in Nat /\ Hi(r) = Lo(r) + k
        /\ k > HeaderUnits + MetaUnits /\ k \in Nat
    BY <2>1, ExtentFacts
  <2>3. ArenaSize(n) = k - MetaUnits - HeaderUnits
    BY <2>1 DEF ArenaSize
  <2> HIDE <2>1
  <2> QED BY <2>2, <2>3 DEF MetaUnits, HeaderUnits
<1>4. f = lo + MetaUnits /\ f \in Nat \ {0}
  <2>1. f = lo + MetaUnits
    BY <1>3 DEF FirstBlock, Lo
  <2> QED BY <2>1 DEF MetaUnits
<1>5. PICK w : w = [free |-> TRUE, size |-> size, prev |-> NULL, next |-> NULL]
  OBVIOUS
<1>6. /\ w \in BlockType /\ w.free = TRUE /\ w.size = size /\ w.prev = NULL /\ w.next = NULL
  BY <1>5 DEF BlockType, NULL
<1>7. ASSUME NEW a \in DOMAIN B
      PROVE  /\ a \in Nat /\ End(B, a) \in Nat /\ a < End(B, a)
             /\ End(B, a) <= lo \/ hi < a
             /\ a # f
  <2>1. a \in Nat /\ End(B, a) \in Nat /\ a + HeaderUnits < End(B, a)
    BY <1>2, BlockFacts
  <2>2. PICK t \in R : Lo(t) + MetaUnits <= a /\ End(B, a) <= Hi(t)
    BY <1>2 DEF Inside, Within
  <2>3. Lo(t) \in Nat /\ Hi(t) \in Nat /\ (Hi(t) <= lo \/ hi <= Lo(t))
    BY <1>2, <1>3, ExtentFacts DEF Clear
  <2> QED BY <1>3, <1>4, <2>1, <2>2, <2>3 DEF MetaUnits, HeaderUnits
<1>8. C = [a \in DOMAIN B \cup {f} |-> IF a = f THEN w ELSE B[a]]
  BY <1>1, <1>3, <1>5 DEF NewBlocks
<1>9. DOMAIN C = DOMAIN B \cup {f} /\ C[f] = w /\ \A a \in DOMAIN B : C[a] = B[a]
  BY <1>7, <1>8
<1>10. End(C, f) = hi /\ \A a \in DOMAIN B : End(C, a) = End(B, a)
  BY <1>3, <1>4, <1>6, <1>9 DEF End, MetaUnits, HeaderUnits
<1>11. Blocks(C)
  BY <1>2, <1>4, <1>6, <1>9 DEF Blocks
<1>12. Shape(C, R \cup {r})
  <2>1. Links(C)
    <3>1. ASSUME NEW a \in DOMAIN C, C[a].next # NULL
          PROVE  C[a].next = End(C, a) /\ C[a].next \in DOMAIN C /\ C[C[a].next].prev = a
      <4>1. a \in DOMAIN B /\ C[a] = B[a] /\ End(C, a) = End(B, a)
        BY <1>6, <1>9, <1>10, <3>1
      <4>2. PICK c : c = B[a].next
        OBVIOUS
      <4>3. c = End(B, a) /\ c \in DOMAIN B /\ B[c].prev = a
        BY <1>2, <3>1, <4>1, <4>2 DEF Links
      <4> QED BY <1>9, <4>1, <4>2, <4>3
    <3> QED BY <3>1 DEF Links
  <2>2. Backs(C)
    <3>1. ASSUME NEW a \in DOMAIN C, C[a].prev # NULL
          PROVE  C[a].prev \in DOMAIN C /\ C[C[a].prev].next = a
      <4>1. a \in DOMAIN B /\ C[a] = B[a]
        BY <1>6, <1>9, <3>1
      <4>2. PICK c : c = B[a].prev
        OBVIOUS
      <4>3. c \in DOMAIN B /\ B[c].next = a
        BY <1>2, <3>1, <4>1, <4>2 DEF Backs
      <4> QED BY <1>9, <4>1, <4>2, <4>3
    <3> QED BY <3>1 DEF Backs
  <2>3. Apart(C)
    <3>1. ASSUME NEW a \in DOMAIN C, NEW c \in DOMAIN C, a < c PROVE End(C, a) <= c
      <4>1. CASE a \in DOMAIN B /\ c \in DOMAIN B
        BY <1>2, <1>10, <3>1, <4>1 DEF Apart
      <4>2. CASE a = f /\ c \in DOMAIN B
        <5>1. /\ c \in Nat /\ End(B, c) \in Nat /\ c < End(B, c) /\ f < c
              /\ End(B, c) <= lo \/ hi < c
          BY <1>7, <3>1, <4>2
        <5>2. lo < f
          BY <1>4 DEF MetaUnits
        <5> QED BY <1>4, <1>10, <4>2, <5>1, <5>2
      <4>3. CASE a \in DOMAIN B /\ c = f
        <5>1. End(B, a) <= lo /\ End(C, a) = End(B, a) /\ End(B, a) \in Nat
          <6>1. /\ a \in Nat /\ End(B, a) \in Nat /\ a < End(B, a) /\ a < f
                /\ End(B, a) <= lo \/ hi < a
            BY <1>7, <3>1, <4>3
          <6>2. f <= hi
            BY <1>3, <1>4 DEF MetaUnits, HeaderUnits
          <6> QED BY <1>4, <1>10, <4>3, <6>1, <6>2
        <5> QED BY <1>4, <4>3, <5>1 DEF MetaUnits
      <4>4. ~(a = f /\ c = f)
        BY <1>4, <3>1
      <4> QED BY <1>9, <4>1, <4>2, <4>3, <4>4
    <3> QED BY <3>1 DEF Apart
  <2>4. Inside(C, R \cup {r})
    <3>1. Within(C, f, r)
      BY <1>3, <1>4, <1>6, <1>9, <1>10 DEF Within, MetaUnits
    <3>2. ASSUME NEW a \in DOMAIN B PROVE \E t \in R : Within(C, a, t)
      <4>1. PICK t \in R : Within(B, a, t)
        BY <1>2 DEF Inside
      <4>2. Within(C, a, t)
        BY <1>9, <1>10, <4>1 DEF Within
      <4> QED BY <4>2
    <3> QED BY <1>9, <3>1, <3>2 DEF Inside
  <2>5. Firsts(C, R \cup {r})
    <3>1. ASSUME NEW t \in R PROVE Lo(t) + MetaUnits \in DOMAIN C /\ C[Lo(t) + MetaUnits].prev = NULL
      BY <1>2, <1>9 DEF Firsts
    <3>2. Lo(r) + MetaUnits \in DOMAIN C /\ C[Lo(r) + MetaUnits].prev = NULL
      BY <1>3, <1>4, <1>6, <1>9
    <3> QED BY <3>1, <3>2 DEF Firsts
  <2> QED BY <1>11, <2>1, <2>2, <2>3, <2>4, <2>5 DEF Shape
<1>13. NoPair(C, NULL)
  <2>1. ASSUME NEW a \in DOMAIN C, Pair(C, a) PROVE FALSE
    <3>1. C[a].next # NULL /\ C[a].free /\ C[C[a].next].free
      BY <2>1 DEF Pair
    <3>2. a \in DOMAIN B /\ C[a] = B[a]
      BY <1>6, <1>9, <3>1
    <3>3. B[a].next \in DOMAIN B
      BY <1>2, <3>1, <3>2, ShapeFacts
    <3>4. Pair(B, a)
      BY <1>9, <3>1, <3>2, <3>3 DEF Pair
    <3> QED BY <1>2, <3>1, <3>2, <3>4 DEF NoPair
  <2> QED BY <2>1 DEF NoPair
<1>14. Used(C) = Used(B) /\ \A a \in Used(B) : C[a] = B[a] /\ End(C, a) = End(B, a)
  BY <1>6, <1>9, <1>10 DEF Used
<1>15. Given(C, G)
  BY <1>2, <1>14 DEF Given
<1>16. RunType \in {RunType} /\ R \cup {r} \subseteq RunType /\ ApartRuns(R \cup {r})
  BY <1>2 DEF ApartRuns, Clear
<1>17. Counts(C, R \cup {r}, uu, fu + ArenaSize(n))
  <2>1. Payload(C) = Payload(B)
    <3>1. ASSUME NEW u \in Nat PROVE u \in Payload(C) <=> u \in Payload(B)
      BY <1>14 DEF Payload
    <3> QED BY <3>1 DEF Payload
  <2>2. PICK J : J = {u \in Nat : lo + MetaUnits + HeaderUnits <= u /\ u < hi}
    OBVIOUS
  <2>3. IsFiniteSet(J) /\ Cardinality(J) = size
    <3>1. PICK a \in Nat : a = lo + MetaUnits + HeaderUnits
      BY DEF MetaUnits, HeaderUnits
    <3>2. hi = a + size
      BY <1>3, <3>1 DEF MetaUnits, HeaderUnits
    <3>3. J = {u \in Nat : a <= u /\ u < a + size}
      BY <2>2, <3>1, <3>2
    <3>4. size \in Nat
      OBVIOUS
    <3> HIDE <2>2, <3>1, <3>2
    <3> QED BY <3>3, <3>4, Interval
  <2>4. PICK P, X : P = Space(R) \ Payload(B) /\ X = Space(R \cup {r}) \ Payload(B)
    OBVIOUS
  <2>5. Space(R \cup {r}) = Space(R) \cup J
    <3>1. ASSUME NEW u \in Nat PROVE u \in Space(R \cup {r}) <=> u \in Space(R) \/ u \in J
      BY <1>3, <2>2 DEF Space
    <3>2. Space(R \cup {r}) \subseteq Nat /\ Space(R) \subseteq Nat /\ J \subseteq Nat
      BY <2>2 DEF Space
    <3> QED BY <3>1, <3>2
  <2>6. Space(R) \cap J = {}
    <3>1. ASSUME NEW u \in J, NEW t \in R PROVE ~(Lo(t) + MetaUnits + HeaderUnits <= u /\ u < Hi(t))
      <4>1. Lo(t) \in Nat /\ Hi(t) \in Nat /\ (Hi(t) <= lo \/ hi <= Lo(t)) /\ u \in Nat
        BY <1>2, <1>3, <2>2, ExtentFacts DEF Clear
      <4> QED BY <1>3, <2>2, <4>1 DEF MetaUnits, HeaderUnits
    <3> QED BY <3>1 DEF Space
  <2>7. Payload(B) \subseteq Space(R) /\ IsFiniteSet(P)
    BY <1>2, <2>4, PayloadInSpace
  <2>8. Moves(P, J, J, X, {})
    BY <2>3, <2>4, <2>5, <2>6, <2>7 DEF Moves
  <2>9. Cardinality(X) = Cardinality(P) + size
    BY <2>3, <2>8, MovedUnits
  <2>10. uu = Cardinality(Payload(B)) /\ fu = Cardinality(P)
    BY <1>2, <2>4 DEF Counts
  <2> QED BY <1>3, <2>1, <2>4, <2>9, <2>10 DEF Counts
<1>18. IsFiniteSet(DOMAIN C)
  BY <1>2, <1>9, FS_AddElement
<1>19. HInv(C, R \cup {r}, G, uu, fu + ArenaSize(n))
  BY <1>12, <1>13, <1>15, <1>16, <1>17, <1>18 DEF HInv
<1> QED BY <1>19

-----------------------------------------------------------------------------
(* The search along a chain.                                               *)

(* What the recursive function of FitFrom has to satisfy.                  *)
Fit(g, needed) ==
  g = [a \in DOMAIN block \cup {NULL} |->
         CASE a = NULL -> NULL
           [] a # NULL /\ block[a].free /\ block[a].size >= needed -> a
           [] OTHER -> g[block[a].next]]

LEMMA FitDefined ==
  ASSUME NEW b, NEW needed
  PROVE  FitFrom(b, needed) = (CHOOSE g : Fit(g, needed))[b]
BY DEF FitFrom, Fit

(* The blocks of a's arena from a on that fit, and the first of them.      *)
Ahead(R, a, needed) ==
  {c \in DOMAIN block : /\ block[c].free /\ block[c].size >= needed /\ a <= c
                        /\ \E r \in R : Lo(r) <= a /\ c < Hi(r)}
FirstOf(R, a, needed) ==
  IF a = NULL \/ Ahead(R, a, needed) = {} THEN NULL
  ELSE CHOOSE c \in Ahead(R, a, needed) : \A d \in Ahead(R, a, needed) : c <= d

LEMMA FitExists ==
  ASSUME NEW R, R \subseteq RunType, ApartRuns(R), Shape(block, R), NEW needed
  PROVE  \E g : Fit(g, needed)
<1> DEFINE D == DOMAIN block \cup {NULL}
           W == [a \in D |-> FirstOf(R, a, needed)]
<1>1. Blocks(block) /\ Apart(block) /\ Inside(block, R)
  BY DEF Shape
<1>2. NULL \notin DOMAIN block
  BY <1>1 DEF Blocks, NULL
<1>3. ASSUME NEW a \in DOMAIN block
      PROVE  \E r \in R : /\ Lo(r) \in Nat /\ Hi(r) \in Nat /\ Lo(r) <= a /\ a < Hi(r)
                          /\ End(block, a) <= Hi(r)
                          /\ block[a].next = NULL => End(block, a) = Hi(r)
  <2>1. PICK r \in R : Within(block, a, r)
    BY <1>1 DEF Inside
  <2>2. /\ Lo(r) \in Nat /\ Hi(r) \in Nat /\ a \in Nat /\ End(block, a) \in Nat
        /\ a + HeaderUnits < End(block, a)
    BY <1>1, ExtentFacts, BlockFacts
  <2> QED BY <2>1, <2>2 DEF Within, MetaUnits, HeaderUnits
<1>4. ASSUME NEW a \in DOMAIN block, block[a].free, block[a].size >= needed
      PROVE  W[a] = a
  <2>1. a \in Nat /\ a # NULL /\ a \in D
    BY <1>1, BlockFacts
  <2>2. PICK A : A = Ahead(R, a, needed)
    OBVIOUS
  <2>3. a \in A /\ \A c \in A : a <= c /\ c \in Nat
    BY <1>1, <1>3, <1>4, <2>1, <2>2 DEF Ahead, Blocks
  <2>4. ASSUME NEW c \in A, \A d \in A : c <= d PROVE c = a
    BY <2>1, <2>3, <2>4
  <2>5. (CHOOSE c \in A : \A d \in A : c <= d) = a
    BY <2>3, <2>4
  <2>6. FirstOf(R, a, needed) = a
    BY <2>1, <2>2, <2>3, <2>5 DEF FirstOf
  <2> QED BY <2>1, <2>6
<1>5. ASSUME NEW a \in DOMAIN block, ~(block[a].free /\ block[a].size >= needed)
      PROVE  W[a] = W[block[a].next]
  <2>1. a \in Nat /\ a # NULL /\ a \in D
    BY <1>1, BlockFacts
  <2>2. PICK n : n = block[a].next
    OBVIOUS
  <2>3. PICK r \in R : /\ Lo(r) \in Nat /\ Hi(r) \in Nat /\ Lo(r) <= a /\ a < Hi(r)
                       /\ End(block, a) <= Hi(r)
                       /\ block[a].next = NULL => End(block, a) = Hi(r)
    BY <1>3
  <2>4. ASSUME NEW t \in R, NEW x \in Nat, a <= x, Lo(t) <= a, x < Hi(t) PROVE t = r
    <3>1. Lo(t) \in Nat /\ Hi(t) \in Nat
      BY ExtentFacts
    <3>2. ~(Hi(r) <= Lo(t)) /\ ~(Hi(t) <= Lo(r))
      BY <2>1, <2>3, <2>4, <3>1
    <3> QED BY <3>2 DEF ApartRuns
  <2>5. ASSUME NEW c \in Ahead(R, a, needed)
        PROVE  c \in DOMAIN block /\ c \in Nat /\ End(block, a) <= c /\ c < Hi(r)
    <3>1. c \in DOMAIN block /\ c \in Nat /\ a <= c /\ \E t \in R : Lo(t) <= a /\ c < Hi(t)
      BY <1>1 DEF Ahead, Blocks
    <3>2. c # a
      BY <1>5 DEF Ahead
    <3>3. End(block, a) <= c
      BY <1>1, <2>1, <3>1, <3>2 DEF Apart
    <3> QED BY <2>4, <3>1, <3>3
  <2>6. CASE n = NULL
    <3>1. Ahead(R, a, needed) = {}
      <4>1. ASSUME NEW c \in Ahead(R, a, needed) PROVE FALSE
        BY <2>2, <2>3, <2>5, <2>6
      <4> QED BY <4>1
    <3> QED BY <2>1, <2>2, <2>6, <3>1 DEF FirstOf
  <2>7. CASE n # NULL
    <3>1. n = End(block, a) /\ n \in DOMAIN block /\ a < n /\ n \in Nat /\ n \in D
      BY <1>1, <2>2, <2>7, ShapeFacts, BlockFacts
    <3>2. n < Hi(r) /\ Lo(r) <= n
      <4>1. PICK t \in R : Lo(t) \in Nat /\ Hi(t) \in Nat /\ Lo(t) + MetaUnits <= n /\ n < Hi(t)
        <5>1. PICK t \in R : Within(block, n, t)
          BY <1>1, <3>1 DEF Inside
        <5>2. /\ Lo(t) \in Nat /\ Hi(t) \in Nat /\ n + HeaderUnits < End(block, n)
              /\ End(block, n) \in Nat
          BY <1>1, <3>1, ExtentFacts, BlockFacts
        <5> QED BY <3>1, <5>1, <5>2 DEF Within, MetaUnits, HeaderUnits
      <4>2. t = r
        <5>1. ~(Hi(r) <= Lo(t))
          BY <2>3, <3>1, <4>1 DEF MetaUnits
        <5>2. ~(Hi(t) <= Lo(r))
          BY <2>1, <2>3, <3>1, <4>1
        <5> QED BY <5>1, <5>2 DEF ApartRuns
      <4> QED BY <2>1, <2>3, <3>1, <4>1, <4>2
    <3>3. Ahead(R, a, needed) = Ahead(R, n, needed)
      <4>1. ASSUME NEW c \in Ahead(R, a, needed) PROVE c \in Ahead(R, n, needed)
        <5>1. n <= c /\ c < Hi(r)
          BY <2>5, <3>1
        <5> QED BY <3>2, <5>1 DEF Ahead
      <4>2. ASSUME NEW c \in Ahead(R, n, needed) PROVE c \in Ahead(R, a, needed)
        <5>1. PICK t \in R : Lo(t) <= n /\ c < Hi(t) /\ n <= c /\ c \in DOMAIN block
          BY DEF Ahead
        <5>2. c \in Nat /\ Lo(t) \in Nat /\ Hi(t) \in Nat
          BY <1>1, <5>1, ExtentFacts DEF Blocks
        <5>3. t = r
          <6>1. ~(Hi(r) <= Lo(t)) /\ ~(Hi(t) <= Lo(r))
            BY <2>3, <3>1, <3>2, <5>1, <5>2
          <6> QED BY <6>1 DEF ApartRuns
        <5>4. a <= c /\ Lo(r) <= a /\ c < Hi(r)
          BY <2>1, <2>3, <3>1, <5>1, <5>2, <5>3
        <5> QED BY <5>4 DEF Ahead
      <4> QED BY <4>1, <4>2
    <3>4. FirstOf(R, a, needed) = FirstOf(R, n, needed)
      BY <2>1, <2>7, <3>3 DEF FirstOf
    <3> QED BY <2>1, <2>2, <3>1, <3>4
  <2> QED BY <2>6, <2>7
<1>6. W[NULL] = NULL
  BY DEF FirstOf
<1>7. W = [a \in D |-> CASE a = NULL -> NULL
                         [] a # NULL /\ block[a].free /\ block[a].size >= needed -> a
                         [] OTHER -> W[block[a].next]]
  <2> HIDE DEF W
  <2>1. ASSUME NEW a \in D
        PROVE  W[a] = CASE a = NULL -> NULL
                        [] a # NULL /\ block[a].free /\ block[a].size >= needed -> a
                        [] OTHER -> W[block[a].next]
    <3>1. CASE a = NULL
      BY <1>6, <3>1
    <3>2. CASE a # NULL /\ block[a].free /\ block[a].size >= needed
      BY <1>4, <3>2
    <3>3. CASE a # NULL /\ ~(block[a].free /\ block[a].size >= needed)
      BY <1>5, <3>3
    <3> QED BY <3>1, <3>2, <3>3
  <2>2. W = [a \in D |-> W[a]]
    BY DEF W
  <2> QED BY <2>1, <2>2
<1> HIDE DEF W
<1> QED BY <1>7 DEF Fit

(* A search that finds a block finds a free one that is large enough.      *)
LEMMA FitFacts ==
  ASSUME NEW R, R \subseteq RunType, ApartRuns(R), Shape(block, R),
         IsFiniteSet(DOMAIN block), NEW needed,
         NEW b \in DOMAIN block \cup {NULL}, FitFrom(b, needed) # NULL
  PROVE  /\ FitFrom(b, needed) \in DOMAIN block
         /\ block[FitFrom(b, needed)].free
         /\ block[FitFrom(b, needed)].size >= needed
<1>1. PICK g : g = CHOOSE h : Fit(h, needed)
  OBVIOUS
<1>2. Fit(g, needed) /\ FitFrom(b, needed) = g[b]
  BY <1>1, FitExists, FitDefined
<1> DEFINE Bad == {a \in DOMAIN block :
                     ~(g[a] = NULL \/ (/\ g[a] \in DOMAIN block /\ block[g[a]].free
                                       /\ block[g[a]].size >= needed))}
<1>3. Blocks(block)
  BY DEF Shape
<1>4. NULL \notin DOMAIN block /\ \A a \in DOMAIN block : a \in Nat
  BY <1>3 DEF Blocks, NULL
<1>5. g[NULL] = NULL
  BY <1>2 DEF Fit
<1>6. ASSUME NEW a \in DOMAIN block
      PROVE  IF block[a].free /\ block[a].size >= needed THEN g[a] = a
             ELSE g[a] = g[block[a].next]
  <2>1. a \in DOMAIN block \cup {NULL} /\ a # NULL
    BY <1>4
  <2> QED BY <1>2, <2>1 DEF Fit
<1>7. Bad = {}
  <2>1. SUFFICES ASSUME Bad # {} PROVE FALSE
    OBVIOUS
  <2>2. Bad \subseteq Int /\ IsFiniteSet(Bad)
    BY <1>4, FS_Subset
  <2>3. PICK e \in Bad : \A a \in Bad : a <= e
    BY <2>1, <2>2, HasMaximum
  <2>4. e \in DOMAIN block /\ ~(block[e].free /\ block[e].size >= needed)
    BY <1>6
  <2>5. PICK n : n = block[e].next /\ g[e] = g[n]
    BY <1>6, <2>4
  <2>6. n # NULL
    BY <1>5, <2>5
  <2>7. n \in DOMAIN block /\ e < n
    BY <2>4, <2>5, <2>6, ShapeFacts
  <2>8. n \in Bad
    BY <2>5, <2>7
  <2>9. n <= e /\ n \in Nat /\ e \in Nat
    BY <1>4, <2>3, <2>4, <2>7, <2>8
  <2> QED BY <2>7, <2>9
<1>8. b # NULL
  BY <1>2, <1>5
<1>9. b \notin Bad /\ b \in DOMAIN block
  BY <1>7, <1>8
<1> QED BY <1>2, <1>9

-----------------------------------------------------------------------------
(* The inductive invariant.  The properties follow from it; by themselves  *)
(* they are not inductive: that a merge keeps the chain needs the links in *)
(* both directions and the arenas apart, and that the counters stay natural*)
(* numbers needs what they count.                                          *)

ArenaType == [base : Pages \ {0}, pages : 1 .. NumPages]
Runs(A)   == {<<A[i].base, A[i].pages>> : i \in DOMAIN A}

MInv ==
  /\ PInv
  /\ arenas \in Seq(ArenaType) /\ ready \in BOOLEAN
  /\ Runs(arenas) \subseteq held
  /\ HInv(block, Runs(arenas), given, usedUnits, freeUnits)

LEMMA RunsGrow ==
  ASSUME NEW A \in Seq(ArenaType), NEW x \in ArenaType, NEW C, C = <<x>> \o A
  PROVE  C \in Seq(ArenaType) /\ Runs(C) = Runs(A) \cup {<<x.base, x.pages>>}
<1>1. PICK y : y = <<x>>
  OBVIOUS
<1>2. y \in Seq(ArenaType) /\ Len(y) = 1 /\ y[1] = x
  BY <1>1
<1>3. PICK n \in Nat : n = Len(A)
  OBVIOUS
<1>4. /\ C \in Seq(ArenaType) /\ Len(C) = n + 1
      /\ \A i \in 1 .. n + 1 : C[i] = IF i = 1 THEN x ELSE A[i - 1]
  <2>1. C = y \o A
    BY <1>1
  <2>2. /\ y \o A \in Seq(ArenaType) /\ Len(y \o A) = Len(y) + Len(A)
        /\ \A i \in 1 .. Len(y) + Len(A) : (y \o A)[i] =
                     IF i <= Len(y) THEN y[i] ELSE A[i - Len(y)]
    BY <1>2, ConcatProperties
  <2>3. PICK k : k = Len(y)
    OBVIOUS
  <2>4. PICK c : c = y \o A
    OBVIOUS
  <2>5. /\ c \in Seq(ArenaType) /\ Len(c) = k + n
        /\ \A i \in 1 .. k + n : c[i] = IF i <= k THEN y[i] ELSE A[i - k]
    BY <1>3, <2>2, <2>3, <2>4, Zenon
  <2>6. C = c /\ k = 1
    BY <1>2, <2>1, <2>3, <2>4, Zenon
  <2> HIDE <1>1, <2>1, <2>2, <2>4
  <2> QED BY <1>2, <2>5, <2>6
<1>5. DOMAIN C = 1 .. n + 1 /\ DOMAIN A = 1 .. n
  BY <1>3, <1>4, LenProperties
<1> HIDE <1>1
<1>6. ASSUME NEW i \in DOMAIN C
      PROVE  <<C[i].base, C[i].pages>> \in Runs(A) \cup {<<x.base, x.pages>>}
  <2>1. CASE i = 1
    BY <1>4, <1>5, <2>1
  <2>2. CASE i # 1
    <3>1. i - 1 \in DOMAIN A /\ C[i] = A[i - 1]
      BY <1>4, <1>5, <2>2
    <3> QED BY <3>1 DEF Runs
  <2> QED BY <2>1, <2>2
<1>7. <<x.base, x.pages>> \in Runs(C)
  <2>1. 1 \in DOMAIN C /\ C[1] = x
    BY <1>4, <1>5
  <2> QED BY <2>1 DEF Runs
<1>8. ASSUME NEW i \in DOMAIN A PROVE <<A[i].base, A[i].pages>> \in Runs(C)
  <2>1. i + 1 \in DOMAIN C /\ C[i + 1] = A[i]
    BY <1>4, <1>5
  <2> QED BY <2>1 DEF Runs
<1>9. Runs(C) \subseteq Runs(A) \cup {<<x.base, x.pages>>}
  BY <1>6 DEF Runs
<1>10. Runs(A) \cup {<<x.base, x.pages>>} \subseteq Runs(C)
  BY <1>7, <1>8 DEF Runs
<1> QED BY <1>4, <1>9, <1>10

(* kheap_add_arena, with what it says of the new block.                    *)
LEMMA GrowStep ==
  ASSUME MInv, NEW n \in Nat \ {0}, NEW s \in FirstRun(n), AddArena(s, n),
         NEW C, C = NewBlocks(s, n), NEW f, f = FirstBlock(s)
  PROVE  /\ PInv' /\ arenas' \in Seq(ArenaType) /\ Runs(arenas') \subseteq held'
         /\ HInv(C, Runs(arenas'), given, usedUnits, freeUnits + ArenaSize(n))
<1>1. /\ PInv /\ arenas \in Seq(ArenaType) /\ Runs(arenas) \subseteq held
      /\ HInv(block, Runs(arenas), given, usedUnits, freeUnits)
  BY DEF MInv
<1>2. s \in free /\ IsFreeRun(s, n)
  BY DEF FirstRun
<1>3. /\ Take(s, n) /\ arenas' = <<[base |-> s, pages |-> n]>> \o arenas
      /\ UNCHANGED <<totalPages, cursor, usable, again>> /\ cursor' \in 0 .. NumPages
  BY <1>1 DEF AddArena, PInv, PmmTypeOK
<1>4. /\ PInv' /\ held' = held \cup {<<s, n>>} /\ s \in Pages /\ s # 0
      /\ n \in 1 .. NumPages /\ Run(s, n) \subseteq free
  BY <1>1, <1>2, <1>3, TakeFacts
<1>5. PICK x : x = [base |-> s, pages |-> n]
  OBVIOUS
<1>6. x \in ArenaType /\ x.base = s /\ x.pages = n
  BY <1>4, <1>5 DEF ArenaType
<1>7. PICK A : A = <<x>> \o arenas
  OBVIOUS
<1>8. A \in Seq(ArenaType) /\ Runs(A) = Runs(arenas) \cup {<<s, n>>} /\ arenas' = A
  <2>1. A \in Seq(ArenaType) /\ Runs(A) = Runs(arenas) \cup {<<x.base, x.pages>>}
    BY <1>1, <1>6, <1>7, RunsGrow
  <2>2. arenas' = A
    BY <1>3, <1>5, <1>7, Zenon
  <2> QED BY <1>6, <2>1, <2>2, Zenon
<1>9. PICK r : r = <<s, n>>
  OBVIOUS
<1>10. r \in RunType /\ r[1] = s /\ r[2] = n
  BY <1>4, <1>9 DEF RunType
<1>11. ASSUME NEW t \in Runs(arenas) PROVE Hi(t) <= Lo(r) \/ Hi(r) <= Lo(t)
  <2>1. t \in RunType /\ t \in held
    BY <1>1 DEF HInv
  <2>2. Run(t[1], t[2]) \cap free = {}
    BY <1>1, <2>1, HeldFacts
  <2>3. Run(t[1], t[2]) \cap Run(r[1], r[2]) = {}
    BY <1>4, <1>10, <2>2
  <2> QED BY <1>10, <2>1, <2>3, ExtentsApart
<1>12. HInv(C, Runs(arenas) \cup {r}, given, usedUnits, freeUnits + ArenaSize(n))
  <2>1. Clear(Runs(arenas), r)
    BY <1>11 DEF Clear
  <2>2. r \in RunType /\ r = <<s, n>>
    BY <1>9, <1>10
  <2>3. PICK S, z : S = Runs(arenas) \cup {r} /\ z = freeUnits + ArenaSize(n)
    OBVIOUS
  <2>4. HInv(C, S, given, usedUnits, z)
    BY <1>1, <2>1, <2>2, <2>3, ArenaStep
  <2> QED BY <2>3, <2>4, Zenon
<1>13. Runs(arenas') = Runs(arenas) \cup {r}
  BY <1>8, <1>9, Zenon
<1>14. Runs(arenas') \subseteq held'
  BY <1>1, <1>4, <1>9, <1>13
<1> HIDE <1>9
<1> QED BY <1>4, <1>8, <1>12, <1>13, <1>14

(* take_block, of the block f of the blocks C.                             *)
LEMMA TakeBlockStep ==
  ASSUME NEW C, NEW R, NEW sum, HInv(C, R, given, usedUnits, sum),
         NEW f \in DOMAIN C, C[f].free = TRUE, NEW needed \in Sizes, needed <= C[f].size,
         TakeBlock(C, f, needed, sum)
  PROVE  HInv(block', R, given', usedUnits', freeUnits')
<1>1. PICK size : size = TakenSize(Split(C, f, needed), f, needed)
  OBVIOUS
<1>2. /\ block' = InUse(Split(C, f, needed), f)
      /\ freeUnits' = sum - size /\ usedUnits' = usedUnits + size
      /\ given' = given \cup {<<f + HeaderUnits, needed>>}
  BY <1>1 DEF TakeBlock
<1>3. PICK D, H, u, v : D = block' /\ H = given' /\ u = usedUnits' /\ v = freeUnits'
  OBVIOUS
<1>4. C[f].free
  OBVIOUS
<1>5. HInv(D, R, H, u, v)
  BY <1>1, <1>2, <1>3, <1>4, TakeStep
<1> QED BY <1>3, <1>5, Zenon

LEMMA KheapInitStep ==
  ASSUME MInv, KheapInit
  PROVE  MInv'
<1>1. ready' = TRUE /\ UNCHANGED <<usedUnits, given>> /\ ready' \in BOOLEAN
  BY DEF KheapInit
<1>2. CASE FirstRun(ArenaPages) = {} /\ UNCHANGED <<pmmVars, block, arenas, freeUnits>>
  BY <1>1, <1>2 DEF MInv, PInv, PmmTypeOK, PagesPartitioned, HeldPages, pmmVars
<1>3. CASE \E s \in FirstRun(ArenaPages) :
             /\ AddArena(s, ArenaPages) /\ block' = NewBlocks(s, ArenaPages)
             /\ freeUnits' = freeUnits + ArenaSize(ArenaPages)
  <2>1. PICK s \in FirstRun(ArenaPages) :
          /\ AddArena(s, ArenaPages) /\ block' = NewBlocks(s, ArenaPages)
          /\ freeUnits' = freeUnits + ArenaSize(ArenaPages)
    BY <1>3
  <2>2. PICK n \in Nat \ {0} : n = ArenaPages
    OBVIOUS
  <2>3. PICK C, f : C = NewBlocks(s, n) /\ f = FirstBlock(s)
    OBVIOUS
  <2>4. /\ PInv' /\ arenas' \in Seq(ArenaType) /\ Runs(arenas') \subseteq held'
        /\ HInv(C, Runs(arenas'), given, usedUnits, freeUnits + ArenaSize(n))
    BY <2>1, <2>2, <2>3, GrowStep
  <2>5. HInv(block', Runs(arenas'), given', usedUnits', freeUnits')
    BY <1>1, <2>1, <2>2, <2>3, <2>4, Zenon
  <2> QED BY <1>1, <2>4, <2>5 DEF MInv
<1> QED BY <1>2, <1>3 DEF KheapInit

LEMMA FirstBlockThere ==
  ASSUME MInv, NEW i \in DOMAIN arenas
  PROVE  FirstBlock(arenas[i].base) \in DOMAIN block
<1>1. PICK r : r = <<arenas[i].base, arenas[i].pages>>
  OBVIOUS
<1>2. r \in Runs(arenas) /\ r[1] = arenas[i].base
  BY <1>1 DEF Runs
<1>3. Firsts(block, Runs(arenas))
  BY DEF MInv, HInv, Shape
<1>4. Lo(r) + MetaUnits \in DOMAIN block
  BY <1>2, <1>3 DEF Firsts
<1>5. FirstBlock(arenas[i].base) = Lo(r) + MetaUnits
  BY <1>2 DEF FirstBlock, Lo
<1> QED BY <1>4, <1>5

LEMMA KmallocFitsStep ==
  ASSUME MInv, NEW needed \in Sizes, KmallocFits(needed)
  PROVE  MInv'
<1>1. PICK i \in Fits(needed) :
        TakeBlock(block, FitFrom(FirstBlock(arenas[i].base), needed), needed, freeUnits)
  BY DEF KmallocFits
<1>2. UNCHANGED <<pmmVars, arenas, ready>>
  BY DEF KmallocFits
<1>3. PICK b, f : b = FirstBlock(arenas[i].base) /\ f = FitFrom(b, needed)
  OBVIOUS
<1>4. b \in DOMAIN block /\ f # NULL
  BY <1>3, FirstBlockThere DEF Fits
<1>5. PICK R : R = Runs(arenas)
  OBVIOUS
<1>6. /\ HInv(block, R, given, usedUnits, freeUnits) /\ R \subseteq RunType /\ ApartRuns(R)
      /\ Shape(block, R) /\ IsFiniteSet(DOMAIN block) /\ Blocks(block)
  BY <1>5 DEF MInv, HInv, Shape
<1>7. f \in DOMAIN block /\ block[f].free /\ block[f].size >= needed
  BY <1>3, <1>4, <1>6, FitFacts
<1>8. block[f].free = TRUE /\ needed <= block[f].size
  <2>1. block[f].free \in BOOLEAN /\ block[f].size \in Nat /\ needed \in Nat
    BY <1>6, <1>7, BlockFacts
  <2> QED BY <1>7, <2>1
<1>9. TakeBlock(block, f, needed, freeUnits)
  BY <1>1, <1>3
<1>10. HInv(block', R, given', usedUnits', freeUnits')
  BY <1>6, <1>7, <1>8, <1>9, TakeBlockStep
<1>11. PInv' /\ arenas' = arenas /\ ready' = ready /\ held' = held
  BY <1>2 DEF MInv, PInv, PmmTypeOK, PagesPartitioned, HeldPages, pmmVars
<1> QED BY <1>5, <1>10, <1>11 DEF MInv

LEMMA KmallocGrowsStep ==
  ASSUME MInv, NEW needed \in Sizes, KmallocGrows(needed)
  PROVE  MInv'
<1>1. PICK n \in Nat \ {0} : n = NeededPages(needed)
  BY NeededPagesType
<1>2. PICK s \in FirstRun(n) :
        /\ AddArena(s, n)
        /\ IF ArenaSize(n) < needed
           THEN /\ block' = NewBlocks(s, n) /\ freeUnits' = freeUnits + ArenaSize(n)
                /\ UNCHANGED <<usedUnits, given>>
           ELSE TakeBlock(NewBlocks(s, n), FirstBlock(s), needed, freeUnits + ArenaSize(n))
  BY <1>1 DEF KmallocGrows
<1>3. ready' = ready /\ ready \in BOOLEAN
  BY DEF KmallocGrows, MInv
<1>4. PICK C, f, sum, z : /\ C = NewBlocks(s, n) /\ f = FirstBlock(s)
                          /\ sum = freeUnits + ArenaSize(n) /\ z = ArenaSize(n)
  OBVIOUS
<1>5. /\ PInv' /\ arenas' \in Seq(ArenaType) /\ Runs(arenas') \subseteq held'
      /\ HInv(C, Runs(arenas'), given, usedUnits, sum)
      /\ f \in DOMAIN C /\ C[f].free = TRUE /\ C[f].size = z
  <2>1. AddArena(s, n) /\ C = NewBlocks(s, n) /\ f = FirstBlock(s)
    BY <1>2, <1>4
  <2>2. /\ PInv' /\ arenas' \in Seq(ArenaType) /\ Runs(arenas') \subseteq held'
        /\ HInv(C, Runs(arenas'), given, usedUnits, freeUnits + ArenaSize(n))
    BY <2>1, GrowStep
  <2>3. f \in DOMAIN C /\ C[f].free = TRUE /\ C[f].size = ArenaSize(n)
    BY <2>1 DEF NewBlocks
  <2> QED BY <1>4, <2>2, <2>3, Zenon
<1>6. HInv(block', Runs(arenas'), given', usedUnits', freeUnits')
  <2>1. CASE z < needed
    <3>1. block' = C /\ freeUnits' = sum /\ UNCHANGED <<usedUnits, given>>
      BY <1>2, <1>4, <2>1
    <3> QED BY <1>5, <3>1, Zenon
  <2>2. CASE ~(z < needed)
    <3>1. TakeBlock(C, f, needed, sum)
      BY <1>2, <1>4, <2>2
    <3>2. needed <= C[f].size
      <4>1. Blocks(C)
        BY <1>5 DEF HInv, Shape
      <4>2. z \in Nat /\ needed \in Nat
        BY <1>5, <4>1, BlockFacts
      <4> QED BY <1>5, <2>2, <4>2
    <3>3. PICK R : R = Runs(arenas')
      OBVIOUS
    <3>4. HInv(block', R, given', usedUnits', freeUnits')
      BY <1>5, <3>1, <3>2, <3>3, TakeBlockStep
    <3> QED BY <3>3, <3>4, Zenon
  <2> QED BY <2>1, <2>2
<1> QED BY <1>3, <1>5, <1>6 DEF MInv

LEMMA KfreeStep ==
  ASSUME MInv, NEW a \in given, Kfree(a[1], a[2])
  PROVE  MInv'
<1>1. PICK R : R = Runs(arenas)
  OBVIOUS
<1>2. HInv(block, R, given, usedUnits, freeUnits)
  BY <1>1 DEF MInv
<1>3. a = <<a[1], a[2]>>
  BY <1>2 DEF HInv, Given
<1>4. PICK b : b = a[1] - HeaderUnits
  OBVIOUS
<1>5. PICK F : F = [block EXCEPT ![b].free = TRUE]
  OBVIOUS
<1>6. PICK size : size = block[b].size
  OBVIOUS
<1>7. /\ usedUnits' = usedUnits - size /\ freeUnits' = freeUnits + size
      /\ block' = MergePrev(MergeNext(F, b), b)
      /\ given' = given \ {a}
      /\ UNCHANGED <<pmmVars, arenas, ready>>
  BY <1>3, <1>4, <1>5, <1>6 DEF Kfree
<1>8. PICK C, H, u, z : C = block' /\ H = given' /\ u = usedUnits' /\ z = freeUnits'
  OBVIOUS
<1>9. HInv(C, R, H, u, z)
  BY <1>2, <1>4, <1>5, <1>6, <1>7, <1>8, FreeStep
<1>10. HInv(block', R, given', usedUnits', freeUnits')
  BY <1>8, <1>9, Zenon
<1>11. PInv' /\ arenas' = arenas /\ ready' = ready /\ held' = held
  BY <1>7 DEF MInv, PInv, PmmTypeOK, PagesPartitioned, HeldPages, pmmVars
<1> QED BY <1>1, <1>10, <1>11 DEF MInv

(* The steps that take or give back pages, and leave the heap alone.       *)
LEMMA PageStep ==
  ASSUME MInv, PInv', Runs(arenas) \subseteq held', UNCHANGED heapVars
  PROVE  MInv'
BY DEF MInv, heapVars

LEMMA InitHolds == MInit => MInv
<1> SUFFICES ASSUME MInit PROVE MInv
  OBVIOUS
<1>1. /\ PmmInit /\ block = << >> /\ arenas = << >> /\ usedUnits = 0 /\ freeUnits = 0
      /\ ready = FALSE /\ given = {}
  BY DEF MInit, Init
<1>2. PInv /\ held = {}
  BY <1>1, PmmInitFacts
<1>3. arenas \in Seq(ArenaType) /\ Runs(arenas) = {}
  <2>1. DOMAIN arenas = {}
    BY <1>1
  <2> QED BY <1>1, <2>1 DEF Runs
<1>4. PICK R : R = Runs(arenas)
  OBVIOUS
<1>5. DOMAIN block = {} /\ R = {} /\ IsFiniteSet({}) /\ Cardinality({}) = 0
  BY <1>1, <1>3, <1>4, FS_EmptySet
<1>6. Shape(block, R) /\ NoPair(block, NULL)
  BY <1>5 DEF Shape, Blocks, Links, Backs, Apart, Inside, Firsts, NoPair
<1>7. Payload(block) = {} /\ Space(R) \ Payload(block) = {} /\ Used(block) = {}
  BY <1>5 DEF Payload, Space, Used
<1>8. Counts(block, R, usedUnits, freeUnits) /\ Given(block, given)
  BY <1>1, <1>5, <1>7 DEF Counts, Given
<1>9. HInv(block, R, given, usedUnits, freeUnits)
  BY <1>5, <1>6, <1>8 DEF HInv, ApartRuns
<1>10. ready \in BOOLEAN
  BY <1>1
<1> QED BY <1>2, <1>3, <1>4, <1>5, <1>9, <1>10 DEF MInv

LEMMA SamePages ==
  ASSUME PInv, UNCHANGED pmmVars
  PROVE  PInv' /\ held' = held
BY DEF PInv, PmmTypeOK, PagesPartitioned, HeldPages, pmmVars

LEMMA MapPageStep ==
  ASSUME MInv, MapPage
  PROVE  MInv'
<1>1. PICK v \in todo :
        IF v \in Identity
        THEN todo' = todo \ {v} /\ UNCHANGED <<pmmVars, table>>
        ELSE LET w == LeafTable(v) IN
             /\ TakePages(w.taken)
             /\ table' = IF w.ok THEN WithEntry(w, v) ELSE w.tables
             /\ todo' = IF w.ok THEN todo \ {v} ELSE {}
  BY DEF MapPage
<1>2. UNCHANGED heapVars /\ PInv /\ Runs(arenas) \subseteq held
  BY DEF MapPage, MInv
<1>3. CASE v \in Identity
  <2>1. UNCHANGED pmmVars
    BY <1>1, <1>3
  <2> QED BY <1>2, <2>1, SamePages, PageStep
<1>4. CASE v \notin Identity
  <2>1. PICK k \in Nat : k = LeafTable(v).taken
    BY LeafWalk
  <2>2. TakePages(k) /\ k \in Int
    BY <1>1, <1>4, <2>1
  <2>3. PInv' /\ held \subseteq held'
    BY <1>2, <2>2, TakePagesFacts
  <2> QED BY <1>2, <2>3, PageStep
<1> QED BY <1>3, <1>4

(* The arenas are never given back.                                        *)
LEMMA GiveBackStep ==
  ASSUME MInv, NEW s, NEW n, GiveBack(s, n)
  PROVE  MInv'
<1>1. Free(s, n) /\ ~IsArena(s) /\ UNCHANGED heapVars /\ PInv /\ Runs(arenas) \subseteq held
  BY DEF GiveBack, MInv
<1>2. PInv' /\ held' = held \ {<<s, n>>}
  BY <1>1, ReleaseFacts
<1>3. <<s, n>> \notin Runs(arenas)
  BY <1>1 DEF Runs, IsArena
<1> QED BY <1>1, <1>2, <1>3, PageStep

LEMMA StepKeeps == MInv /\ [MNext]_allVars => MInv'
<1> SUFFICES ASSUME MInv, [MNext]_allVars PROVE MInv'
  OBVIOUS
<1> USE DEF MInv
<1>1. CASE KheapInit
  BY <1>1, KheapInitStep
<1>2. CASE PagingInit
  <2>1. PICK k \in Int : k = 2 + Gibs
    BY PagingAssumption
  <2>2. TakePages(k) /\ UNCHANGED heapVars
    BY <1>2, <2>1 DEF PagingInit
  <2>3. PInv' /\ held \subseteq held'
    BY <2>2, TakePagesFacts
  <2> QED BY <2>2, <2>3, PageStep
<1>3. ASSUME NEW r \in Regions, MapRegion(r) PROVE MInv'
  <2>1. UNCHANGED <<pmmVars, heapVars>>
    BY <1>3 DEF MapRegion, vars
  <2> QED BY <2>1, SamePages, PageStep
<1>4. CASE MapPage
  BY <1>4, MapPageStep
<1>5. ASSUME NEW n \in Sizes, KmallocFits(n) \/ KmallocGrows(n) PROVE MInv'
  BY <1>5, KmallocFitsStep, KmallocGrowsStep
<1>6. ASSUME NEW a \in given, Kfree(a[1], a[2]) PROVE MInv'
  BY <1>6, KfreeStep
<1>7. CASE TakePage
  BY <1>7, AllocPageFacts, PageStep DEF TakePage
<1>8. ASSUME NEW n \in 1 .. MaxRun, TakeRun(n) PROVE MInv'
  <2>1. n \in Nat \ {0}
    OBVIOUS
  <2> QED BY <1>8, <2>1, AllocContiguousFacts, PageStep DEF TakeRun
<1>9. ASSUME NEW run \in held, GiveBack(run[1], run[2]) PROVE MInv'
  BY <1>9, GiveBackStep
<1>10. CASE UNCHANGED allVars
  <2>1. UNCHANGED <<pmmVars, heapVars>>
    BY <1>10 DEF allVars, vars
  <2> QED BY <2>1, SamePages, PageStep
<1> HIDE DEF MInv
<1> QED BY <1>1, <1>2, <1>3, <1>4, <1>5, <1>6, <1>7, <1>8, <1>9, <1>10 DEF MNext

LEMMA InvPages == MInv => PagesPartitioned
BY DEF MInv, PInv

LEMMA InvTypes == MInv => TypeOK
<1> SUFFICES ASSUME MInv PROVE TypeOK
  OBVIOUS
<1>1. PICK R : R = Runs(arenas)
  OBVIOUS
<1>2. /\ PmmTypeOK /\ arenas \in Seq([base : Pages \ {0}, pages : 1 .. NumPages])
      /\ ready \in BOOLEAN /\ HInv(block, R, given, usedUnits, freeUnits)
  BY <1>1 DEF MInv, PInv, ArenaType
<1>3. R \subseteq RunType /\ Shape(block, R) /\ IsFiniteSet(DOMAIN block)
  BY <1>2 DEF HInv
<1>4. usedUnits = Cardinality(Payload(block)) /\ freeUnits = Cardinality(Space(R) \ Payload(block))
  BY <1>2 DEF HInv, Counts
<1>5. usedUnits \in Nat /\ freeUnits \in Nat
  BY <1>3, <1>4, PayloadInSpace, FS_CardinalityType
<1>6. given \subseteq (Nat \X Sizes)
  BY <1>2 DEF HInv, Given
<1>7. \A a \in DOMAIN block :
        block[a] \in [free : BOOLEAN, size : Nat \ {0}, prev : Nat, next : Nat]
  BY <1>3 DEF Shape, Blocks, BlockType
<1> QED BY <1>2, <1>3, <1>5, <1>6, <1>7 DEF TypeOK

(* The blocks of an arena are those within its run.                        *)
LEMMA OfArena ==
  ASSUME NEW B, NEW R, R \subseteq RunType, ApartRuns(R), Shape(B, R),
         NEW r \in R, NEW a \in DOMAIN B
  PROVE  /\ (Lo(r) <= a /\ a < Hi(r)) <=> Within(B, a, r)
         /\ Within(B, a, r) /\ B[a].next # NULL => Within(B, B[a].next, r)
<1>1. ASSUME NEW c \in DOMAIN B, Lo(r) <= c, c < Hi(r) PROVE Within(B, c, r)
  <2>1. PICK t \in R : Within(B, c, t)
    BY DEF Shape, Inside
  <2>2. c \in Nat /\ End(B, c) \in Nat /\ c + HeaderUnits < End(B, c)
    BY BlockFacts DEF Shape
  <2>3. Lo(t) \in Nat /\ Hi(t) \in Nat /\ Lo(r) \in Nat /\ Hi(r) \in Nat
    BY ExtentFacts
  <2>4. Lo(t) + MetaUnits <= c /\ End(B, c) <= Hi(t)
    BY <2>1 DEF Within
  <2>5. ~(Hi(r) <= Lo(t)) /\ ~(Hi(t) <= Lo(r))
    BY <1>1, <2>2, <2>3, <2>4 DEF HeaderUnits, MetaUnits
  <2>6. r = t
    BY <2>5 DEF ApartRuns
  <2> QED BY <2>1, <2>6
<1>2. ASSUME NEW c \in DOMAIN B, Within(B, c, r)
      PROVE  Lo(r) + MetaUnits <= c /\ End(B, c) <= Hi(r) /\ Lo(r) <= c /\ c < Hi(r)
             /\ c \in Nat /\ End(B, c) \in Nat /\ Lo(r) \in Nat /\ Hi(r) \in Nat
  <2>1. c \in Nat /\ End(B, c) \in Nat /\ c + HeaderUnits < End(B, c)
    BY BlockFacts DEF Shape
  <2>2. Lo(r) \in Nat /\ Hi(r) \in Nat
    BY ExtentFacts
  <2>3. Lo(r) + MetaUnits <= c /\ End(B, c) <= Hi(r)
    BY <1>2 DEF Within
  <2> QED BY <2>1, <2>2, <2>3 DEF HeaderUnits, MetaUnits
<1>3. ASSUME Within(B, a, r), B[a].next # NULL PROVE Within(B, B[a].next, r)
  <2>1. PICK n \in DOMAIN B : n = B[a].next /\ n = End(B, a)
    BY <1>3, ShapeFacts
  <2>2. Lo(r) + MetaUnits <= a /\ End(B, a) <= Hi(r) /\ a \in Nat /\ Lo(r) \in Nat /\ Hi(r) \in Nat
        /\ End(B, a) \in Nat /\ a < End(B, a)
    BY <1>2, <1>3, BlockFacts DEF Shape, HeaderUnits
  <2>3. PICK t \in R : Within(B, n, t)
    BY DEF Shape, Inside
  <2>4. Lo(t) + MetaUnits <= n /\ End(B, n) <= Hi(t) /\ Lo(t) \in Nat /\ Hi(t) \in Nat
        /\ n \in Nat /\ End(B, n) \in Nat /\ n < End(B, n)
    <3>1. Lo(t) \in Nat /\ Hi(t) \in Nat
      BY ExtentFacts
    <3>2. n \in Nat /\ End(B, n) \in Nat /\ n + HeaderUnits < End(B, n)
      BY BlockFacts DEF Shape
    <3> QED BY <2>3, <3>1, <3>2 DEF Within, HeaderUnits
  <2>5. ~(Hi(r) <= Lo(t)) /\ ~(Hi(t) <= Lo(r))
    BY <2>1, <2>2, <2>4 DEF MetaUnits
  <2>6. r = t
    BY <2>5 DEF ApartRuns
  <2> QED BY <2>1, <2>3, <2>6
<1> QED BY <1>1, <1>2, <1>3

LEMMA InvTiling == MInv => Tiling
<1> SUFFICES ASSUME MInv PROVE Tiling
  OBVIOUS
<1>1. PICK R : R = Runs(arenas)
  OBVIOUS
<1>2. R \subseteq RunType /\ ApartRuns(R) /\ Shape(block, R) /\ NoPair(block, NULL)
  BY <1>1 DEF MInv, HInv
<1>3. ASSUME NEW i \in DOMAIN arenas,
             NEW mine, mine = {a \in DOMAIN block : InArena(a, i)},
             NEW first, first = FirstBlock(arenas[i].base)
      PROVE  /\ first \in mine /\ block[first].prev = NULL
             /\ \A a \in mine :
                  \/ block[a].next = NULL /\ End(block, a) = EndOf(i)
                  \/ /\ block[a].next = End(block, a) /\ End(block, a) \in mine
                     /\ block[End(block, a)].prev = a
                     /\ ~(block[a].free /\ block[End(block, a)].free)
  <2>1. PICK r \in R : r[1] = arenas[i].base /\ r[2] = arenas[i].pages
    <3>1. PICK t : t = <<arenas[i].base, arenas[i].pages>>
      OBVIOUS
    <3>2. t \in R
      BY <1>1, <3>1 DEF Runs
    <3>3. t[1] = arenas[i].base /\ t[2] = arenas[i].pages
      BY <3>1
    <3> QED BY <3>2, <3>3
  <2>2. r \in RunType
    BY <1>2
  <2>3. \A a \in DOMAIN block : a \in mine <=> Within(block, a, r)
    <3>1. ASSUME NEW a \in DOMAIN block PROVE a \in mine <=> Within(block, a, r)
      <4>1. a \in Nat
        BY <1>2, BlockFacts DEF Shape
      <4>2. a \div PageUnits \in Run(r[1], r[2]) <=> Lo(r) <= a /\ a < Hi(r)
        BY <2>2, <4>1, PageOfUnit
      <4>3. a \in mine <=> Lo(r) <= a /\ a < Hi(r)
        BY <1>3, <2>1, <4>2 DEF InArena
      <4> QED BY <1>2, <4>3, OfArena
    <3> QED BY <3>1
  <2>4. first = Lo(r) + MetaUnits /\ EndOf(i) = Hi(r)
    BY <1>3, <2>1 DEF FirstBlock, Lo, EndOf, Hi
  <2>5. first \in DOMAIN block /\ block[first].prev = NULL
    BY <1>2, <2>4 DEF Shape, Firsts
  <2>6. first \in mine
    <3>1. Lo(r) \in Nat /\ Hi(r) \in Nat /\ Lo(r) + MetaUnits < Hi(r)
      <4>1. PICK k \in Nat : k = r[2] * PageUnits /\ Hi(r) = Lo(r) + k /\ k > HeaderUnits + MetaUnits
        BY <2>2, ExtentFacts
      <4>2. Lo(r) \in Nat
        BY <2>2, ExtentFacts
      <4> QED BY <4>1, <4>2 DEF HeaderUnits, MetaUnits
    <3>2. Lo(r) <= first /\ first < Hi(r)
      BY <2>4, <3>1 DEF MetaUnits
    <3> QED BY <1>2, <2>3, <2>5, <3>2, OfArena
  <2>7. ASSUME NEW a \in mine
        PROVE  \/ block[a].next = NULL /\ End(block, a) = EndOf(i)
               \/ /\ block[a].next = End(block, a) /\ End(block, a) \in mine
                  /\ block[End(block, a)].prev = a
                  /\ ~(block[a].free /\ block[End(block, a)].free)
    <3>1. a \in DOMAIN block /\ Within(block, a, r)
      BY <1>3, <2>3
    <3>2. CASE block[a].next = NULL
      BY <2>4, <3>1, <3>2 DEF Within
    <3>3. CASE block[a].next # NULL
      <4>1. PICK n \in DOMAIN block : n = block[a].next /\ n = End(block, a) /\ block[n].prev = a
        BY <1>2, <3>1, <3>3, ShapeFacts
      <4>2. n \in mine
        BY <1>2, <2>3, <3>1, <3>3, <4>1, OfArena
      <4>3. ~(block[a].free /\ block[n].free)
        BY <1>2, <3>1, <3>3, <4>1 DEF NoPair, Pair
      <4> QED BY <4>1, <4>2, <4>3
    <3> QED BY <3>2, <3>3
  <2> QED BY <2>5, <2>6, <2>7
<1>4. ASSUME NEW i \in DOMAIN arenas
      PROVE  LET mine == {a \in DOMAIN block : InArena(a, i)}
                 first == FirstBlock(arenas[i].base)
                 end(a) == a + HeaderUnits + block[a].size
             IN  /\ first \in mine /\ block[first].prev = NULL
                 /\ \A a \in mine :
                      \/ block[a].next = NULL /\ end(a) = EndOf(i)
                      \/ /\ block[a].next = end(a) /\ end(a) \in mine
                         /\ block[end(a)].prev = a /\ ~(block[a].free /\ block[end(a)].free)
  <2>1. PICK mine, first : /\ mine = {a \in DOMAIN block : InArena(a, i)}
                           /\ first = FirstBlock(arenas[i].base)
    OBVIOUS
  <2>2. /\ first \in mine /\ block[first].prev = NULL
        /\ \A a \in mine :
             \/ block[a].next = NULL /\ End(block, a) = EndOf(i)
             \/ /\ block[a].next = End(block, a) /\ End(block, a) \in mine
                /\ block[End(block, a)].prev = a
                /\ ~(block[a].free /\ block[End(block, a)].free)
    BY <1>3, <2>1
  <2> QED BY <2>1, <2>2, Zenon DEF End
<1>5. TypeOK
  BY InvTypes
<1> QED BY <1>4, <1>5, Zenon DEF Tiling

(* The blocks in use are as many as the allocations.                       *)
LEMMA AsManyUsed ==
  ASSUME NEW B, NEW G, IsFiniteSet(DOMAIN B), Blocks(B), Given(B, G)
  PROVE  Cardinality(G) = Cardinality(Used(B))
<1> DEFINE own == [g \in G |-> g[1] - HeaderUnits]
<1>1. \A g \in G : g[1] \in Nat /\ g[1] = own[g] + HeaderUnits /\ own[g] \in Used(B)
  BY DEF Given, HeaderUnits
<1>2. own \in Injection(G, Used(B))
  <2>1. own \in [G -> Used(B)]
    BY <1>1
  <2>2. ASSUME NEW g \in G, NEW h \in G, own[g] = own[h] PROVE g = h
    <3>1. g[1] = h[1]
      BY <1>1, <2>2
    <3> QED BY <3>1 DEF Given
  <2> QED BY <2>1, <2>2 DEF Injection, IsInjective
<1>3. own \in Surjection(G, Used(B))
  <2>1. ASSUME NEW a \in Used(B) PROVE \E g \in G : own[g] = a
    <3>1. PICK g \in G : g[1] = a + HeaderUnits
      BY DEF Given
    <3>2. a \in Nat
      BY BlockFacts DEF Used
    <3>3. own[g] = a
      BY <3>1, <3>2 DEF HeaderUnits
    <3> QED BY <3>3
  <2>2. own \in [G -> Used(B)]
    BY <1>1
  <2> QED BY <2>1, <2>2 DEF Surjection
<1>4. IsFiniteSet(Used(B))
  <2>1. Used(B) \in SUBSET DOMAIN B
    BY DEF Used
  <2> QED BY <2>1, FS_Subset
<1>5. IsFiniteSet(G) /\ Cardinality(G) <= Cardinality(Used(B))
  BY <1>2, <1>4, FS_Injection
<1>6. Cardinality(Used(B)) <= Cardinality(G)
  BY <1>3, <1>5, FS_Surjection
<1>7. Cardinality(G) \in Nat /\ Cardinality(Used(B)) \in Nat
  BY <1>4, <1>5, FS_CardinalityType
<1> QED BY <1>5, <1>6, <1>7

LEMMA InvApart == MInv => AllocationsApart
<1> SUFFICES ASSUME MInv PROVE AllocationsApart
  OBVIOUS
<1>1. PICK R : R = Runs(arenas)
  OBVIOUS
<1>2. /\ R \subseteq RunType /\ R \subseteq held /\ Shape(block, R) /\ Blocks(block)
      /\ IsFiniteSet(DOMAIN block) /\ Given(block, given) /\ PInv
  BY <1>1 DEF MInv, HInv, Shape
<1>3. ASSUME NEW a \in given
      PROVE  /\ a[1] \in Nat /\ a[2] \in Nat \ {0} /\ a[1] - HeaderUnits \in DOMAIN block
             /\ ~block[a[1] - HeaderUnits].free
             /\ a[2] <= block[a[1] - HeaderUnits].size
             /\ a[1] + a[2] <= End(block, a[1] - HeaderUnits)
  <2>1. a[1] \in Nat /\ a[2] \in Nat \ {0}
    BY <1>2 DEF Given
  <2>2. PICK b \in Used(block) : b = a[1] - HeaderUnits /\ a[2] <= block[b].size
    BY <1>2 DEF Given
  <2>3. b \in DOMAIN block /\ ~block[b].free
    BY DEF Used
  <2>4. block[b].size \in Nat /\ End(block, b) = b + HeaderUnits + block[b].size /\ b \in Nat
    BY <1>2, <2>3, BlockFacts
  <2>5. a[1] + a[2] <= End(block, b)
    BY <2>1, <2>2, <2>4 DEF HeaderUnits
  <2> QED BY <2>1, <2>2, <2>3, <2>5
<1>4. ASSUME NEW a \in given, NEW u \in a[1] .. a[1] + a[2] - 1
      PROVE  u \div PageUnits \in HeldPages
  <2>1. PICK b \in DOMAIN block : b = a[1] - HeaderUnits /\ a[1] + a[2] <= End(block, b)
    BY <1>3
  <2>2. PICK r \in R : Within(block, b, r)
    BY <1>2 DEF Shape, Inside
  <2>3. b \in Nat /\ End(block, b) \in Nat /\ Lo(r) \in Nat /\ Hi(r) \in Nat
    BY <1>2, BlockFacts, ExtentFacts
  <2>4. a[1] \in Nat /\ a[2] \in Nat
    BY <1>3
  <2>5. Lo(r) + MetaUnits <= b /\ End(block, b) <= Hi(r)
    BY <2>2 DEF Within
  <2>6. u \in Nat /\ Lo(r) <= u /\ u < Hi(r)
    BY <2>1, <2>3, <2>4, <2>5 DEF HeaderUnits, MetaUnits
  <2>7. u \div PageUnits \in Run(r[1], r[2])
    BY <1>2, <2>6, PageOfUnit
  <2> QED BY <1>2, <2>7, HeldFacts
<1>5. ASSUME NEW a \in given, NEW c \in given, a # c
      PROVE  a[1] + a[2] <= c[1] \/ c[1] + c[2] <= a[1]
  <2>1. PICK b \in DOMAIN block : b = a[1] - HeaderUnits /\ a[1] + a[2] <= End(block, b)
    BY <1>3
  <2>2. PICK d \in DOMAIN block : d = c[1] - HeaderUnits /\ c[1] + c[2] <= End(block, d)
    BY <1>3
  <2>3. /\ a[1] \in Nat /\ a[2] \in Nat /\ c[1] \in Nat /\ c[2] \in Nat
        /\ b \in Nat /\ d \in Nat /\ End(block, b) \in Nat /\ End(block, d) \in Nat
    BY <1>2, <1>3, BlockFacts
  <2>4. a[1] # c[1]
    BY <1>2, <1>5 DEF Given
  <2>5. b < d \/ d < b
    BY <2>1, <2>2, <2>3, <2>4 DEF HeaderUnits
  <2>6. b < d => End(block, b) <= d
    BY <1>2 DEF Shape, Apart
  <2>7. d < b => End(block, d) <= b
    BY <1>2 DEF Shape, Apart
  <2> QED BY <2>1, <2>2, <2>3, <2>5, <2>6, <2>7 DEF HeaderUnits
<1>6. Cardinality(given) = Cardinality({b \in DOMAIN block : ~block[b].free})
  BY <1>2, AsManyUsed DEF Used
<1> QED BY <1>3, <1>4, <1>5, <1>6 DEF AllocationsApart

-----------------------------------------------------------------------------
LEMMA Invariance == MSpec => []MInv
BY InitHolds, StepKeeps, PTL DEF MSpec

(* pmm_alloc_page, pmm_alloc_contiguous and the free functions, called by  *)
(* the heap, the page tables and the drivers in any order, hand out no page*)
(* twice, lose none, and keep the count of free pages exact.               *)
THEOREM PagesStayApart == MSpec => []PagesPartitioned
BY Invariance, InvPages, PTL

(* Whatever kmalloc, its new arenas and kfree do, the blocks of each arena *)
(* tile it, their chain agrees in both directions, and no two neighbours   *)
(* are free.                                                               *)
THEOREM ArenasStayTiled == MSpec => []Tiling
BY Invariance, InvTiling, PTL

(* What kmalloc returned and kfree has not taken back lies in pages of the *)
(* heap, inside a block in use of its own, apart from every other.         *)
THEOREM AllocationsStayApart == MSpec => []AllocationsApart
BY Invariance, InvApart, PTL

-----------------------------------------------------------------------------
(* The page tables.  First the arithmetic of page numbers.                 *)

LEMMA Multiple ==
  ASSUME NEW m \in Nat, NEW x \in Nat, NEW y \in Nat, x <= y
  PROVE  m * x <= m * y /\ m * x \in Nat
<1>1. PICK d \in Nat : y = x + d
  BY y = x + (y - x), y - x \in Nat
<1>2. m * d \in Nat /\ m * x \in Nat
  OBVIOUS
<1>3. m * y = m * x + m * d
  BY <1>1
<1> QED BY <1>2, <1>3

LEMMA Quotient ==
  ASSUME NEW m \in Nat \ {0}, NEW v \in Nat
  PROVE  \E q \in Nat, k \in 0 .. m - 1 : q = v \div m /\ k = v % m /\ v = m * q + k
OBVIOUS

LEMMA QuotientIs ==
  ASSUME NEW m \in Nat \ {0}, NEW v \in Nat, NEW p \in Nat, NEW k \in 0 .. m - 1,
         v = m * p + k
  PROVE  v \div m = p /\ v % m = k
<1>1. PICK q \in Nat, r \in 0 .. m - 1 : q = v \div m /\ r = v % m /\ v = m * q + r
  BY Quotient
<1>2. p + 1 <= q => m * (p + 1) <= m * q
  BY Multiple
<1>3. q + 1 <= p => m * (q + 1) <= m * p
  BY Multiple
<1>4. m * (p + 1) = m * p + m /\ m * (q + 1) = m * q + m
  OBVIOUS
<1>5. PICK x \in Nat, y \in Nat : x = m * p /\ y = m * q
  OBVIOUS
<1>6. p = q
  BY <1>1, <1>2, <1>3, <1>4, <1>5
<1> QED BY <1>1, <1>6

LEMMA QuotientTwice ==
  ASSUME NEW m \in Nat \ {0}, NEW n \in Nat \ {0}, NEW v \in Nat
  PROVE  v \div (m * n) = (v \div m) \div n
<1>1. PICK q \in Nat, r \in 0 .. m - 1 : q = v \div m /\ r = v % m /\ v = m * q + r
  BY Quotient
<1>2. PICK p \in Nat, s \in 0 .. n - 1 : p = q \div n /\ s = q % n /\ q = n * p + s
  BY Quotient
<1>3. m * q = m * (n * p) + m * s
  BY <1>2
<1>4. m * (n * p) = (m * n) * p
  OBVIOUS
<1>5. s + 1 <= n /\ s + 1 \in Nat
  OBVIOUS
<1>6. m * (s + 1) <= m * n /\ m * (s + 1) = m * s + m
  BY <1>5, Multiple
<1>7. PICK x \in Nat, y \in Nat : x = m * s /\ y = m * n
  OBVIOUS
<1>8. PICK z \in Nat : z = (m * n) * p
  OBVIOUS
<1>9. v = z + (x + r) /\ x + r \in 0 .. y - 1
  BY <1>1, <1>3, <1>4, <1>6, <1>7, <1>8
<1>10. y \in Nat \ {0}
  BY <1>9
<1>11. v = y * p + (x + r)
  BY <1>7, <1>8, <1>9
<1>12. v \div y = p
  BY <1>9, <1>10, <1>11, QuotientIs
<1> QED BY <1>1, <1>2, <1>7, <1>12

LEMMA Spans ==
  /\ Span[0 + 1] = 1 /\ Span[1 + 1] = Entries /\ Span[2 + 1] = Entries * Entries
  /\ Span[3 + 1] = Entries * Entries * Entries
BY DEF Span

(* The indices of a page spell its number.                                 *)
LEMMA Digits ==
  ASSUME NEW v \in Virtual
  PROVE  /\ v \in Nat
         /\ At(v, 0) \in Index /\ At(v, 1) \in Index /\ At(v, 2) \in Index /\ At(v, 3) \in Index
         /\ v = ((At(v, 3) * Entries + At(v, 2)) * Entries + At(v, 1)) * Entries + At(v, 0)
         /\ At(v, 3) = v \div (Entries * Entries * Entries)
<1>1. PICK E \in Nat \ {0} : E = Entries
  BY PagingAssumption
<1>2. v \in Nat /\ v < E * E * (E * E)
  <2>1. PICK x \in Nat : x = E * E * (E * E)
    OBVIOUS
  <2>2. v \in 0 .. x - 1
    BY <1>1, <2>1 DEF Virtual, PagesPerGib
  <2> QED BY <2>1, <2>2
<1>3. PICK p \in Nat, d \in 0 .. E - 1 : p = v \div E /\ d = v % E /\ v = E * p + d
  BY <1>2, Quotient
<1>4. PICK q \in Nat, c \in 0 .. E - 1 : q = p \div E /\ c = p % E /\ p = E * q + c
  BY Quotient
<1>5. PICK r \in Nat, b \in 0 .. E - 1 : r = q \div E /\ b = q % E /\ q = E * r + b
  BY Quotient
<1>6. v \div (E * E) = q /\ v \div (E * E * E) = r
  <2>1. PICK y \in Nat \ {0} : y = E * E
    <3>1. E * 1 <= E * E
      BY Multiple
    <3> QED BY <3>1
  <2>2. v \div y = q
    BY <1>2, <1>3, <1>4, <2>1, QuotientTwice
  <2>3. v \div (y * E) = (v \div y) \div E
    BY <1>2, <2>1, QuotientTwice
  <2> QED BY <1>5, <2>1, <2>2, <2>3
<1>7. r \in 0 .. E - 1
  <2>1. SUFFICES ASSUME E <= r PROVE FALSE
    OBVIOUS
  <2>2. E * E <= E * r
    BY <2>1, Multiple
  <2>3. E * E <= q /\ E * E \in Nat
    <3>1. PICK x \in Nat, y \in Nat : x = E * E /\ y = E * r
      OBVIOUS
    <3> QED BY <1>5, <2>2, <3>1
  <2>4. E * (E * E) <= E * q /\ E * (E * E) \in Nat
    BY <2>3, Multiple
  <2>5. E * (E * E) <= p
    <3>1. PICK x \in Nat, y \in Nat : x = E * (E * E) /\ y = E * q
      OBVIOUS
    <3> QED BY <1>4, <2>4, <3>1
  <2>6. E * (E * (E * E)) <= E * p
    BY <2>4, <2>5, Multiple
  <2>7. E * (E * (E * E)) = E * E * (E * E)
    OBVIOUS
  <2>8. PICK x \in Nat, y \in Nat : x = E * E * (E * E) /\ y = E * p
    OBVIOUS
  <2> QED BY <1>2, <1>3, <2>6, <2>7, <2>8
<1>8. r % E = r
  <2>1. r = E * 0 + r
    OBVIOUS
  <2> QED BY <1>7, <2>1, QuotientIs
<1>9. At(v, 0) = d /\ At(v, 1) = c /\ At(v, 2) = b /\ At(v, 3) = r
  <2>1. v \div 1 = v
    BY <1>2
  <2>2. At(v, 0) = (v \div 1) % E
    BY <1>1, Spans DEF At
  <2>3. At(v, 1) = (v \div E) % E
    BY <1>1, Spans DEF At
  <2>4. At(v, 2) = (v \div (E * E)) % E
    BY <1>1, Spans DEF At
  <2>5. At(v, 3) = (v \div (E * E * E)) % E
    BY <1>1, Spans DEF At
  <2> QED BY <1>3, <1>4, <1>5, <1>6, <1>8, <2>1, <2>2, <2>3, <2>4, <2>5
<1>10. v = ((r * E + b) * E + c) * E + d
  <2>1. E * r + b = r * E + b /\ E * q + c = q * E + c /\ E * p + d = p * E + d
    OBVIOUS
  <2> QED BY <1>3, <1>4, <1>5, <2>1
<1> QED BY <1>1, <1>2, <1>6, <1>7, <1>9, <1>10 DEF Index

-----------------------------------------------------------------------------
(* What pmm_alloc_page returns, call after call.                           *)

LEMMA Distances ==
  ASSUME NEW p \in Pages, cursor \in 0 .. NumPages
  PROVE  Distance(p) = IF cursor <= p THEN p - cursor ELSE p - cursor + NumPages
<1>1. PICK x \in Int : x = p - cursor /\ -NumPages <= x /\ x < NumPages
  BY DEF Pages
<1>2. x >= 0 => x % NumPages = x
  <2>1. x = NumPages * 0 + x
    OBVIOUS
  <2> QED BY <1>1, <2>1, QuotientIs
<1>3. x < 0 => x % NumPages = x + NumPages
  <2>1. PICK q \in Int, k \in 0 .. NumPages - 1 : k = x % NumPages /\ x = NumPages * q + k
    OBVIOUS
  <2>2. CASE q \in Nat
    <3>1. NumPages * q \in Nat
      BY <2>2
    <3> QED BY <2>1, <3>1
  <2>3. CASE q = -1
    <3>1. NumPages * q = -NumPages
      BY <2>3
    <3> QED BY <2>1, <3>1
  <2>4. CASE -q - 2 \in Nat
    <3>1. PICK d \in Nat : d = -q - 2
      BY <2>4
    <3>2. NumPages * d \in Nat
      OBVIOUS
    <3>3. q = -2 - d
      BY <3>1
    <3>4. NumPages * q = -NumPages - NumPages - NumPages * d
      BY <3>3
    <3> QED BY <1>1, <2>1, <3>2, <3>4
  <2> QED BY <2>2, <2>3, <2>4
<1>4. Distance(p) = x % NumPages
  BY <1>1 DEF Distance
<1>5. x >= 0 <=> cursor <= p
  BY <1>1 DEF Pages
<1> QED BY <1>1, <1>2, <1>3, <1>4, <1>5

LEMMA DistancesApart ==
  ASSUME cursor \in 0 .. NumPages, NEW p \in Pages, NEW q \in Pages
  PROVE  /\ Distance(p) \in Nat /\ Distance(q) \in Nat
         /\ Distance(p) = Distance(q) => p = q
<1>1. PICK a, b, c : a = Distance(p) /\ b = Distance(q) /\ c = cursor
  OBVIOUS
<1>2. /\ a = IF c <= p THEN p - c ELSE p - c + NumPages
      /\ b = IF c <= q THEN q - c ELSE q - c + NumPages
  BY <1>1, Distances
<1> QED BY <1>1, <1>2 DEF Pages

(* Every rank is that of a free page, and no two have the same.            *)
LEMMA RankIs ==
  ASSUME PInv, NEW k \in 1 .. Cardinality(free)
  PROVE  \E p \in free : Rank(p) = k
<1> DEFINE C == {Distance(p) : p \in free}
<1>1. /\ IsFiniteSet(free) /\ free \subseteq Pages /\ cursor \in 0 .. NumPages
      /\ Cardinality(free) \in Nat
  BY FreeFinite DEF PInv, PmmTypeOK
<1>2. C \subseteq Int
  BY <1>1, DistancesApart
<1>3. ASSUME NEW S \in SUBSET free, NEW D, D = {Distance(p) : p \in S}
      PROVE  IsFiniteSet(D) /\ Cardinality(D) = Cardinality(S)
  <2> DEFINE f == [p \in S |-> Distance(p)]
  <2>1. f \in [S -> D] /\ \A p \in S : f[p] = Distance(p)
    BY <1>3
  <2>2. \A p, q \in S : f[p] = f[q] => p = q
    BY <1>1, <2>1, DistancesApart
  <2>3. \A d \in D : \E p \in S : f[p] = d
    BY <1>3, <2>1
  <2>4. IsFiniteSet(S)
    BY <1>1, FS_Subset
  <2> HIDE DEF f
  <2>5. f \in Bijection(S, D)
    BY <2>1, <2>2, <2>3 DEF Bijection, Injection, Surjection, IsInjective
  <2> QED BY <2>4, <2>5, FS_Bijection DEF ExistsBijection
<1> HIDE DEF C
<1>4. IsFiniteSet(C) /\ Cardinality(C) = Cardinality(free)
  BY <1>3 DEF C
<1>5. PICK e \in C : Cardinality({c \in C : c < e}) = k - 1
  BY <1>2, <1>4, RankTaken
<1>6. PICK p \in free : Distance(p) = e
  BY DEF C
<1>7. PICK S, B : S = {q \in free : Distance(q) <= Distance(p)} /\ B = {c \in C : c < e}
  OBVIOUS
<1>8. Cardinality(S) = Cardinality(B \cup {e})
  <2>1. \A q \in free : Distance(q) \in Nat
    BY <1>1, DistancesApart
  <2>2. B \cup {e} = {Distance(q) : q \in S}
    BY <1>6, <1>7, <2>1 DEF C
  <2> QED BY <1>3, <1>7, <2>2
<1>9. IsFiniteSet(B) /\ e \notin B
  BY <1>2, <1>4, <1>7, FS_Subset
<1>10. Cardinality(B \cup {e}) = Cardinality(B) + 1
  BY <1>9, FS_AddElement
<1>11. Rank(p) = Cardinality(S) /\ Cardinality(B) = k - 1
  BY <1>5, <1>7 DEF Rank
<1> QED BY <1>8, <1>10, <1>11

LEMMA NthIs ==
  ASSUME PInv, NEW k \in Nat \ {0}
  PROVE  /\ Nth(k) = 0 \/ (Nth(k) \in free /\ Rank(Nth(k)) = k)
         /\ k <= Cardinality(free) => Nth(k) # 0
<1>1. Cardinality(free) \in Nat /\ 0 \notin free
  BY FreeFinite
<1>2. CASE k > Cardinality(free)
  BY <1>1, <1>2 DEF Nth
<1>3. CASE ~(k > Cardinality(free))
  <2>1. k \in 1 .. Cardinality(free)
    BY <1>1, <1>3
  <2>2. \E p \in free : Rank(p) = k
    BY <2>1, RankIs
  <2>3. PICK x : x = CHOOSE p \in free : Rank(p) = k
    OBVIOUS
  <2>4. x \in free /\ Rank(x) = k
    BY <2>2, <2>3
  <2>5. Nth(k) = x
    BY <1>3, <2>3 DEF Nth
  <2> QED BY <1>1, <2>4, <2>5
<1> QED BY <1>2, <1>3

(* The first k pages are taken for good.                                   *)
LEMMA NthTaken ==
  ASSUME PInv, NEW k \in Int, TakePages(k), NEW j \in 1 .. k, Nth(j) # 0
  PROVE  <<Nth(j), 1>> \in held' /\ Nth(j) \in free
<1>1. Nth(j) \in free /\ Rank(Nth(j)) = j
  BY NthIs
<1>2. Nth(j) \in Taken(k)
  BY <1>1 DEF Taken
<1> QED BY <1>1, <1>2 DEF TakePages

-----------------------------------------------------------------------------
(* The page tables T under the root r, of which m says what pages they     *)
(* take, at what level each stands and what number leads to it: the place  *)
(* of an entry is fixed, so what it must hold is.                          *)

EntryType == [to : Nat, present : BOOLEAN, huge : BOOLEAN]
TableType == [Pages -> [Index -> EntryType]]

Number(m, t, i) == m.prefix[t] * Entries + i

Placed(e, t, i, m) ==
  /\ e.huge => e.present /\ m.level[t] = 3 /\ e.to = Number(m, t, i) * Entries
  /\ e.present /\ ~e.huge /\ m.level[t] < 4 =>
       /\ e.to \in m.pages /\ m.level[e.to] = m.level[t] + 1
       /\ m.prefix[e.to] = Number(m, t, i)
  /\ e.present /\ m.level[t] = 4 => e.to = Number(m, t, i)

Points(e, t) == e.present /\ ~e.huge /\ e.to = t

Rooted(T, r, m) ==
  \A t \in m.pages \ {r} : \E s \in m.pages, i \in Index :
    Points(T[s][i], t) /\ m.level[t] = m.level[s] + 1

Places(r, m) ==
  /\ m.pages \subseteq Pages \ {0} /\ r \in m.pages
  /\ m.level[r] = 1 /\ m.prefix[r] = 0
  /\ \A t \in m.pages : m.level[t] \in 1 .. 4 /\ m.prefix[t] \in Nat

Tree(T, r, m) ==
  /\ T \in TableType /\ Places(r, m) /\ Rooted(T, r, m)
  /\ \A t \in m.pages, i \in Index : Placed(T[t][i], t, i, m)

(* No entry once present is ever changed.                                  *)
Keeps(T, U, S) == \A t \in S, i \in Index : T[t][i].present => U[t][i] = T[t][i]

Grafted(m, at, i, n) ==
  [pages  |-> m.pages \cup {n},
   level  |-> [t \in m.pages \cup {n} |-> IF t = n THEN m.level[at] + 1 ELSE m.level[t]],
   prefix |-> [t \in m.pages \cup {n} |-> IF t = n THEN Number(m, at, i) ELSE m.prefix[t]]]

LEMMA EntryFacts ==
  /\ Absent \in EntryType /\ ~Absent.present /\ ~Absent.huge
  /\ \A p \in Nat : /\ Pointer(p) \in EntryType /\ Points(Pointer(p), p)
                    /\ Huge(p) \in EntryType /\ Huge(p).present /\ Huge(p).huge /\ Huge(p).to = p
BY DEF EntryType, Absent, Pointer, Huge, Points

LEMMA NumberType ==
  ASSUME NEW r, NEW m, Places(r, m), NEW t \in m.pages, NEW i \in Index
  PROVE  Number(m, t, i) \in Nat /\ m.prefix[t] \in Nat /\ m.level[t] \in 1 .. 4
<1>1. Entries \in Nat /\ i \in Nat /\ m.prefix[t] \in Nat
  BY PagingAssumption DEF Places, Index
<1>2. m.prefix[t] * Entries \in Nat
  BY <1>1
<1> QED BY <1>1, <1>2 DEF Number, Places

(* Entry i of the table at is made to point to a new table in page n.      *)
Linked(T, at, i, n) == [T EXCEPT ![n] = Zeroed(@), ![at][i] = Pointer(n)]

LEMMA Graft ==
  ASSUME NEW T, NEW r, NEW m, Tree(T, r, m), NEW at \in m.pages, m.level[at] \in 1 .. 3,
         NEW i \in Index, ~T[at][i].present, NEW n \in Pages \ {0}, n \notin m.pages,
         NEW U, U = Linked(T, at, i, n)
  PROVE  Tree(U, r, Grafted(m, at, i, n)) /\ Keeps(T, U, m.pages) /\ U[at][i] = Pointer(n)
<1> DEFINE g == Grafted(m, at, i, n)
<1>1. /\ T \in TableType /\ Places(r, m) /\ Rooted(T, r, m)
      /\ \A t \in m.pages, j \in Index : Placed(T[t][j], t, j, m)
  BY DEF Tree
<1>2. m.pages \subseteq Pages /\ n # at /\ n \in Nat
  BY <1>1 DEF Places, Pages
<1>3. PICK z : z = Zeroed(T[n])
  OBVIOUS
<1>4. z \in [Index -> EntryType] /\ \A j \in Index : z[j] = Absent
  BY <1>3, EntryFacts DEF Zeroed
<1>5. PICK e : e = [T[at] EXCEPT ![i] = Pointer(n)]
  OBVIOUS
<1>6. U = [[T EXCEPT ![n] = z] EXCEPT ![at] = e]
  BY <1>1, <1>2, <1>3, <1>5 DEF TableType, Linked
<1>7. T[at] \in [Index -> EntryType]
  BY <1>1, <1>2 DEF TableType
<1>8. /\ e \in [Index -> EntryType] /\ e[i] = Pointer(n)
      /\ \A j \in Index \ {i} : e[j] = T[at][j]
  BY <1>2, <1>5, <1>7, EntryFacts
<1>9. /\ U \in TableType /\ U[n] = z /\ U[at] = e
      /\ \A t \in Pages \ {n, at} : U[t] = T[t]
  <2>1. PICK W : W = [T EXCEPT ![n] = z]
    OBVIOUS
  <2>2. W \in TableType /\ W[n] = z /\ \A t \in Pages \ {n} : W[t] = T[t]
    BY <1>1, <1>4, <2>1 DEF TableType
  <2>3. U = [W EXCEPT ![at] = e] /\ at \in Pages /\ n \in Pages /\ n # at
    BY <1>2, <1>6, <2>1
  <2> QED BY <1>8, <2>2, <2>3 DEF TableType
<1>10. Keeps(T, U, m.pages)
  BY <1>2, <1>8, <1>9 DEF Keeps
<1>11. /\ g.pages = m.pages \cup {n}
       /\ g.level[n] = m.level[at] + 1 /\ g.prefix[n] = Number(m, at, i)
       /\ \A t \in m.pages : g.level[t] = m.level[t] /\ g.prefix[t] = m.prefix[t]
  BY DEF Grafted
<1> HIDE DEF g
<1>12. \A t \in m.pages, j \in Index : Number(g, t, j) = Number(m, t, j)
  BY <1>11 DEF Number
<1>13. Places(r, g)
  <2>1. Number(m, at, i) \in Nat
    BY <1>1, NumberType
  <2> QED BY <1>1, <1>11, <2>1 DEF Places
<1>14. Rooted(U, r, g)
  <2>1. ASSUME NEW t \in m.pages \ {r}
        PROVE  \E s \in g.pages, j \in Index : Points(U[s][j], t) /\ g.level[t] = g.level[s] + 1
    <3>1. PICK s \in m.pages, j \in Index : Points(T[s][j], t) /\ m.level[t] = m.level[s] + 1
      BY <1>1 DEF Rooted
    <3>2. U[s][j] = T[s][j]
      BY <1>10, <3>1 DEF Keeps, Points
    <3> QED BY <1>11, <3>1, <3>2
  <2>2. Points(U[at][i], n) /\ g.level[n] = g.level[at] + 1
    BY <1>2, <1>8, <1>9, <1>11, EntryFacts
  <2>3. ASSUME NEW t \in g.pages \ {r}
        PROVE  \E s \in g.pages, j \in Index : Points(U[s][j], t) /\ g.level[t] = g.level[s] + 1
    <3>1. CASE t = n
      <4>1. at \in g.pages
        BY <1>11
      <4> QED BY <2>2, <3>1, <4>1
    <3>2. CASE t # n
      BY <1>11, <2>1, <3>2
    <3> QED BY <3>1, <3>2
  <2> QED BY <2>3 DEF Rooted
<1>15. ASSUME NEW t \in g.pages, NEW j \in Index PROVE Placed(U[t][j], t, j, g)
  <2>1. CASE t = n
    <3>1. ~U[t][j].present /\ ~U[t][j].huge
      BY <1>4, <1>9, <2>1, EntryFacts
    <3> QED BY <3>1 DEF Placed
  <2>2. CASE t = at /\ j = i
    <3>1. U[t][j].present /\ ~U[t][j].huge /\ U[t][j].to = n
      BY <1>2, <1>8, <1>9, <2>2, EntryFacts DEF Points
    <3>2. /\ n \in g.pages /\ g.level[n] = g.level[t] + 1 /\ g.prefix[n] = Number(g, t, j)
          /\ g.level[t] \in 1 .. 3
      BY <1>11, <1>12, <2>2
    <3> QED BY <3>1, <3>2 DEF Placed
  <2>3. CASE t # n /\ ~(t = at /\ j = i)
    <3>1. t \in m.pages /\ U[t][j] = T[t][j]
      BY <1>2, <1>8, <1>9, <1>11, <2>3
    <3>2. Placed(T[t][j], t, j, m)
      BY <1>1, <3>1
    <3>3. PICK x : x = T[t][j]
      OBVIOUS
    <3> QED BY <1>11, <1>12, <3>1, <3>2, <3>3 DEF Placed
  <2> QED BY <2>1, <2>2, <2>3
<1> QED BY <1>8, <1>9, <1>10, <1>13, <1>14, <1>15 DEF Tree, g

LEMMA NewLeaf ==
  ASSUME NEW T, NEW r, NEW m, Tree(T, r, m), NEW at \in m.pages, m.level[at] = 4,
         NEW i \in Index, ~T[at][i].present,
         NEW U, U = [T EXCEPT ![at][i] = Pointer(Number(m, at, i))]
  PROVE  Tree(U, r, m) /\ Keeps(T, U, m.pages) /\ U[at][i].present
<1>1. /\ T \in TableType /\ Places(r, m) /\ Rooted(T, r, m)
      /\ \A t \in m.pages, j \in Index : Placed(T[t][j], t, j, m)
  BY DEF Tree
<1>2. PICK v \in Nat : v = Number(m, at, i)
  BY <1>1, NumberType
<1>3. PICK e : e = [T[at] EXCEPT ![i] = Pointer(v)]
  OBVIOUS
<1>4. U = [T EXCEPT ![at] = e] /\ m.pages \subseteq Pages
  BY <1>1, <1>2, <1>3 DEF Places
<1>5. T[at] \in [Index -> EntryType]
  BY <1>1, <1>4 DEF TableType
<1>6. /\ e \in [Index -> EntryType] /\ e[i] = Pointer(v)
      /\ \A j \in Index \ {i} : e[j] = T[at][j]
  BY <1>3, <1>5, EntryFacts
<1>7. U \in TableType /\ U[at] = e /\ \A t \in Pages \ {at} : U[t] = T[t]
  BY <1>1, <1>4, <1>6 DEF TableType
<1>8. Keeps(T, U, m.pages)
  BY <1>4, <1>6, <1>7 DEF Keeps
<1>9. Rooted(U, r, m)
  <2>1. ASSUME NEW t \in m.pages \ {r}
        PROVE  \E s \in m.pages, j \in Index : Points(U[s][j], t) /\ m.level[t] = m.level[s] + 1
    <3>1. PICK s \in m.pages, j \in Index : Points(T[s][j], t) /\ m.level[t] = m.level[s] + 1
      BY <1>1 DEF Rooted
    <3>2. U[s][j] = T[s][j]
      BY <1>8, <3>1 DEF Keeps, Points
    <3> QED BY <3>1, <3>2
  <2> QED BY <2>1 DEF Rooted
<1>10. ASSUME NEW t \in m.pages, NEW j \in Index PROVE Placed(U[t][j], t, j, m)
  <2>1. CASE t = at /\ j = i
    <3>1. U[t][j].present /\ ~U[t][j].huge /\ U[t][j].to = v
      BY <1>6, <1>7, <2>1, EntryFacts DEF Points
    <3> QED BY <1>2, <2>1, <3>1 DEF Placed
  <2>2. CASE ~(t = at /\ j = i)
    <3>1. U[t][j] = T[t][j]
      BY <1>4, <1>6, <1>7, <2>2
    <3> QED BY <1>1, <3>1
  <2> QED BY <2>1, <2>2
<1>11. U[at][i].present
  BY <1>6, <1>7, EntryFacts DEF Points
<1> QED BY <1>1, <1>7, <1>8, <1>9, <1>10, <1>11 DEF Tree

(* A walk under way through the tables m describes, of which those outside *)
(* S are the pages it has taken.                                           *)
Walking(w, r, m, S) ==
  /\ IsWalk(w) /\ Tree(w.tables, r, m) /\ S \subseteq m.pages
  /\ \A t \in m.pages \ S : \E j \in 1 .. w.taken : t = Nth(j)
  /\ w.ok => w.at \in m.pages

Extends(m, g) ==
  m.pages \subseteq g.pages
  /\ \A t \in m.pages : g.level[t] = m.level[t] /\ g.prefix[t] = m.prefix[t]

(* What table_child_or_create does for entry i of a table.                 *)
Descends(w, x, r, m, S, i) ==
  \E g : /\ Walking(x, r, g, S) /\ Extends(m, g) /\ Keeps(w.tables, x.tables, m.pages)
         /\ x.ok => /\ g.level[x.at] = m.level[w.at] + 1
                    /\ g.prefix[x.at] = Number(m, w.at, i)
                    /\ Points(x.tables[w.at][i], x.at)

LEMMA WalkFields ==
  ASSUME NEW w, IsWalk(w)
  PROVE  w.ok \in BOOLEAN /\ w.taken \in Nat
<1>1. PICK T : w \in Walks(T)
  BY DEF IsWalk
<1> QED BY <1>1 DEF Walks

LEMMA ChildIs ==
  ASSUME NEW w, IsWalk(w), w.ok, NEW i, NEW x, x = Child(w, i),
         NEW new, new = Nth(w.taken + 1), NEW e, e = w.tables[w.at][i]
  PROVE  /\ e.present => x.ok /\ x.taken = w.taken /\ x.at = e.to /\ x.tables = w.tables
         /\ ~e.present /\ new = 0 => ~x.ok /\ x.taken = w.taken /\ x.tables = w.tables
         /\ ~e.present /\ new # 0 =>
              /\ x.ok /\ x.taken = w.taken + 1 /\ x.at = new
              /\ x.tables = Linked(w.tables, w.at, i, new)
<1>1. PICK T : w \in Walks(T)
  BY DEF IsWalk
<1>2. new = Nth(w.taken + 1) /\ x = Child(w, i)
  OBVIOUS
<1>3. PICK y : y = Linked(w.tables, w.at, i, new)
  OBVIOUS
<1>5. CASE e.present
  <2>1. x = [w EXCEPT !.at = e.to]
    BY <1>2, <1>3, <1>5 DEF Child
  <2>2. x.ok = w.ok /\ x.taken = w.taken /\ x.at = e.to /\ x.tables = w.tables
    BY <1>1, <2>1 DEF Walks
  <2> QED BY <1>2, <1>3, <1>5, <2>2
<1>6. CASE ~e.present /\ new = 0
  <2>1. x = [w EXCEPT !.ok = FALSE]
    BY <1>2, <1>3, <1>6 DEF Child
  <2>2. x.ok = FALSE /\ x.taken = w.taken /\ x.tables = w.tables
    BY <1>1, <2>1 DEF Walks
  <2> QED BY <1>2, <1>3, <1>6, <2>2
<1>7. CASE ~e.present /\ new # 0
  <2>1. x = [ok |-> TRUE, taken |-> w.taken + 1, at |-> new, tables |-> y]
    BY <1>2, <1>3, <1>7 DEF Child, Linked
  <2> QED BY <1>2, <1>3, <1>7, <2>1
<1> QED BY <1>5, <1>6, <1>7

LEMMA ChildDescends ==
  ASSUME PInv, NEW w, NEW r, NEW m, NEW S, Walking(w, r, m, S), w.ok, S \cap free = {},
         m.level[w.at] \in 1 .. 3, NEW i \in Index, ~w.tables[w.at][i].huge
  PROVE  Descends(w, Child(w, i), r, m, S, i)
<1>0. PICK k \in Nat : k = w.taken
  BY WalkFields DEF Walking
<1>1. PICK x, new, at, T, e :
        /\ x = Child(w, i) /\ new = Nth(k + 1) /\ at = w.at /\ T = w.tables
        /\ e = T[at][i] /\ k = w.taken
  BY <1>0
<1>2. /\ e.present => x.ok /\ x.taken = k /\ x.at = e.to /\ x.tables = T
      /\ ~e.present /\ new = 0 => ~x.ok /\ x.taken = k /\ x.tables = T
      /\ ~e.present /\ new # 0 =>
           /\ x.ok /\ x.taken = k + 1 /\ x.at = new
           /\ x.tables = Linked(T, at, i, new)
  <2>1. IsWalk(w) /\ w.ok /\ new = Nth(w.taken + 1) /\ e = w.tables[w.at][i]
    BY <1>1 DEF Walking
  <2> QED BY <1>1, <2>1, ChildIs
<1>3. /\ Tree(T, r, m) /\ at \in m.pages /\ IsWalk(x) /\ S \subseteq m.pages
      /\ \A t \in m.pages \ S : \E j \in 1 .. k : t = Nth(j)
      /\ m.level[at] \in 1 .. 3
  BY <1>1, ChildWalk DEF Walking
<1>4. Extends(m, m) /\ Keeps(T, T, m.pages)
  BY DEF Extends, Keeps
<1>5. CASE e.present
  <2>1. Placed(e, at, i, m) /\ ~e.huge
    BY <1>1, <1>3 DEF Tree
  <2>2. /\ e.to \in m.pages /\ m.level[e.to] = m.level[at] + 1
        /\ m.prefix[e.to] = Number(m, at, i)
    BY <1>3, <1>5, <2>1 DEF Placed
  <2>3. Walking(x, r, m, S)
    BY <1>2, <1>3, <1>5, <2>2 DEF Walking
  <2>4. Points(x.tables[at][i], x.at)
    BY <1>1, <1>2, <1>5, <2>1 DEF Points
  <2> QED BY <1>1, <1>2, <1>4, <1>5, <2>2, <2>3, <2>4 DEF Descends
<1>6. CASE ~e.present /\ new = 0
  <2>1. Walking(x, r, m, S) /\ ~x.ok /\ x.tables = T
    BY <1>2, <1>3, <1>6 DEF Walking
  <2> QED BY <1>1, <1>4, <2>1 DEF Descends
<1>7. CASE ~e.present /\ new # 0
  <2>1. new \in free /\ Rank(new) = k + 1
    BY <1>1, <1>7, NthIs
  <2>2. new \notin m.pages /\ new \in Pages \ {0}
    <3>1. ASSUME NEW j \in 1 .. k, new = Nth(j) PROVE FALSE
      <4>1. Rank(new) = j
        BY <1>7, <3>1, NthIs
      <4> QED BY <2>1, <4>1
    <3> QED BY <1>3, <1>7, <2>1, <3>1, FreeFinite
  <2>3. PICK U, g : U = Linked(T, at, i, new) /\ g = Grafted(m, at, i, new)
    OBVIOUS
  <2>4. Tree(U, r, g) /\ Keeps(T, U, m.pages) /\ U[at][i] = Pointer(new)
    <3>1. ~T[at][i].present
      BY <1>1, <1>7
    <3> QED BY <1>3, <2>2, <2>3, <3>1, Graft
  <2>5. x.ok /\ x.taken = k + 1 /\ x.at = new /\ x.tables = U
    BY <1>2, <1>7, <2>3
  <2>6. /\ g.pages = m.pages \cup {new} /\ g.level[new] = m.level[at] + 1
        /\ g.prefix[new] = Number(m, at, i) /\ Extends(m, g)
    BY <2>2, <2>3 DEF Grafted, Extends
  <2>7. \A t \in g.pages \ S : \E j \in 1 .. k + 1 : t = Nth(j)
    BY <1>1, <1>3, <2>6
  <2>8. Walking(x, r, g, S)
    BY <1>3, <2>4, <2>5, <2>6, <2>7 DEF Walking
  <2>9. Points(U[at][i], new)
    BY <2>2, <2>4, EntryFacts DEF Pages
  <2> QED BY <1>1, <2>4, <2>5, <2>6, <2>8, <2>9 DEF Descends
<1> QED BY <1>5, <1>6, <1>7

(* An address is mapped when the walk of the processor does not stop.      *)
Reach(T, r, v, m) ==
  \E s, t \in m.pages :
    /\ Points(T[r][At(v, 3)], s) /\ Points(T[s][At(v, 2)], t)
    /\ \/ T[t][At(v, 1)].huge
       \/ \E u \in m.pages : Points(T[t][At(v, 1)], u) /\ T[u][At(v, 0)].present

LEMMA Kept ==
  ASSUME NEW T, NEW U, NEW r, NEW m, NEW g, Tree(T, r, m), Keeps(T, U, m.pages), Extends(m, g),
         NEW v \in Virtual, Reach(T, r, v, m)
  PROVE  Reach(U, r, v, g)
<1>1. PICK s \in m.pages, t \in m.pages :
        /\ Points(T[r][At(v, 3)], s) /\ Points(T[s][At(v, 2)], t)
        /\ \/ T[t][At(v, 1)].huge
           \/ \E u \in m.pages : Points(T[t][At(v, 1)], u) /\ T[u][At(v, 0)].present
  BY DEF Reach
<1>2. PICK a \in Index, b \in Index, c \in Index, d \in Index :
        a = At(v, 3) /\ b = At(v, 2) /\ c = At(v, 1) /\ d = At(v, 0)
  BY Digits
<1>3. r \in m.pages /\ m.pages \subseteq g.pages
  BY DEF Tree, Places, Extends
<1>4. \A x \in m.pages, i \in Index : T[x][i].present => U[x][i] = T[x][i]
  BY DEF Keeps
<1>5. Points(U[r][a], s) /\ Points(U[s][b], t)
  BY <1>1, <1>2, <1>3, <1>4 DEF Points
<1>6. CASE T[t][c].huge
  <2>1. T[t][c].present
    BY <1>6 DEF Tree, Placed
  <2>2. U[t][c].huge
    BY <1>4, <1>6, <2>1
  <2> QED BY <1>2, <1>3, <1>5, <2>2 DEF Reach
<1>7. ASSUME NEW u \in m.pages, Points(T[t][c], u), T[u][d].present
      PROVE  Reach(U, r, v, g)
  <2>1. Points(U[t][c], u) /\ U[u][d].present
    BY <1>4, <1>7 DEF Points
  <2> QED BY <1>2, <1>3, <1>5, <2>1 DEF Reach
<1> QED BY <1>1, <1>2, <1>6, <1>7

LEMMA ExtendsOn ==
  ASSUME NEW m, NEW g, NEW h, Extends(m, g), Extends(g, h)
  PROVE  Extends(m, h)
BY DEF Extends

LEMMA KeepsOn ==
  ASSUME NEW T, NEW U, NEW V, NEW A, NEW B, A \subseteq B, Keeps(T, U, A), Keeps(U, V, B)
  PROVE  Keeps(T, V, A)
BY DEF Keeps

(* The walk to a directory, from the tables of m.                          *)
ToDirectory(w, m, v) ==
  \E g : /\ Walking(w, root, g, m.pages) /\ Extends(m, g) /\ Keeps(table, w.tables, m.pages)
         /\ w.ok => /\ g.level[w.at] = 3
                    /\ g.prefix[w.at] = At(v, 3) * Entries + At(v, 2)
                    /\ \E s \in g.pages : /\ Points(w.tables[root][At(v, 3)], s)
                                          /\ Points(w.tables[s][At(v, 2)], w.at)

LEMMA DirectoryReached ==
  ASSUME PInv, NEW m, Tree(table, root, m), m.pages \cap free = {}, NEW v \in Virtual
  PROVE  ToDirectory(Directory(v), m, v)
<1>1. PICK a \in Index, b \in Index : a = At(v, 3) /\ b = At(v, 2)
  BY Digits
<1>2. PICK w : w = [ok |-> TRUE, taken |-> 0, at |-> root, tables |-> table]
  OBVIOUS
<1>3. PICK x, y, S : x = Child(w, a) /\ y = Child(x, b) /\ S = m.pages
  OBVIOUS
<1>4. Directory(v) = y
  BY <1>1, <1>2, <1>3 DEF Directory
<1>5. /\ root \in m.pages /\ m.level[root] = 1 /\ m.prefix[root] = 0
      /\ \A t \in m.pages, i \in Index : Placed(table[t][i], t, i, m)
  BY DEF Tree, Places
<1>6. Walking(w, root, m, S) /\ w.ok /\ w.at = root /\ w.tables = table
  <2>1. w \in Walks({root, table})
    BY <1>2 DEF Walks
  <2>2. IsWalk(w)
    BY <2>1 DEF IsWalk
  <2> QED BY <1>2, <1>3, <1>5, <2>2 DEF Walking
<1>7. ~table[root][a].huge
  BY <1>5 DEF Placed
<1>8. Descends(w, x, root, m, S, a)
  <2>1. S \cap free = {} /\ m.level[w.at] \in 1 .. 3 /\ ~w.tables[w.at][a].huge
    BY <1>3, <1>5, <1>6, <1>7
  <2> QED BY <1>3, <1>6, <2>1, ChildDescends
<1>9. PICK g : /\ Walking(x, root, g, S) /\ Extends(m, g) /\ Keeps(table, x.tables, m.pages)
               /\ x.ok => /\ g.level[x.at] = 2 /\ g.prefix[x.at] = Number(m, root, a)
                          /\ Points(x.tables[root][a], x.at)
  BY <1>5, <1>6, <1>8 DEF Descends
<1>10. CASE ~x.ok
  <2>1. y = x
    BY <1>3, <1>10 DEF Child
  <2> QED BY SMTT(60), <1>3, <1>4, <1>9, <1>10, <2>1 DEF ToDirectory
<1>11. CASE x.ok
  <2>1. /\ x.at \in g.pages /\ root \in g.pages /\ g.level[x.at] = 2
        /\ \A t \in g.pages, i \in Index : Placed(x.tables[t][i], t, i, g)
    BY <1>9, <1>11 DEF Walking, Tree, Places
  <2>2. ~x.tables[x.at][b].huge
    BY <2>1 DEF Placed
  <2>3. Descends(x, y, root, g, S, b)
    <3>1. S \cap free = {} /\ g.level[x.at] \in 1 .. 3
      BY <1>3, <2>1
    <3> QED BY <1>3, <1>9, <1>11, <2>2, <3>1, ChildDescends
  <2>4. PICK h : /\ Walking(y, root, h, S) /\ Extends(g, h) /\ Keeps(x.tables, y.tables, g.pages)
                 /\ y.ok => /\ h.level[y.at] = 3 /\ h.prefix[y.at] = Number(g, x.at, b)
                            /\ Points(y.tables[x.at][b], y.at)
    BY <2>1, <2>3 DEF Descends
  <2>5. Extends(m, h) /\ Keeps(table, y.tables, m.pages)
    <3>1. m.pages \subseteq g.pages
      BY <1>9 DEF Extends
    <3> QED BY <1>9, <2>4, <3>1, ExtendsOn, KeepsOn
  <2>6. ASSUME y.ok
        PROVE  /\ h.level[y.at] = 3 /\ h.prefix[y.at] = a * Entries + b
               /\ \E s \in h.pages : Points(y.tables[root][a], s) /\ Points(y.tables[s][b], y.at)
    <3>1. x.at \in h.pages
      BY <2>1, <2>4 DEF Extends
    <3>2. Points(y.tables[root][a], x.at)
      BY <1>9, <1>11, <2>1, <2>4 DEF Keeps, Points
    <3>3. g.prefix[x.at] = a
      <4>1. 0 * Entries + a = a
        BY PagingAssumption DEF Index
      <4> QED BY <1>5, <1>9, <1>11, <4>1 DEF Number
    <3>4. h.prefix[y.at] = a * Entries + b
      BY <2>4, <2>6, <3>3 DEF Number
    <3> QED BY <2>4, <2>6, <3>1, <3>2, <3>4
  <2> QED BY <1>1, <1>3, <1>4, <2>4, <2>5, <2>6 DEF ToDirectory
<1> QED BY <1>10, <1>11

(* The tables U that mapping the page v leaves, k of them new.             *)
Remapped(U, k, done, m, v) ==
  \E g : /\ Tree(U, root, g) /\ Extends(m, g) /\ Keeps(table, U, m.pages)
         /\ \A t \in g.pages \ m.pages : \E j \in 1 .. k : t = Nth(j)
         /\ done => Reach(U, root, v, g)

LEMMA PageMapped ==
  ASSUME PInv, NEW m, Tree(table, root, m), m.pages \cap free = {}, NEW v \in Virtual,
         NEW w, w = LeafTable(v), NEW U, U = IF w.ok THEN WithEntry(w, v) ELSE w.tables
  PROVE  Remapped(U, w.taken, w.ok, m, v)
<1>1. PICK c \in Index, d \in Index, n \in Nat :
        /\ c = At(v, 1) /\ d = At(v, 0) /\ n = At(v, 3) * Entries + At(v, 2)
        /\ v = (n * Entries + c) * Entries + d
  <2>1. At(v, 3) * Entries \in Nat /\ At(v, 3) * Entries + At(v, 2) \in Nat
    BY Digits, PagingAssumption DEF Index
  <2> QED BY <2>1, Digits
<1>2. PICK p, S : p = Directory(v) /\ S = m.pages
  OBVIOUS
<1>3. PICK g : /\ Walking(p, root, g, S) /\ Extends(m, g) /\ Keeps(table, p.tables, S)
               /\ p.ok => /\ g.level[p.at] = 3 /\ g.prefix[p.at] = n
                          /\ \E s \in g.pages : /\ Points(p.tables[root][At(v, 3)], s)
                                                /\ Points(p.tables[s][At(v, 2)], p.at)
  BY <1>1, <1>2, DirectoryReached DEF ToDirectory
<1>4. /\ Tree(p.tables, root, g) /\ IsWalk(p) /\ S \subseteq g.pages
      /\ \A t \in g.pages \ S : \E j \in 1 .. p.taken : t = Nth(j)
      /\ p.ok => p.at \in g.pages
  BY <1>3 DEF Walking
<1>5. CASE ~p.ok
  <2>1. w = p
    BY <1>1, <1>2, <1>5 DEF LeafTable, Child
  <2> QED BY SMTT(60), <1>2, <1>3, <1>4, <1>5, <2>1 DEF Remapped
<1>6. CASE p.ok /\ p.tables[p.at][c].huge
  <2>1. w = p
    BY <1>1, <1>2, <1>6 DEF LeafTable
  <2>2. U = p.tables
    BY <1>1, <1>2, <1>6, <2>1 DEF WithEntry
  <2>3. Reach(p.tables, root, v, g)
    BY <1>1, <1>3, <1>4, <1>6 DEF Reach
  <2> QED BY <1>2, <1>3, <1>4, <2>1, <2>2, <2>3 DEF Remapped
<1>7. CASE p.ok /\ ~p.tables[p.at][c].huge
  <2>1. w = Child(p, c)
    BY <1>1, <1>2, <1>7 DEF LeafTable
  <2>2. Descends(p, w, root, g, S, c)
    BY <1>2, <1>3, <1>7, <2>1, ChildDescends
  <2>3. PICK h : /\ Walking(w, root, h, S) /\ Extends(g, h) /\ Keeps(p.tables, w.tables, g.pages)
                 /\ w.ok => /\ h.level[w.at] = 4 /\ h.prefix[w.at] = Number(g, p.at, c)
                            /\ Points(w.tables[p.at][c], w.at)
    BY <1>3, <1>7, <2>2 DEF Descends
  <2>4. /\ Tree(w.tables, root, h)
        /\ w.ok => w.at \in h.pages
        /\ \A t \in h.pages \ S : \E j \in 1 .. w.taken : t = Nth(j)
    BY <2>3 DEF Walking
  <2>5. Extends(m, h) /\ Keeps(table, w.tables, S)
    BY <1>3, <1>4, <2>3, ExtendsOn, KeepsOn
  <2>6. CASE ~w.ok
    BY <1>2, <2>4, <2>5, <2>6 DEF Remapped
  <2>7. CASE w.ok
    <3>1. U = IF w.tables[w.at][d].present THEN w.tables
              ELSE [w.tables EXCEPT ![w.at][d] = Pointer(v)]
      BY <1>1, <1>2, <1>7, <2>7 DEF WithEntry
    <3>2. Number(h, w.at, d) = v
      BY <1>1, <1>3, <1>7, <2>3, <2>7 DEF Number
    <3>3. /\ Tree(U, root, h) /\ Keeps(w.tables, U, h.pages) /\ U[w.at][d].present
      <4>1. CASE w.tables[w.at][d].present
        BY <2>4, <3>1, <4>1 DEF Keeps
      <4>2. CASE ~w.tables[w.at][d].present
        <5>1. U = [w.tables EXCEPT ![w.at][d] = Pointer(Number(h, w.at, d))]
          BY <3>1, <3>2, <4>2
        <5> QED BY <2>3, <2>4, <2>7, <4>2, <5>1, NewLeaf
      <4> QED BY <4>1, <4>2
    <3>4. Keeps(table, U, S)
      <4>1. S \subseteq h.pages
        BY <2>3 DEF Walking
      <4> QED BY <2>5, <3>3, <4>1, KeepsOn
    <3>5. Reach(U, root, v, h)
      <4>1. PICK s \in g.pages : /\ Points(p.tables[root][At(v, 3)], s)
                                 /\ Points(p.tables[s][At(v, 2)], p.at)
        BY <1>3, <1>7
      <4>2. /\ root \in g.pages /\ g.pages \subseteq h.pages /\ p.at \in g.pages
        BY <1>4, <1>7, <2>3 DEF Tree, Places, Extends
      <4>3. At(v, 3) \in Index /\ At(v, 2) \in Index
        BY Digits
      <4>4. /\ Points(w.tables[root][At(v, 3)], s) /\ Points(w.tables[s][At(v, 2)], p.at)
        BY <2>3, <4>1, <4>2, <4>3 DEF Keeps, Points
      <4>5. /\ Points(U[root][At(v, 3)], s) /\ Points(U[s][At(v, 2)], p.at)
            /\ Points(U[p.at][c], w.at)
        BY <2>3, <2>7, <3>3, <4>2, <4>3, <4>4 DEF Keeps, Points
      <4> QED BY <1>1, <2>4, <2>7, <3>3, <4>2, <4>5 DEF Reach
    <3> QED BY <1>2, <2>4, <2>5, <3>3, <3>4, <3>5 DEF Remapped
  <2> QED BY <2>6, <2>7
<1> QED BY <1>5, <1>6, <1>7

-----------------------------------------------------------------------------
(* What the processor makes of such tables.                                *)

LEMMA FollowIs ==
  ASSUME NEW m, Tree(table, root, m), NEW t \in m.pages, m.level[t] \in 1 .. 3, NEW i \in Index
  PROVE  /\ Follow(t, i) \in Nat
         /\ Follow(t, i) # 0 => Points(table[t][i], Follow(t, i))
         /\ \A s \in m.pages : Points(table[t][i], s) => Follow(t, i) = s
         /\ Follow(t, i) # 0 => /\ Follow(t, i) \in m.pages
                                /\ m.level[Follow(t, i)] = m.level[t] + 1
                                /\ m.prefix[Follow(t, i)] = Number(m, t, i)
<1>1. /\ Placed(table[t][i], t, i, m) /\ t # 0 /\ m.pages \subseteq Pages
      /\ table[t][i] \in EntryType
  <2>1. t \in Pages \ {0} /\ m.pages \subseteq Pages /\ table \in TableType
    BY DEF Tree, Places
  <2> QED BY <2>1 DEF Tree, TableType
<1>2. CASE ~table[t][i].present \/ table[t][i].huge
  BY <1>1, <1>2 DEF Follow, Points
<1>3. CASE table[t][i].present /\ ~table[t][i].huge
  <2>1. Follow(t, i) = table[t][i].to
    BY <1>1, <1>3 DEF Follow
  <2> QED BY <1>1, <1>3, <2>1 DEF Placed, Points, EntryType
<1> QED BY <1>2, <1>3

LEMMA Translates ==
  ASSUME NEW m, Tree(table, root, m), NEW v \in Virtual
  PROVE  /\ Translate(v) \in {v, -1}
         /\ Reach(table, root, v, m) => Translate(v) = v
<1>1. PICK a \in Index, b \in Index, c \in Index, d \in Index :
        /\ a = At(v, 3) /\ b = At(v, 2) /\ c = At(v, 1) /\ d = At(v, 0)
        /\ v = ((a * Entries + b) * Entries + c) * Entries + d
  BY Digits
<1>2. /\ root \in m.pages /\ m.level[root] = 1 /\ m.prefix[root] = 0 /\ 0 \notin m.pages
      /\ \A t \in m.pages, i \in Index : Placed(table[t][i], t, i, m)
  BY DEF Tree, Places
<1>3. PICK s, t : s = Follow(root, a) /\ t = Follow(s, b)
  OBVIOUS
<1>4. CASE s = 0
  <2>1. t = 0
    BY <1>3, <1>4 DEF Follow
  <2>2. Translate(v) = -1
    BY <1>1, <1>3, <2>1 DEF Translate
  <2>3. ASSUME NEW x \in m.pages, Points(table[root][a], x) PROVE FALSE
    <3>1. m.level[root] \in 1 .. 3
      BY <1>2
    <3>2. Follow(root, a) = x
      BY <1>2, <2>3, <3>1, FollowIs
    <3> QED BY <1>2, <1>3, <1>4, <3>2
  <2> QED BY <1>1, <2>2, <2>3 DEF Reach
<1>5. CASE s # 0
  <2>1. s \in m.pages /\ m.level[s] = 2 /\ m.prefix[s] = Number(m, root, a)
    BY <1>2, <1>3, <1>5, FollowIs
  <2>2. \A x \in m.pages : Points(table[root][a], x) => x = s
    BY <1>2, <1>3, FollowIs
  <2>3. m.prefix[s] = a
    <3>1. 0 * Entries + a = a
      BY PagingAssumption DEF Index
    <3> QED BY <1>2, <2>1, <3>1 DEF Number
  <2>4. \A x \in m.pages : Points(table[s][b], x) => x = t
    BY <1>3, <2>1, FollowIs
  <2>5. CASE t = 0
    <3>1. Translate(v) = -1
      BY <1>1, <1>3, <2>5 DEF Translate
    <3> QED BY <1>1, <1>2, <2>2, <2>4, <2>5, <3>1 DEF Reach
  <2>6. CASE t # 0
    <3>1. t \in m.pages /\ m.level[t] = 3 /\ m.prefix[t] = a * Entries + b
      <4>1. t \in m.pages /\ m.level[t] = 3 /\ m.prefix[t] = Number(m, s, b)
        BY <1>3, <2>1, <2>6, FollowIs
      <4> QED BY <2>3, <4>1 DEF Number
    <3>2. PICK n \in Nat : n = (a * Entries + b) * Entries + c /\ n = Number(m, t, c)
      <4>1. Number(m, t, c) \in Nat
        BY <3>1, NumberType DEF Tree
      <4> QED BY <3>1, <4>1 DEF Number
    <3>3. v = n * Entries + d
      BY <1>1, <3>2
    <3>4. CASE table[t][c].huge
      <4>1. table[t][c].to = n * Entries
        BY <1>2, <3>1, <3>2, <3>4 DEF Placed
      <4>2. Translate(v) = table[t][c].to + d
        BY <1>1, <1>3, <2>6, <3>4 DEF Translate
      <4> QED BY <3>3, <4>1, <4>2
    <3>5. CASE ~table[t][c].huge
      <4>1. PICK u : u = Follow(t, c)
        OBVIOUS
      <4>2. Translate(v) = IF u = 0 \/ ~table[u][d].present THEN -1 ELSE table[u][d].to
        BY <1>1, <1>3, <2>6, <3>5, <4>1 DEF Translate
      <4>3. \A x \in m.pages : Points(table[t][c], x) => x = u
        BY <3>1, <4>1, FollowIs
      <4>4. CASE u = 0 \/ ~table[u][d].present
        <5>1. ASSUME Reach(table, root, v, m) PROVE FALSE
          <6>1. \E x \in m.pages : Points(table[t][c], x) /\ table[x][d].present
            BY <1>1, <2>2, <2>4, <3>5, <5>1 DEF Reach
          <6> QED BY <1>2, <4>3, <4>4, <6>1
        <5> QED BY <4>2, <4>4, <5>1
      <4>5. CASE ~(u = 0 \/ ~table[u][d].present)
        <5>1. u \in m.pages /\ m.level[u] = 4 /\ m.prefix[u] = n
          BY <3>1, <3>2, <4>1, <4>5, FollowIs
        <5>2. table[u][d].to = Number(m, u, d)
          BY <1>2, <4>5, <5>1 DEF Placed
        <5>3. Number(m, u, d) = v
          BY <3>3, <5>1 DEF Number
        <5> QED BY <4>2, <4>5, <5>2, <5>3
      <4> QED BY <4>4, <4>5
    <3> QED BY <3>4, <3>5
  <2> QED BY <2>5, <2>6
<1> QED BY <1>4, <1>5

(* The tables in use are the pages of m, level by level.                   *)
LEMMA TablesAre ==
  ASSUME NEW m, Tree(table, root, m)
  PROVE  /\ TablePages = m.pages
         /\ \A l \in 1 .. 4 : \A t \in Tables[l] : m.level[t] = l
<1>1. /\ root \in m.pages /\ m.level[root] = 1
      /\ \A t \in m.pages : m.level[t] \in 1 .. 4
  BY DEF Tree, Places
<1>2. ASSUME NEW l \in 1 .. 3, NEW k, k = l + 1, NEW S \in SUBSET m.pages,
             \A t \in S : m.level[t] = l, NEW x \in Below(S)
      PROVE  x \in m.pages /\ m.level[x] = k
  <2>1. PICK t \in S, i \in Index : x = Follow(t, i) /\ x # 0
    BY <1>2 DEF Below
  <2>2. t \in m.pages /\ m.level[t] \in 1 .. 3 /\ m.level[t] = l
    BY <1>2, <2>1
  <2> QED BY <1>2, <2>1, <2>2, FollowIs
<1>3. PICK A, B, C, D : A = {root} /\ B = Below(A) /\ C = Below(B) /\ D = Below(C)
  OBVIOUS
<1>4. A \subseteq m.pages /\ \A t \in A : m.level[t] = 1
  BY <1>1, <1>3
<1>5. B \subseteq m.pages /\ \A t \in B : m.level[t] = 2
  <2>1. 1 \in 1 .. 3 /\ 2 = 1 + 1
    OBVIOUS
  <2> QED BY <1>2, <1>3, <1>4, <2>1
<1>6. C \subseteq m.pages /\ \A t \in C : m.level[t] = 3
  <2>1. 2 \in 1 .. 3 /\ 3 = 2 + 1
    OBVIOUS
  <2> QED BY SMTT(60), <1>2, <1>3, <1>5, <2>1
<1>7. D \subseteq m.pages /\ \A t \in D : m.level[t] = 4
  <2>1. 3 \in 1 .. 3 /\ 4 = 3 + 1
    OBVIOUS
  <2> QED BY <1>2, <1>3, <1>6, <2>1
<1>8. Tables = <<A, B, C, D>>
  BY <1>3 DEF Tables
<1>9. Tables[1] = A /\ Tables[2] = B /\ Tables[3] = C /\ Tables[4] = D
  BY <1>8
<1>10. TablePages = A \cup B \cup C \cup D
  BY <1>9 DEF TablePages
<1>11. ASSUME NEW t \in m.pages \ {root}, NEW S,
              \A s \in m.pages : m.level[t] = m.level[s] + 1 => s \in S
       PROVE  t \in Below(S)
  <2>1. PICK s \in m.pages, i \in Index : Points(table[s][i], t) /\ m.level[t] = m.level[s] + 1
    BY DEF Tree, Rooted
  <2>2. m.level[s] \in 1 .. 3 /\ s \in S
    BY <1>1, <1>11, <2>1
  <2>3. Follow(s, i) = t
    BY <2>1, <2>2, FollowIs
  <2>4. t # 0
    BY DEF Tree, Places
  <2> QED BY <2>2, <2>3, <2>4 DEF Below
<1>12. ASSUME NEW t \in m.pages, m.level[t] = 1 PROVE t \in A
  <2>1. t # root => \E s \in m.pages : m.level[t] = m.level[s] + 1
    BY DEF Tree, Rooted
  <2> QED BY <1>1, <1>3, <1>12, <2>1
<1>13. ASSUME NEW t \in m.pages, m.level[t] = 2 PROVE t \in B
  <2>1. t # root /\ \A s \in m.pages : m.level[t] = m.level[s] + 1 => s \in A
    BY <1>1, <1>12, <1>13
  <2> QED BY <1>3, <1>11, <2>1
<1>14. ASSUME NEW t \in m.pages, m.level[t] = 3 PROVE t \in C
  <2>1. t # root /\ \A s \in m.pages : m.level[t] = m.level[s] + 1 => s \in B
    BY <1>1, <1>13, <1>14
  <2> QED BY <1>3, <1>11, <2>1
<1>15. ASSUME NEW t \in m.pages, m.level[t] = 4 PROVE t \in D
  <2>1. t # root /\ \A s \in m.pages : m.level[t] = m.level[s] + 1 => s \in C
    BY <1>1, <1>14, <1>15
  <2> QED BY <1>3, <1>11, <2>1
<1>16. m.pages \subseteq A \cup B \cup C \cup D
  BY <1>1, <1>12, <1>13, <1>14, <1>15
<1> QED BY <1>4, <1>5, <1>6, <1>7, <1>9, <1>10, <1>16

-----------------------------------------------------------------------------
(* paging_init.  The pages it takes are all different: k[p] is the place of*)
(* page p among them, from 1 on, or 0.                                     *)

Counting(k) ==
  /\ k \in [Pages -> 0 .. 2 + Gibs]
  /\ \A j \in 1 .. 2 + Gibs : Nth(j) \in Pages \ {0} /\ k[Nth(j)] = j
  /\ \A p \in Pages : k[p] # 0 => Nth(k[p]) = p

(* The tables when g of the directories are written.                       *)
FirstTable     == [i \in Index |-> IF i = 0 THEN Pointer(Nth(2)) ELSE Absent]
SecondTable(g) == [i \in Index |-> IF i < g THEN Pointer(Nth(3 + i)) ELSE Absent]
Written(k, g) ==
  [p \in Pages |-> IF k[p] = 1 THEN FirstTable
                   ELSE IF k[p] = 2 THEN SecondTable(g)
                   ELSE IF k[p] \in 3 .. 2 + g THEN HugeTable(k[p] - 3)
                   ELSE table[p]]

(* What the recursive function of PagingInit has to satisfy.               *)
TwoEmpty == [table EXCEPT ![Nth(1)] = Zeroed(@), ![Nth(2)] = Zeroed(@)]
StartBoot == [TwoEmpty EXCEPT ![Nth(1)][0] = Pointer(Nth(2))]
NextBoot(T, g) == [T EXCEPT ![Nth(2 + g)] = HugeTable(g - 1),
                            ![Nth(2)][g - 1] = Pointer(Nth(2 + g))]
Boots(b) == b = [g \in 0 .. Gibs |-> IF g = 0 THEN StartBoot ELSE NextBoot(b[g - 1], g)]

LEMMA BootDefined ==
  ASSUME PagingInit
  PROVE  table' = (CHOOSE b : Boots(b))[Gibs]
BY DEF PagingInit, Boots, StartBoot, TwoEmpty, NextBoot

LEMMA CountFacts ==
  ASSUME NEW k, Counting(k), NEW j \in 1 .. 2 + Gibs
  PROVE  /\ Nth(j) \in Pages \ {0} /\ k[Nth(j)] = j
         /\ \A p \in Pages : k[p] = j <=> p = Nth(j)
<1>1. Nth(j) \in Pages \ {0} /\ k[Nth(j)] = j
  BY DEF Counting
<1>2. \A p \in Pages : k[p] # 0 => Nth(k[p]) = p
  BY DEF Counting
<1> QED BY <1>1, <1>2

LEMMA BootStarts ==
  ASSUME NEW k, Counting(k), table \in TableType
  PROVE  StartBoot = Written(k, 0)
<1>1. Gibs \in Nat \ {0} /\ Entries \in Nat /\ 1 \in 1 .. 2 + Gibs /\ 2 \in 1 .. 2 + Gibs
  BY PagingAssumption
<1>2. PICK a, b : a = Nth(1) /\ b = Nth(2)
  OBVIOUS
<1>3. /\ a \in Pages /\ b \in Pages /\ a # b
      /\ \A p \in Pages : k[p] = 1 <=> p = a
      /\ \A p \in Pages : k[p] = 2 <=> p = b
  BY <1>1, <1>2, CountFacts
<1>4. PICK z : z = [i \in Index |-> Absent]
  OBVIOUS
<1>5. PICK W : W = [[table EXCEPT ![a] = z] EXCEPT ![b] = z]
  OBVIOUS
<1>6. TwoEmpty = W
  BY <1>2, <1>3, <1>4, <1>5 DEF TwoEmpty, Zeroed, TableType
<1>7. /\ W = [p \in Pages |-> W[p]] /\ W[a] = z /\ W[b] = z
      /\ \A p \in Pages \ {a, b} : W[p] = table[p]
  BY <1>3, <1>5 DEF TableType
<1>8. PICK e : e = [z EXCEPT ![0] = Pointer(b)]
  OBVIOUS
<1>9. e = FirstTable /\ z = SecondTable(0)
  <2>1. e = [i \in Index |-> IF i = 0 THEN Pointer(b) ELSE Absent]
    BY <1>4, <1>8
  <2>2. \A i \in Index : ~(i < 0)
    BY DEF Index
  <2> QED BY <1>2, <1>4, <2>1, <2>2 DEF FirstTable, SecondTable
<1>10. PICK V : V = [W EXCEPT ![a] = e]
  OBVIOUS
<1>11. StartBoot = V
  BY <1>2, <1>3, <1>6, <1>7, <1>8, <1>10 DEF StartBoot
<1>12. /\ V = [p \in Pages |-> V[p]] /\ V[a] = e
       /\ \A p \in Pages \ {a} : V[p] = W[p]
  BY <1>3, <1>7, <1>10
<1>13. ASSUME NEW p \in Pages PROVE V[p] = Written(k, 0)[p]
  <2>1. Written(k, 0)[p] = IF p = a THEN FirstTable ELSE IF p = b THEN SecondTable(0)
                          ELSE IF k[p] \in 3 .. 2 + 0 THEN HugeTable(k[p] - 3) ELSE table[p]
    BY <1>3 DEF Written
  <2>2. ~(k[p] \in 3 .. 2 + 0)
    OBVIOUS
  <2> QED BY <1>3, <1>7, <1>9, <1>12, <2>1, <2>2
<1>14. Written(k, 0) = [p \in Pages |-> Written(k, 0)[p]]
  BY DEF Written
<1> QED BY <1>11, <1>12, <1>13, <1>14

LEMMA BootGoesOn ==
  ASSUME NEW k, Counting(k), NEW g \in 1 .. Gibs
  PROVE  NextBoot(Written(k, g - 1), g) = Written(k, g)
<1>1. /\ Gibs \in Nat \ {0} /\ Entries \in Nat /\ Gibs <= Entries
      /\ 2 + g \in 1 .. 2 + Gibs /\ 2 \in 1 .. 2 + Gibs /\ 1 \in 1 .. 2 + Gibs
      /\ g - 1 \in Index /\ g \in Nat \ {0}
  BY PagingAssumption DEF Index
<1>2. PICK a, b, c, T, U : /\ a = Nth(1) /\ b = Nth(2) /\ c = Nth(2 + g)
                           /\ T = Written(k, g - 1) /\ U = Written(k, g)
  OBVIOUS
<1>3. /\ a \in Pages /\ b \in Pages /\ c \in Pages /\ b # c /\ a # b /\ a # c
      /\ \A p \in Pages : k[p] = 1 <=> p = a
      /\ \A p \in Pages : k[p] = 2 <=> p = b
      /\ \A p \in Pages : k[p] = 2 + g <=> p = c
  BY <1>1, <1>2, CountFacts
<1>4. /\ T = [p \in Pages |-> T[p]] /\ U = [p \in Pages |-> U[p]]
      /\ \A p \in Pages :
           T[p] = IF p = a THEN FirstTable ELSE IF p = b THEN SecondTable(g - 1)
                  ELSE IF k[p] \in 3 .. 2 + (g - 1) THEN HugeTable(k[p] - 3) ELSE table[p]
      /\ \A p \in Pages :
           U[p] = IF p = a THEN FirstTable ELSE IF p = b THEN SecondTable(g)
                  ELSE IF k[p] \in 3 .. 2 + g THEN HugeTable(k[p] - 3) ELSE table[p]
  BY <1>2, <1>3 DEF Written
<1>5. PICK h, e : h = HugeTable(g - 1) /\ e = [T[b] EXCEPT ![g - 1] = Pointer(c)]
  OBVIOUS
<1>6. PICK V : V = [[T EXCEPT ![c] = h] EXCEPT ![b] = e]
  OBVIOUS
<1>7. NextBoot(T, g) = V
  BY <1>2, <1>3, <1>4, <1>5, <1>6 DEF NextBoot
<1>8. /\ V = [p \in Pages |-> V[p]] /\ V[c] = h /\ V[b] = e
      /\ \A p \in Pages \ {b, c} : V[p] = T[p]
  BY <1>3, <1>4, <1>6
<1>9. e = SecondTable(g)
  <2>1. T[b] = [i \in Index |-> IF i < g - 1 THEN Pointer(Nth(3 + i)) ELSE Absent]
    BY <1>3, <1>4 DEF SecondTable
  <2>2. e = [i \in Index |-> IF i = g - 1 THEN Pointer(c)
                             ELSE IF i < g - 1 THEN Pointer(Nth(3 + i)) ELSE Absent]
    BY <1>1, <1>5, <2>1
  <2>3. 3 + (g - 1) = 2 + g
    BY <1>1
  <2>4. ASSUME NEW i \in Index
        PROVE  (IF i = g - 1 THEN Pointer(c) ELSE IF i < g - 1 THEN Pointer(Nth(3 + i)) ELSE Absent)
               = (IF i < g THEN Pointer(Nth(3 + i)) ELSE Absent)
    <3>1. i \in Int
      BY <1>1 DEF Index
    <3>2. CASE i = g - 1
      <4>1. i < g /\ 3 + i = 2 + g
        BY <1>1, <3>1, <3>2
      <4> QED BY <1>2, <3>2, <4>1
    <3>3. CASE i # g - 1
      <4>1. i < g <=> i < g - 1
        BY <1>1, <3>1, <3>3
      <4> QED BY <3>3, <4>1
    <3> QED BY <3>2, <3>3
  <2> QED BY <2>2, <2>4 DEF SecondTable
<1>10. ASSUME NEW p \in Pages PROVE V[p] = U[p]
  <2>1. CASE p = c
    <3>1. k[p] = 2 + g /\ k[p] \in 3 .. 2 + g /\ k[p] - 3 = g - 1
      BY <1>1, <1>3, <2>1
    <3>2. U[p] = HugeTable(k[p] - 3)
      BY <1>3, <1>4, <2>1, <3>1
    <3> QED BY <1>5, <1>8, <2>1, <3>1, <3>2
  <2>2. CASE p = b
    BY <1>3, <1>4, <1>8, <1>9, <2>2
  <2>3. CASE p # b /\ p # c
    <3>1. k[p] \in Int
      BY <1>1 DEF Counting
    <3>2. k[p] # 2 + g
      BY <1>3, <2>3
    <3>3. k[p] \in 3 .. 2 + (g - 1) <=> k[p] \in 3 .. 2 + g
      BY <1>1, <3>1, <3>2
    <3> QED BY <1>4, <1>8, <2>3, <3>3
  <2> QED BY <2>1, <2>2, <2>3
<1>11. V = U
  BY <1>4, <1>8, <1>10
<1> QED BY <1>2, <1>7, <1>11

(* The function is there, and its last value is known.                     *)
LEMMA BootIs ==
  ASSUME NEW k, Counting(k), table \in TableType, PagingInit
  PROVE  table' = Written(k, Gibs)
<1>1. Gibs \in Nat \ {0}
  BY PagingAssumption
<1>2. StartBoot = Written(k, 0) /\ \A g \in 1 .. Gibs : NextBoot(Written(k, g - 1), g) = Written(k, g)
  BY BootStarts, BootGoesOn
<1>3. \E b : Boots(b)
  <2>1. PICK W : W = [g \in 0 .. Gibs |-> Written(k, g)]
    OBVIOUS
  <2>2. ASSUME NEW g \in 0 .. Gibs
        PROVE  W[g] = IF g = 0 THEN StartBoot ELSE NextBoot(W[g - 1], g)
    <3>1. CASE g = 0
      BY <1>2, <2>1, <3>1
    <3>2. CASE g # 0
      <4>1. g \in 1 .. Gibs /\ g - 1 \in 0 .. Gibs
        BY <1>1, <3>2
      <4> QED BY <1>2, <2>1, <3>2, <4>1
    <3> QED BY <3>1, <3>2
  <2>3. W = [g \in 0 .. Gibs |-> W[g]]
    BY <2>1
  <2>4. W = [g \in 0 .. Gibs |-> IF g = 0 THEN StartBoot ELSE NextBoot(W[g - 1], g)]
    BY <2>2, <2>3, Zenon
  <2> QED BY <2>4 DEF Boots
<1>4. PICK b : b = CHOOSE c : Boots(c)
  OBVIOUS
<1>5. Boots(b) /\ table' = b[Gibs]
  BY <1>3, <1>4, BootDefined
<1>6. /\ b[0] = StartBoot
      /\ \A g \in 1 .. Gibs : b[g] = NextBoot(b[g - 1], g)
  <2>1. 0 \in 0 .. Gibs /\ \A g \in 1 .. Gibs : g \in 0 .. Gibs /\ g # 0
    BY <1>1
  <2> QED BY <1>5, <2>1 DEF Boots
<1>7. PICK Bad : Bad = {g \in 0 .. Gibs : b[g] # Written(k, g)}
  OBVIOUS
<1>8. Bad = {}
  <2>1. SUFFICES ASSUME Bad # {} PROVE FALSE
    OBVIOUS
  <2>2. Bad \subseteq Int /\ IsFiniteSet(Bad)
    <3>1. IsFiniteSet(0 .. Gibs)
      BY <1>1, FS_Interval
    <3> QED BY <1>1, <1>7, <3>1, FS_Subset
  <2>3. PICK e \in Bad : \A g \in Bad : e <= g
    BY <2>1, <2>2, HasMinimum
  <2>4. e \in 0 .. Gibs /\ e # 0 /\ b[e] # Written(k, e)
    BY <1>2, <1>6, <1>7
  <2>5. e \in 1 .. Gibs /\ e - 1 \in 0 .. Gibs /\ ~(e <= e - 1)
    BY <1>1, <2>4
  <2>6. b[e - 1] = Written(k, e - 1)
    BY <1>7, <2>3, <2>5
  <2> QED BY <1>2, <1>6, <2>4, <2>5, <2>6
<1> QED BY <1>1, <1>5, <1>7, <1>8

LEMMA CountExists ==
  ASSUME PInv, Cardinality(free) >= 2 + Gibs
  PROVE  \E k : Counting(k)
<1>1. Gibs \in Nat \ {0} /\ Cardinality(free) \in Nat /\ free \subseteq Pages
  BY PagingAssumption, FreeFinite
<1>2. ASSUME NEW j \in 1 .. 2 + Gibs
      PROVE  Nth(j) \in Pages \ {0} /\ Rank(Nth(j)) = j
  <2>1. j \in Nat \ {0} /\ j <= Cardinality(free)
    BY <1>1
  <2>2. Nth(j) # 0 /\ Nth(j) \in free /\ Rank(Nth(j)) = j
    BY <2>1, NthIs
  <2> QED BY <1>1, <2>2
<1>3. PICK N : N = {Nth(j) : j \in 1 .. 2 + Gibs}
  OBVIOUS
<1>4. PICK k : k = [p \in Pages |-> IF p \in N THEN Rank(p) ELSE 0]
  OBVIOUS
<1>5. \A j \in 1 .. 2 + Gibs : Nth(j) \in Pages \ {0} /\ k[Nth(j)] = j
  BY <1>2, <1>3, <1>4
<1>6. \A p \in Pages : k[p] = 0 \/ (k[p] \in 1 .. 2 + Gibs /\ Nth(k[p]) = p)
  <2>1. ASSUME NEW p \in Pages, p \in N PROVE k[p] \in 1 .. 2 + Gibs /\ Nth(k[p]) = p
    <3>1. PICK j \in 1 .. 2 + Gibs : p = Nth(j)
      BY <1>3, <2>1
    <3> QED BY <1>5, <3>1
  <2>2. ASSUME NEW p \in Pages, p \notin N PROVE k[p] = 0
    BY <1>4, <2>2
  <2> QED BY <2>1, <2>2
<1>7. k \in [Pages -> 0 .. 2 + Gibs]
  <2>1. \A p \in Pages : k[p] \in 0 .. 2 + Gibs
    BY <1>1, <1>6
  <2> QED BY <1>4, <2>1
<1>8. Counting(k)
  BY <1>5, <1>6, <1>7 DEF Counting
<1> QED BY <1>8

(* What the tables of paging_init are: one of each of the first two levels,*)
(* and a directory for each gigabyte.                                      *)
BootMap(k) ==
  [pages  |-> {p \in Pages : k[p] # 0},
   level  |-> [p \in Pages |-> IF k[p] <= 2 THEN k[p] ELSE 3],
   prefix |-> [p \in Pages |-> IF k[p] <= 2 THEN 0 ELSE k[p] - 3]]

(* A page of the identity map is in one of the first gigabytes.            *)
LEMMA IdentityPages ==
  ASSUME NEW v \in Identity
  PROVE  /\ v \in Virtual /\ At(v, 3) = 0 /\ At(v, 2) \in 0 .. Gibs - 1
<1>1. PICK E \in Nat \ {0}, G \in Nat \ {0} : E = Entries /\ G = Gibs /\ G <= E
  BY PagingAssumption
<1>2. PICK q \in Nat : q = E * E
  OBVIOUS
<1>3. v \in 0 .. G * q - 1 /\ G * q \in Nat
  BY <1>1, <1>2 DEF Identity, PagesPerGib
<1>4. G * q <= E * q
  <2>1. q * G <= q * E
    BY <1>1, Multiple
  <2>2. q * G = G * q /\ q * E = E * q
    OBVIOUS
  <2> QED BY <2>1, <2>2
<1>5. PICK c \in Nat : c = E * q
  OBVIOUS
<1>6. c <= q * q /\ q * q \in Nat /\ q # 0
  <2>1. E * 1 <= E * E
    BY Multiple
  <2>2. E <= q
    BY <1>2, <2>1
  <2>3. q * E <= q * q /\ q * E = E * q
    BY <2>2, Multiple
  <2> QED BY <1>5, <2>2, <2>3
<1>7. v \in Nat /\ v < c
  <2>1. PICK x \in Nat : x = G * q
    OBVIOUS
  <2> QED BY <1>3, <1>4, <1>5, <2>1
<1>8. v \in Virtual
  <2>1. PICK x \in Nat : x = q * q
    OBVIOUS
  <2>2. v \in 0 .. x - 1
    BY <1>6, <1>7, <2>1
  <2>3. Virtual = 0 .. x - 1
    BY <1>1, <1>2, <2>1 DEF Virtual, PagesPerGib
  <2> QED BY <2>2, <2>3
<1>9. PICK r \in Index, b \in Index, i \in Index, d \in Index :
        /\ r = At(v, 3) /\ b = At(v, 2) /\ i = At(v, 1) /\ d = At(v, 0)
        /\ v = ((r * Entries + b) * Entries + i) * Entries + d
        /\ r = v \div (Entries * Entries * Entries)
  BY <1>8, Digits
<1>10. r = 0
  <2>1. Entries * Entries * Entries = c
    BY <1>1, <1>2, <1>5
  <2>2. v \in 0 .. c - 1 /\ c \in Nat \ {0} /\ v = c * 0 + v
    BY <1>7
  <2>3. v \div c = 0
    BY <2>2, QuotientIs
  <2> QED BY <1>9, <2>1, <2>3
<1>11. b < G
  <2>1. b \in Nat /\ i \in Nat /\ d \in Nat
    BY <1>1 DEF Index
  <2>2. v = b * q + i * E + d
    <3>1. ((0 * E + b) * E + i) * E + d = b * (E * E) + i * E + d
      <4>1. 0 * E + b = b
        BY <2>1
      <4>2. PICK x \in Nat : x = b * E
        BY <2>1
      <4>3. (x + i) * E = x * E + i * E
        BY <2>1, <4>2
      <4>4. x * E = b * (E * E)
        BY <2>1, <4>2
      <4> QED BY <4>1, <4>2, <4>3, <4>4
    <3> QED BY <1>1, <1>2, <1>9, <1>10, <3>1
  <2>3. PICK x \in Nat, y \in Nat, z \in Nat : x = b * q /\ y = i * E /\ z = G * q
    BY <2>1
  <2>4. x < z
    BY <1>3, <2>1, <2>2, <2>3
  <2>5. G <= b => q * G <= q * b
    BY <2>1, Multiple
  <2>6. q * G = z /\ q * b = x
    BY <2>1, <2>3
  <2> QED BY <2>1, <2>3, <2>4, <2>5, <2>6
<1>12. b \in 0 .. Gibs - 1
  BY <1>1, <1>11 DEF Index
<1> QED BY <1>8, <1>9, <1>10, <1>12

LEMMA BootTree ==
  ASSUME NEW k, Counting(k), table \in TableType,
         NEW T, T = Written(k, Gibs), NEW r, r = Nth(1), NEW m, m = BootMap(k)
  PROVE  Tree(T, r, m) /\ \A v \in Identity : Reach(T, r, v, m)
<1>1. /\ Gibs \in Nat \ {0} /\ Entries \in Nat \ {0} /\ Gibs <= Entries
      /\ 1 \in 1 .. 2 + Gibs /\ 2 \in 1 .. 2 + Gibs
      /\ \A g \in 0 .. Gibs - 1 : 3 + g \in 1 .. 2 + Gibs /\ g \in Index
      /\ 0 \in Index
  BY PagingAssumption DEF Index
<1>2. PICK b : b = Nth(2)
  OBVIOUS
<1>3. /\ r \in Pages \ {0} /\ b \in Pages \ {0} /\ r # b
      /\ \A p \in Pages : k[p] = 1 <=> p = r
      /\ \A p \in Pages : k[p] = 2 <=> p = b
  BY <1>1, <1>2, CountFacts
<1>4. ASSUME NEW g \in 0 .. Gibs - 1
      PROVE  Nth(3 + g) \in Pages \ {0} /\ k[Nth(3 + g)] = 3 + g
  BY <1>1, CountFacts
<1>5. \A p \in Pages : k[p] \in 0 .. 2 + Gibs
  BY DEF Counting
<1>6. /\ m.pages = {p \in Pages : k[p] # 0}
      /\ \A p \in Pages : /\ m.level[p] = IF k[p] <= 2 THEN k[p] ELSE 3
                          /\ m.prefix[p] = IF k[p] <= 2 THEN 0 ELSE k[p] - 3
  BY DEF BootMap
<1>7. /\ r \in m.pages /\ m.level[r] = 1 /\ m.prefix[r] = 0
      /\ b \in m.pages /\ m.level[b] = 2 /\ m.prefix[b] = 0
  BY <1>3, <1>6
<1>8. ASSUME NEW g \in 0 .. Gibs - 1, NEW p, p = Nth(3 + g)
      PROVE  p \in m.pages /\ p \in Nat /\ m.level[p] = 3 /\ m.prefix[p] = g /\ T[p] = HugeTable(g)
  <2>1. p \in Pages /\ k[p] = 3 + g /\ g \in Nat
    BY <1>1, <1>4, <1>8
  <2>2. k[p] \in 3 .. 2 + Gibs /\ k[p] - 3 = g /\ ~(k[p] <= 2) /\ k[p] # 1 /\ k[p] # 2
    BY <1>1, <2>1
  <2>3. T[p] = HugeTable(g)
    BY <2>1, <2>2 DEF Written
  <2> QED BY <1>6, <2>1, <2>2, <2>3 DEF Pages
<1>9. ASSUME NEW p \in m.pages, p # r, p # b
      PROVE  \E g \in 0 .. Gibs - 1 : p = Nth(3 + g)
  <2>1. p \in Pages /\ k[p] # 0 /\ k[p] # 1 /\ k[p] # 2 /\ Nth(k[p]) = p
    BY <1>3, <1>6, <1>9 DEF Counting
  <2>2. PICK g \in 0 .. Gibs - 1 : k[p] = 3 + g
    <3>1. k[p] \in 0 .. 2 + Gibs /\ k[p] - 3 \in 0 .. Gibs - 1 /\ k[p] = 3 + (k[p] - 3)
      BY <1>1, <1>5, <2>1
    <3> QED BY <3>1
  <2> QED BY <2>1, <2>2
<1>10. T[r] = FirstTable /\ T[b] = SecondTable(Gibs)
  BY <1>3 DEF Written
<1>11. b \in Nat /\ r \in Nat
  BY <1>3 DEF Pages
<1>12. ASSUME NEW g \in 0 .. Gibs - 1, NEW i \in Index
       PROVE  (g * Entries + i) * Entries \in Nat
              /\ g * PagesPerGib + i * Entries = (g * Entries + i) * Entries
  <2>1. g \in Nat /\ i \in Nat
    BY <1>1 DEF Index
  <2>2. PICK E \in Nat : E = Entries
    BY <1>1
  <2>3. PICK x \in Nat : x = g * E
    BY <2>1
  <2>4. (x + i) * E = x * E + i * E /\ (x + i) * E \in Nat
    BY <2>1
  <2>5. x * E = g * (E * E)
    BY <2>1, <2>3
  <2> QED BY <2>2, <2>3, <2>4, <2>5 DEF PagesPerGib
<1>13. T \in TableType
  <2>1. FirstTable \in [Index -> EntryType]
    BY <1>2, <1>11, EntryFacts DEF FirstTable
  <2>2. SecondTable(Gibs) \in [Index -> EntryType]
    <3>1. ASSUME NEW i \in Index, i < Gibs PROVE Pointer(Nth(3 + i)) \in EntryType
      <4>1. i \in 0 .. Gibs - 1
        BY <1>1, <3>1 DEF Index
      <4>2. Nth(3 + i) \in Nat
        BY <1>4, <4>1 DEF Pages
      <4> QED BY <4>2, EntryFacts
    <3> QED BY <3>1, EntryFacts DEF SecondTable
  <2>3. \A g \in 0 .. Gibs - 1 : HugeTable(g) \in [Index -> EntryType]
    BY <1>12, EntryFacts DEF HugeTable
  <2>4. ASSUME NEW p \in Pages PROVE T[p] \in [Index -> EntryType]
    <3>1. CASE p \in m.pages
      BY <1>8, <1>9, <1>10, <2>1, <2>2, <2>3, <3>1
    <3>2. CASE p \notin m.pages
      <4>1. k[p] = 0
        BY <1>6, <3>2
      <4>2. T[p] = table[p]
        BY <4>1 DEF Written
      <4> QED BY <4>2 DEF TableType
    <3> QED BY <3>1, <3>2
  <2>5. T = [p \in Pages |-> T[p]]
    BY DEF Written
  <2> QED BY <2>4, <2>5 DEF TableType
<1>14. Places(r, m)
  <2>1. ASSUME NEW t \in m.pages PROVE t # 0 /\ m.level[t] \in 1 .. 4 /\ m.prefix[t] \in Nat
    <3>1. CASE t = r \/ t = b
      BY <1>3, <1>7, <3>1
    <3>2. CASE t # r /\ t # b
      <4>1. PICK g \in 0 .. Gibs - 1 : t = Nth(3 + g)
        BY <1>9, <3>2
      <4>2. m.level[t] = 3 /\ m.prefix[t] = g /\ t # 0 /\ g \in Nat
        BY <1>1, <1>4, <1>8, <4>1
      <4> QED BY <4>2
    <3> QED BY <3>1, <3>2
  <2> QED BY <1>6, <1>7, <2>1 DEF Places
<1>15. Points(T[r][0], b)
  <2>1. T[r][0] = Pointer(b)
    BY <1>1, <1>2, <1>10 DEF FirstTable
  <2> QED BY <1>11, <2>1, EntryFacts
<1>16. ASSUME NEW g \in 0 .. Gibs - 1, NEW p, p = Nth(3 + g)
       PROVE  Points(T[b][g], p) /\ g \in Index
  <2>1. g \in Index /\ g < Gibs
    BY <1>1
  <2>2. T[b][g] = Pointer(p)
    BY <1>10, <1>16, <2>1 DEF SecondTable
  <2>3. p \in Nat
    BY <1>8, <1>16
  <2> QED BY <2>1, <2>2, <2>3, EntryFacts
<1>17. Rooted(T, r, m)
  <2>1. ASSUME NEW t \in m.pages \ {r}
        PROVE  \E s \in m.pages, i \in Index : Points(T[s][i], t) /\ m.level[t] = m.level[s] + 1
    <3>1. CASE t = b
      <4>1. m.level[t] = m.level[r] + 1
        BY <1>7, <3>1
      <4> QED BY <1>1, <1>7, <1>15, <3>1, <4>1
    <3>2. CASE t # b
      <4>1. PICK g \in 0 .. Gibs - 1 : t = Nth(3 + g)
        BY <1>9, <3>2
      <4>2. m.level[t] = m.level[b] + 1
        BY <1>7, <1>8, <4>1
      <4> QED BY <1>7, <1>16, <4>1, <4>2
    <3> QED BY <3>1, <3>2
  <2> QED BY <2>1 DEF Rooted
<1>18. ASSUME NEW t \in m.pages, NEW i \in Index PROVE Placed(T[t][i], t, i, m)
  <2>0. i \in Nat /\ 0 * Entries + i = i
    BY <1>1 DEF Index
  <2>1. CASE t = r
    <3>1. Number(m, t, i) = i
      BY <1>7, <2>0, <2>1 DEF Number
    <3>2. CASE i = 0
      <4>1. T[t][i].present /\ ~T[t][i].huge /\ T[t][i].to = b
        BY <1>15, <2>1, <3>2 DEF Points
      <4> QED BY <1>7, <2>1, <3>1, <3>2, <4>1 DEF Placed
    <3>3. CASE i # 0
      <4>1. T[t][i] = Absent
        BY <1>10, <2>1, <3>3 DEF FirstTable
      <4> QED BY <4>1, EntryFacts DEF Placed
    <3> QED BY <3>2, <3>3
  <2>2. CASE t = b
    <3>1. Number(m, t, i) = i
      BY <1>7, <2>0, <2>2 DEF Number
    <3>2. CASE i < Gibs
      <4>1. i \in 0 .. Gibs - 1
        BY <1>1, <2>0, <3>2
      <4>2. PICK p : p = Nth(3 + i)
        OBVIOUS
      <4>3. T[t][i].present /\ ~T[t][i].huge /\ T[t][i].to = p
        BY <1>16, <2>2, <4>1, <4>2 DEF Points
      <4>4. p \in m.pages /\ m.level[p] = 3 /\ m.prefix[p] = i
        BY <1>8, <4>1, <4>2
      <4> QED BY <1>7, <2>2, <3>1, <4>3, <4>4 DEF Placed
    <3>3. CASE ~(i < Gibs)
      <4>1. T[t][i] = Absent
        BY <1>10, <2>2, <3>3 DEF SecondTable
      <4> QED BY <4>1, EntryFacts DEF Placed
    <3> QED BY <3>2, <3>3
  <2>3. CASE t # r /\ t # b
    <3>1. PICK g \in 0 .. Gibs - 1 : t = Nth(3 + g)
      BY <1>9, <2>3
    <3>2. m.level[t] = 3 /\ m.prefix[t] = g /\ T[t] = HugeTable(g)
      BY <1>8, <3>1
    <3>3. PICK x \in Nat : x = (g * Entries + i) * Entries /\ x = g * PagesPerGib + i * Entries
      BY <1>12
    <3>4. T[t][i] = Huge(x)
      BY <3>2, <3>3 DEF HugeTable
    <3>5. Number(m, t, i) * Entries = x
      BY <3>2, <3>3 DEF Number
    <3> QED BY <3>2, <3>4, <3>5, EntryFacts DEF Placed
  <2> QED BY <2>1, <2>2, <2>3
<1>19. ASSUME NEW v \in Identity PROVE Reach(T, r, v, m)
  <2>1. PICK g \in 0 .. Gibs - 1, c \in Index : g = At(v, 2) /\ At(v, 3) = 0 /\ c = At(v, 1)
    BY IdentityPages, Digits
  <2>2. PICK p : p = Nth(3 + g)
    OBVIOUS
  <2>3. p \in m.pages /\ T[p] = HugeTable(g)
    BY <1>8, <2>2
  <2>4. T[p][c].huge
    BY <2>3 DEF HugeTable, Huge
  <2> QED BY <1>7, <1>15, <1>16, <2>1, <2>2, <2>3, <2>4 DEF Reach
<1> QED BY <1>13, <1>14, <1>17, <1>18, <1>19 DEF Tree

-----------------------------------------------------------------------------
(* The inductive invariant of the page tables: some map of them describes  *)
(* them, every table is a page held and no arena, and every page promised  *)
(* is reached.  Before paging_init the heap alone has taken pages.         *)

Own(S) == \A t \in S : <<t, 1>> \in held /\ ~IsArena(t)

Maps(m) ==
  /\ Tree(table, root, m) /\ Own(m.pages)
  /\ \A v \in Identity \cup mapped : Reach(table, root, v, m)
  /\ todo # {} => \A v \in asked \ todo : Reach(table, root, v, m)

BootInv ==
  /\ booted \in BOOLEAN
  /\ booted => ready
  /\ mapped \subseteq Virtual /\ todo \subseteq Virtual
  /\ todo # {} => asked \subseteq Virtual
  /\ ~booted => /\ table \in TableType /\ todo = {} /\ mapped = {}
                /\ held = {} \/ (ready /\ \E s \in Nat : held = {<<s, ArenaPages>>})

PagingInv == BootInv /\ (Enough => \E m : Maps(m))

LEMMA FreeNotArena ==
  ASSUME MInv, NEW p \in free
  PROVE  ~IsArena(p)
<1>1. SUFFICES ASSUME NEW i \in DOMAIN arenas, arenas[i].base = p PROVE FALSE
  BY DEF IsArena
<1>2. PICK r : r = <<arenas[i].base, arenas[i].pages>>
  OBVIOUS
<1>3. r \in held /\ r[1] = p
  BY <1>1, <1>2 DEF MInv, Runs
<1>4. p \in Run(r[1], r[2]) /\ Run(r[1], r[2]) \cap free = {}
  BY <1>3, HeldFacts DEF MInv
<1> QED BY <1>4

LEMMA OwnNotFree ==
  ASSUME PInv, NEW S, Own(S)
  PROVE  S \cap free = {}
<1>1. ASSUME NEW t \in S, t \in free PROVE FALSE
  <2>1. PICK r : r = <<t, 1>>
    OBVIOUS
  <2>2. r \in held /\ r[1] = t
    BY <2>1 DEF Own
  <2> QED BY <1>1, <2>2, HeldFacts
<1> QED BY <1>1

(* A step that leaves the page tables alone, and takes none of their pages.*)
LEMMA Untouched ==
  ASSUME PagingInv, booted, UNCHANGED pagingVars, usable' = usable, ready' = ready,
         \A t \in TablePages : <<t, 1>> \in held /\ ~IsArena(t) =>
                                 <<t, 1>> \in held' /\ ~IsArena(t)'
  PROVE  PagingInv'
<1>1. UNCHANGED <<table, root, booted, todo, asked, mapped>>
  BY DEF pagingVars
<1>2. BootInv'
  BY <1>1 DEF PagingInv, BootInv
<1>3. ASSUME Enough' PROVE \E m : Maps(m)'
  <2>1. Enough
    BY <1>1, <1>3 DEF Enough
  <2>2. PICK m : Maps(m)
    BY <2>1 DEF PagingInv
  <2>3. TablePages = m.pages
    BY <2>2, TablesAre DEF Maps
  <2>4. Own(m.pages)'
    BY <2>2, <2>3 DEF Maps, Own
  <2>5. Maps(m)'
    BY <1>1, <2>2, <2>4 DEF Maps
  <2> QED BY <2>5
<1> QED BY <1>2, <1>3 DEF PagingInv

LEMMA PagingInitHolds == MInit => PagingInv
<1> SUFFICES ASSUME MInit PROVE PagingInv
  OBVIOUS
<1>1. table = [p \in Pages |-> Stale] /\ booted = FALSE /\ todo = {} /\ mapped = {} /\ held = {}
  BY DEF MInit, Init, PmmInit
<1>2. table \in TableType
  BY <1>1, EntryFacts DEF TableType, Stale
<1>3. BootInv
  BY <1>1, <1>2 DEF BootInv
<1> QED BY <1>1, <1>3 DEF PagingInv, Enough

(* kheap_init, before paging_init.                                         *)
LEMMA HeapReady ==
  ASSUME MInv, PagingInv, KheapInit, UNCHANGED pagingVars
  PROVE  PagingInv'
<1>1. ~ready /\ ready' = TRUE /\ UNCHANGED <<table, root, booted, todo, asked, mapped>>
  BY DEF KheapInit, pagingVars
<1>2. ~booted /\ held = {} /\ table \in TableType /\ todo = {} /\ mapped = {}
  BY <1>1 DEF PagingInv, BootInv
<1>3. held' = {} \/ \E s \in Nat : held' = {<<s, ArenaPages>>}
  <2>1. CASE UNCHANGED <<pmmVars, block, arenas, freeUnits>>
    BY <1>2, <2>1 DEF pmmVars
  <2>2. ASSUME NEW s \in FirstRun(ArenaPages), AddArena(s, ArenaPages)
        PROVE  held' = {} \/ \E t \in Nat : held' = {<<t, ArenaPages>>}
    <3>1. held' = held \cup {<<s, ArenaPages>>} /\ s \in free
      BY <2>2 DEF AddArena, Take, FirstRun
    <3>2. s \in Nat
      BY <3>1, FreeFinite DEF MInv, Pages
    <3> QED BY <1>2, <3>1, <3>2
  <2> QED BY <2>1, <2>2 DEF KheapInit
<1>4. booted' = FALSE
  BY <1>1, <1>2 DEF PagingInv, BootInv
<1>5. BootInv'
  BY <1>1, <1>2, <1>3, <1>4 DEF BootInv
<1> QED BY <1>4, <1>5 DEF PagingInv, Enough

(* The pages held when paging_init runs are at most those of the heap.     *)
LEMMA PagesEnough ==
  ASSUME PInv, held = {} \/ \E s \in Nat : held = {<<s, ArenaPages>>},
         Cardinality((usable \cap Pages) \ {0}) >= ArenaPages + 2 + Gibs
  PROVE  Cardinality(free) >= 2 + Gibs
<1>1. PICK A \in Nat, G \in Nat : A = ArenaPages /\ G = Gibs
  BY PagingAssumption, HeapAssumption
<1>2. IsFiniteSet(HeldPages) /\ Cardinality(HeldPages) \in 0 .. A
  <2>1. CASE held = {}
    <3>1. HeldPages = {}
      BY <2>1 DEF HeldPages
    <3> QED BY <3>1, FS_EmptySet
  <2>2. ASSUME NEW s \in Nat, held = {<<s, A>>}
        PROVE  IsFiniteSet(HeldPages) /\ Cardinality(HeldPages) \in 0 .. A
    <3>1. HeldPages = Run(s, A)
      BY <2>2 DEF HeldPages
    <3>2. IsFiniteSet(Run(s, A)) /\ Cardinality(Run(s, A)) = A
      BY RunFacts
    <3> QED BY <3>1, <3>2
  <2> QED BY <1>1, <2>1, <2>2
<1>3. /\ free \cup HeldPages = (usable \cap Pages) \ {0} /\ free \cap HeldPages = {}
      /\ IsFiniteSet(free) /\ Cardinality(free) \in Nat
  BY FreeFinite DEF PInv, PagesPartitioned
<1>4. Cardinality(free \cup HeldPages) = Cardinality(free) + Cardinality(HeldPages) - Cardinality(free \cap HeldPages)
  BY <1>2, <1>3, FS_Union
<1>5. Cardinality(free \cap HeldPages) = 0
  <2>1. free \cap HeldPages = {}
    BY <1>3
  <2>2. Cardinality({}) = 0
    BY FS_EmptySet
  <2> QED BY <2>1, <2>2, Zenon
<1>6. Cardinality(free \cup HeldPages) >= A + 2 + G
  BY <1>1, <1>3, Zenon
<1> QED BY <1>1, <1>2, <1>3, <1>4, <1>5, <1>6

LEMMA Boot ==
  ASSUME MInv, PagingInv, PagingInit
  PROVE  PagingInv'
<1>1. /\ ready /\ ~booted /\ booted' = TRUE /\ TakePages(2 + Gibs) /\ root' = Nth(1)
      /\ UNCHANGED <<heapVars, todo, asked, mapped>>
  BY DEF PagingInit
<1>2. /\ table \in TableType /\ todo = {} /\ mapped = {}
      /\ held = {} \/ \E s \in Nat : held = {<<s, ArenaPages>>}
  BY <1>1 DEF PagingInv, BootInv
<1>3. ready' = ready /\ arenas' = arenas /\ usable' = usable /\ todo' = {} /\ mapped' = {}
  BY <1>1, <1>2 DEF heapVars, TakePages
<1>4. BootInv'
  BY <1>1, <1>3 DEF BootInv
<1>5. ASSUME Enough' PROVE \E m : Maps(m)'
  <2>1. Cardinality((usable \cap Pages) \ {0}) >= ArenaPages + 2 + Gibs
    BY <1>3, <1>5 DEF Enough
  <2>2. PInv /\ Cardinality(free) >= 2 + Gibs
    BY <1>2, <2>1, PagesEnough DEF MInv
  <2>3. PICK k : Counting(k)
    BY <2>2, CountExists
  <2>4. PICK T, r, m : T = Written(k, Gibs) /\ r = Nth(1) /\ m = BootMap(k)
    OBVIOUS
  <2>5. table' = T /\ root' = r
    BY <1>1, <1>2, <2>3, <2>4, BootIs
  <2>6. Tree(T, r, m) /\ \A v \in Identity : Reach(T, r, v, m)
    BY <1>2, <2>3, <2>4, BootTree
  <2>7. ASSUME NEW t \in m.pages PROVE <<t, 1>> \in held' /\ ~IsArena(t)'
    <3>1. t \in Pages /\ k[t] # 0
      BY <2>4 DEF BootMap
    <3>2. PICK j \in 1 .. 2 + Gibs : j = k[t]
      BY <2>3, <3>1, PagingAssumption DEF Counting
    <3>3. Nth(j) = t /\ Nth(j) # 0
      BY <2>3, <3>1, <3>2 DEF Counting
    <3>4. 2 + Gibs \in Int
      BY PagingAssumption
    <3>5. <<t, 1>> \in held' /\ t \in free
      BY <1>1, <2>2, <3>2, <3>3, <3>4, NthTaken
    <3>6. ~IsArena(t)
      BY <3>5, FreeNotArena
    <3> QED BY <1>3, <3>5, <3>6 DEF IsArena
  <2>8. Own(m.pages)'
    BY <2>7 DEF Own
  <2>9. Maps(m)'
    BY <1>3, <2>5, <2>6, <2>8 DEF Maps
  <2> QED BY <2>9
<1> QED BY <1>4, <1>5 DEF PagingInv

(* A call of paging_identity_map_region begins: every page of its region is*)
(* to be looked at.                                                        *)
LEMMA RegionBegins ==
  ASSUME PagingInv, NEW r \in Regions, MapRegion(r)
  PROVE  PagingInv'
<1>1. /\ booted /\ todo = {} /\ asked' = Touched(r)
      /\ todo' = r.addr \div 2 .. LastPage(r)
      /\ UNCHANGED <<pmmVars, heapVars, table, root, booted, mapped>>
  BY DEF MapRegion, vars
<1>2. PICK a \in Nat, n \in Nat \ {0} : a = r.addr /\ n = r.size
  BY PagingAssumption
<1>3. PICK q \in Nat, i \in 0 .. 1 : q = a \div 2 /\ a = 2 * q + i
  BY Quotient
<1>4. PICK l \in Nat, j \in 0 .. 1 : l = (a + n + 1) \div 2 /\ a + n + 1 = 2 * l + j
  <2>1. a + n + 1 \in Nat
    BY <1>2
  <2> QED BY <2>1, Quotient
<1>5. todo' = q .. l - 1 /\ l - 1 \in Virtual
  BY <1>1, <1>2, <1>3, <1>4, RegionsAssumption DEF LastPage
<1>6. todo' \subseteq Virtual
  <2>1. PICK e : e = Entries * Entries * PagesPerGib - 1
    OBVIOUS
  <2>2. Virtual = 0 .. e
    BY <2>1 DEF Virtual
  <2>3. e \in Int
    <3>1. PICK E \in Nat : E = Entries
      BY PagingAssumption
    <3>2. E * E \in Nat /\ E * E * (E * E) \in Nat
      OBVIOUS
    <3> QED BY <2>1, <3>1, <3>2 DEF PagesPerGib
  <2> QED BY <1>5, <2>2, <2>3
<1>7. asked' \subseteq todo'
  <2>1. ASSUME NEW half \in a .. a + n - 1 PROVE half \div 2 \in q .. l - 1
    <3>1. PICK p \in Nat, k \in 0 .. 1 : p = half \div 2 /\ half = 2 * p + k
      BY Quotient
    <3>2. half \in Nat /\ a <= half /\ half + 2 <= a + n + 1
      OBVIOUS
    <3>3. PICK b \in Nat, c \in Nat : b = half /\ c = a + n + 1
      BY <3>2
    <3>4. b = 2 * p + k /\ 2 * q + i <= b /\ b + 2 <= 2 * l + j
      BY <1>3, <1>4, <3>1, <3>2, <3>3
    <3>5. q <= p /\ p + 1 <= l
      BY <3>4
    <3> QED BY <3>1, <3>5
  <2> QED BY <1>1, <1>2, <1>5, <2>1 DEF Touched
<1>8. BootInv'
  BY <1>1, <1>6, <1>7 DEF PagingInv, BootInv, heapVars
<1>9. ASSUME Enough' PROVE \E m : Maps(m)'
  <2>1. Enough
    BY <1>1, <1>9 DEF Enough, pmmVars
  <2>2. PICK m : Maps(m)
    BY <2>1 DEF PagingInv
  <2>3. Own(m.pages)'
    BY <1>1, <2>2 DEF Maps, Own, IsArena, heapVars, pmmVars
  <2>4. Maps(m)'
    BY <1>1, <1>7, <2>2, <2>3 DEF Maps
  <2> QED BY <2>4
<1> QED BY <1>8, <1>9 DEF PagingInv

(* What follows for the pages promised when the least page v of those to be*)
(* looked at has been: the walk reaches v when the call goes on.           *)
LEMMA Promised ==
  ASSUME NEW m, NEW g, NEW v \in todo, NEW done \in BOOLEAN, Maps(m), PagingInv,
         Tree(table', root, g), root' = root, Extends(m, g), Keeps(table, table', m.pages),
         Own(g.pages)', done => Reach(table', root, v, g), asked' = asked,
         todo' = IF done THEN todo \ {v} ELSE {},
         mapped' = IF todo = {v} /\ done THEN mapped \cup asked ELSE mapped
  PROVE  Maps(g)'
<1>1. /\ Identity \subseteq Virtual /\ mapped \subseteq Virtual /\ asked \subseteq Virtual
  BY IdentityPages DEF PagingInv, BootInv
<1>2. Tree(table, root, m)
  BY DEF Maps
<1>3. ASSUME NEW u \in Virtual, Reach(table, root, u, m) PROVE Reach(table', root, u, g)
  <2>1. PICK T, U : T = table /\ U = table'
    OBVIOUS
  <2>2. Reach(U, root, u, g)
    BY <1>2, <1>3, <2>1, Kept
  <2> QED BY <2>1, <2>2
<1>4. ASSUME done, NEW u \in asked, u \notin todo \ {v} PROVE Reach(table', root, u, g)
  <2>1. CASE u = v
    BY <1>4, <2>1
  <2>2. CASE u # v
    <3>1. Reach(table, root, u, m)
      BY <1>4, <2>2 DEF Maps
    <3> QED BY <1>1, <1>3, <3>1
  <2> QED BY <2>1, <2>2
<1>5. \A u \in Identity \cup mapped : Reach(table', root, u, g)
  BY <1>1, <1>3 DEF Maps
<1>6. \A u \in mapped' : Reach(table', root, u, g)
  <2>1. CASE todo = {v} /\ done
    BY <1>4, <1>5, <2>1
  <2>2. CASE ~(todo = {v} /\ done)
    BY <1>5, <2>2
  <2> QED BY <2>1, <2>2
<1>7. todo' # {} => \A u \in asked' \ todo' : Reach(table', root, u, g)
  BY <1>4
<1>8. Identity' = Identity
  BY DEF Identity, PagesPerGib
<1> QED BY <1>5, <1>6, <1>7, <1>8 DEF Maps

LEMMA PageLooked ==
  ASSUME MInv, PagingInv, MapPage
  PROVE  PagingInv'
<1>1. PICK v \in todo :
        /\ IF v \in Identity
           THEN todo' = todo \ {v} /\ UNCHANGED <<pmmVars, table>>
           ELSE LET w == LeafTable(v) IN
                /\ TakePages(w.taken)
                /\ table' = IF w.ok THEN WithEntry(w, v) ELSE w.tables
                /\ todo' = IF w.ok THEN todo \ {v} ELSE {}
        /\ mapped' = IF todo = {v} /\ todo' = {} /\ (v \in Identity \/ LeafTable(v).ok)
                     THEN mapped \cup asked ELSE mapped
  BY DEF MapPage
<1>2. UNCHANGED <<heapVars, root, booted, asked>>
  BY DEF MapPage
<1>3. PICK w, done : w = LeafTable(v) /\ done = (v \in Identity \/ w.ok)
  OBVIOUS
<1>4. done \in BOOLEAN
  BY <1>3
<1>5. todo' = IF done THEN todo \ {v} ELSE {}
  BY <1>1, <1>3
<1>6. mapped' = IF todo = {v} /\ done THEN mapped \cup asked ELSE mapped
  <2>1. todo = {v} => todo' = {}
    BY <1>5
  <2> QED BY <1>1, <1>3, <2>1
<1>7. v \in Virtual /\ asked \subseteq Virtual /\ booted /\ ready
  BY DEF PagingInv, BootInv
<1>8. BootInv'
  <2>1. ready' = ready
    BY <1>2 DEF heapVars
  <2>2. mapped' \subseteq Virtual /\ todo' \subseteq Virtual /\ asked' \subseteq Virtual
    BY <1>2, <1>5, <1>6, <1>7 DEF PagingInv, BootInv
  <2> QED BY <1>2, <1>7, <2>1, <2>2 DEF BootInv
<1>9. ASSUME Enough' PROVE \E g : Maps(g)'
  <2>1. PInv
    BY DEF MInv
  <2>2. Enough
    <3>1. usable' = usable
      BY <1>1, <1>3 DEF TakePages, pmmVars
    <3> QED BY <1>2, <1>9, <3>1 DEF Enough
  <2>3. PICK m : Maps(m)
    BY <2>2 DEF PagingInv
  <2>4. Tree(table, root, m) /\ Own(m.pages) /\ m.pages \cap free = {}
    BY <2>1, <2>3, OwnNotFree DEF Maps
  <2>5. root' = root /\ asked' = asked /\ arenas' = arenas
    BY <1>2 DEF heapVars
  <2>6. CASE v \in Identity
    <3>1. table' = table /\ held' = held
      BY <1>1, <2>6 DEF pmmVars
    <3>2. Own(m.pages)'
      BY <2>4, <2>5, <3>1 DEF Own, IsArena
    <3>3. Extends(m, m) /\ Keeps(table, table', m.pages)
      BY <3>1 DEF Extends, Keeps
    <3>4. Tree(table', root, m) /\ Reach(table', root, v, m)
      BY <2>3, <2>4, <2>6, <3>1 DEF Maps
    <3>5. Maps(m)'
      BY <1>4, <1>5, <1>6, <2>3, <2>5, <3>2, <3>3, <3>4, Promised
    <3> QED BY <3>5
  <2>7. CASE v \notin Identity
    <3>1. PICK U : U = IF w.ok THEN WithEntry(w, v) ELSE w.tables
      OBVIOUS
    <3>2. PICK k \in Nat : k = w.taken
      BY <1>3, LeafWalk
    <3>3. table' = U /\ TakePages(k) /\ k \in Int
      BY <1>1, <1>3, <2>7, <3>1, <3>2
    <3>4. Remapped(U, w.taken, w.ok, m, v)
      BY <1>3, <1>7, <2>1, <2>4, <3>1, PageMapped
    <3>5. PICK g : /\ Tree(U, root, g) /\ Extends(m, g) /\ Keeps(table, U, m.pages)
                   /\ \A t \in g.pages \ m.pages : \E j \in 1 .. k : t = Nth(j)
                   /\ w.ok => Reach(U, root, v, g)
      BY <3>2, <3>4 DEF Remapped
    <3>6. ASSUME NEW t \in g.pages PROVE <<t, 1>> \in held' /\ ~IsArena(t)'
      <4>1. <<t, 1>> \in held' /\ ~IsArena(t)
        <5>1. CASE t \in m.pages
          <6>1. held \subseteq held'
            BY <2>1, <3>3, TakePagesFacts
          <6> QED BY <2>4, <5>1, <6>1 DEF Own
        <5>2. CASE t \notin m.pages
          <6>1. PICK j \in 1 .. k : t = Nth(j)
            BY <3>5, <5>2
          <6>2. Nth(j) # 0
            BY <3>5, <6>1 DEF Tree, Places
          <6>3. <<t, 1>> \in held' /\ t \in free
            BY <2>1, <3>3, <6>1, <6>2, NthTaken
          <6> QED BY <6>3, FreeNotArena
        <5> QED BY <5>1, <5>2
      <4> QED BY <2>5, <4>1 DEF IsArena
    <3>7. Own(g.pages)'
      BY <3>6 DEF Own
    <3>8. /\ Tree(table', root, g) /\ Keeps(table, table', m.pages)
          /\ done => Reach(table', root, v, g)
      BY <1>3, <2>7, <3>3, <3>5
    <3>9. Maps(g)'
      BY <1>4, <1>5, <1>6, <2>3, <2>5, <3>5, <3>7, <3>8, Promised
    <3> QED BY <3>9
  <2> QED BY <2>6, <2>7
<1> QED BY <1>8, <1>9 DEF PagingInv

(* A new arena is made of pages that were free, so no table lies there.    *)
LEMMA HeapGrows ==
  ASSUME MInv, PagingInv, booted, NEW needed \in Sizes, KmallocGrows(needed),
         UNCHANGED pagingVars
  PROVE  PagingInv'
<1>1. PICK s, n : AddArena(s, n) /\ s \in free
  BY DEF KmallocGrows, FirstRun
<1>2. /\ held' = held \cup {<<s, n>>} /\ usable' = usable /\ ready' = ready
      /\ arenas' = <<[base |-> s, pages |-> n]>> \o arenas
  BY <1>1 DEF AddArena, Take, KmallocGrows
<1>3. arenas \in Seq(ArenaType) /\ PInv
  BY DEF MInv
<1>4. ASSUME NEW t, <<t, 1>> \in held, ~IsArena(t) PROVE ~IsArena(t)'
  <2>1. t # s
    <3>1. PICK r : r = <<t, 1>>
      OBVIOUS
    <3> QED BY <1>1, <1>3, <1>4, <3>1, HeldFacts
  <2>2. PICK e, B : e = [base |-> s, pages |-> n] /\ B = <<e>> \o arenas
    OBVIOUS
  <2>3. ASSUME NEW i \in DOMAIN B PROVE B[i] = e \/ \E j \in DOMAIN arenas : B[i] = arenas[j]
    <3>1. PICK l \in Nat : l = Len(arenas) /\ DOMAIN arenas = 1 .. l
      BY <1>3
    <3>2. DOMAIN B = 1 .. l + 1 /\ B[1] = e /\ \A j \in 2 .. l + 1 : B[j] = arenas[j - 1]
      BY <1>3, <2>2, <3>1
    <3>3. CASE i = 1
      BY <3>2, <3>3
    <3>4. CASE i # 1
      <4>1. i \in 2 .. l + 1 /\ i - 1 \in 1 .. l
        BY <3>2, <3>4
      <4> QED BY <3>1, <3>2, <4>1
    <3> QED BY <3>3, <3>4
  <2>4. \A i \in DOMAIN B : B[i].base # t
    BY <1>4, <2>1, <2>2, <2>3 DEF IsArena
  <2> QED BY <1>2, <2>2, <2>4 DEF IsArena
<1> QED BY <1>2, <1>4, Untouched

LEMMA PagingStepKeeps == MInv /\ PagingInv /\ [MNext]_allVars => PagingInv'
<1> SUFFICES ASSUME MInv, PagingInv, [MNext]_allVars PROVE PagingInv'
  OBVIOUS
<1>1. CASE KheapInit /\ UNCHANGED pagingVars
  BY <1>1, HeapReady
<1>2. CASE PagingInit
  BY <1>2, Boot
<1>3. ASSUME NEW r \in Regions, MapRegion(r) PROVE PagingInv'
  BY <1>3, RegionBegins
<1>4. CASE MapPage
  BY <1>4, PageLooked
<1>5. ASSUME booted, UNCHANGED pagingVars, NEW n \in Sizes, KmallocFits(n) PROVE PagingInv'
  <2>1. usable' = usable /\ ready' = ready /\ held' = held /\ arenas' = arenas
    BY <1>5 DEF KmallocFits, pmmVars
  <2> QED BY <1>5, <2>1, Untouched DEF IsArena
<1>6. ASSUME booted, UNCHANGED pagingVars, NEW n \in Sizes, KmallocGrows(n) PROVE PagingInv'
  BY <1>6, HeapGrows
<1>7. ASSUME booted, UNCHANGED pagingVars, NEW a \in given, Kfree(a[1], a[2]) PROVE PagingInv'
  <2>1. usable' = usable /\ ready' = ready /\ held' = held /\ arenas' = arenas
    BY <1>7 DEF Kfree, pmmVars
  <2> QED BY <1>7, <2>1, Untouched DEF IsArena
<1>8. ASSUME booted, UNCHANGED pagingVars, TakePage PROVE PagingInv'
  <2>1. usable' = usable /\ ready' = ready /\ arenas' = arenas
    BY <1>8 DEF TakePage, AllocPage, heapVars
  <2>2. held \subseteq held'
    BY <1>8, AllocPageFacts DEF MInv, TakePage
  <2> QED BY <1>8, <2>1, <2>2, Untouched DEF IsArena
<1>9. ASSUME booted, UNCHANGED pagingVars, NEW n \in 1 .. MaxRun, TakeRun(n) PROVE PagingInv'
  <2>1. usable' = usable /\ ready' = ready /\ arenas' = arenas
    BY <1>9 DEF TakeRun, AllocContiguous, heapVars
  <2>2. n \in Nat \ {0}
    OBVIOUS
  <2>3. held \subseteq held'
    BY <1>9, <2>2, AllocContiguousFacts DEF MInv, TakeRun
  <2> QED BY <1>9, <2>1, <2>3, Untouched DEF IsArena
<1>10. ASSUME booted, UNCHANGED pagingVars, NEW run \in held, run[1] \notin TablePages,
              GiveBack(run[1], run[2])
       PROVE  PagingInv'
  <2>1. usable' = usable /\ ready' = ready /\ arenas' = arenas
    BY <1>10 DEF GiveBack, Free, heapVars
  <2>2. held' = held \ {<<run[1], run[2]>>}
    BY <1>10, ReleaseFacts DEF MInv, GiveBack
  <2>3. ASSUME NEW t \in TablePages, <<t, 1>> \in held PROVE <<t, 1>> \in held'
    <3>1. t # run[1]
      BY <1>10
    <3>2. <<t, 1>> # <<run[1], run[2]>>
      BY <3>1
    <3> QED BY <2>2, <2>3, <3>2
  <2> QED BY <1>10, <2>1, <2>3, Untouched DEF IsArena
<1>11. CASE UNCHANGED allVars
  <2>1. /\ UNCHANGED pagingVars /\ usable' = usable /\ ready' = ready /\ held' = held
        /\ arenas' = arenas
    BY <1>11 DEF allVars, vars, pmmVars, heapVars
  <2>2. CASE booted
    BY <2>1, <2>2, Untouched DEF IsArena
  <2>3. CASE ~booted
    BY <2>1, <2>3 DEF PagingInv, BootInv, Enough, pagingVars
  <2> QED BY <2>2, <2>3
<1> QED BY <1>1, <1>2, <1>3, <1>4, <1>5, <1>6, <1>7, <1>8, <1>9, <1>10, <1>11 DEF MNext

LEMMA InvTables == MInv /\ PagingInv => TablesApart
<1> SUFFICES ASSUME MInv, PagingInv, Enough
             PROVE  /\ TablePages \cap free = {}
                    /\ \A t \in TablePages : <<t, 1>> \in held /\ ~IsArena(t)
                    /\ \A k, l \in 1 .. 4 : k # l => Tables[k] \cap Tables[l] = {}
  BY DEF TablesApart
<1>1. PICK m : Maps(m)
  BY DEF PagingInv
<1>2. Tree(table, root, m) /\ Own(m.pages)
  BY <1>1 DEF Maps
<1>3. /\ TablePages = m.pages
      /\ \A l \in 1 .. 4 : \A t \in Tables[l] : m.level[t] = l
  BY <1>2, TablesAre
<1>4. m.pages \cap free = {}
  BY <1>2, OwnNotFree DEF MInv
<1> QED BY <1>2, <1>3, <1>4 DEF Own

LEMMA InvIdentity == PagingInv => IdentityHolds
<1> SUFFICES ASSUME PagingInv, Enough
             PROVE  /\ \A v \in Identity \cup mapped : Translate(v) = v
                    /\ \A v \in Virtual : Translate(v) \in {v, -1}
  BY DEF IdentityHolds
<1>1. PICK m : Maps(m)
  BY DEF PagingInv
<1>2. Identity \cup mapped \subseteq Virtual
  BY IdentityPages DEF PagingInv, BootInv
<1>3. /\ Tree(table, root, m)
      /\ \A v \in Identity \cup mapped : Reach(table, root, v, m)
  BY <1>1 DEF Maps
<1> QED BY <1>2, <1>3, Translates

LEMMA PagingInvariance == MSpec => [](MInv /\ PagingInv)
<1>1. MInit => MInv /\ PagingInv
  BY InitHolds, PagingInitHolds
<1>2. MInv /\ PagingInv /\ [MNext]_allVars => (MInv /\ PagingInv)'
  BY StepKeeps, PagingStepKeeps
<1> QED BY <1>1, <1>2, PTL DEF MSpec

(* Whatever regions are mapped, whatever the heap and the drivers take and *)
(* give back in between, every page table is a page of its own that nobody *)
(* else holds, and stands at one level only.                               *)
THEOREM TablesStayApart == MSpec => []TablesApart
BY PagingInvariance, InvTables, PTL

(* No address ever translates to another one, the memory below the limit is*)
(* always there, and so is every page of a region whose call returned true.*)
THEOREM IdentityAlwaysHolds == MSpec => []IdentityHolds
BY PagingInvariance, InvIdentity, PTL
=============================================================================
