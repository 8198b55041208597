--------------------------- MODULE PageTableProofs ---------------------------
(***************************************************************************)
(* Theorems about PageTable, for any number of processes, any size of the  *)
(* tables, any programs and any amount of memory.                          *)
(***************************************************************************)
EXTENDS PageTable, FrameAllocatorProofs

-----------------------------------------------------------------------------
(* The memory: the lists and trackers are well formed, and whatever frame  *)
(* was ever taken is no longer in a list.  As nothing that is dropped ever *)
(* comes back, a frame that is taken is one that nobody knows.             *)

Reach(x) == x.ppn .. x.ppn + x.num - 1

Mem(t) ==
  /\ Typed(t.fl, t.tr) /\ Apart(t.fl, t.tr)
  /\ t.pte \in [DOMAIN t.pte -> [Line -> Nat]]
  /\ DOMAIN t.pte \subseteq Nat \ {Empty}
  /\ \A f \in DOMAIN t.pte : ~IsFree(t.fl, f - BEGIN)
  /\ \A x \in t.tr : Reach(x) \subseteq DOMAIN t.pte

LEMMA Constants ==
  /\ PTE_PER_PAGE \in Nat /\ PTE_PER_PAGE > 0 /\ HALF \in Nat /\ LOW_END \in Nat
  /\ 0 .. HALF - 1 \subseteq Line /\ KernelLines \subseteq Line
  /\ \A i \in KernelLines : i \notin 0 .. HALF - 1
  /\ 1 \in Counts /\ DMA \in Counts /\ KSTACK \in Counts /\ KSTACK # 1
  /\ BEGIN \in Nat /\ BEGIN > 0 /\ NoFrame \in Nat /\ BEGIN <= NoFrame - 1
  /\ Cleared \in [Line -> Nat]
  <1>1. PTE_PER_PAGE \in Nat /\ PTE_PER_PAGE > 0 /\ PTE_PER_PAGE % 2 = 0
        /\ KernelLines \subseteq HALF .. PTE_PER_PAGE - 1
        /\ 1 \in Counts /\ DMA \in Counts /\ KSTACK \in Counts /\ KSTACK # 1
    BY PageTableAssumption, CountsAssumption
  <1>2. HALF \in Nat /\ HALF <= PTE_PER_PAGE
    BY <1>1, Z3 DEF HALF
  <1>3. HALF * PTE_PER_PAGE \in Nat /\ LOW_END \in Nat
    BY <1>1, <1>2, Z3 DEF LOW_END
  <1>4. BEGIN \in Nat /\ BEGIN >= Pow2[ORDER]
    BY BeginAssumption
  <1>5. BEGIN > 0 /\ NoFrame \in Nat /\ BEGIN <= NoFrame - 1
    BY <1>4, OrderFacts DEF NoFrame
  <1>6. Cleared \in [Line -> Nat]
    BY DEF Cleared, Empty
  <1>7. 0 .. HALF - 1 \subseteq Line /\ KernelLines \subseteq Line
        /\ \A i \in KernelLines : i \notin 0 .. HALF - 1
    BY <1>1, <1>2 DEF Line
  <1> QED BY <1>1, <1>2, <1>3, <1>4, <1>5, <1>6, <1>7

\* A tracker and the block behind it.
LEMMA ReachFacts ==
  ASSUME NEW x \in Tracker
  PROVE  /\ x.ppn \in Reach(x) /\ x.ppn \in Nat /\ x.num \in Nat \ {0}
         /\ x.ppn \in BEGIN .. NoFrame - 1
         /\ \A f \in Reach(x) : f \in Nat /\ f # 0 /\ f - BEGIN \in Held(x)
  <1>1. x.num \in Counts /\ x.ppn \in BEGIN .. BEGIN + Frames - 1
    BY DEF Tracker
  <1>2. x.num \in Nat \ {0} /\ BEGIN \in Nat /\ x.num <= Pow2[BITS] /\ Pow2[BITS] \in Nat
    BY <1>1, CountFacts
  <1>3. ClassOf(x.num) \in Exponent /\ x.num <= Pow2[ClassOf(x.num)]
    BY <1>2, ClassFacts
  <1>4. Pow2[ClassOf(x.num)] \in Nat
    BY <1>3, Powers
  <1>5. \A f \in Reach(x) : f \in Nat /\ f # 0 /\ f - BEGIN \in Held(x)
    BY <1>1, <1>2, <1>3, <1>4, Constants DEF Reach, Held, Block
  <1>6. x.ppn \in BEGIN .. NoFrame - 1 /\ x.ppn \in Nat
    BY <1>1, <1>2, OrderFacts DEF NoFrame
  <1>7. x.ppn \in Reach(x)
    BY <1>2, <1>6 DEF Reach
  <1> QED BY <1>2, <1>5, <1>6, <1>7

\* frame_alloc(num).unwrap()
LEMMA TakenFacts ==
  ASSUME NEW t, Mem(t), NEW num \in Counts, Taken(t, num).ok,
         NEW u, u = Taken(t, num),
         NEW f, f = TakenPpn(t, num),
         NEW x, x = [ppn |-> f, num |-> num]
  PROVE  /\ t.ok /\ u.s = t.s /\ u.tr = t.tr \cup {x}
         /\ f \in Reach(x) /\ f \in BEGIN .. NoFrame - 1
         /\ Reach(x) \cap DOMAIN t.pte = {}
         /\ DOMAIN u.pte = DOMAIN t.pte \cup Reach(x)
         /\ \A g \in Reach(x) : u.pte[g] = Cleared
         /\ \A g \in DOMAIN t.pte : u.pte[g] = t.pte[g]
         /\ Mem(u)
  <1> DEFINE a == Alloc(t.fl, num)
  <1>1. CanAlloc(t.fl, num)
    BY DEF Taken, With
  <1>2. a = [tracker |-> a.tracker, left |-> a.left] /\ a.tracker.num = num
        /\ a.tracker = [ppn |-> a.tracker.ppn, num |-> num]
    BY DEF Alloc
  <1>3. u = Received(t, a) /\ f = a.tracker.ppn
    BY <1>1 DEF Taken, TakenPpn
  <1> HIDE DEF a
  <1>4. x = a.tracker
    BY <1>2, <1>3
  <1>5. /\ u.fl = a.left /\ u.tr = t.tr \cup {x} /\ u.s = t.s /\ u.ok = t.ok
        /\ u.pte = [g \in DOMAIN t.pte \cup Reach(x) |-> IF g \in Reach(x) THEN Cleared ELSE t.pte[g]]
    BY <1>3, <1>4 DEF Received, Reach
  <1>6. /\ Typed(u.fl, u.tr) /\ Apart(u.fl, u.tr) /\ x \in Tracker
        /\ \A y \in Held(x) : IsFree(t.fl, y) /\ ~IsFree(u.fl, y)
        /\ \A y : IsFree(u.fl, y) => IsFree(t.fl, y)
    <2>1. Typed(t.fl, t.tr) /\ Apart(t.fl, t.tr) /\ Alloc(t.fl, num) = [tracker |-> x, left |-> u.fl]
      BY <1>2, <1>4, <1>5 DEF a, Mem
    <2>2. /\ Typed(u.fl, t.tr \cup {x}) /\ Apart(u.fl, t.tr \cup {x}) /\ x \in Tracker
          /\ \A y \in Held(x) : IsFree(t.fl, y) /\ ~IsFree(u.fl, y)
          /\ \A y : IsFree(u.fl, y) => IsFree(t.fl, y)
      BY <1>1, <2>1, AllocFacts
    <2> QED BY <1>5, <2>2
  <1>7. /\ f \in Reach(x) /\ f \in BEGIN .. NoFrame - 1
        /\ \A g \in Reach(x) : g \in Nat /\ g # 0 /\ g - BEGIN \in Held(x)
    BY <1>6, ReachFacts
  <1>8. Reach(x) \cap DOMAIN t.pte = {}
    BY <1>6, <1>7 DEF Mem
  <1>9. /\ DOMAIN u.pte = DOMAIN t.pte \cup Reach(x)
        /\ \A g \in Reach(x) : u.pte[g] = Cleared
        /\ \A g \in DOMAIN t.pte : u.pte[g] = t.pte[g]
    BY <1>5, <1>8
  <1>10. Mem(u)
    <2>1. u.pte \in [DOMAIN u.pte -> [Line -> Nat]]
      <3>1. \A g \in DOMAIN u.pte : u.pte[g] \in [Line -> Nat]
        BY <1>9, Constants DEF Mem
      <3>2. u.pte = [g \in DOMAIN u.pte |-> u.pte[g]]
        BY <1>5
      <3> QED BY <3>1, <3>2
    <2>2. DOMAIN u.pte \subseteq Nat \ {Empty}
      BY <1>7, <1>9 DEF Mem, Empty
    <2>3. \A g \in DOMAIN u.pte : ~IsFree(u.fl, g - BEGIN)
      BY <1>6, <1>7, <1>9 DEF Mem
    <2>4. \A y \in u.tr : Reach(y) \subseteq DOMAIN u.pte
      BY <1>5, <1>9 DEF Mem
    <2> QED BY <1>6, <2>1, <2>2, <2>3, <2>4 DEF Mem
  <1>11. t.ok
    BY <1>5
  <1> QED BY <1>5, <1>7, <1>8, <1>9, <1>10, <1>11

\* What is dropped does not come back.
LEMMA DropFacts ==
  ASSUME NEW t, Mem(t), NEW x \in t.tr, NEW u, u = drop(t, x)
  PROVE  /\ u.fl = t.fl /\ u.tr = t.tr \ {x} /\ u.pte = t.pte /\ u.s = t.s /\ u.ok = t.ok
         /\ Mem(u)
  <1>1. t.fl \in [Class -> SUBSET (0 .. Frames - 1)] /\ x \in Tracker
    BY DEF Mem, Typed
  <1>2. u.fl = t.fl /\ u.tr = t.tr \ {x} /\ u.pte = t.pte /\ u.s = t.s /\ u.ok = t.ok
    BY <1>1, DropLoses DEF drop
  <1>3. Typed(u.fl, u.tr) /\ Apart(u.fl, u.tr)
    BY <1>2 DEF Mem, Typed, Apart
  <1> QED BY <1>2, <1>3 DEF Mem

-----------------------------------------------------------------------------
(* The tree of tables below a root, in the lines L of the root: the root   *)
(* and the tables of the first and the second level are different frames,  *)
(* no table has two entries that point to it, and there are no others.     *)

Upper(ptes, root, L) == {ptes[root][i] : i \in L} \ {Empty}
Lower(ptes, root, L) == {ptes[f][i] : f \in Upper(ptes, root, L), i \in Line} \ {Empty}

Tree(ptes, r, F, L) ==
  /\ r \in F /\ F \subseteq DOMAIN ptes
  /\ F = {r} \cup Upper(ptes, r, L) \cup Lower(ptes, r, L)
  /\ r \notin Upper(ptes, r, L) \cup Lower(ptes, r, L)
  /\ Upper(ptes, r, L) \cap Lower(ptes, r, L) = {}
  /\ \A i, j \in L : ptes[r][i] = ptes[r][j] /\ ptes[r][i] # Empty => i = j
  /\ \A f, g \in Upper(ptes, r, L), i, j \in Line :
       ptes[f][i] = ptes[g][j] /\ ptes[f][i] # Empty => f = g /\ i = j

Step(ptes, f, i) == IF f = Empty THEN Empty ELSE ptes[f][i]
Walk(ptes, root, i, j, k) == Step(ptes, Step(ptes, ptes[root][i], j), k)

\* The lines L of the root r translate alike.
SameWalks(ptes, g, r, L) ==
  \A i \in L : \A j \in Line : \A k \in Line : Walk(g, r, i, j, k) = Walk(ptes, r, i, j, k)

\* Changes elsewhere do not matter.
LEMMA TreeSame ==
  ASSUME NEW ptes, NEW r, NEW F, NEW L, L \subseteq Line, Tree(ptes, r, F, L),
         NEW g, F \subseteq DOMAIN g,
         \A f \in F \ {r} : g[f] = ptes[f],
         \A i \in L : g[r][i] = ptes[r][i]
  PROVE  /\ Tree(g, r, F, L)
         /\ SameWalks(ptes, g, r, L)
  <1> DEFINE A == Upper(ptes, r, L)
             B == Lower(ptes, r, L)
  <1>1. Upper(g, r, L) = A
    BY DEF Upper
  <1>2. /\ A \subseteq F \ {r} /\ B \subseteq F \ {r}
        /\ \A i \in L : ptes[r][i] # Empty => ptes[r][i] \in A
        /\ \A f \in A, i \in Line : ptes[f][i] # Empty => ptes[f][i] \in B
    <2>1. \A i \in L : ptes[r][i] # Empty => ptes[r][i] \in A
      BY DEF Upper
    <2>2. \A f \in A, i \in Line : ptes[f][i] # Empty => ptes[f][i] \in B
      BY DEF Lower
    <2>3. A \subseteq F \ {r} /\ B \subseteq F \ {r}
      BY DEF Tree
    <2> QED BY <2>1, <2>2, <2>3
  <1>3. Lower(g, r, L) = B
    BY <1>1, <1>2 DEF Lower
  <1> HIDE DEF A, B
  <1>4. Tree(g, r, F, L)
    BY <1>1, <1>2, <1>3 DEF Tree, A, B
  <1>5. ASSUME NEW i \in L, NEW j \in Line, NEW k \in Line
        PROVE  Walk(g, r, i, j, k) = Walk(ptes, r, i, j, k)
    <2>1. CASE ptes[r][i] = Empty
      BY <2>1 DEF Walk, Step
    <2>2. CASE ptes[r][i] # Empty
      <3>1. ptes[r][i] \in A /\ g[ptes[r][i]] = ptes[ptes[r][i]]
        BY <1>2, <2>2
      <3>2. Step(g, g[r][i], j) = Step(ptes, ptes[r][i], j)
        BY <3>1 DEF Step
      <3>3. ptes[ptes[r][i]][j] # Empty => g[ptes[ptes[r][i]][j]] = ptes[ptes[ptes[r][i]][j]]
        BY <1>2, <3>1
      <3> QED BY <2>2, <3>2, <3>3 DEF Walk, Step
    <2> QED BY <2>1, <2>2
  <1> QED BY <1>4, <1>5 DEF SameWalks

\* g is ptes with a new table n in entry l of the table h.
Links(ptes, h, l, n, g) ==
  /\ h \in DOMAIN ptes /\ l \in Line /\ ptes[h][l] = Empty
  /\ n \notin DOMAIN ptes /\ n # Empty
  /\ DOMAIN g = DOMAIN ptes \cup {n} /\ g[n] = Cleared
  /\ \A f \in DOMAIN ptes \ {h} : g[f] = ptes[f]
  /\ \A i \in Line : g[h][i] = (IF i = l THEN n ELSE ptes[h][i])

\* A new table of the first level.
LEMMA LinkFirst ==
  ASSUME NEW ptes, NEW r, NEW F, NEW L, L \subseteq Line, Tree(ptes, r, F, L),
         NEW l \in L, NEW n, NEW g, Links(ptes, r, l, n, g)
  PROVE  /\ Tree(g, r, F \cup {n}, L)
         /\ SameWalks(ptes, g, r, L)
  <1> USE DEF Links
  <1> DEFINE A == Upper(ptes, r, L)
             B == Lower(ptes, r, L)
  <1>1. /\ A \subseteq F \ {r} /\ B \subseteq F \ {r} /\ F \subseteq DOMAIN ptes
        /\ F = {r} \cup A \cup B /\ A \cap B = {} /\ r \in F
    BY DEF Tree
  <1>2. \A i \in L : ptes[r][i] # Empty => ptes[r][i] \in A
    BY DEF Upper
  <1>3. \A f \in A, i \in Line : ptes[f][i] # Empty => ptes[f][i] \in B
    BY DEF Lower
  <1>4. \A i \in Line : g[n][i] = Empty
    BY DEF Cleared
  <1>5. \A f \in A \cup B : g[f] = ptes[f] /\ f # n
    BY <1>1
  <1>6. Upper(g, r, L) = A \cup {n}
    <2>1. \A x \in Upper(g, r, L) : x \in A \cup {n}
      BY <1>2 DEF Upper
    <2>2. \A x \in A : x \in Upper(g, r, L)
      BY DEF Upper
    <2>3. n \in Upper(g, r, L)
      BY DEF Upper
    <2> QED BY <2>1, <2>2, <2>3
  <1>7. Lower(g, r, L) = B
    <2>1. \A x \in Lower(g, r, L) : x \in B
      <3> SUFFICES ASSUME NEW f \in A \cup {n}, NEW i \in Line, g[f][i] # Empty
                   PROVE  g[f][i] \in B
        BY <1>6 DEF Lower
      <3> QED BY <1>3, <1>4, <1>5
    <2>2. \A x \in B : x \in Lower(g, r, L)
      <3> SUFFICES ASSUME NEW f \in A, NEW i \in Line, ptes[f][i] # Empty
                   PROVE  ptes[f][i] \in Lower(g, r, L)
        BY DEF Lower
      <3>1. g[f][i] = ptes[f][i] /\ f \in Upper(g, r, L)
        BY <1>5, <1>6
      <3> QED BY <3>1 DEF Lower
    <2> QED BY <2>1, <2>2
  <1>8. \A i, j \in L : g[r][i] = g[r][j] /\ g[r][i] # Empty => i = j
    <2>1. \A i \in L : ptes[r][i] # n
      BY <1>1, <1>2
    <2> QED BY <2>1 DEF Tree
  <1>9. \A f, h \in A \cup {n}, i, j \in Line :
          g[f][i] = g[h][j] /\ g[f][i] # Empty => f = h /\ i = j
    BY <1>4, <1>5 DEF Tree
  <1> HIDE DEF A, B
  <1>10. Tree(g, r, F \cup {n}, L)
    BY <1>1, <1>6, <1>7, <1>8, <1>9 DEF Tree
  <1>11. ASSUME NEW i \in L, NEW j \in Line, NEW k \in Line
         PROVE  Walk(g, r, i, j, k) = Walk(ptes, r, i, j, k)
    <2>1. CASE i = l
      <3>1. g[r][i] = n /\ g[n][j] = Empty
        BY <1>4, <2>1
      <3> QED BY <2>1, <3>1 DEF Walk, Step
    <2>2. CASE i # l /\ ptes[r][i] = Empty
      BY <2>2 DEF Walk, Step
    <2>3. CASE i # l /\ ptes[r][i] # Empty
      <3>1. g[r][i] = ptes[r][i] /\ ptes[r][i] \in A
        BY <1>2, <2>3
      <3>2. g[ptes[r][i]] = ptes[ptes[r][i]]
        BY <1>5, <3>1
      <3>3. ptes[ptes[r][i]][j] # Empty => g[ptes[ptes[r][i]][j]] = ptes[ptes[ptes[r][i]][j]]
        BY <1>3, <1>5, <3>1
      <3> QED BY <2>3, <3>1, <3>2, <3>3 DEF Walk, Step
    <2> QED BY <2>1, <2>2, <2>3
  <1> QED BY <1>10, <1>11 DEF SameWalks

\* A new table of the second level.
LEMMA LinkSecond ==
  ASSUME NEW ptes, NEW r, NEW F, NEW L, L \subseteq Line, Tree(ptes, r, F, L),
         NEW m \in L, NEW h, h = ptes[r][m], h # Empty,
         NEW l, NEW n, NEW g, Links(ptes, h, l, n, g)
  PROVE  /\ Tree(g, r, F \cup {n}, L)
         /\ SameWalks(ptes, g, r, L)
  <1> USE DEF Links
  <1> DEFINE A == Upper(ptes, r, L)
             B == Lower(ptes, r, L)
  <1>1. /\ A \subseteq F \ {r} /\ B \subseteq F \ {r} /\ F \subseteq DOMAIN ptes
        /\ F = {r} \cup A \cup B /\ A \cap B = {} /\ r \in F
    BY DEF Tree
  <1>2. \A i \in L : ptes[r][i] # Empty => ptes[r][i] \in A
    BY DEF Upper
  <1>3. \A f \in A, i \in Line : ptes[f][i] # Empty => ptes[f][i] \in B
    BY DEF Lower
  <1>4. \A i \in Line : g[n][i] = Empty
    BY DEF Cleared
  <1>5. h \in A /\ h # r /\ h \notin B /\ n \notin A \cup B /\ n # r
    BY <1>1, <1>2
  <1>6. g[r] = ptes[r] /\ \A f \in A \cup B : f # h => g[f] = ptes[f]
    BY <1>1, <1>5
  <1>7. Upper(g, r, L) = A
    BY <1>6 DEF Upper
  <1>8. \A f \in A, i \in Line : g[f][i] = (IF f = h /\ i = l THEN n ELSE ptes[f][i])
    BY <1>6
  <1>9. Lower(g, r, L) = B \cup {n}
    <2>1. \A x \in Lower(g, r, L) : x \in B \cup {n}
      <3> SUFFICES ASSUME NEW f \in A, NEW i \in Line, g[f][i] # Empty
                   PROVE  g[f][i] \in B \cup {n}
        BY <1>7 DEF Lower
      <3> QED BY <1>3, <1>8
    <2>2. \A x \in B : x \in Lower(g, r, L)
      <3> SUFFICES ASSUME NEW f \in A, NEW i \in Line, ptes[f][i] # Empty
                   PROVE  ptes[f][i] \in Lower(g, r, L)
        BY DEF Lower
      <3>1. g[f][i] = ptes[f][i] /\ f \in Upper(g, r, L)
        BY <1>7, <1>8
      <3> QED BY <3>1 DEF Lower
    <2>3. n \in Lower(g, r, L)
      <3>1. g[h][l] = n /\ h \in Upper(g, r, L)
        BY <1>5, <1>7
      <3> QED BY <3>1 DEF Lower
    <2> QED BY <2>1, <2>2, <2>3
  <1>10. \A f, d \in A, i, j \in Line :
          g[f][i] = g[d][j] /\ g[f][i] # Empty => f = d /\ i = j
    <2>1. \A f \in A, i \in Line : ptes[f][i] # n
      BY <1>3, <1>5
    <2> QED BY <1>8, <2>1 DEF Tree
  <1>11. \A i, j \in L : g[r][i] = g[r][j] /\ g[r][i] # Empty => i = j
    BY <1>6 DEF Tree
  <1> HIDE DEF A, B
  <1>12. Tree(g, r, F \cup {n}, L)
    BY <1>1, <1>5, <1>7, <1>9, <1>10, <1>11 DEF Tree
  <1>13. ASSUME NEW i \in L, NEW j \in Line, NEW k \in Line
         PROVE  Walk(g, r, i, j, k) = Walk(ptes, r, i, j, k)
    <2> DEFINE a == ptes[r][i]
    <2>1. g[r][i] = a
      BY <1>6
    <2>2. CASE a = Empty
      BY <2>1, <2>2 DEF Walk, Step
    <2>3. CASE a # Empty
      <3>1. a \in A
        BY <1>2, <2>3
      <3>2. CASE a = h /\ j = l
        <4>1. g[a][j] = n /\ ptes[a][j] = Empty
          BY <3>2
        <4> QED BY <1>4, <2>1, <2>3, <4>1 DEF Walk, Step
      <3>3. CASE ~(a = h /\ j = l)
        <4>1. g[a][j] = ptes[a][j]
          BY <1>8, <3>1, <3>3
        <4>2. ptes[a][j] # Empty => g[ptes[a][j]] = ptes[ptes[a][j]]
          BY <1>3, <1>5, <1>6, <3>1
        <4> QED BY <2>1, <2>3, <4>1, <4>2 DEF Walk, Step
      <3> QED BY <3>2, <3>3
    <2> QED BY <2>2, <2>3
  <1> QED BY <1>12, <1>13 DEF SameWalks

\* g is ptes with x in entry k of the table b.
Sets(ptes, b, k, x, g) ==
  /\ DOMAIN g = DOMAIN ptes
  /\ \A f \in DOMAIN ptes \ {b} : g[f] = ptes[f]
  /\ \A e \in Line : g[b][e] = (IF e = k THEN x ELSE ptes[b][e])

\* b is the table of the second level on the way of the indexes i, j and k.
Way(ptes, r, L, i, j, k, b) ==
  /\ i \in L /\ j \in Line /\ k \in Line
  /\ ptes[r][i] # Empty /\ b = ptes[ptes[r][i]][j] /\ b # Empty

\* One translation becomes x, and that is all.
OneWalk(ptes, g, r, L, index, x) ==
  \A i \in L : \A j \in Line : \A k \in Line :
    Walk(g, r, i, j, k) = IF <<i, j, k>> = index THEN x ELSE Walk(ptes, r, i, j, k)

\* An entry of a table of the second level: one translation changes.
LEMMA SetLeaf ==
  ASSUME NEW ptes, NEW r, NEW F, NEW L, L \subseteq Line, Tree(ptes, r, F, L),
         NEW i, NEW j, NEW k, NEW b, Way(ptes, r, L, i, j, k, b),
         NEW x, NEW g, Sets(ptes, b, k, x, g)
  PROVE  /\ Tree(g, r, F, L) /\ b \in F \ {r}
         /\ Walk(ptes, r, i, j, k) = ptes[b][k]
         /\ OneWalk(ptes, g, r, L, <<i, j, k>>, x)
  <1> USE DEF Sets, Way
  <1> DEFINE a == ptes[r][i]
             A == Upper(ptes, r, L)
             B == Lower(ptes, r, L)
  <1>1. /\ A \subseteq F \ {r} /\ B \subseteq F \ {r} /\ F \subseteq DOMAIN ptes
        /\ F = {r} \cup A \cup B /\ A \cap B = {} /\ r \in F
    BY DEF Tree
  <1>2. \A e \in L : ptes[r][e] # Empty => ptes[r][e] \in A
    BY DEF Upper
  <1>3. \A f \in A, e \in Line : ptes[f][e] # Empty => ptes[f][e] \in B
    BY DEF Lower
  <1>4. a \in A /\ b \in B /\ b \in F \ {r} /\ b \in DOMAIN ptes
    BY <1>1, <1>2, <1>3
  <1>5. g[r] = ptes[r] /\ \A f \in A : g[f] = ptes[f]
    BY <1>1, <1>4
  <1>6. Upper(g, r, L) = A
    BY <1>5 DEF Upper
  <1>7. Lower(g, r, L) = B
    BY <1>5, <1>6 DEF Lower
  <1> HIDE DEF A, B
  <1>8. Tree(g, r, F, L)
    BY <1>1, <1>5, <1>6, <1>7 DEF Tree, A, B
  <1>9. Walk(ptes, r, i, j, k) = ptes[b][k]
    BY DEF Walk, Step
  <1>10. ASSUME NEW i2 \in L, NEW j2 \in Line, NEW k2 \in Line
         PROVE  Walk(g, r, i2, j2, k2) = IF <<i2, j2, k2>> = <<i, j, k>> THEN x
                                         ELSE Walk(ptes, r, i2, j2, k2)
    <2> DEFINE c == ptes[r][i2]
               d == ptes[c][j2]
    <2>1. g[r][i2] = c
      BY <1>5
    <2>2. CASE c = Empty
      <3>1. i2 # i
        BY <2>2
      <3> QED BY <2>1, <2>2, <3>1 DEF Walk, Step
    <2>3. CASE c # Empty
      <3>1. c \in A /\ g[c][j2] = d
        BY <1>2, <1>5, <2>3
      <3>2. CASE d = Empty
        <4>1. ~(i2 = i /\ j2 = j)
          BY <3>2
        <4> QED BY <2>1, <2>3, <3>1, <3>2, <4>1 DEF Walk, Step
      <3>3. CASE d # Empty /\ d = b
        <4>1. c = a /\ j2 = j
          BY <1>4, <3>1, <3>3 DEF Tree, A
        <4>2. i2 = i
          BY <4>1, <2>3 DEF Tree
        <4>3. Walk(g, r, i2, j2, k2) = g[b][k2] /\ Walk(ptes, r, i2, j2, k2) = ptes[b][k2]
          BY <2>1, <2>3, <3>1, <3>3 DEF Walk, Step
        <4> QED BY <4>1, <4>2, <4>3
      <3>4. CASE d # Empty /\ d # b
        <4>1. ~(i2 = i /\ j2 = j)
          BY <3>4
        <4>2. g[d] = ptes[d]
          BY <1>1, <1>3, <3>1, <3>4
        <4> QED BY <2>1, <2>3, <3>1, <3>4, <4>1, <4>2 DEF Walk, Step
      <3> QED BY <3>2, <3>3, <3>4
    <2> QED BY <2>2, <2>3
  <1> QED BY <1>4, <1>8, <1>9, <1>10 DEF OneWalk

-----------------------------------------------------------------------------
(* find_pte_create, map and unmap.                                         *)

\* An address space with the tables in the lines L of its root.
Base(t, L) == Mem(t) /\ Tree(t.pte, t.s.root, t.s.frames, L) /\ Ones(t.s.frames) \subseteq t.tr

\* Tables are added; nothing else changes outside of the tables.
Wider(t, u, L) ==
  /\ DOMAIN t.pte \subseteq DOMAIN u.pte
  /\ \A f \in DOMAIN t.pte \ t.s.frames : u.pte[f] = t.pte[f]
  /\ u.s.root = t.s.root /\ u.s.data = t.s.data
  /\ \A i \in Line \ L : u.pte[t.s.root][i] = t.pte[t.s.root][i]
  /\ \A i \in L : t.pte[t.s.root][i] # Empty => u.pte[t.s.root][i] = t.pte[t.s.root][i]
  /\ t.s.frames \subseteq u.s.frames
  /\ \A f \in u.s.frames \ t.s.frames : f \notin DOMAIN t.pte
  /\ u.tr = t.tr \cup Ones(u.s.frames \ t.s.frames)

Grow(t, u, L) == Wider(t, u, L) /\ SameWalks(t.pte, u.pte, t.s.root, L)

LEMMA Except ==
  ASSUME NEW D, NEW p \in [D -> [Line -> Nat]], NEW f \in D, NEW i \in Line, NEW x \in Nat,
         NEW q, q = [p EXCEPT ![f][i] = x]
  PROVE  /\ q \in [D -> [Line -> Nat]] /\ DOMAIN q = D /\ DOMAIN p = D
         /\ \A g \in D \ {f} : q[g] = p[g]
         /\ \A j \in Line : q[f][j] = (IF j = i THEN x ELSE p[f][j])
  OBVIOUS

\* The entries of tables are not the allocator's business.
LEMMA MemWrite ==
  ASSUME NEW t, Mem(t), NEW u, u.fl = t.fl, u.tr = t.tr, u.pte \in [DOMAIN t.pte -> [Line -> Nat]]
  PROVE  Mem(u)
  <1>1. DOMAIN u.pte = DOMAIN t.pte
    OBVIOUS
  <1> QED BY <1>1 DEF Mem

LEMMA OneFacts ==
  /\ \A f, g : One(f) = One(g) => f = g
  /\ \A f : One(f).ppn = f /\ One(f).num = 1
  /\ \A f, F : One(f) \in Ones(F) <=> f \in F
  /\ \A f \in Nat : Reach(One(f)) = {f}
  /\ \A F, G : F \subseteq G => Ones(F) \subseteq Ones(G)
  /\ \A F, G : Ones(F \cup G) = Ones(F) \cup Ones(G)
  <1>1. \A f : One(f).ppn = f /\ One(f).num = 1
    BY DEF One
  <1>2. \A f, g : One(f) = One(g) => f = g
    BY <1>1
  <1>3. \A f, F : One(f) \in Ones(F) <=> f \in F
    BY <1>2 DEF Ones
  <1>4. \A f \in Nat : Reach(One(f)) = {f}
    BY <1>1 DEF Reach
  <1>5. \A F, G : F \subseteq G => Ones(F) \subseteq Ones(G)
    BY DEF Ones
  <1>6. \A F, G : Ones(F \cup G) = Ones(F) \cup Ones(G)
    BY DEF Ones
  <1> QED BY <1>1, <1>2, <1>3, <1>4, <1>5, <1>6

\* A single frame.
LEMMA OneTaken ==
  ASSUME NEW t, Mem(t), Taken(t, 1).ok, NEW u, u = Taken(t, 1), NEW f, f = TakenPpn(t, 1)
  PROVE  /\ t.ok /\ u.s = t.s /\ u.tr = t.tr \cup {One(f)}
         /\ f \in Nat /\ f # Empty /\ f \notin DOMAIN t.pte
         /\ DOMAIN u.pte = DOMAIN t.pte \cup {f} /\ u.pte[f] = Cleared
         /\ \A g \in DOMAIN t.pte : u.pte[g] = t.pte[g]
         /\ Mem(u)
  <1>1. 1 \in Counts /\ One(f) = [ppn |-> f, num |-> 1]
    BY Constants DEF One
  <1>2. /\ t.ok /\ u.s = t.s /\ u.tr = t.tr \cup {One(f)} /\ f \in BEGIN .. NoFrame - 1
        /\ Reach(One(f)) \cap DOMAIN t.pte = {}
        /\ DOMAIN u.pte = DOMAIN t.pte \cup Reach(One(f))
        /\ \A g \in Reach(One(f)) : u.pte[g] = Cleared
        /\ \A g \in DOMAIN t.pte : u.pte[g] = t.pte[g]
        /\ Mem(u)
    BY <1>1, TakenFacts
  <1>3. f \in Nat /\ f # Empty
    BY <1>2, Constants DEF Empty
  <1>4. Reach(One(f)) = {f}
    BY <1>3, OneFacts
  <1> QED BY <1>2, <1>3, <1>4

LEMMA TableFacts ==
  ASSUME NEW t, NEW L, L \subseteq Line, Base(t, L), NEW f, NEW l \in Line,
         (f = t.s.root /\ l \in L) \/ (\E m \in L : f = t.pte[t.s.root][m] /\ f # Empty),
         NEW u, u = Table(t, f, l), u.ok
  PROVE  t.ok /\ Base(u, L) /\ Grow(t, u, L) /\ u.pte[f][l] # Empty
  <1> DEFINE r == t.s.root
  <1>1. CASE t.pte[f][l] # Empty
    <2>1. u = t
      BY <1>1 DEF Table
    <2>2. Ones(t.s.frames \ t.s.frames) = {}
      BY DEF Ones
    <2> QED BY <1>1, <2>1, <2>2 DEF Grow, Wider, SameWalks
  <1>2. CASE t.pte[f][l] = Empty
    <2> DEFINE w == Taken(t, 1)
               n == TakenPpn(t, 1)
    <2>1. u = Linked(w, f, l, n)
      BY <1>2 DEF Table
    <2> HIDE DEF w, n
    <2> DEFINE e == [w.pte EXCEPT ![f][l] = n]
    <2>2. /\ u.fl = w.fl /\ u.tr = w.tr /\ u.pte = e /\ (u.ok <=> w.ok)
          /\ u.s.root = w.s.root /\ u.s.frames = w.s.frames \cup {n} /\ u.s.data = w.s.data
      <3>1. u = With(w, e, [root |-> w.s.root, frames |-> w.s.frames \cup {n}, data |-> w.s.data], w.ok)
        BY <2>1 DEF Linked
      <3> HIDE DEF e
      <3>2. u.fl = w.fl
        BY <3>1 DEF With
      <3>3. u.pte = e
        BY <3>1 DEF With
      <3>4. u.ok <=> w.ok
        BY <3>1 DEF With
      <3>5. u.s.root = w.s.root /\ u.s.frames = w.s.frames \cup {n}
        BY <3>1 DEF With
      <3> QED BY <3>1, <3>2, <3>3, <3>4, <3>5 DEF With
    <2> HIDE DEF e
    <2>3. Mem(t) /\ w.ok
      BY <2>2 DEF Base
    <2>4. /\ t.ok /\ w.s = t.s /\ w.tr = t.tr \cup {One(n)}
          /\ n \in Nat /\ n # Empty /\ n \notin DOMAIN t.pte
          /\ DOMAIN w.pte = DOMAIN t.pte \cup {n} /\ w.pte[n] = Cleared
          /\ \A g \in DOMAIN t.pte : w.pte[g] = t.pte[g]
          /\ Mem(w)
      BY <2>3, OneTaken DEF w, n
    <2>5. t.s.frames \subseteq DOMAIN t.pte /\ r \in t.s.frames /\ f \in t.s.frames
      <3>1. t.s.frames \subseteq DOMAIN t.pte /\ r \in t.s.frames
        BY DEF Base, Tree
      <3>2. \A m \in L : t.pte[r][m] # Empty => t.pte[r][m] \in Upper(t.pte, r, L)
        BY DEF Upper
      <3>3. Upper(t.pte, r, L) \subseteq t.s.frames
        BY DEF Base, Tree
      <3> QED BY <3>1, <3>2, <3>3
    <2>6. f \in DOMAIN t.pte /\ f # n
      BY <2>4, <2>5
    <2>7. /\ Mem(u) /\ DOMAIN u.pte = DOMAIN w.pte
          /\ \A g \in DOMAIN w.pte \ {f} : u.pte[g] = w.pte[g]
          /\ \A j \in Line : u.pte[f][j] = IF j = l THEN n ELSE w.pte[f][j]
      <3>1. w.pte \in [DOMAIN w.pte -> [Line -> Nat]] /\ f \in DOMAIN w.pte
        BY <2>4, <2>6 DEF Mem
      <3>2. /\ e \in [DOMAIN w.pte -> [Line -> Nat]] /\ DOMAIN e = DOMAIN w.pte
            /\ \A g \in DOMAIN w.pte \ {f} : e[g] = w.pte[g]
            /\ \A j \in Line : e[f][j] = (IF j = l THEN n ELSE w.pte[f][j])
        BY <2>4, <3>1, Except DEF e
      <3>3. Mem(u)
        BY <2>2, <2>4, <3>2, MemWrite
      <3> QED BY <2>2, <3>2, <3>3
    <2>8. /\ DOMAIN u.pte = DOMAIN t.pte \cup {n} /\ u.pte[n] = Cleared
          /\ \A g \in DOMAIN t.pte \ {f} : u.pte[g] = t.pte[g]
          /\ \A j \in Line : u.pte[f][j] = (IF j = l THEN n ELSE t.pte[f][j])
          /\ u.s.root = r /\ u.s.frames = t.s.frames \cup {n} /\ u.s.data = t.s.data
      BY <2>2, <2>4, <2>6, <2>7
    <2>9. t.pte \in [DOMAIN t.pte -> [Line -> Nat]] /\ Tree(t.pte, t.s.root, t.s.frames, L)
      BY DEF Base, Mem
    <2>14. Links(t.pte, f, l, n, u.pte)
      BY <1>2, <2>4, <2>6, <2>8 DEF Links
    <2>10. /\ Tree(u.pte, u.s.root, u.s.frames, L)
           /\ SameWalks(t.pte, u.pte, r, L)
           /\ \A i \in Line : t.pte[r][i] # Empty \/ i \notin L => u.pte[r][i] = t.pte[r][i]
      <3>1. CASE f = r /\ l \in L
        <4>1. /\ Tree(u.pte, u.s.root, u.s.frames, L)
              /\ SameWalks(t.pte, u.pte, r, L)
          <5>1. Links(t.pte, t.s.root, l, n, u.pte) /\ l \in L
            BY <2>14, <3>1
          <5>2. /\ Tree(u.pte, t.s.root, t.s.frames \cup {n}, L)
                /\ SameWalks(t.pte, u.pte, t.s.root, L)
            BY <2>9, <5>1, LinkFirst
          <5> QED BY <2>8, <5>2
        <4> QED BY <1>2, <2>8, <3>1, <4>1
      <3>2. ASSUME NEW m \in L, f = t.pte[r][m], f # Empty
            PROVE  /\ Tree(u.pte, u.s.root, u.s.frames, L)
                   /\ SameWalks(t.pte, u.pte, r, L)
                   /\ \A i \in Line : t.pte[r][i] # Empty \/ i \notin L => u.pte[r][i] = t.pte[r][i]
        <4>1. /\ Tree(u.pte, u.s.root, u.s.frames, L)
              /\ SameWalks(t.pte, u.pte, r, L)
          <5>1. /\ Tree(u.pte, t.s.root, t.s.frames \cup {n}, L)
                /\ SameWalks(t.pte, u.pte, t.s.root, L)
            BY <2>9, <2>14, <3>2, LinkSecond
          <5> QED BY <2>8, <5>1
        <4>2. f # r
          BY <2>9, <3>2 DEF Tree, Upper
        <4> QED BY <2>5, <2>8, <4>1, <4>2
      <3> QED BY <3>1, <3>2
    <2>11. u.s.frames \ t.s.frames = {n} /\ u.tr = t.tr \cup Ones({n})
      <3>1. Ones({n}) = {One(n)}
        BY DEF Ones
      <3>2. u.s.frames = t.s.frames \cup {n} /\ n \notin t.s.frames
        BY <2>4, <2>5, <2>8
      <3>3. u.tr = t.tr \cup {One(n)}
        BY <2>2, <2>4
      <3> QED BY <3>1, <3>2, <3>3
    <2>12. Grow(t, u, L)
      <3>1. /\ DOMAIN t.pte \subseteq DOMAIN u.pte
            /\ \A g \in DOMAIN t.pte \ t.s.frames : u.pte[g] = t.pte[g]
        BY <2>5, <2>8
      <3>2. /\ \A i \in Line \ L : u.pte[r][i] = t.pte[r][i]
            /\ \A i \in L : t.pte[r][i] # Empty => u.pte[r][i] = t.pte[r][i]
        BY <2>10
      <3>3. t.s.frames \subseteq u.s.frames /\ \A g \in u.s.frames \ t.s.frames : g \notin DOMAIN t.pte
        BY <2>4, <2>8
      <3>4. Wider(t, u, L)
        BY <2>8, <2>11, <3>1, <3>2, <3>3 DEF Wider
      <3> QED BY <2>10, <3>4 DEF Grow
    <2>13. Base(u, L)
      <3>1. Ones(u.s.frames) = Ones(t.s.frames) \cup Ones({n})
        BY <2>8, OneFacts
      <3> QED BY <2>7, <2>10, <2>11, <3>1 DEF Base
    <2> QED BY <2>4, <2>8, <2>12, <2>13
  <1> QED BY <1>1, <1>2

LEMMA OkFacts ==
  /\ \A t, num : Taken(t, num).ok => t.ok
  /\ \A t, f, i : Table(t, f, i).ok => t.ok
  /\ \A t, v, x, b : SetEntry(t, v, x, b).ok => t.ok
  <1>1. ASSUME NEW t, NEW num, Taken(t, num).ok PROVE t.ok
    <2>1. CanAlloc(t.fl, num)
      BY <1>1 DEF Taken, With
    <2>2. Received(t, Alloc(t.fl, num)).ok
      BY <1>1, <2>1 DEF Taken
    <2> QED BY <2>2 DEF Received
  <1>2. ASSUME NEW t, NEW f, NEW i, Table(t, f, i).ok PROVE t.ok
    <2>1. CASE t.pte[f][i] # Empty
      BY <1>2, <2>1 DEF Table
    <2>2. CASE t.pte[f][i] = Empty
      <3>1. Linked(Taken(t, 1), f, i, TakenPpn(t, 1)).ok
        BY <1>2, <2>2 DEF Table
      <3>2. Taken(t, 1).ok
        BY <3>1 DEF Linked, With
      <3> QED BY <1>1, <3>2
    <2> QED BY <2>1, <2>2
  <1>3. ASSUME NEW t, NEW v, NEW x, NEW b, SetEntry(t, v, x, b).ok PROVE t.ok
    BY <1>3 DEF SetEntry, With
  <1> QED BY <1>1, <1>2, <1>3

LEMMA WiderTrans ==
  ASSUME NEW t, NEW u, NEW w, NEW L, Base(t, L), Wider(t, u, L), Wider(u, w, L)
  PROVE  Wider(t, w, L)
  <1>1. t.s.frames \subseteq DOMAIN t.pte /\ t.s.root \in t.s.frames
    BY DEF Base, Tree
  <1>2. \A f \in w.s.frames \ t.s.frames : f \notin DOMAIN t.pte
    BY DEF Wider
  <1>3. \A f \in DOMAIN t.pte \ t.s.frames : w.pte[f] = t.pte[f]
    BY DEF Wider
  <1>4. w.tr = t.tr \cup Ones(w.s.frames \ t.s.frames)
    <2> DEFINE X == u.s.frames \ t.s.frames
               Y == w.s.frames \ u.s.frames
    <2>1. w.s.frames \ t.s.frames = X \cup Y /\ u.tr = t.tr \cup Ones(X) /\ w.tr = u.tr \cup Ones(Y)
      BY DEF Wider
    <2> HIDE DEF X, Y
    <2>2. Ones(X \cup Y) = Ones(X) \cup Ones(Y)
      BY OneFacts
    <2> QED BY <2>1, <2>2
  <1>5. /\ \A i \in Line \ L : w.pte[t.s.root][i] = t.pte[t.s.root][i]
        /\ \A i \in L : t.pte[t.s.root][i] # Empty => w.pte[t.s.root][i] = t.pte[t.s.root][i]
    BY DEF Wider
  <1> QED BY <1>1, <1>2, <1>3, <1>4, <1>5 DEF Wider

\* The indexes of a page.
I1(v) == indexes(v)[1]
I2(v) == indexes(v)[2]
I3(v) == indexes(v)[3]

LEMMA IndexFacts ==
  ASSUME NEW v \in Nat
  PROVE  /\ I1(v) \in Line /\ I2(v) \in Line /\ I3(v) \in Line
         /\ indexes(v) = <<I1(v), I2(v), I3(v)>>
  <1> DEFINE P == PTE_PER_PAGE
             q == v \div P
  <1>1. P \in Nat /\ P > 0
    BY Constants
  <1> HIDE DEF P
  <1>2. q \in Nat
    BY <1>1, Z3
  <1> HIDE DEF q
  <1>3. (q \div P) \in Nat
    BY <1>1, <1>2, Z3
  <1>4. (q \div P) % P \in 0 .. P - 1 /\ q % P \in 0 .. P - 1 /\ v % P \in 0 .. P - 1
    BY <1>1, <1>2, <1>3, Z3
  <1>5. indexes(v) = <<(q \div P) % P, q % P, v % P>>
    BY DEF indexes, q, P
  <1> QED BY <1>4, <1>5 DEF I1, I2, I3, Line, P

LEMMA FindFacts ==
  ASSUME NEW ptes, NEW r, r # Empty, NEW v \in Nat
  PROVE  find_pte(ptes, r, v) = Walk(ptes, r, I1(v), I2(v), I3(v))
  BY DEF find_pte, Walk, Step, I1, I2, I3

LEMMA CreateFacts ==
  ASSUME NEW t, NEW L, L \subseteq Line, Base(t, L), NEW v \in Nat, I1(v) \in L,
         NEW u, u = find_pte_create(t, v), u.ok
  PROVE  /\ t.ok /\ Base(u, L) /\ Grow(t, u, L)
         /\ First(u, v) # Empty /\ Leaf(u, v) # Empty
  <1> DEFINE r == t.s.root
             w == Table(t, r, I1(v))
             f == First(w, v)
  <1>1. u = Table(w, f, I2(v))
    BY DEF find_pte_create, Below, I1, I2
  <1> HIDE DEF w
  <1>2. w.ok
    BY <1>1, OkFacts
  <1>3. I1(v) \in Line /\ I2(v) \in Line /\ I3(v) \in Line
    BY IndexFacts
  <1>4. t.ok /\ Base(w, L) /\ Grow(t, w, L) /\ w.pte[r][I1(v)] # Empty
    BY <1>2, <1>3, TableFacts DEF w
  <1>5. w.s.root = r /\ f = w.pte[r][I1(v)]
    BY <1>4 DEF Grow, Wider, First, I1
  <1> HIDE DEF f
  <1>6. Base(u, L) /\ Grow(w, u, L) /\ u.pte[f][I2(v)] # Empty
    <2>1. \E m \in L : f = w.pte[w.s.root][m] /\ f # Empty
      BY <1>4, <1>5
    <2> QED BY <1>1, <1>3, <1>4, <2>1, TableFacts
  <1>7. u.s.root = r /\ u.pte[r][I1(v)] = f
    <2>1. Wider(w, u, L)
      BY <1>6 DEF Grow
    <2>2. w.pte[w.s.root][I1(v)] # Empty /\ w.s.root = r /\ f = w.pte[r][I1(v)]
      BY <1>4, <1>5
    <2> QED BY <2>1, <2>2 DEF Wider
  <1>8. First(u, v) = f /\ Leaf(u, v) = u.pte[f][I2(v)]
    BY <1>7 DEF First, Leaf, I1, I2
  <1>9. Wider(t, u, L)
    BY <1>4, <1>6, WiderTrans DEF Grow
  <1>10. SameWalks(t.pte, u.pte, r, L)
    BY <1>4, <1>5, <1>6 DEF Grow, SameWalks
  <1> QED BY <1>4, <1>5, <1>6, <1>8, <1>9, <1>10 DEF Grow

LEMMA SetFacts ==
  ASSUME NEW t, NEW L, L \subseteq Line, Base(t, L), NEW v \in Nat, I1(v) \in L,
         NEW x \in Nat, NEW valid \in BOOLEAN,
         NEW u, u = SetEntry(find_pte_create(t, v), v, x, valid), u.ok
  PROVE  /\ t.ok /\ Base(u, L) /\ Wider(t, u, L)
         /\ (Walk(t.pte, t.s.root, I1(v), I2(v), I3(v)) # Empty) <=> valid
         /\ OneWalk(t.pte, u.pte, t.s.root, L, indexes(v), x)
  <1> DEFINE w == find_pte_create(t, v)
             r == t.s.root
             a == First(w, v)
             b == Leaf(w, v)
             e == [w.pte EXCEPT ![b][I3(v)] = x]
  <1>1. u = With(w, e, w.s, w.ok /\ (w.pte[b][I3(v)] # Empty) = valid)
    BY DEF SetEntry, I3
  <1> HIDE DEF w, a, b, e
  <1>2. /\ u.fl = w.fl /\ u.tr = w.tr /\ u.pte = e /\ u.s = w.s
        /\ w.ok /\ ((w.pte[b][I3(v)] # Empty) <=> valid)
    <2>1. u.fl = w.fl /\ u.tr = w.tr /\ u.pte = e /\ u.s = w.s
      BY <1>1 DEF With
    <2> DEFINE c == w.ok /\ (w.pte[b][I3(v)] # Empty) = valid
    <2>2. c
      <3>1. u = With(w, e, w.s, c)
        BY <1>1
      <3> HIDE DEF c
      <3> QED BY <3>1 DEF With
    <2> QED BY <2>1, <2>2
  <1>3. t.ok /\ Base(w, L) /\ Grow(t, w, L) /\ a # Empty /\ b # Empty
    BY <1>2, CreateFacts DEF w, a, b
  <1>4. w.s.root = r /\ a = w.pte[r][I1(v)] /\ b = w.pte[a][I2(v)]
    BY <1>3 DEF Grow, Wider, a, b, First, Leaf, I1, I2
  <1>5. I1(v) \in Line /\ I2(v) \in Line /\ I3(v) \in Line /\ indexes(v) = <<I1(v), I2(v), I3(v)>>
    BY IndexFacts
  <1>6. /\ w.pte \in [DOMAIN w.pte -> [Line -> Nat]] /\ Mem(w)
        /\ Tree(w.pte, r, w.s.frames, L) /\ Ones(w.s.frames) \subseteq w.tr
    BY <1>3, <1>4 DEF Base, Mem
  <1>7. b \in DOMAIN w.pte
    <2>1. a \in Upper(w.pte, r, L)
      BY <1>3, <1>4 DEF Upper
    <2>2. b = w.pte[a][I2(v)] /\ b # Empty /\ I2(v) \in Line
      BY <1>3, <1>4, <1>5
    <2>3. b \in Lower(w.pte, r, L)
      BY <2>1, <2>2 DEF Lower
    <2> QED BY <1>6, <2>3 DEF Tree
  <1>8. /\ e \in [DOMAIN w.pte -> [Line -> Nat]] /\ DOMAIN e = DOMAIN w.pte
        /\ \A f \in DOMAIN w.pte \ {b} : e[f] = w.pte[f]
        /\ \A j \in Line : e[b][j] = (IF j = I3(v) THEN x ELSE w.pte[b][j])
    BY <1>5, <1>6, <1>7, Except DEF e
  <1>9. /\ Tree(e, r, w.s.frames, L) /\ b \in w.s.frames \ {r}
        /\ Walk(w.pte, r, I1(v), I2(v), I3(v)) = w.pte[b][I3(v)]
        /\ OneWalk(w.pte, e, r, L, <<I1(v), I2(v), I3(v)>>, x)
    <2>1. Sets(w.pte, b, I3(v), x, e)
      BY <1>8 DEF Sets
    <2>2. Way(w.pte, r, L, I1(v), I2(v), I3(v), b)
      BY <1>3, <1>4, <1>5 DEF Way
    <2> QED BY <1>6, <2>1, <2>2, SetLeaf
  <1>10. Base(u, L)
    <2>1. Mem(u)
      BY <1>2, <1>6, <1>8, MemWrite
    <2> QED BY <1>2, <1>4, <1>6, <1>9, <2>1 DEF Base
  <1>11. Wider(t, u, L)
    <2>1. Wider(t, w, L)
      BY <1>3 DEF Grow
    <2>2. \A f \in DOMAIN t.pte \ t.s.frames : e[f] = t.pte[f]
      BY <1>8, <1>9, <2>1 DEF Wider
    <2>3. e[r] = w.pte[r]
      BY <1>6, <1>8, <1>9 DEF Tree
    <2>4. u.pte = e /\ u.s = w.s /\ u.tr = w.tr
      BY <1>2
    <2>5. /\ DOMAIN t.pte \subseteq DOMAIN u.pte
          /\ \A f \in DOMAIN t.pte \ t.s.frames : u.pte[f] = t.pte[f]
      BY <1>8, <2>1, <2>2, <2>4 DEF Wider
    <2>6. /\ \A i \in Line \ L : u.pte[r][i] = t.pte[r][i]
          /\ \A i \in L : t.pte[r][i] # Empty => u.pte[r][i] = t.pte[r][i]
      BY <2>1, <2>3, <2>4 DEF Wider
    <2>7. /\ u.s.root = t.s.root /\ u.s.data = t.s.data
          /\ t.s.frames \subseteq u.s.frames
          /\ \A f \in u.s.frames \ t.s.frames : f \notin DOMAIN t.pte
          /\ u.tr = t.tr \cup Ones(u.s.frames \ t.s.frames)
      BY <2>1, <2>4 DEF Wider
    <2> QED BY <2>5, <2>6, <2>7 DEF Wider
  <1>12. Walk(t.pte, r, I1(v), I2(v), I3(v)) = w.pte[b][I3(v)]
    BY <1>3, <1>5, <1>9 DEF Grow, SameWalks
  <1>13. OneWalk(t.pte, u.pte, r, L, indexes(v), x)
    BY <1>2, <1>3, <1>5, <1>9 DEF OneWalk, Grow, SameWalks
  <1> QED BY <1>2, <1>3, <1>10, <1>11, <1>12, <1>13

-----------------------------------------------------------------------------
(* Pages.                                                                  *)

Low == 0 .. HALF - 1

LEMMA Division ==
  ASSUME NEW P \in Nat, P > 0, NEW v \in Nat
  PROVE  v \div P \in Nat /\ v % P \in 0 .. P - 1 /\ v = P * (v \div P) + (v % P)
  <1> DEFINE q == v \div P
             r == v % P
  <1>1. q \in Nat /\ r \in 0 .. P - 1 /\ v = P * q + r
    BY Z3
  <1> QED BY <1>1

LEMMA SameNumber ==
  ASSUME NEW P, NEW a, NEW b, NEW c, NEW d, NEW x, NEW y,
         x = P * a + c, y = P * b + d, a = b, c = d
  PROVE  x = y
  OBVIOUS

LEMMA Quotient ==
  ASSUME NEW P \in Nat, P > 0, NEW m \in Nat, NEW v \in Nat, v < m * P
  PROVE  v \div P \in Nat /\ v \div P < m /\ v = P * (v \div P) + (v % P) /\ v % P \in 0 .. P - 1
  <1>1. v \div P \in Nat /\ v % P \in 0 .. P - 1 /\ v = P * (v \div P) + (v % P)
    BY Division
  <1> DEFINE q == v \div P
             r == v % P
  <1>3. q \in Nat /\ r \in 0 .. P - 1 /\ v = P * q + r
    BY <1>1
  <1> HIDE DEF q, r
  <1>2. q < m
    <2> SUFFICES ASSUME ~(q < m) PROVE FALSE
      OBVIOUS
    <2> DEFINE d == q - m
    <2>1. d \in Nat /\ q = m + d
      BY <1>3
    <2> HIDE DEF d
    <2>2. P * d \in Nat /\ P * m = m * P
      BY <2>1, Z3
    <2>3. P * q = m * P + P * d
      BY <2>1, <2>2, Z3
    <2>4. m * P \in Nat /\ P * q \in Nat
      BY <1>3, Z3
    <2> QED BY <1>3, <2>2, <2>3, <2>4
  <1>4. v \div P < m
    BY <1>2 DEF q
  <1> QED BY <1>1, <1>4

\* The three indexes tell the pages of a program apart.
LEMMA PageFacts ==
  /\ \A v \in Page : v \in Nat /\ I1(v) \in Low
  /\ \A v, w \in Page : indexes(v) = indexes(w) => v = w
  <1> DEFINE P == PTE_PER_PAGE
             q(v) == v \div P
  <1>1. P \in Nat /\ P > 0 /\ HALF \in Nat /\ HALF <= P /\ HALF * P \in Nat
    <2>1. P \in Nat /\ P > 0 /\ HALF \in Nat
      BY Constants
    <2>2. HALF <= P
      BY <2>1, Z3 DEF HALF
    <2> QED BY <2>1, <2>2, Z3
  <1>2. ASSUME NEW v \in Page
        PROVE  /\ v \in Nat /\ q(v) \in Nat /\ q(q(v)) \in 0 .. HALF - 1
               /\ indexes(v) = <<q(q(v)), q(v) % P, v % P>>
               /\ v = P * q(v) + (v % P) /\ q(v) = P * q(q(v)) + (q(v) % P)
    <2>1. v \in Nat /\ v < (HALF * P) * P
      BY <1>1, Constants DEF Page, LOW_END
    <2> DEFINE a == q(v)
    <2>2. a \in Nat /\ a < HALF * P /\ v = P * a + (v % P)
      BY <1>1, <2>1, Quotient
    <2> HIDE DEF a
    <2> DEFINE b == a \div P
    <2>3. b \in Nat /\ b < HALF /\ a = P * b + (a % P)
      BY <1>1, <2>2, Quotient
    <2> HIDE DEF b
    <2>4. b % P = b
      BY <1>1, <2>3, Z3
    <2>5. indexes(v) = <<b % P, a % P, v % P>>
      BY DEF indexes, a, b
    <2> QED BY <1>1, <2>1, <2>2, <2>3, <2>4, <2>5 DEF a, b
  <1> HIDE DEF P, q
  <1>3. \A v \in Page : v \in Nat /\ I1(v) \in Low
    BY <1>2 DEF I1, Low
  <1>4. ASSUME NEW v \in Page, NEW w \in Page, indexes(v) = indexes(w)
        PROVE  v = w
    <2>1. q(q(v)) = q(q(w)) /\ q(v) % P = q(w) % P /\ v % P = w % P
      BY <1>2, <1>4
    <2>2. q(v) = P * q(q(v)) + (q(v) % P) /\ v = P * q(v) + (v % P)
      BY <1>2, Zenon
    <2>3. q(w) = P * q(q(w)) + (q(w) % P) /\ w = P * q(w) + (w % P)
      BY <1>2, Zenon
    <2>4. q(v) = q(w)
      BY <2>1, <2>2, <2>3, SameNumber
    <2> QED BY <2>1, <2>2, <2>3, <2>4, SameNumber
  <1> QED BY <1>3, <1>4

LEMMA OneKnown ==
  ASSUME NEW t, Mem(t), NEW f, One(f) \in t.tr
  PROVE  f \in DOMAIN t.pte /\ f \in Nat /\ f # Empty /\ Reach(One(f)) = {f}
  <1>1. One(f) \in Tracker
    BY DEF Mem, Typed
  <1>2. f \in Nat
    BY <1>1, ReachFacts, OneFacts
  <1>3. Reach(One(f)) = {f}
    BY <1>2, OneFacts
  <1> QED BY <1>2, <1>3 DEF Mem

-----------------------------------------------------------------------------
(* The address space of a process: the tables store exactly the map of its *)
(* areas, page by page, and every frame has its tracker.                   *)

Lookup(data, v) == IF v \in DOMAIN data THEN data[v] ELSE Empty
Own(s) == s.frames \cup DataFrames(s)

Stored(ptes, s) ==
  \A v \in Page : Walk(ptes, s.root, I1(v), I2(v), I3(v)) = Lookup(s.data, v)

Owns(t) ==
  /\ DOMAIN t.s.data \subseteq Page
  /\ \A v \in DOMAIN t.s.data : One(t.s.data[v]) \in t.tr /\ t.s.data[v] \notin t.s.frames
  /\ \A v, w \in DOMAIN t.s.data : t.s.data[v] = t.s.data[w] => v = w

Mapped(t) == Base(t, Low) /\ Owns(t) /\ Stored(t.pte, t.s)

(* What an operation on an address space may do to the memory: the old     *)
(* space is s, the new one u.s.                                            *)
Ext(t, s, u) ==
  /\ DOMAIN t.pte \subseteq DOMAIN u.pte
  /\ \A f \in DOMAIN t.pte \ s.frames : u.pte[f] = t.pte[f]
  /\ \A x \in u.tr \ t.tr : Reach(x) \cap DOMAIN t.pte = {}
  /\ \A x \in t.tr \ u.tr : x \in Ones(Own(s))
  /\ \A f \in u.s.frames : f \in DOMAIN t.pte => f \in s.frames
  /\ \A f \in Own(u.s) : f \in DOMAIN t.pte => f \in Own(s)
  /\ \A f \in DataFrames(s) : f \notin DataFrames(u.s) => One(f) \notin u.tr

KeepsRoot(t, u) ==
  /\ u.s.root = t.s.root
  /\ \A i \in Line \ Low : u.pte[t.s.root][i] = t.pte[t.s.root][i]

LEMMA ExtTrans ==
  ASSUME NEW t, Mem(t), NEW s, DataFrames(s) \subseteq DOMAIN t.pte,
         NEW u, Mem(u), Ext(t, s, u), NEW w, Ext(u, u.s, w)
  PROVE  Ext(t, s, w)
  <1>1. DOMAIN t.pte \subseteq DOMAIN w.pte
    BY DEF Ext
  <1>2. \A f \in DOMAIN t.pte \ s.frames : w.pte[f] = t.pte[f]
    BY DEF Ext
  <1>3. \A x \in w.tr \ t.tr : Reach(x) \cap DOMAIN t.pte = {}
    <2> SUFFICES ASSUME NEW x \in w.tr, x \notin t.tr PROVE Reach(x) \cap DOMAIN t.pte = {}
      OBVIOUS
    <2>1. CASE x \in u.tr
      BY <2>1 DEF Ext
    <2>2. CASE x \notin u.tr
      BY <2>2 DEF Ext
    <2> QED BY <2>1, <2>2
  <1>4. \A x \in t.tr \ w.tr : x \in Ones(Own(s))
    <2> SUFFICES ASSUME NEW x \in t.tr, x \notin w.tr PROVE x \in Ones(Own(s))
      OBVIOUS
    <2>1. CASE x \in u.tr
      <3>1. x \in Ones(Own(u.s))
        BY <2>1 DEF Ext
      <3>2. PICK f \in Own(u.s) : x = One(f)
        BY <3>1 DEF Ones
      <3>3. f \in DOMAIN t.pte
        BY <3>2, OneKnown
      <3>4. f \in Own(s)
        BY <3>3 DEF Ext
      <3> QED BY <3>2, <3>4, OneFacts
    <2>2. CASE x \notin u.tr
      BY <2>2 DEF Ext
    <2> QED BY <2>1, <2>2
  <1>5. /\ \A f \in w.s.frames : f \in DOMAIN t.pte => f \in s.frames
        /\ \A f \in Own(w.s) : f \in DOMAIN t.pte => f \in Own(s)
    BY DEF Ext
  <1>6. ASSUME NEW f \in DataFrames(s), f \notin DataFrames(w.s) PROVE One(f) \notin w.tr
    <2>1. CASE f \in DataFrames(u.s)
      BY <1>6, <2>1 DEF Ext
    <2>2. CASE f \notin DataFrames(u.s)
      <3>1. One(f) \notin u.tr
        BY <2>2 DEF Ext
      <3>2. f \in DOMAIN u.pte /\ f \in Nat
        BY DEF Ext, Mem
      <3>3. Reach(One(f)) = {f}
        BY <3>2, OneFacts
      <3> QED BY <3>1, <3>2, <3>3 DEF Ext
    <2> QED BY <2>1, <2>2
  <1> QED BY <1>1, <1>2, <1>3, <1>4, <1>5, <1>6 DEF Ext

LEMMA WiderExt ==
  ASSUME NEW t, NEW L, Base(t, L), NEW u, Base(u, L), Wider(t, u, L)
  PROVE  Ext(t, t.s, u)
  <1>1. \A x \in u.tr \ t.tr : Reach(x) \cap DOMAIN t.pte = {}
    <2> SUFFICES ASSUME NEW x \in u.tr, x \notin t.tr PROVE Reach(x) \cap DOMAIN t.pte = {}
      OBVIOUS
    <2>1. x \in Ones(u.s.frames \ t.s.frames)
      BY DEF Wider
    <2>2. PICK f \in u.s.frames \ t.s.frames : x = One(f)
      BY <2>1 DEF Ones
    <2>3. Reach(x) = {f}
      BY <2>2, OneKnown DEF Base
    <2> QED BY <2>2, <2>3 DEF Wider
  <1>2. DataFrames(u.s) = DataFrames(t.s)
    BY DEF Wider, DataFrames
  <1>3. /\ DOMAIN t.pte \subseteq DOMAIN u.pte
        /\ \A f \in DOMAIN t.pte \ t.s.frames : u.pte[f] = t.pte[f]
        /\ t.tr \subseteq u.tr
        /\ \A f \in u.s.frames : f \in DOMAIN t.pte => f \in t.s.frames
    BY DEF Wider
  <1> QED BY <1>1, <1>2, <1>3 DEF Ext, Own

\* Taking frames leaves a tree alone.
LEMMA TakenBase ==
  ASSUME NEW t, NEW L, L \subseteq Line, Base(t, L), NEW u, Mem(u), u.s = t.s, t.tr \subseteq u.tr,
         DOMAIN t.pte \subseteq DOMAIN u.pte, \A g \in DOMAIN t.pte : u.pte[g] = t.pte[g]
  PROVE  Base(u, L) /\ SameWalks(t.pte, u.pte, t.s.root, L)
  <1>1. t.s.frames \subseteq DOMAIN t.pte /\ t.s.root \in t.s.frames
    BY DEF Base, Tree
  <1>2. /\ t.s.frames \subseteq DOMAIN u.pte
        /\ \A f \in t.s.frames \ {t.s.root} : u.pte[f] = t.pte[f]
        /\ \A i \in L : u.pte[t.s.root][i] = t.pte[t.s.root][i]
    BY <1>1
  <1>3. Tree(u.pte, t.s.root, t.s.frames, L) /\ SameWalks(t.pte, u.pte, t.s.root, L)
    BY <1>2, TreeSame DEF Base
  <1> QED BY <1>3 DEF Base

LEMMA WithDataFacts ==
  ASSUME NEW t, NEW d, NEW u, u = WithData(t, d)
  PROVE  /\ u.fl = t.fl /\ u.tr = t.tr /\ u.pte = t.pte /\ (u.ok <=> t.ok)
         /\ u.s.root = t.s.root /\ u.s.frames = t.s.frames /\ u.s.data = d
  <1> DEFINE s == [root |-> t.s.root, frames |-> t.s.frames, data |-> d]
  <1>1. u = With(t, t.pte, s, t.ok) /\ s.root = t.s.root /\ s.frames = t.s.frames /\ s.data = d
    BY DEF WithData
  <1> HIDE DEF s
  <1>2. u.fl = t.fl /\ u.tr = t.tr /\ u.pte = t.pte /\ u.s = s
    BY <1>1 DEF With
  <1>3. u.ok <=> t.ok
    BY <1>1 DEF With
  <1> QED BY <1>1, <1>2, <1>3

LEMMA OwnKnown ==
  ASSUME NEW t, Mem(t), Owns(t)
  PROVE  /\ DataFrames(t.s) \subseteq DOMAIN t.pte
         /\ Ones(DataFrames(t.s)) \subseteq t.tr
         /\ DataFrames(t.s) \cap t.s.frames = {}
         /\ \A v \in DOMAIN t.s.data : t.s.data[v] \in DataFrames(t.s) /\ t.s.data[v] # Empty
  <1>1. \A v \in DOMAIN t.s.data : t.s.data[v] \in DOMAIN t.pte /\ t.s.data[v] # Empty
    BY OneKnown DEF Owns
  <1> QED BY <1>1 DEF Owns, DataFrames, Ones

LEMMA MapOne ==
  ASSUME NEW t, Mapped(t), NEW v \in Page, NEW u, u = map_one(t, v), u.ok
  PROVE  /\ t.ok /\ Mapped(u) /\ Ext(t, t.s, u) /\ KeepsRoot(t, u)
         /\ v \notin DOMAIN t.s.data /\ DOMAIN u.s.data = DOMAIN t.s.data \cup {v}
         /\ \A w \in DOMAIN t.s.data : u.s.data[w] = t.s.data[w]
  <1> DEFINE n == TakenPpn(t, 1)
             t1 == Taken(t, 1)
             t2 == map(t1, v, n)
             data == t.s.data
             d == [w \in DOMAIN data \cup {v} |-> IF w = v THEN n ELSE data[w]]
             r == t.s.root
  <1>1. u = WithData(t2, d)
    BY DEF map_one
  <1>2. /\ DOMAIN d = DOMAIN data \cup {v} /\ d[v] = n
        /\ \A w \in DOMAIN data : w # v => d[w] = data[w]
    OBVIOUS
  <1> HIDE DEF n, t1, t2, data, d
  <1>3. /\ u.fl = t2.fl /\ u.tr = t2.tr /\ u.pte = t2.pte /\ t2.ok
        /\ u.s.root = t2.s.root /\ u.s.frames = t2.s.frames /\ u.s.data = d
    BY <1>1, WithDataFacts
  <1>4. t2 = SetEntry(find_pte_create(t1, v), v, n, FALSE)
    BY DEF t2, map
  <1>5. t1.ok
    <2>1. find_pte_create(t1, v).ok
      BY <1>3, <1>4, OkFacts
    <2> QED BY <2>1, OkFacts DEF find_pte_create, Below
  <1>6. Base(t, Low) /\ Owns(t) /\ Stored(t.pte, t.s) /\ Mem(t) /\ Low \subseteq Line
    BY Constants DEF Mapped, Base, Low
  <1>7. /\ t.ok /\ t1.s = t.s /\ t1.tr = t.tr \cup {One(n)}
        /\ n \in Nat /\ n # Empty /\ n \notin DOMAIN t.pte
        /\ DOMAIN t1.pte = DOMAIN t.pte \cup {n}
        /\ \A g \in DOMAIN t.pte : t1.pte[g] = t.pte[g]
        /\ Mem(t1)
    BY <1>5, <1>6, OneTaken DEF t1, n
  <1>8. Base(t1, Low) /\ SameWalks(t.pte, t1.pte, r, Low)
    BY <1>6, <1>7, TakenBase
  <1>9. v \in Nat /\ I1(v) \in Low
    BY PageFacts
  <1>10. /\ Base(t2, Low) /\ Wider(t1, t2, Low)
         /\ Walk(t1.pte, r, I1(v), I2(v), I3(v)) = Empty
         /\ OneWalk(t1.pte, t2.pte, r, Low, indexes(v), n)
    <2>1. PICK b \in BOOLEAN : b = FALSE
      OBVIOUS
    <2>2. t2 = SetEntry(find_pte_create(t1, v), v, n, b)
      BY <1>4, <2>1
    <2>3. /\ Base(t2, Low) /\ Wider(t1, t2, Low)
          /\ (Walk(t1.pte, t1.s.root, I1(v), I2(v), I3(v)) # Empty) <=> b
          /\ OneWalk(t1.pte, t2.pte, t1.s.root, Low, indexes(v), n)
      BY <1>3, <1>6, <1>7, <1>8, <1>9, <2>2, SetFacts
    <2> QED BY <1>7, <2>1, <2>3
  <1>11. /\ u.s.root = r /\ t1.s.frames \subseteq u.s.frames /\ t1.tr \subseteq u.tr
         /\ \A f \in u.s.frames \ t.s.frames : f \notin DOMAIN t1.pte
    BY <1>3, <1>7, <1>10 DEF Wider
  <1>12. t.s.frames \subseteq DOMAIN t.pte /\ r \in t.s.frames
    BY <1>6 DEF Base, Tree
  <1>13. /\ \A w \in DOMAIN data : /\ data[w] \in DOMAIN t.pte /\ data[w] # Empty
                                   /\ One(data[w]) \in t.tr /\ data[w] \notin t.s.frames
         /\ \A w, x \in DOMAIN data : data[w] = data[x] => w = x
         /\ DOMAIN data \subseteq Page
    <2>1. Owns(t) /\ \A w \in DOMAIN data : data[w] \in DataFrames(t.s) /\ data[w] # Empty
      BY <1>6, OwnKnown DEF data
    <2>2. DataFrames(t.s) \subseteq DOMAIN t.pte
      BY <1>6, OwnKnown
    <2> QED BY <2>1, <2>2 DEF Owns, data
  <1>14. ASSUME NEW w \in Page
         PROVE  /\ Walk(t1.pte, r, I1(w), I2(w), I3(w)) = Lookup(data, w)
                /\ Walk(u.pte, r, I1(w), I2(w), I3(w)) = IF w = v THEN n ELSE Lookup(data, w)
    <2>1. w \in Nat /\ I1(w) \in Low /\ (indexes(w) = indexes(v) => w = v)
      BY PageFacts
    <2>2. I2(w) \in Line /\ I3(w) \in Line /\ indexes(w) = <<I1(w), I2(w), I3(w)>>
      BY <2>1, IndexFacts
    <2>3. Walk(t1.pte, r, I1(w), I2(w), I3(w)) = Walk(t.pte, r, I1(w), I2(w), I3(w))
      BY <1>8, <2>1, <2>2 DEF SameWalks
    <2>4. Walk(t.pte, r, I1(w), I2(w), I3(w)) = Lookup(data, w)
      BY <1>6 DEF Stored, data
    <2>5. Walk(t2.pte, r, I1(w), I2(w), I3(w))
          = IF indexes(w) = indexes(v) THEN n ELSE Walk(t1.pte, r, I1(w), I2(w), I3(w))
      BY <1>10, <2>1, <2>2 DEF OneWalk
    <2> QED BY <1>3, <2>1, <2>3, <2>4, <2>5
  <1>15. v \notin DOMAIN data
    BY <1>10, <1>13, <1>14 DEF Lookup
  <1>16. Stored(u.pte, u.s)
    BY <1>2, <1>3, <1>11, <1>14, <1>15 DEF Stored, Lookup
  <1>17. Owns(u)
    <2>1. n \notin u.s.frames /\ One(n) \in u.tr
      BY <1>7, <1>11, <1>12
    <2>2. \A w \in DOMAIN data : One(data[w]) \in u.tr /\ data[w] \notin u.s.frames /\ data[w] # n
      BY <1>7, <1>11, <1>13
    <2> QED BY <1>2, <1>3, <1>13, <1>15, <2>1, <2>2 DEF Owns
  <1>18. Base(u, Low)
    BY <1>3, <1>10 DEF Base, Mem
  <1>19. KeepsRoot(t, u)
    BY <1>3, <1>7, <1>10, <1>11, <1>12 DEF KeepsRoot, Wider
  <1>20. Ext(t, t.s, u)
    <2>1. Ext(t, t.s, t1)
      <3>1. Reach(One(n)) \cap DOMAIN t.pte = {}
        BY <1>7, OneFacts
      <3> QED BY <1>7, <3>1 DEF Ext
    <2>2. Ext(t1, t1.s, t2)
      BY <1>8, <1>10, WiderExt
    <2>3. Ext(t, t.s, t2)
      <3>1. DataFrames(t.s) \subseteq DOMAIN t.pte
        BY <1>6, OwnKnown
      <3> QED BY <1>6, <1>7, <2>1, <2>2, <3>1, ExtTrans
    <2>4. t2.s.data = data
      BY <1>7, <1>10 DEF Wider, data
    <2>5. DataFrames(u.s) = DataFrames(t2.s) \cup {n}
      BY <1>2, <1>3, <1>15, <2>4 DEF DataFrames
    <2> QED BY <1>3, <1>7, <2>3, <2>5 DEF Ext, Own
  <1> QED BY <1>2, <1>3, <1>7, <1>15, <1>16, <1>17, <1>18, <1>19, <1>20 DEF Mapped, data

LEMMA UnmapOne ==
  ASSUME NEW t, Mapped(t), NEW v \in DOMAIN t.s.data, NEW u, u = unmap_one(t, v), u.ok
  PROVE  /\ t.ok /\ Mapped(u) /\ Ext(t, t.s, u) /\ KeepsRoot(t, u)
         /\ DOMAIN u.s.data = DOMAIN t.s.data \ {v}
         /\ \A w \in DOMAIN u.s.data : u.s.data[w] = t.s.data[w]
  <1> DEFINE data == t.s.data
             c == data[v]
             t1 == drop(t, One(c))
             t2 == unmap(t1, v)
             d == [w \in DOMAIN data \ {v} |-> data[w]]
             r == t.s.root
  <1>1. u = WithData(t2, d)
    BY DEF unmap_one
  <1>2. DOMAIN d = DOMAIN data \ {v} /\ \A w \in DOMAIN data \ {v} : d[w] = data[w]
    OBVIOUS
  <1>3. v \in DOMAIN data
    OBVIOUS
  <1> HIDE DEF c, t1, t2, data, d
  <1>4. /\ u.fl = t2.fl /\ u.tr = t2.tr /\ u.pte = t2.pte /\ t2.ok
        /\ u.s.root = t2.s.root /\ u.s.frames = t2.s.frames /\ u.s.data = d
    BY <1>1, WithDataFacts
  <1>5. Base(t, Low) /\ Owns(t) /\ Stored(t.pte, t.s) /\ Mem(t) /\ Low \subseteq Line
    BY Constants DEF Mapped, Base, Low
  <1>6. /\ \A w \in DOMAIN data : /\ data[w] \in DOMAIN t.pte /\ data[w] # Empty
                                  /\ One(data[w]) \in t.tr /\ data[w] \notin t.s.frames
                                  /\ data[w] \in DataFrames(t.s)
        /\ \A w, x \in DOMAIN data : data[w] = data[x] => w = x
        /\ DOMAIN data \subseteq Page
    <2>1. Owns(t) /\ \A w \in DOMAIN data : data[w] \in DataFrames(t.s) /\ data[w] # Empty
      BY <1>5, OwnKnown DEF data
    <2>2. DataFrames(t.s) \subseteq DOMAIN t.pte
      BY <1>5, OwnKnown
    <2> QED BY <2>1, <2>2 DEF Owns, data
  <1>7. /\ c = data[v] /\ One(c) \in t.tr /\ c \in DOMAIN t.pte /\ c \notin t.s.frames /\ v \in Page
        /\ c \in DataFrames(t.s)
    BY <1>3, <1>6 DEF c
  <1>8. /\ t1.tr = t.tr \ {One(c)} /\ t1.pte = t.pte /\ t1.s = t.s /\ t1.ok = t.ok /\ Mem(t1)
    BY <1>5, <1>7, DropFacts DEF t1
  <1>9. Base(t1, Low)
    <2>1. One(c) \notin Ones(t.s.frames)
      BY <1>7, OneFacts
    <2> QED BY <1>5, <1>8, <2>1 DEF Base
  <1>10. v \in Nat /\ I1(v) \in Low
    BY <1>7, PageFacts
  <1>11. /\ t1.ok /\ Base(t2, Low) /\ Wider(t1, t2, Low)
         /\ OneWalk(t.pte, t2.pte, r, Low, indexes(v), Empty)
    <2>1. PICK b \in BOOLEAN : b = TRUE
      OBVIOUS
    <2>2. t2 = SetEntry(find_pte_create(t1, v), v, Empty, b) /\ Empty \in Nat
      BY <2>1 DEF t2, unmap, Empty
    <2>3. /\ t1.ok /\ Base(t2, Low) /\ Wider(t1, t2, Low)
          /\ OneWalk(t1.pte, t2.pte, t1.s.root, Low, indexes(v), Empty)
      BY <1>4, <1>5, <1>9, <1>10, <2>2, SetFacts
    <2> QED BY <1>8, <2>3
  <1>12. /\ u.s.root = r /\ t1.tr \subseteq u.tr
         /\ \A f \in u.s.frames \ t.s.frames : f \notin DOMAIN t.pte
    BY <1>4, <1>8, <1>11 DEF Wider
  <1>13. r \in DOMAIN t.pte
    BY <1>5 DEF Base, Tree
  <1>14. ASSUME NEW w \in Page
         PROVE  Walk(u.pte, r, I1(w), I2(w), I3(w)) = IF w = v THEN Empty ELSE Lookup(data, w)
    <2>1. w \in Nat /\ I1(w) \in Low /\ (indexes(w) = indexes(v) => w = v)
      BY <1>7, PageFacts
    <2>2. I2(w) \in Line /\ I3(w) \in Line /\ indexes(w) = <<I1(w), I2(w), I3(w)>>
      BY <2>1, IndexFacts
    <2>3. Walk(t.pte, r, I1(w), I2(w), I3(w)) = Lookup(data, w)
      BY <1>5 DEF Stored, data
    <2>4. Walk(t2.pte, r, I1(w), I2(w), I3(w))
          = IF indexes(w) = indexes(v) THEN Empty ELSE Walk(t.pte, r, I1(w), I2(w), I3(w))
      BY <1>11, <2>1, <2>2 DEF OneWalk
    <2> QED BY <1>4, <2>1, <2>3, <2>4
  <1>15. Stored(u.pte, u.s)
    BY <1>2, <1>4, <1>12, <1>14 DEF Stored, Lookup
  <1>16. Owns(u)
    <2>1. \A w \in DOMAIN d : One(data[w]) \in u.tr /\ data[w] \notin u.s.frames
      <3> SUFFICES ASSUME NEW w \in DOMAIN data, w # v
                   PROVE  One(data[w]) \in u.tr /\ data[w] \notin u.s.frames
        BY <1>2
      <3>1. data[w] # c
        BY <1>3, <1>6, <1>7
      <3>2. One(data[w]) # One(c)
        BY <3>1, OneFacts
      <3> QED BY <1>6, <1>8, <1>12, <3>2
    <2> QED BY <1>2, <1>4, <1>6, <2>1 DEF Owns
  <1>17. Base(u, Low)
    BY <1>4, <1>11 DEF Base, Mem
  <1>18. KeepsRoot(t, u)
    BY <1>4, <1>8, <1>11, <1>12, <1>13 DEF KeepsRoot, Wider
  <1>19. Ext(t, t.s, u)
    <2>1. Ext(t, t.s, t1)
      <3>1. One(c) \in Ones(Own(t.s))
        BY <1>7, OneFacts DEF Own
      <3> QED BY <1>8, <3>1 DEF Ext
    <2>2. Ext(t1, t1.s, t2)
      BY <1>9, <1>11, WiderExt
    <2>3. Ext(t, t.s, t2)
      <3>1. DataFrames(t.s) \subseteq DOMAIN t.pte
        BY <1>5, OwnKnown
      <3> QED BY <1>5, <1>8, <2>1, <2>2, <3>1, ExtTrans
    <2>4. t2.s.data = data
      BY <1>8, <1>11 DEF Wider, data
    <2>5. /\ DataFrames(u.s) \subseteq DataFrames(t2.s)
          /\ \A f \in DataFrames(t2.s) : f \notin DataFrames(u.s) => f = c
      BY <1>2, <1>4, <1>7, <2>4 DEF DataFrames
    <2>6. One(c) \notin u.tr
      <3>1. One(c) \notin t1.tr /\ c \in Nat /\ c \in DOMAIN t1.pte
        BY <1>5, <1>7, <1>8 DEF Mem
      <3>2. Reach(One(c)) = {c}
        BY <3>1, OneFacts
      <3> QED BY <1>4, <2>2, <3>1, <3>2 DEF Ext
    <2>7. DataFrames(t.s) = DataFrames(t2.s)
      BY <2>4 DEF data, DataFrames
    <2> QED BY <1>4, <2>3, <2>5, <2>6, <2>7 DEF Ext, Own
  <1>20. t.ok
    BY <1>8, <1>11
  <1> QED BY <1>2, <1>4, <1>15, <1>16, <1>17, <1>18, <1>19, <1>20 DEF Mapped, data

-----------------------------------------------------------------------------
(* The loops.                                                              *)

\* One round of a loop.
Round(kind, t, n) ==
  IF kind = "map" THEN map_one(t, n)
  ELSE IF kind = "unmap" THEN unmap_one(t, n)
  ELSE IF kind = "linear" THEN map(t, n + PA_TO_VA, n)
  ELSE drop(t, One(n))

\* Their recursive definitions have a solution.
IsLoop(kind, N, t, V, g) ==
  g = [n \in 0 .. N |-> IF n = 0 THEN t
                        ELSE IF n - 1 \in V THEN Round(kind, g[n - 1], n - 1)
                        ELSE g[n - 1]]

LEMMA LoopExists ==
  ASSUME NEW kind, NEW N \in Nat, NEW t, NEW V
  PROVE  \E g : IsLoop(kind, N, t, V, g)
  <1> DEFINE Value(g, n) == IF n = 0 THEN t
                            ELSE IF n - 1 \in V THEN Round(kind, g[n - 1], n - 1)
                            ELSE g[n - 1]
             Upto(k, g) == g = [n \in 0 .. k |-> Value(g, n)]
             S == {n \in Nat : n <= N /\ ~\E g : Upto(n, g)}
  <1>1. S = {}
    <2> SUFFICES ASSUME S # {} PROVE FALSE
      OBVIOUS
    <2> DEFINE k == Min(S)
    <2>1. k \in S /\ \A m \in S : k <= m
      <3>1. S \in SUBSET Nat
        OBVIOUS
      <3> HIDE DEF S
      <3> QED BY <3>1, SmallestNumber
    <2> HIDE DEF k
    <2>2. k \in Nat /\ k <= N /\ ~\E g : Upto(k, g)
      BY <2>1
    <2>3. CASE k = 0
      <3> DEFINE g == [n \in 0 .. 0 |-> t]
      <3>1. g = [n \in 0 .. 0 |-> g[n]] /\ \A n \in 0 .. 0 : n = 0 /\ g[n] = t
        OBVIOUS
      <3> HIDE DEF g
      <3>2. \A n \in 0 .. 0 : g[n] = Value(g, n)
        BY <3>1
      <3> HIDE DEF Value
      <3>3. Upto(0, g)
        BY <3>1, <3>2
      <3> QED BY <2>2, <2>3, <3>3
    <2>4. CASE k # 0
      <3>1. k \in Nat /\ k - 1 \in Nat /\ k - 1 <= N /\ ~(k <= k - 1)
        BY <2>2, <2>4
      <3> HIDE DEF Upto
      <3>2. k - 1 \notin S
        BY <2>1, <3>1
      <3>3. PICK g : Upto(k - 1, g)
        BY <3>1, <3>2
      <3> USE DEF Upto
      <3> DEFINE h == [n \in 0 .. k |-> IF n = k THEN Value(g, k) ELSE g[n]]
      <3>4. \A n \in 0 .. k - 1 : g[n] = Value(g, n)
        BY <3>3
      <3>5. \A n \in 0 .. k - 1 : n \in 0 .. k /\ n # k /\ h[n] = g[n]
        BY <3>1
      <3>6. h[k] = Value(g, k) /\ h = [n \in 0 .. k |-> h[n]]
        BY <2>2
      <3> HIDE DEF h
      <3>7. \A n \in 0 .. k : h[n] = Value(h, n)
        <4> SUFFICES ASSUME NEW n \in 0 .. k PROVE h[n] = Value(h, n)
          OBVIOUS
        <4>1. h[n] = Value(g, n)
          <5>1. CASE n = k
            BY <3>6, <5>1
          <5>2. CASE n # k
            <6>1. n \in 0 .. k - 1
              BY <2>2, <5>2
            <6> QED BY <3>4, <3>5, <6>1
          <5> QED BY <5>1, <5>2
        <4>2. CASE n = 0
          BY <4>1, <4>2
        <4>3. CASE n # 0
          <5>1. n - 1 \in 0 .. k - 1
            BY <2>2, <4>3
          <5>2. h[n - 1] = g[n - 1]
            BY <3>5, <5>1
          <5> QED BY <4>1, <4>3, <5>2
        <4> QED BY <4>2, <4>3
      <3>8. Upto(k, h)
        BY <3>6, <3>7
      <3> QED BY <2>2, <3>8
    <2> QED BY <2>3, <2>4
  <1>2. \E g : Upto(N, g)
    <2> HIDE DEF Upto
    <2>1. N \notin S
      BY <1>1
    <2> QED BY <2>1
  <1> QED BY <1>2 DEF IsLoop

\* A loop over 0 .. N - 1, as the sequence of the states between its rounds.
Loop(kind, N, t, V, at) ==
  /\ at[0] = t
  /\ \A n \in 0 .. N - 1 : at[n + 1] = IF n \in V THEN Round(kind, at[n], n) ELSE at[n]

LEMMA LoopFacts ==
  ASSUME NEW kind, NEW N \in Nat, NEW t, NEW V, NEW at, IsLoop(kind, N, t, V, at)
  PROVE  Loop(kind, N, t, V, at)
  <1> USE DEF IsLoop
  <1>1. at[0] = t
    OBVIOUS
  <1>2. ASSUME NEW n \in 0 .. N - 1
        PROVE  at[n + 1] = IF n \in V THEN Round(kind, at[n], n) ELSE at[n]
    <2>1. n + 1 \in 0 .. N /\ n + 1 # 0 /\ (n + 1) - 1 = n
      OBVIOUS
    <2>2. at[n + 1] = IF n + 1 = 0 THEN t
                      ELSE IF (n + 1) - 1 \in V THEN Round(kind, at[(n + 1) - 1], (n + 1) - 1)
                      ELSE at[(n + 1) - 1]
      BY <2>1
    <2> QED BY <2>1, <2>2
  <1> QED BY <1>1, <1>2 DEF Loop

LEMMA MapLoop ==
  ASSUME NEW t, NEW V
  PROVE  \E at : Loop("map", LOW_END, t, V, at) /\ MapAll(t, V) = at[LOW_END]
  <1> DEFINE Is(at) == at = [n \in 0 .. LOW_END |->
                       IF n = 0 THEN t
                       ELSE IF n - 1 \in V THEN map_one(at[n - 1], n - 1) ELSE at[n - 1]]
  <1>1. LOW_END \in Nat
    BY Constants
  <1>2. \A u, n : Round("map", u, n) = map_one(u, n)
    BY DEF Round
  <1>3. PICK g : IsLoop("map", LOW_END, t, V, g)
    BY <1>1, LoopExists
  <1>4. \A at : Is(at) <=> IsLoop("map", LOW_END, t, V, at)
    <2> SUFFICES ASSUME NEW at PROVE Is(at) <=> IsLoop("map", LOW_END, t, V, at)
      OBVIOUS
    <2>1. \A n \in 0 .. LOW_END : Round("map", at[n - 1], n - 1) = map_one(at[n - 1], n - 1)
      BY <1>2
    <2> QED BY <2>1 DEF IsLoop
  <1>5. MapAll(t, V) = (CHOOSE at : Is(at))[LOW_END]
    BY DEF MapAll
  <1> HIDE DEF Is
  <1>6. IsLoop("map", LOW_END, t, V, CHOOSE at : Is(at))
    BY <1>3, <1>4
  <1> QED BY <1>1, <1>5, <1>6, LoopFacts

LEMMA UnmapLoop ==
  ASSUME NEW t, NEW V
  PROVE  \E at : Loop("unmap", LOW_END, t, V, at) /\ UnmapAll(t, V) = at[LOW_END]
  <1> DEFINE Is(at) == at = [n \in 0 .. LOW_END |->
                       IF n = 0 THEN t
                       ELSE IF n - 1 \in V THEN unmap_one(at[n - 1], n - 1) ELSE at[n - 1]]
  <1>1. LOW_END \in Nat
    BY Constants
  <1>2. \A u, n : Round("unmap", u, n) = unmap_one(u, n)
    BY DEF Round
  <1>3. PICK g : IsLoop("unmap", LOW_END, t, V, g)
    BY <1>1, LoopExists
  <1>4. \A at : Is(at) <=> IsLoop("unmap", LOW_END, t, V, at)
    <2> SUFFICES ASSUME NEW at PROVE Is(at) <=> IsLoop("unmap", LOW_END, t, V, at)
      OBVIOUS
    <2>1. \A n \in 0 .. LOW_END : Round("unmap", at[n - 1], n - 1) = unmap_one(at[n - 1], n - 1)
      BY <1>2
    <2> QED BY <2>1 DEF IsLoop
  <1>5. UnmapAll(t, V) = (CHOOSE at : Is(at))[LOW_END]
    BY DEF UnmapAll
  <1> HIDE DEF Is
  <1>6. IsLoop("unmap", LOW_END, t, V, CHOOSE at : Is(at))
    BY <1>3, <1>4
  <1> QED BY <1>1, <1>5, <1>6, LoopFacts

LEMMA LinearLoop ==
  ASSUME NEW t
  PROVE  \E at : Loop("linear", NoFrame, with_root(t), Linear, at) /\ new_kernel(t) = at[NoFrame]
  <1> DEFINE Is(at) == at = [n \in 0 .. NoFrame |->
                       IF n = 0 THEN with_root(t)
                       ELSE IF n - 1 \in Linear THEN map(at[n - 1], n - 1 + PA_TO_VA, n - 1) ELSE at[n - 1]]
  <1>1. NoFrame \in Nat
    BY Constants
  <1>2. \A u, n : Round("linear", u, n) = map(u, n + PA_TO_VA, n)
    BY DEF Round
  <1>3. PICK g : IsLoop("linear", NoFrame, with_root(t), Linear, g)
    BY <1>1, LoopExists
  <1>4. \A at : Is(at) <=> IsLoop("linear", NoFrame, with_root(t), Linear, at)
    <2> SUFFICES ASSUME NEW at PROVE Is(at) <=> IsLoop("linear", NoFrame, with_root(t), Linear, at)
      OBVIOUS
    <2>1. \A n \in 0 .. NoFrame : Round("linear", at[n - 1], n - 1) = map(at[n - 1], n - 1 + PA_TO_VA, n - 1)
      BY <1>2
    <2> QED BY <2>1 DEF IsLoop
  <1>5. new_kernel(t) = (CHOOSE at : Is(at))[NoFrame]
    BY DEF new_kernel
  <1> HIDE DEF Is
  <1>6. IsLoop("linear", NoFrame, with_root(t), Linear, CHOOSE at : Is(at))
    BY <1>3, <1>4
  <1> QED BY <1>1, <1>5, <1>6, LoopFacts

LEMMA DropLoop ==
  ASSUME NEW t, NEW F
  PROVE  \E at : Loop("drop", NoFrame, t, F, at) /\ DropAll(t, F) = at[NoFrame]
  <1> DEFINE Is(at) == at = [n \in 0 .. NoFrame |->
                       IF n = 0 THEN t
                       ELSE IF n - 1 \in F THEN drop(at[n - 1], One(n - 1)) ELSE at[n - 1]]
  <1>1. NoFrame \in Nat
    BY Constants
  <1>2. \A u, n : Round("drop", u, n) = drop(u, One(n))
    BY DEF Round
  <1>3. PICK g : IsLoop("drop", NoFrame, t, F, g)
    BY <1>1, LoopExists
  <1>4. \A at : Is(at) <=> IsLoop("drop", NoFrame, t, F, at)
    <2> SUFFICES ASSUME NEW at PROVE Is(at) <=> IsLoop("drop", NoFrame, t, F, at)
      OBVIOUS
    <2>1. \A n \in 0 .. NoFrame : Round("drop", at[n - 1], n - 1) = drop(at[n - 1], One(n - 1))
      BY <1>2
    <2> QED BY <2>1 DEF IsLoop
  <1>5. DropAll(t, F) = (CHOOSE at : Is(at))[NoFrame]
    BY DEF DropAll
  <1> HIDE DEF Is
  <1>6. IsLoop("drop", NoFrame, t, F, CHOOSE at : Is(at))
    BY <1>3, <1>4
  <1> QED BY <1>1, <1>5, <1>6, LoopFacts

LEMMA Induct ==
  ASSUME NEW N \in Nat, NEW S, 0 \in S, \A n \in 0 .. N - 1 : n \in S => n + 1 \in S
  PROVE  N \in S
  <1> SUFFICES ASSUME N \notin S PROVE FALSE
    OBVIOUS
  <1> DEFINE R == {n \in Nat : n <= N /\ n \notin S}
             k == Min(R)
  <1>1. R \in SUBSET Nat /\ R # {}
    OBVIOUS
  <1> HIDE DEF R
  <1>2. k \in R /\ \A m \in R : k <= m
    BY <1>1, SmallestNumber
  <1> HIDE DEF k
  <1> USE DEF R
  <1>3. k \in Nat /\ k <= N /\ k \notin S /\ k # 0
    BY <1>2
  <1>4. k - 1 \in 0 .. N - 1 /\ k - 1 \in Nat /\ (k - 1) + 1 = k /\ ~(k <= k - 1) /\ k - 1 <= N
    BY <1>3
  <1>5. k - 1 \in S
    BY <1>2, <1>4
  <1> QED BY <1>3, <1>4, <1>5

LEMMA RoundOk ==
  ASSUME NEW kind, NEW t, NEW n, Round(kind, t, n).ok
  PROVE  t.ok
  <1>1. \A u, v : find_pte_create(u, v).ok => u.ok
    BY OkFacts DEF find_pte_create, Below
  <1>2. \A u, v, x, b : SetEntry(find_pte_create(u, v), v, x, b).ok => u.ok
    BY <1>1, OkFacts
  <1>3. CASE kind = "map"
    <2> DEFINE m == map(Taken(t, 1), n, TakenPpn(t, 1))
    <2>1. PICK d : Round(kind, t, n) = WithData(m, d)
      BY <1>3 DEF Round, map_one
    <2>2. m.ok
      BY <2>1, WithDataFacts
    <2>3. Taken(t, 1).ok
      BY <1>2, <2>2 DEF map
    <2> QED BY <2>3, OkFacts
  <1>4. CASE kind = "unmap"
    <2> DEFINE e == drop(t, One(t.s.data[n]))
               m == unmap(e, n)
    <2>1. PICK d : Round(kind, t, n) = WithData(m, d)
      BY <1>4 DEF Round, unmap_one
    <2>2. m.ok
      BY <2>1, WithDataFacts
    <2>3. e.ok
      BY <1>2, <2>2 DEF unmap
    <2> QED BY <2>3 DEF drop
  <1>5. CASE kind = "linear"
    <2>1. Round(kind, t, n) = SetEntry(find_pte_create(t, n + PA_TO_VA), n + PA_TO_VA, n, FALSE)
      BY <1>5 DEF Round, map
    <2> QED BY <1>2, <2>1
  <1>6. CASE kind \notin {"map", "unmap", "linear"}
    BY <1>6 DEF Round, drop
  <1> QED BY <1>3, <1>4, <1>5, <1>6

\* The pages of V below n are mapped.
Grown(t, V, n, u) ==
  /\ Mapped(u) /\ Ext(t, t.s, u) /\ KeepsRoot(t, u) /\ t.ok
  /\ DOMAIN u.s.data = DOMAIN t.s.data \cup {v \in V : v \in 0 .. n - 1}
  /\ \A w \in DOMAIN t.s.data : u.s.data[w] = t.s.data[w]

LEMMA KeepsTrans ==
  ASSUME NEW t, NEW u, NEW w, KeepsRoot(t, u), KeepsRoot(u, w)
  PROVE  KeepsRoot(t, w)
  BY DEF KeepsRoot

LEMMA ExtSame ==
  ASSUME NEW t, Mem(t)
  PROVE  Ext(t, t.s, t) /\ KeepsRoot(t, t)
  BY DEF Ext, KeepsRoot, Own

LEMMA MapAllFacts ==
  ASSUME NEW t, Mapped(t), NEW V, NEW u, u = MapAll(t, V), u.ok
  PROVE  Grown(t, V, LOW_END, u)
  <1>1. PICK at : Loop("map", LOW_END, t, V, at) /\ u = at[LOW_END]
    BY MapLoop
  <1> DEFINE S == {n \in 0 .. LOW_END : at[n].ok => Grown(t, V, n, at[n])}
  <1>2. LOW_END \in Nat /\ Mem(t) /\ DataFrames(t.s) \subseteq DOMAIN t.pte
    BY Constants, OwnKnown DEF Mapped, Base
  <1>3. 0 \in S
    <2>1. at[0] = t
      BY <1>1 DEF Loop
    <2>2. {v \in V : v \in 0 .. 0 - 1} = {}
      OBVIOUS
    <2>3. Ext(t, t.s, t) /\ KeepsRoot(t, t)
      BY <1>2, ExtSame
    <2>4. t.ok => Grown(t, V, 0, t)
      BY <2>2, <2>3 DEF Grown
    <2> QED BY <1>2, <2>1, <2>4
  <1>4. ASSUME NEW n \in 0 .. LOW_END - 1, n \in S
        PROVE  n + 1 \in S
    <2> DEFINE a == at[n]
               b == at[n + 1]
    <2>1. b = IF n \in V THEN Round("map", a, n) ELSE a
      BY <1>1 DEF Loop
    <2>2. a.ok => Grown(t, V, n, a)
      BY <1>4
    <2>3. n \in Page /\ n + 1 \in 0 .. LOW_END
      BY <1>2 DEF Page
    <2> HIDE DEF a, b
    <2>4. ASSUME b.ok PROVE Grown(t, V, n + 1, b)
      <3>1. CASE n \notin V
        <4>1. {v \in V : v \in 0 .. (n + 1) - 1} = {v \in V : v \in 0 .. n - 1}
          BY <1>2, <3>1
        <4>2. Grown(t, V, n, b)
          BY <2>1, <2>2, <2>4, <3>1
        <4> QED BY <4>1, <4>2 DEF Grown
      <3>2. CASE n \in V
        <4>1. b = map_one(a, n) /\ a.ok
          BY <2>1, <2>4, <3>2, RoundOk DEF Round
        <4>2. Grown(t, V, n, a)
          BY <2>2, <4>1
        <4>3. Mapped(a)
          BY <4>2 DEF Grown
        <4>4. /\ Mapped(b) /\ Ext(a, a.s, b) /\ KeepsRoot(a, b)
              /\ DOMAIN b.s.data = DOMAIN a.s.data \cup {n}
              /\ \A w \in DOMAIN a.s.data : b.s.data[w] = a.s.data[w]
          BY <2>3, <2>4, <4>1, <4>3, MapOne
        <4>5. Mem(a)
          BY <4>3 DEF Mapped, Base
        <4>6. Ext(t, t.s, b)
          <5>1. Ext(t, t.s, a)
            BY <4>2 DEF Grown
          <5> QED BY <1>2, <4>4, <4>5, <5>1, ExtTrans
        <4>7. KeepsRoot(t, b)
          BY <4>2, <4>4, KeepsTrans DEF Grown
        <4>8. {v \in V : v \in 0 .. (n + 1) - 1} = {v \in V : v \in 0 .. n - 1} \cup {n}
          <5>1. \A v : v \in 0 .. (n + 1) - 1 <=> v \in 0 .. n - 1 \/ v = n
            BY <1>2
          <5> QED BY <3>2, <5>1
        <4> QED BY <4>2, <4>4, <4>6, <4>7, <4>8 DEF Grown
      <3> QED BY <3>1, <3>2
    <2> QED BY <2>3, <2>4 DEF b
  <1> HIDE DEF S
  <1>5. LOW_END \in S
    BY <1>2, <1>3, <1>4, Induct
  <1> QED BY <1>1, <1>5 DEF S

\* The pages of V below n are unmapped.
Shrunk(t, V, n, u) ==
  /\ Mapped(u) /\ Ext(t, t.s, u) /\ KeepsRoot(t, u) /\ t.ok
  /\ DOMAIN u.s.data = DOMAIN t.s.data \ {v \in V : v \in 0 .. n - 1}
  /\ \A w \in DOMAIN u.s.data : u.s.data[w] = t.s.data[w]

LEMMA UnmapAllFacts ==
  ASSUME NEW t, Mapped(t), NEW V, V \subseteq DOMAIN t.s.data, NEW u, u = UnmapAll(t, V), u.ok
  PROVE  Shrunk(t, V, LOW_END, u)
  <1>1. PICK at : Loop("unmap", LOW_END, t, V, at) /\ u = at[LOW_END]
    BY UnmapLoop
  <1> DEFINE S == {n \in 0 .. LOW_END : at[n].ok => Shrunk(t, V, n, at[n])}
  <1>2. LOW_END \in Nat /\ Mem(t) /\ DataFrames(t.s) \subseteq DOMAIN t.pte
    BY Constants, OwnKnown DEF Mapped, Base
  <1>3. 0 \in S
    <2>1. at[0] = t
      BY <1>1 DEF Loop
    <2>2. {v \in V : v \in 0 .. 0 - 1} = {}
      OBVIOUS
    <2>3. Ext(t, t.s, t) /\ KeepsRoot(t, t)
      BY <1>2, ExtSame
    <2>4. t.ok => Shrunk(t, V, 0, t)
      BY <2>2, <2>3 DEF Shrunk
    <2> QED BY <1>2, <2>1, <2>4
  <1>4. ASSUME NEW n \in 0 .. LOW_END - 1, n \in S
        PROVE  n + 1 \in S
    <2> DEFINE a == at[n]
               b == at[n + 1]
    <2>1. b = IF n \in V THEN Round("unmap", a, n) ELSE a
      BY <1>1 DEF Loop
    <2>2. a.ok => Shrunk(t, V, n, a)
      BY <1>4
    <2>3. n + 1 \in 0 .. LOW_END
      BY <1>2
    <2> HIDE DEF a, b
    <2>4. ASSUME b.ok PROVE Shrunk(t, V, n + 1, b)
      <3>1. CASE n \notin V
        <4>1. {v \in V : v \in 0 .. (n + 1) - 1} = {v \in V : v \in 0 .. n - 1}
          BY <1>2, <3>1
        <4>2. Shrunk(t, V, n, b)
          BY <2>1, <2>2, <2>4, <3>1
        <4> QED BY <4>1, <4>2 DEF Shrunk
      <3>2. CASE n \in V
        <4>1. b = unmap_one(a, n) /\ a.ok
          BY <2>1, <2>4, <3>2, RoundOk DEF Round
        <4>2. Shrunk(t, V, n, a)
          BY <2>2, <4>1
        <4>3. Mapped(a) /\ n \in DOMAIN a.s.data
          <5>1. n \notin 0 .. n - 1
            BY <1>2
          <5> QED BY <3>2, <4>2, <5>1 DEF Shrunk
        <4>4. /\ Mapped(b) /\ Ext(a, a.s, b) /\ KeepsRoot(a, b)
              /\ DOMAIN b.s.data = DOMAIN a.s.data \ {n}
              /\ \A w \in DOMAIN b.s.data : b.s.data[w] = a.s.data[w]
          BY <2>4, <4>1, <4>3, UnmapOne
        <4>5. Mem(a)
          BY <4>3 DEF Mapped, Base
        <4>6. Ext(t, t.s, b)
          <5>1. Ext(t, t.s, a)
            BY <4>2 DEF Shrunk
          <5> QED BY <1>2, <4>4, <4>5, <5>1, ExtTrans
        <4>7. KeepsRoot(t, b)
          BY <4>2, <4>4, KeepsTrans DEF Shrunk
        <4>8. {v \in V : v \in 0 .. (n + 1) - 1} = {v \in V : v \in 0 .. n - 1} \cup {n}
          <5>1. \A v : v \in 0 .. (n + 1) - 1 <=> v \in 0 .. n - 1 \/ v = n
            BY <1>2
          <5> QED BY <3>2, <5>1
        <4> QED BY <4>2, <4>4, <4>6, <4>7, <4>8 DEF Shrunk
      <3> QED BY <3>1, <3>2
    <2> QED BY <2>3, <2>4 DEF b
  <1> HIDE DEF S
  <1>5. LOW_END \in S
    BY <1>2, <1>3, <1>4, Induct
  <1> QED BY <1>1, <1>5 DEF S

\* The trackers of the frames F are dropped, and that is all.
Fewer(t, F, u) ==
  /\ u.fl = t.fl /\ u.pte = t.pte /\ u.s = t.s /\ (u.ok <=> t.ok)
  /\ u.tr = t.tr \ Ones(F) /\ Mem(u)

LEMMA DropAllFacts ==
  ASSUME NEW t, Mem(t), NEW F, Ones(F) \subseteq t.tr, NEW u, u = DropAll(t, F)
  PROVE  Fewer(t, F, u)
  <1>1. PICK at : Loop("drop", NoFrame, t, F, at) /\ u = at[NoFrame]
    BY DropLoop
  <1> DEFINE Done(n) == {f \in F : f \in 0 .. n - 1}
             S == {n \in 0 .. NoFrame : Fewer(t, Done(n), at[n])}
  <1>2. NoFrame \in Nat
    BY Constants
  <1>3. 0 \in S
    <2>1. at[0] = t
      BY <1>1 DEF Loop
    <2>2. Done(0) = {}
      OBVIOUS
    <2>3. Ones(Done(0)) = {}
      BY <2>2 DEF Ones
    <2> HIDE DEF Done
    <2>4. Fewer(t, Done(0), t)
      BY <2>3 DEF Fewer
    <2> QED BY <1>2, <2>1, <2>4
  <1>4. ASSUME NEW n \in 0 .. NoFrame - 1, n \in S
        PROVE  n + 1 \in S
    <2> DEFINE a == at[n]
               b == at[n + 1]
    <2>1. b = IF n \in F THEN Round("drop", a, n) ELSE a
      BY <1>1 DEF Loop
    <2>2. Fewer(t, Done(n), a)
      BY <1>4
    <2>3. n + 1 \in 0 .. NoFrame
      BY <1>2
    <2>4. \A v : v \in 0 .. (n + 1) - 1 <=> v \in 0 .. n - 1 \/ v = n
      BY <1>2
    <2> HIDE DEF a, b
    <2>5. Fewer(t, Done(n + 1), b)
      <3>1. CASE n \notin F
        <4>1. Done(n + 1) = Done(n)
          BY <2>4, <3>1
        <4> QED BY <2>1, <2>2, <3>1, <4>1
      <3>2. CASE n \in F
        <4>1. b = drop(a, One(n))
          BY <2>1, <3>2 DEF Round
        <4>2. Done(n + 1) = Done(n) \cup {n} /\ n \notin Done(n)
          <5>1. n \notin 0 .. n - 1
            BY <1>2
          <5> QED BY <2>4, <3>2, <5>1
        <4> HIDE DEF Done
        <4>3. One(n) \in a.tr
          <5>1. One(n) \in t.tr
            BY <3>2, OneFacts
          <5>2. One(n) \notin Ones(Done(n))
            BY <4>2, OneFacts
          <5> QED BY <2>2, <5>1, <5>2 DEF Fewer
        <4>4. /\ b.fl = a.fl /\ b.tr = a.tr \ {One(n)} /\ b.pte = a.pte /\ b.s = a.s /\ b.ok = a.ok
              /\ Mem(b)
          BY <2>2, <4>1, <4>3, DropFacts DEF Fewer
        <4>5. Ones(Done(n + 1)) = Ones(Done(n)) \cup {One(n)}
          <5>1. Ones(Done(n) \cup {n}) = Ones(Done(n)) \cup Ones({n})
            BY OneFacts
          <5>2. Ones({n}) = {One(n)}
            BY DEF Ones
          <5> QED BY <4>2, <5>1, <5>2
        <4> QED BY <2>2, <4>4, <4>5 DEF Fewer
      <3> QED BY <3>1, <3>2
    <2> QED BY <2>3, <2>5 DEF b
  <1>5. Done(NoFrame) = F
    <2> SUFFICES ASSUME NEW f \in F PROVE f \in 0 .. NoFrame - 1
      OBVIOUS
    <2>1. One(f) \in Tracker
      BY OneFacts DEF Mem, Typed
    <2>2. f \in BEGIN .. NoFrame - 1
      BY <2>1, ReachFacts, OneFacts
    <2> QED BY <2>2, Constants
  <1> HIDE DEF S
  <1>6. NoFrame \in S
    BY <1>2, <1>3, <1>4, Induct
  <1> QED BY <1>1, <1>5, <1>6 DEF S

-----------------------------------------------------------------------------
(* New address spaces.                                                     *)

\* An empty root of its own.
Rootlike(t, u) ==
  /\ u.s.frames = {u.s.root} /\ u.s.data = None
  /\ u.s.root \notin DOMAIN t.pte /\ u.s.root \in DOMAIN u.pte /\ u.pte[u.s.root] = Cleared
  /\ Ext(t, NoSpace, u)

LEMMA NoSpaceFacts ==
  /\ DOMAIN None = {} /\ NoSpace.frames = {} /\ NoSpace.data = None
  /\ DataFrames(NoSpace) = {} /\ Own(NoSpace) = {}
  /\ \A s : s.data = None => DataFrames(s) = {} /\ DOMAIN s.data = {}
  BY DEF None, NoSpace, DataFrames, Own

LEMMA WithRootFacts ==
  ASSUME NEW t, Mem(t), NEW u, u = with_root(t), u.ok
  PROVE  /\ t.ok /\ Rootlike(t, u) /\ Mapped(u)
         /\ \A L \in SUBSET Line : Base(u, L)
         /\ \A g \in DOMAIN t.pte : u.pte[g] = t.pte[g]
         /\ DOMAIN t.pte \subseteq DOMAIN u.pte
  <1> DEFINE f == TakenPpn(t, 1)
             w == Taken(t, 1)
  <1>1. /\ u.fl = w.fl /\ u.tr = w.tr /\ u.pte = w.pte /\ (u.ok <=> w.ok)
        /\ u.s = [root |-> f, frames |-> {f}, data |-> None]
    <2> HIDE DEF f, w
    <2>1. u = With(w, w.pte, [root |-> f, frames |-> {f}, data |-> None], w.ok)
      BY DEF with_root, Rooted, f, w
    <2> QED BY <2>1 DEF With
  <1>2. /\ t.ok /\ w.s = t.s /\ w.tr = t.tr \cup {One(f)}
        /\ f \in Nat /\ f # Empty /\ f \notin DOMAIN t.pte
        /\ DOMAIN w.pte = DOMAIN t.pte \cup {f} /\ w.pte[f] = Cleared
        /\ \A g \in DOMAIN t.pte : w.pte[g] = t.pte[g]
        /\ Mem(w)
    BY <1>1, OneTaken
  <1> HIDE DEF f, w
  <1>3. /\ u.s.root = f /\ u.s.frames = {f} /\ u.s.data = None
        /\ Own(u.s) = {f} /\ DataFrames(u.s) = {} /\ DOMAIN u.s.data = {}
    BY <1>1, NoSpaceFacts DEF Own
  <1>4. Mem(u)
    BY <1>1, <1>2 DEF Mem
  <1>5. Ones({f}) = {One(f)} /\ Reach(One(f)) = {f}
    BY <1>2, OneFacts DEF Ones
  <1>6. Ext(t, NoSpace, u)
    <2>1. \A x \in u.tr \ t.tr : Reach(x) \cap DOMAIN t.pte = {}
      BY <1>1, <1>2, <1>5
    <2>2. \A x \in t.tr \ u.tr : x \in Ones(Own(NoSpace))
      BY <1>1, <1>2
    <2>3. DOMAIN t.pte \subseteq DOMAIN u.pte /\ \A g \in DOMAIN t.pte : u.pte[g] = t.pte[g]
      BY <1>1, <1>2
    <2>4. \A g \in u.s.frames \cup Own(u.s) : g \notin DOMAIN t.pte
      BY <1>2, <1>3
    <2> QED BY <2>1, <2>2, <2>3, <2>4, NoSpaceFacts DEF Ext
  <1>7. \A i \in Line : u.pte[f][i] = Empty
    BY <1>1, <1>2 DEF Cleared
  <1>8. ASSUME NEW L \in SUBSET Line PROVE Base(u, L)
    <2>1. Upper(u.pte, f, L) = {} /\ Lower(u.pte, f, L) = {}
      BY <1>7 DEF Upper, Lower
    <2>2. Tree(u.pte, f, {f}, L)
      BY <1>1, <1>2, <1>7, <2>1 DEF Tree
    <2> QED BY <1>1, <1>2, <1>3, <1>4, <1>5, <2>2 DEF Base
  <1>9. Mapped(u)
    <2>1. Base(u, Low)
      BY <1>8, Constants DEF Low
    <2>2. Owns(u)
      BY <1>3 DEF Owns
    <2>3. Stored(u.pte, u.s)
      <3> SUFFICES ASSUME NEW v \in Page
                   PROVE  Walk(u.pte, f, I1(v), I2(v), I3(v)) = Empty
        BY <1>3 DEF Stored, Lookup
      <3>1. I1(v) \in Line
        BY PageFacts, IndexFacts
      <3> QED BY <1>7, <3>1 DEF Walk, Step
    <2> QED BY <2>1, <2>2, <2>3 DEF Mapped
  <1>10. Rootlike(t, u)
    BY <1>1, <1>2, <1>3, <1>6 DEF Rootlike
  <1> QED BY <1>1, <1>2, <1>8, <1>9, <1>10

\* The frames below n are mapped linearly.
Translates(ptes, root, f) ==
  Walk(ptes, root, I1(f + PA_TO_VA), I2(f + PA_TO_VA), I3(f + PA_TO_VA)) = f

Kernel(n, u) ==
  /\ Base(u, KernelLines) /\ u.s.data = None
  /\ \A f \in Linear : f < n => Translates(u.pte, u.s.root, f)

LEMMA NewKernelFacts ==
  ASSUME NEW t, Mem(t), NEW u, u = new_kernel(t), u.ok
  PROVE  Kernel(NoFrame, u)
  <1>1. PICK at : Loop("linear", NoFrame, with_root(t), Linear, at) /\ u = at[NoFrame]
    BY LinearLoop
  <1> DEFINE S == {n \in 0 .. NoFrame : at[n].ok => Kernel(n, at[n])}
  <1>2. NoFrame \in Nat /\ PA_TO_VA \in Nat /\ KernelLines \subseteq Line
        /\ \A f \in Linear : f \in Nat /\ f # Empty /\ f + PA_TO_VA \in Nat
                             /\ I1(f + PA_TO_VA) \in KernelLines
    BY Constants, LinearAssumption DEF I1, Empty
  <1>3. 0 \in S
    <2> DEFINE w == with_root(t)
    <2>1. at[0] = w
      BY <1>1 DEF Loop
    <2>2. ASSUME w.ok PROVE Kernel(0, w)
      <3>1. Base(w, KernelLines) /\ w.s.data = None
        BY <1>2, <2>2, WithRootFacts DEF Rootlike
      <3>2. \A f \in Linear : ~(f < 0)
        BY <1>2
      <3> QED BY <3>1, <3>2 DEF Kernel
    <2> QED BY <1>2, <2>1, <2>2
  <1>4. ASSUME NEW n \in 0 .. NoFrame - 1, n \in S
        PROVE  n + 1 \in S
    <2> DEFINE a == at[n]
               b == at[n + 1]
               r == a.s.root
    <2>1. b = IF n \in Linear THEN Round("linear", a, n) ELSE a
      BY <1>1 DEF Loop
    <2>2. a.ok => Kernel(n, a)
      BY <1>4
    <2>3. n + 1 \in 0 .. NoFrame /\ n \in Nat
      BY <1>2
    <2> HIDE DEF a, b
    <2>4. ASSUME b.ok PROVE Kernel(n + 1, b)
      <3>1. CASE n \notin Linear
        <4>1. \A f \in Linear : f < n + 1 => f < n
          BY <1>2, <2>3, <3>1
        <4>2. Kernel(n, b)
          BY <2>1, <2>2, <2>4, <3>1
        <4> QED BY <4>1, <4>2 DEF Kernel
      <3>2. CASE n \in Linear
        <4> DEFINE v == n + PA_TO_VA
        <4>1. b = map(a, v, n) /\ a.ok
          BY <2>1, <2>4, <3>2, RoundOk DEF Round
        <4>2. Kernel(n, a)
          BY <2>2, <4>1
        <4>3. PICK c \in BOOLEAN : c = FALSE
          OBVIOUS
        <4>4. b = SetEntry(find_pte_create(a, v), v, n, c)
          BY <4>1, <4>3 DEF map
        <4>5. v \in Nat /\ I1(v) \in KernelLines /\ n \in Nat
          BY <1>2, <3>2
        <4> HIDE DEF v
        <4>6. /\ Base(b, KernelLines) /\ Wider(a, b, KernelLines)
              /\ (Walk(a.pte, r, I1(v), I2(v), I3(v)) # Empty) <=> c
              /\ OneWalk(a.pte, b.pte, r, KernelLines, indexes(v), n)
          BY <1>2, <2>4, <4>2, <4>4, <4>5, SetFacts DEF Kernel
        <4>7. b.s.root = r /\ b.s.data = None
          BY <4>2, <4>6 DEF Wider, Kernel
        <4>8. ASSUME NEW f \in Linear, f < n + 1 PROVE Translates(b.pte, b.s.root, f)
          <5> DEFINE w == f + PA_TO_VA
          <5>1. w \in Nat /\ I1(w) \in KernelLines /\ f # Empty
            BY <1>2
          <5>2. Translates(a.pte, r, f) <=> Walk(a.pte, r, I1(w), I2(w), I3(w)) = f
            BY DEF Translates
          <5>3. Translates(b.pte, r, f) <=> Walk(b.pte, r, I1(w), I2(w), I3(w)) = f
            BY DEF Translates
          <5>4. f = n => w = v
            BY DEF v
          <5> HIDE DEF w
          <5>5. I2(w) \in Line /\ I3(w) \in Line /\ indexes(w) = <<I1(w), I2(w), I3(w)>>
            BY <5>1, IndexFacts
          <5>6. Walk(b.pte, r, I1(w), I2(w), I3(w))
                = IF indexes(w) = indexes(v) THEN n ELSE Walk(a.pte, r, I1(w), I2(w), I3(w))
            BY <4>6, <5>1, <5>5 DEF OneWalk
          <5>7. CASE f = n
            BY <4>7, <5>3, <5>4, <5>6, <5>7
          <5>8. CASE f # n
            <6>1. f < n
              BY <1>2, <2>3, <4>8, <5>8
            <6>2. Walk(a.pte, r, I1(w), I2(w), I3(w)) = f
              BY <4>2, <5>2, <6>1 DEF Kernel
            <6>3. indexes(w) # indexes(v)
              BY <4>3, <4>6, <5>1, <6>2 DEF I1, I2, I3
            <6> QED BY <4>7, <5>3, <5>6, <6>2, <6>3
          <5> QED BY <5>7, <5>8
        <4> QED BY <4>6, <4>7, <4>8 DEF Kernel
      <3> QED BY <3>1, <3>2
    <2> QED BY <2>3, <2>4 DEF b
  <1> HIDE DEF S
  <1>5. NoFrame \in S
    BY <1>2, <1>3, <1>4, Induct
  <1> QED BY <1>1, <1>5 DEF S

\* Another row for the table r.
LEMMA ExceptRow ==
  ASSUME NEW D, NEW p \in [D -> [Line -> Nat]], NEW r \in D, NEW row \in [Line -> Nat],
         NEW q, q = [p EXCEPT ![r] = row]
  PROVE  /\ q \in [D -> [Line -> Nat]] /\ DOMAIN q = D /\ DOMAIN p = D
         /\ \A g \in D \ {r} : q[g] = p[g]
         /\ q[r] = row
  OBVIOUS

\* The kernel's entries of the table root are written into the root of t.s.
LEMMA KernelAreasFacts ==
  ASSUME NEW t, Mapped(t), NEW root \in DOMAIN t.pte, NEW u, u = map_kernel_areas(t, root)
  PROVE  /\ Mapped(u) /\ Ext(t, t.s, u) /\ u.s = t.s /\ u.tr = t.tr /\ (u.ok <=> t.ok)
         /\ \A i \in KernelLines : u.pte[u.s.root][i] = t.pte[root][i]
  <1> DEFINE r == t.s.root
             row == [i \in Line |-> IF i \in KernelLines THEN t.pte[root][i] ELSE t.pte[r][i]]
             e == [t.pte EXCEPT ![r] = row]
  <1>1. /\ Base(t, Low) /\ Owns(t) /\ Stored(t.pte, t.s) /\ Mem(t)
        /\ Tree(t.pte, r, t.s.frames, Low)
        /\ r \in t.s.frames /\ t.s.frames \subseteq DOMAIN t.pte /\ r \in DOMAIN t.pte
        /\ t.pte \in [DOMAIN t.pte -> [Line -> Nat]]
    BY DEF Mapped, Base, Tree, Mem
  <1>2. u = With(t, e, t.s, t.ok)
    BY DEF map_kernel_areas
  <1>3. row \in [Line -> Nat]
    BY <1>1
  <1>4. /\ \A i \in KernelLines : row[i] = t.pte[root][i]
        /\ \A i \in Low : row[i] = t.pte[r][i]
        /\ Low \subseteq Line
    BY Constants DEF Low
  <1> HIDE DEF row
  <1>5. /\ e \in [DOMAIN t.pte -> [Line -> Nat]] /\ DOMAIN e = DOMAIN t.pte
        /\ \A g \in DOMAIN t.pte \ {r} : e[g] = t.pte[g]
        /\ e[r] = row
    BY <1>1, <1>3, ExceptRow
  <1> HIDE DEF e
  <1>6. u.fl = t.fl /\ u.tr = t.tr /\ u.pte = e /\ u.s = t.s /\ (u.ok <=> t.ok)
    BY <1>2 DEF With
  <1>7. Mem(u)
    BY <1>1, <1>5, <1>6, MemWrite
  <1>8. Tree(u.pte, r, t.s.frames, Low) /\ SameWalks(t.pte, u.pte, r, Low)
    <2>1. t.s.frames \subseteq DOMAIN u.pte /\ \A f \in t.s.frames \ {r} : u.pte[f] = t.pte[f]
      BY <1>1, <1>5, <1>6
    <2>2. \A i \in Low : u.pte[r][i] = t.pte[r][i]
      BY <1>4, <1>5, <1>6
    <2> QED BY <1>1, <1>4, <2>1, <2>2, TreeSame
  <1>9. Stored(u.pte, u.s)
    <2> SUFFICES ASSUME NEW v \in Page
                 PROVE  Walk(u.pte, r, I1(v), I2(v), I3(v)) = Lookup(t.s.data, v)
      BY <1>6 DEF Stored
    <2>1. I1(v) \in Low /\ I2(v) \in Line /\ I3(v) \in Line
      BY PageFacts, IndexFacts
    <2> QED BY <1>1, <1>8, <2>1 DEF Stored, SameWalks
  <1>10. Mapped(u)
    BY <1>1, <1>6, <1>7, <1>8, <1>9 DEF Mapped, Base, Owns
  <1>11. Ext(t, t.s, u)
    <2>1. \A f \in DataFrames(t.s) : f \in DataFrames(u.s)
      BY <1>6
    <2>2. DOMAIN t.pte \subseteq DOMAIN u.pte /\ \A f \in DOMAIN t.pte \ t.s.frames : u.pte[f] = t.pte[f]
      BY <1>1, <1>5, <1>6
    <2> QED BY <1>6, <2>1, <2>2 DEF Ext
  <1> QED BY <1>4, <1>5, <1>6, <1>10, <1>11

LEMMA TakenMapped ==
  ASSUME NEW t, Mapped(t), NEW num \in Counts, NEW u, u = Taken(t, num), u.ok,
         NEW x, x = [ppn |-> TakenPpn(t, num), num |-> num]
  PROVE  /\ t.ok /\ Mapped(u) /\ Ext(t, t.s, u) /\ u.s = t.s /\ x \in u.tr /\ x \notin t.tr
         /\ \A g \in DOMAIN t.pte : u.pte[g] = t.pte[g]
         /\ Reach(x) \cap DOMAIN t.pte = {}
  <1> DEFINE f == TakenPpn(t, num)
  <1>1. Base(t, Low) /\ Owns(t) /\ Stored(t.pte, t.s) /\ Mem(t) /\ Low \subseteq Line
    BY Constants DEF Mapped, Base, Low
  <1>2. /\ t.ok /\ u.s = t.s /\ u.tr = t.tr \cup {x}
        /\ f \in Reach(x)
        /\ Reach(x) \cap DOMAIN t.pte = {}
        /\ DOMAIN u.pte = DOMAIN t.pte \cup Reach(x)
        /\ \A g \in DOMAIN t.pte : u.pte[g] = t.pte[g]
        /\ Mem(u)
    BY <1>1, TakenFacts
  <1> HIDE DEF f
  <1>3. x \notin t.tr
    BY <1>1, <1>2 DEF Mem
  <1>4. Base(u, Low) /\ SameWalks(t.pte, u.pte, t.s.root, Low)
    BY <1>1, <1>2, TakenBase
  <1>5. Stored(u.pte, u.s)
    <2> SUFFICES ASSUME NEW v \in Page
                 PROVE  Walk(u.pte, t.s.root, I1(v), I2(v), I3(v)) = Lookup(t.s.data, v)
      BY <1>2 DEF Stored
    <2>1. I1(v) \in Low /\ I2(v) \in Line /\ I3(v) \in Line
      BY PageFacts, IndexFacts
    <2> QED BY <1>1, <1>4, <2>1 DEF Stored, SameWalks
  <1>6. Mapped(u)
    BY <1>1, <1>2, <1>4, <1>5 DEF Mapped, Owns
  <1>7. Ext(t, t.s, u)
    BY <1>2 DEF Ext
  <1> QED BY <1>2, <1>3, <1>6, <1>7

LEMMA RecycleFacts ==
  ASSUME NEW t, Mapped(t), NEW u, u = recycle_user_pages(t)
  PROVE  /\ Mapped(u) /\ Ext(t, t.s, u) /\ KeepsRoot(t, u) /\ u.s.data = None /\ (u.ok <=> t.ok)
  <1> DEFINE r == t.s.root
             F == DataFrames(t.s) \cup (t.s.frames \ {r})
             d == DropAll(t, F)
             row == ClearedHalf(t.pte[r])
             e == [t.pte EXCEPT ![r] = row]
  <1>1. /\ Base(t, Low) /\ Owns(t) /\ Mem(t) /\ Low \subseteq Line
        /\ r \in t.s.frames /\ t.s.frames \subseteq DOMAIN t.pte /\ r \in DOMAIN t.pte
        /\ t.pte \in [DOMAIN t.pte -> [Line -> Nat]] /\ Ones(t.s.frames) \subseteq t.tr
    BY Constants DEF Mapped, Base, Tree, Mem, Low
  <1>2. /\ DataFrames(t.s) \subseteq DOMAIN t.pte /\ Ones(DataFrames(t.s)) \subseteq t.tr
        /\ DataFrames(t.s) \cap t.s.frames = {}
    BY <1>1, OwnKnown
  <1>3. Ones(F) \subseteq t.tr
    <2>1. Ones(F) = Ones(DataFrames(t.s)) \cup Ones(t.s.frames \ {r})
      BY OneFacts
    <2>2. Ones(t.s.frames \ {r}) \subseteq Ones(t.s.frames)
      BY OneFacts
    <2> QED BY <1>1, <1>2, <2>1, <2>2
  <1>4. F \subseteq Own(t.s) /\ r \notin F /\ DataFrames(t.s) \subseteq F
    BY <1>1, <1>2 DEF Own
  <1> HIDE DEF F
  <1>5. Fewer(t, F, d)
    BY <1>1, <1>3, DropAllFacts
  <1>6. u = Bare(d)
    BY DEF recycle_user_pages, F
  <1> HIDE DEF d
  <1>7. d.fl = t.fl /\ d.pte = t.pte /\ d.s = t.s /\ (d.ok <=> t.ok) /\ d.tr = t.tr \ Ones(F) /\ Mem(d)
    BY <1>5 DEF Fewer
  <1>8. u = With(d, e, [root |-> r, frames |-> {r}, data |-> None], d.ok)
    BY <1>6, <1>7 DEF Bare
  <1>9. row \in [Line -> Nat] /\ (\A i \in Low : row[i] = Empty) /\ \A i \in Line \ Low : row[i] = t.pte[r][i]
    <2>1. row = [i \in Line |-> IF i < HALF THEN Empty ELSE t.pte[r][i]]
      BY DEF ClearedHalf
    <2>2. \A i \in Line : i < HALF <=> i \in Low
      BY Constants DEF Line, Low
    <2>3. Empty \in Nat /\ \A i \in Line : t.pte[r][i] \in Nat
      BY <1>1 DEF Empty
    <2> HIDE DEF row
    <2> QED BY <1>1, <2>1, <2>2, <2>3
  <1> HIDE DEF row
  <1>10. /\ e \in [DOMAIN t.pte -> [Line -> Nat]] /\ DOMAIN e = DOMAIN t.pte
         /\ \A g \in DOMAIN t.pte \ {r} : e[g] = t.pte[g]
         /\ e[r] = row
    BY <1>1, <1>9, ExceptRow
  <1> HIDE DEF e
  <1>11. /\ u.fl = t.fl /\ u.tr = t.tr \ Ones(F) /\ u.pte = e /\ (u.ok <=> t.ok)
         /\ u.s.root = r /\ u.s.frames = {r} /\ u.s.data = None
    BY <1>7, <1>8 DEF With
  <1>12. DataFrames(u.s) = {} /\ DOMAIN u.s.data = {} /\ Own(u.s) = {r}
    BY <1>11, NoSpaceFacts DEF Own
  <1>13. Mem(u)
    BY <1>7, <1>10, <1>11, MemWrite
  <1>14. Base(u, Low)
    <2>1. Upper(u.pte, r, Low) = {} /\ Lower(u.pte, r, Low) = {}
      BY <1>9, <1>10, <1>11 DEF Upper, Lower
    <2>2. Tree(u.pte, r, {r}, Low)
      BY <1>1, <1>9, <1>10, <1>11, <2>1 DEF Tree
    <2>3. Ones({r}) = {One(r)}
      BY DEF Ones
    <2>4. One(r) \in t.tr /\ One(r) \notin Ones(F)
      BY <1>1, <1>4, OneFacts
    <2> QED BY <1>11, <1>13, <2>2, <2>3, <2>4 DEF Base
  <1>15. Owns(u)
    BY <1>12 DEF Owns
  <1>16. Stored(u.pte, u.s)
    <2> SUFFICES ASSUME NEW v \in Page
                 PROVE  Walk(u.pte, r, I1(v), I2(v), I3(v)) = Empty
      BY <1>11, <1>12 DEF Stored, Lookup
    <2>1. I1(v) \in Low
      BY PageFacts
    <2>2. u.pte[r][I1(v)] = Empty
      BY <1>9, <1>10, <1>11, <2>1
    <2> QED BY <2>2 DEF Walk, Step
  <1>17. Ext(t, t.s, u)
    <2>1. DOMAIN t.pte \subseteq DOMAIN u.pte /\ \A f \in DOMAIN t.pte \ t.s.frames : u.pte[f] = t.pte[f]
      BY <1>1, <1>10, <1>11
    <2>2. \A x \in t.tr \ u.tr : x \in Ones(Own(t.s))
      <3>1. Ones(F) \subseteq Ones(Own(t.s))
        BY <1>4, OneFacts
      <3> QED BY <1>11, <3>1
    <2>3. \A f \in DataFrames(t.s) : One(f) \notin u.tr
      BY <1>4, <1>11, OneFacts
    <2> QED BY <1>1, <1>11, <1>12, <2>1, <2>2, <2>3 DEF Ext, Own
  <1>18. KeepsRoot(t, u)
    BY <1>9, <1>10, <1>11 DEF KeepsRoot
  <1> QED BY <1>11, <1>14, <1>15, <1>16, <1>17, <1>18 DEF Mapped

LEMMA PagesFacts ==
  /\ Stack \subseteq Page
  /\ \A program \in Images : program \subseteq Page /\ program # {} /\ program \cap Stack = {}
  <1>1. Stack \subseteq Page
    BY ImagesAssumption, Constants DEF Stack, Page
  <1> QED BY <1>1, ImagesAssumption

LEMMA LoadFacts ==
  ASSUME NEW t, Mapped(t), NEW program \in Images, NEW u, u = load(t, program), u.ok
  PROVE  /\ t.ok /\ Mapped(u) /\ Ext(t, t.s, u) /\ KeepsRoot(t, u)
         /\ DOMAIN u.s.data = program \cup Stack
  <1> DEFINE b == recycle_user_pages(t)
             V == program \cup Stack
  <1>1. Mapped(b) /\ Ext(t, t.s, b) /\ KeepsRoot(t, b) /\ b.s.data = None /\ (b.ok <=> t.ok)
    BY RecycleFacts
  <1>2. u = MapAll(b, V)
    BY DEF load
  <1>3. V \subseteq Page
    BY PagesFacts
  <1> HIDE DEF b, V
  <1>4. Grown(b, V, LOW_END, u)
    BY <1>1, <1>2, MapAllFacts
  <1>5. Mapped(u) /\ Ext(b, b.s, u) /\ KeepsRoot(b, u) /\ b.ok
        /\ DOMAIN u.s.data = DOMAIN b.s.data \cup {v \in V : v \in 0 .. LOW_END - 1}
    BY <1>4 DEF Grown
  <1>6. DOMAIN u.s.data = V
    BY <1>1, <1>3, <1>5, NoSpaceFacts DEF Page
  <1>7. Ext(t, t.s, u)
    <2>1. Mem(t) /\ Mem(b) /\ DataFrames(t.s) \subseteq DOMAIN t.pte
      BY <1>1, OwnKnown DEF Mapped, Base
    <2> QED BY <1>1, <1>5, <2>1, ExtTrans
  <1>8. KeepsRoot(t, u)
    BY <1>1, <1>5, KeepsTrans
  <1> QED BY <1>1, <1>5, <1>6, <1>7, <1>8 DEF V

\* A panic is for good.
LEMMA LoopOk ==
  ASSUME NEW kind, NEW N \in Nat, NEW t, NEW V, NEW at, Loop(kind, N, t, V, at), at[N].ok
  PROVE  t.ok
  <1> DEFINE S == {n \in 0 .. N : at[n].ok => t.ok}
  <1>1. 0 \in S
    BY DEF Loop
  <1>2. ASSUME NEW n \in 0 .. N - 1, n \in S PROVE n + 1 \in S
    <2>1. at[n].ok => t.ok
      BY <1>2
    <2>2. at[n + 1] = IF n \in V THEN Round(kind, at[n], n) ELSE at[n]
      BY DEF Loop
    <2>3. at[n + 1].ok => at[n].ok
      BY <2>2, RoundOk
    <2> QED BY <2>1, <2>3
  <1> HIDE DEF S
  <1>3. N \in S
    BY <1>1, <1>2, Induct
  <1> QED BY <1>3 DEF S

LEMMA AllOk ==
  /\ \A t, V : MapAll(t, V).ok => t.ok
  /\ \A t, V : UnmapAll(t, V).ok => t.ok
  /\ \A t, F : DropAll(t, F).ok => t.ok
  /\ \A t : new_kernel(t).ok => with_root(t).ok
  <1>1. LOW_END \in Nat /\ NoFrame \in Nat
    BY Constants
  <1>2. ASSUME NEW t, NEW V, MapAll(t, V).ok PROVE t.ok
    <2>1. PICK at : Loop("map", LOW_END, t, V, at) /\ MapAll(t, V) = at[LOW_END]
      BY MapLoop
    <2> QED BY <1>1, <1>2, <2>1, LoopOk
  <1>3. ASSUME NEW t, NEW V, UnmapAll(t, V).ok PROVE t.ok
    <2>1. PICK at : Loop("unmap", LOW_END, t, V, at) /\ UnmapAll(t, V) = at[LOW_END]
      BY UnmapLoop
    <2> QED BY <1>1, <1>3, <2>1, LoopOk
  <1>4. ASSUME NEW t, NEW F, DropAll(t, F).ok PROVE t.ok
    <2>1. PICK at : Loop("drop", NoFrame, t, F, at) /\ DropAll(t, F) = at[NoFrame]
      BY DropLoop
    <2> QED BY <1>1, <1>4, <2>1, LoopOk
  <1>5. ASSUME NEW t, new_kernel(t).ok PROVE with_root(t).ok
    <2>1. PICK at : Loop("linear", NoFrame, with_root(t), Linear, at) /\ new_kernel(t) = at[NoFrame]
      BY LinearLoop
    <2> QED BY <1>1, <1>5, <2>1, LoopOk
  <1> QED BY <1>2, <1>3, <1>4, <1>5

\* exit: what is left are the tables.
LEMMA ExitFacts ==
  ASSUME NEW t, Mapped(t), Stack \subseteq DOMAIN t.s.data, NEW w, w = UnmapAll(t, Stack),
         NEW u, u = WithData(DropAll(w, DataFrames(w.s)), None), u.ok
  PROVE  /\ Ext(t, t.s, u) /\ KeepsRoot(t, u) /\ Base(u, Low) /\ u.s.data = None
  <1> DEFINE F == DataFrames(w.s)
             d == DropAll(w, F)
  <1>1. /\ u.fl = d.fl /\ u.tr = d.tr /\ u.pte = d.pte /\ (u.ok <=> d.ok)
        /\ u.s.root = d.s.root /\ u.s.frames = d.s.frames /\ u.s.data = None
    BY WithDataFacts
  <1>2. w.ok
    BY <1>1, AllOk
  <1>3. Shrunk(t, Stack, LOW_END, w)
    BY <1>2, UnmapAllFacts
  <1>4. Mapped(w) /\ Ext(t, t.s, w) /\ KeepsRoot(t, w)
    BY <1>3 DEF Shrunk
  <1>5. /\ Mem(w) /\ Base(w, Low) /\ Owns(w)
        /\ F \subseteq DOMAIN w.pte /\ Ones(F) \subseteq w.tr /\ F \cap w.s.frames = {}
    BY <1>4, OwnKnown DEF Mapped, Base
  <1>6. Fewer(w, F, d)
    BY <1>5, DropAllFacts
  <1> HIDE DEF d
  <1>7. /\ d.fl = w.fl /\ d.pte = w.pte /\ d.s = w.s /\ d.tr = w.tr \ Ones(F) /\ Mem(d)
    BY <1>6 DEF Fewer
  <1>8. /\ Mem(u) /\ DataFrames(u.s) = {} /\ Own(u.s) = w.s.frames /\ F \subseteq Own(w.s)
        /\ DataFrames(w.s) = F
    BY <1>1, <1>7, NoSpaceFacts DEF Mem, Own
  <1> HIDE DEF F
  <1>9. Base(u, Low)
    <2>1. Ones(w.s.frames) \subseteq u.tr
      <3> SUFFICES ASSUME NEW f \in w.s.frames PROVE One(f) \in u.tr
        BY DEF Ones
      <3>1. One(f) \in w.tr
        BY <1>5, OneFacts DEF Base
      <3>2. One(f) \notin Ones(F)
        BY <1>5, OneFacts
      <3> QED BY <1>1, <1>7, <3>1, <3>2
    <2> QED BY <1>1, <1>5, <1>7, <1>8, <2>1 DEF Base
  <1>10. Ext(w, w.s, u)
    <2>1. \A x \in w.tr \ u.tr : x \in Ones(Own(w.s))
      <3>1. Ones(F) \subseteq Ones(Own(w.s))
        BY <1>8, OneFacts
      <3> QED BY <1>1, <1>7, <3>1
    <2>2. \A f \in F : One(f) \notin u.tr
      BY <1>1, <1>7, OneFacts
    <2> QED BY <1>1, <1>7, <1>8, <2>1, <2>2 DEF Ext, Own
  <1>11. Ext(t, t.s, u)
    <2>1. Mem(t) /\ DataFrames(t.s) \subseteq DOMAIN t.pte
      BY OwnKnown DEF Mapped, Base
    <2> QED BY <1>4, <1>5, <1>10, <2>1, ExtTrans
  <1>12. KeepsRoot(t, u)
    BY <1>1, <1>4, <1>7 DEF KeepsRoot
  <1> QED BY <1>1, <1>9, <1>11, <1>12

-----------------------------------------------------------------------------
(* The system: the memory t with the spaces sp of the kernel and of the    *)
(* processes A, of which R are ready and the others zombies, their kernel  *)
(* stacks ks and their programs im.                                        *)

In(t, s) == [fl |-> t.fl, tr |-> t.tr, pte |-> t.pte, s |-> s, ok |-> TRUE]

Lines(x) == IF x = KERNEL THEN KernelLines ELSE Low

Holds(t, s, L) == Tree(t.pte, s.root, s.frames, L) /\ Ones(Own(s)) \subseteq t.tr

KStack(f) == [ppn |-> f, num |-> KSTACK]

\* Every space has its tables and frames, and no frame is in two spaces.
Spaces(t, sp, A) ==
  /\ Mem(t) /\ A \subseteq Proc
  /\ \A x \in A \cup {KERNEL} : Holds(t, sp[x], Lines(x))
  /\ \A x, y \in A \cup {KERNEL} : x # y => Own(sp[x]) \cap Own(sp[y]) = {}

\* The roots of processes have the tables of the kernel.
Shared(t, sp, A) ==
  /\ sp[KERNEL].data = None
  /\ \A f \in Linear : Translates(t.pte, sp[KERNEL].root, f)
  /\ \A p \in A : \A i \in KernelLines : t.pte[sp[p].root][i] = t.pte[sp[KERNEL].root][i]

Stacks(t, A, ks) ==
  /\ \A p \in A : KStack(ks[p]) \in t.tr
  /\ \A p, q \in A : p # q => ks[p] # ks[q]

Programs(t, sp, A, R, im) ==
  /\ R \subseteq A
  /\ \A p \in A \ R : sp[p].data = None
  /\ \A p \in R : Mapped(In(t, sp[p])) /\ im[p] \in Images /\ im[p] \cup Stack \subseteq DOMAIN sp[p].data

Sys(t, sp, A, R, ks, im) ==
  Spaces(t, sp, A) /\ Shared(t, sp, A) /\ Stacks(t, A, ks) /\ Programs(t, sp, A, R, im)

\* Nobody owns the frame f, and nobody will.
Orphan(t, f) == f \in DOMAIN t.pte /\ \A x \in t.tr : f \notin Reach(x)

\* The processor uses a root that exists, and what it remembers is harmless.
Cpu(t, sp, A, R, im, root, curr, cache) ==
  /\ \E x \in A \cup {KERNEL} : root = sp[x].root
  /\ curr # Nobody => curr \in R /\ root = sp[curr].root
  /\ \A e \in cache : Orphan(t, e[2]) \/ \E o \in R : sp[o].root = root /\ e[2] \in DataFrames(sp[o])
  /\ \A e \in cache : \A o \in R : sp[o].root = root /\ e[1] \in im[o] \cup Stack
                                     => e[1] \in DOMAIN sp[o].data /\ e[2] = sp[o].data[e[1]]

LEMMA LinesFacts ==
  ASSUME NEW x
  PROVE  Lines(x) \subseteq Line /\ (x \in Proc => Lines(x) = Low) /\ Lines(KERNEL) = KernelLines
  BY Constants, PageTableAssumption DEF Lines, Low

LEMMA HoldsFacts ==
  ASSUME NEW t, Mem(t), NEW s, NEW L, Holds(t, s, L)
  PROVE  /\ s.root \in s.frames /\ s.root \in Own(s) /\ s.frames \subseteq Own(s)
         /\ Own(s) \subseteq DOMAIN t.pte /\ s.root # Empty
         /\ \A f \in Own(s) : One(f) \in t.tr
  <1>1. s.root \in s.frames /\ s.frames \subseteq Own(s)
    BY DEF Holds, Tree, Own
  <1>2. \A f \in Own(s) : One(f) \in t.tr
    BY OneFacts DEF Holds
  <1>3. \A f \in Own(s) : f \in DOMAIN t.pte /\ f # Empty
    BY <1>2, OneKnown
  <1> QED BY <1>1, <1>2, <1>3

\* An operation on the space s does nothing to the space o.
Untouched(t, u, o, L) ==
  /\ Holds(u, o, L) /\ Own(u.s) \cap Own(o) = {}
  /\ \A f \in o.frames : u.pte[f] = t.pte[f]
  /\ SameWalks(t.pte, u.pte, o.root, L)

LEMMA Other ==
  ASSUME NEW t, Mem(t), NEW s, NEW o, NEW L, L \subseteq Line, Holds(t, o, L), Own(s) \cap Own(o) = {},
         NEW u, Ext(t, s, u)
  PROVE  Untouched(t, u, o, L)
  <1>1. /\ o.root \in o.frames /\ o.frames \subseteq Own(o) /\ Own(o) \subseteq DOMAIN t.pte
        /\ \A f \in Own(o) : One(f) \in t.tr
    BY HoldsFacts
  <1>2. \A f \in o.frames : u.pte[f] = t.pte[f]
    <2>1. s.frames \subseteq Own(s)
      BY DEF Own
    <2> QED BY <1>1, <2>1 DEF Ext
  <1>3. o.frames \subseteq DOMAIN u.pte
    BY <1>1 DEF Ext
  <1>4. Tree(u.pte, o.root, o.frames, L) /\ SameWalks(t.pte, u.pte, o.root, L)
    BY <1>1, <1>2, <1>3, TreeSame DEF Holds
  <1>5. Ones(Own(o)) \subseteq u.tr
    <2> SUFFICES ASSUME NEW f \in Own(o) PROVE One(f) \in u.tr
      BY DEF Ones
    <2>1. One(f) \in t.tr /\ f \notin Own(s)
      BY <1>1
    <2>2. One(f) \notin Ones(Own(s))
      BY <2>1, OneFacts
    <2> QED BY <2>1, <2>2 DEF Ext
  <1>6. Own(u.s) \cap Own(o) = {}
    BY <1>1 DEF Ext
  <1> QED BY <1>2, <1>4, <1>5, <1>6 DEF Untouched, Holds

LEMMA OtherMapped ==
  ASSUME NEW t, NEW o, Mapped(In(t, o)), NEW u, Mem(u), Untouched(t, u, o, Low)
  PROVE  Mapped(In(u, o))
  <1> DEFINE a == In(t, o)
             b == In(u, o)
  <1>1. /\ a.fl = t.fl /\ a.tr = t.tr /\ a.pte = t.pte /\ a.s = o
        /\ b.fl = u.fl /\ b.tr = u.tr /\ b.pte = u.pte /\ b.s = o
    BY DEF In
  <1> HIDE DEF a, b
  <1>2. Mem(b)
    BY <1>1 DEF Mem
  <1>3. Ones(Own(o)) \subseteq u.tr /\ Tree(u.pte, o.root, o.frames, Low)
    BY DEF Untouched, Holds
  <1>4. Base(b, Low)
    <2>1. Ones(o.frames) \subseteq Ones(Own(o))
      BY OneFacts DEF Own
    <2> QED BY <1>1, <1>2, <1>3, <2>1 DEF Base
  <1>5. Owns(b)
    <2>1. Owns(a)
      BY DEF Mapped, a
    <2>2. \A v \in DOMAIN o.data : One(o.data[v]) \in u.tr
      <3>1. \A v \in DOMAIN o.data : o.data[v] \in Own(o)
        BY DEF Own, DataFrames
      <3>2. \A f \in Own(o) : One(f) \in u.tr
        BY <1>3, OneFacts
      <3> QED BY <3>1, <3>2
    <2> QED BY <1>1, <2>1, <2>2 DEF Owns
  <1>6. Stored(b.pte, b.s)
    <2>1. Stored(t.pte, o)
      BY <1>1 DEF Mapped, a
    <2> SUFFICES ASSUME NEW v \in Page
                 PROVE  Walk(u.pte, o.root, I1(v), I2(v), I3(v)) = Lookup(o.data, v)
      BY <1>1 DEF Stored
    <2>2. I1(v) \in Low /\ I2(v) \in Line /\ I3(v) \in Line
      BY PageFacts, IndexFacts
    <2> QED BY <2>1, <2>2 DEF Stored, SameWalks, Untouched
  <1> QED BY <1>4, <1>5, <1>6 DEF Mapped, b

\* Whatever happens to the space s and to nothing else: the other spaces of B.
LEMMA OthersStay ==
  ASSUME NEW t, NEW sp, NEW A, Spaces(t, sp, A), Shared(t, sp, A),
         NEW s, NEW B, B \subseteq A, \A x \in B \cup {KERNEL} : Own(s) \cap Own(sp[x]) = {},
         NEW u, Mem(u), Ext(t, s, u)
  PROVE  /\ \A x \in B \cup {KERNEL} : Untouched(t, u, sp[x], Lines(x))
         /\ \A f \in Linear : Translates(u.pte, sp[KERNEL].root, f)
         /\ \A x \in B \cup {KERNEL} : u.pte[sp[x].root] = t.pte[sp[x].root]
  <1>1. Mem(t) /\ \A x \in B \cup {KERNEL} : Holds(t, sp[x], Lines(x))
    BY DEF Spaces
  <1>2. ASSUME NEW x \in B \cup {KERNEL} PROVE Untouched(t, u, sp[x], Lines(x))
    BY <1>1, LinesFacts, Other
  <1>3. ASSUME NEW x \in B \cup {KERNEL} PROVE u.pte[sp[x].root] = t.pte[sp[x].root]
    <2>1. sp[x].root \in sp[x].frames
      BY <1>1 DEF Holds, Tree
    <2> QED BY <1>2, <2>1 DEF Untouched
  <1>4. ASSUME NEW f \in Linear PROVE Translates(u.pte, sp[KERNEL].root, f)
    <2> DEFINE v == f + PA_TO_VA
               r == sp[KERNEL].root
    <2>1. v \in Nat /\ I1(v) \in KernelLines
      BY LinearAssumption, Constants DEF I1
    <2> HIDE DEF v
    <2>2. I2(v) \in Line /\ I3(v) \in Line
      BY <2>1, IndexFacts
    <2>3. Walk(u.pte, r, I1(v), I2(v), I3(v)) = Walk(t.pte, r, I1(v), I2(v), I3(v))
      BY <1>2, <2>1, <2>2, LinesFacts DEF Untouched, SameWalks
    <2>4. Walk(t.pte, r, I1(v), I2(v), I3(v)) = f
      BY DEF Shared, Translates, v
    <2> QED BY <2>3, <2>4 DEF Translates, v
  <1> QED BY <1>2, <1>3, <1>4

\* The space of p becomes u.s, with the same root; p is then in R2 or a zombie.
Changes(t, sp, p, u, sp2) ==
  /\ Mem(u) /\ Ext(t, sp[p], u) /\ Holds(u, u.s, Low)
  /\ u.s.root = sp[p].root
  /\ \A i \in KernelLines : u.pte[u.s.root][i] = t.pte[u.s.root][i]
  /\ sp2[p] = u.s /\ \A x \in Space \ {p} : sp2[x] = sp[x]

Continues(p, u, R, R2, im, im2) ==
  /\ R2 \subseteq R /\ R \subseteq R2 \cup {p}
  /\ p \notin R2 => u.s.data = None
  /\ p \in R2 => /\ Mapped(In(u, u.s)) /\ im2[p] \in Images
                 /\ im2[p] \cup Stack \subseteq DOMAIN u.s.data
  /\ \A x \in Proc \ {p} : im2[x] = im[x]

LEMMA ChangeSpaces ==
  ASSUME NEW t, NEW sp, NEW A, Spaces(t, sp, A), Shared(t, sp, A), NEW p \in A,
         NEW u, NEW sp2, Changes(t, sp, p, u, sp2)
  PROVE  Spaces(u, sp2, A) /\ Shared(u, sp2, A)
         /\ \A x \in A \ {p} : Untouched(t, u, sp[x], Low)
  <1> DEFINE B == A \ {p}
             s == sp[p]
  <1>1. A \subseteq Proc /\ p \in Proc /\ p # KERNEL /\ KERNEL \notin A
        /\ \A x \in B \cup {KERNEL} : x \in Space \ {p}
    BY PageTableAssumption DEF Spaces, Space
  <1>2. \A x \in B \cup {KERNEL} : Own(s) \cap Own(sp[x]) = {}
    BY <1>1 DEF Spaces
  <1>3. /\ sp2[p] = u.s /\ Mem(u) /\ Holds(u, u.s, Low) /\ u.s.root = s.root
        /\ \A x \in B \cup {KERNEL} : sp2[x] = sp[x]
    BY <1>1 DEF Changes
  <1>4. Ext(t, s, u) /\ B \subseteq A
    BY DEF Changes
  <1> HIDE DEF B, s
  <1>5. /\ \A x \in B \cup {KERNEL} : Untouched(t, u, sp[x], Lines(x))
        /\ \A f \in Linear : Translates(u.pte, sp[KERNEL].root, f)
        /\ \A x \in B \cup {KERNEL} : u.pte[sp[x].root] = t.pte[sp[x].root]
    BY <1>2, <1>3, <1>4, OthersStay
  <1>6. A \cup {KERNEL} = (B \cup {KERNEL}) \cup {p}
    BY DEF B
  <1>7. Spaces(u, sp2, A)
    <2>1. \A x \in A \cup {KERNEL} : Holds(u, sp2[x], Lines(x))
      BY <1>1, <1>3, <1>5, <1>6, LinesFacts DEF Untouched
    <2>2. ASSUME NEW x \in A \cup {KERNEL}, NEW y \in A \cup {KERNEL}, x # y
          PROVE  Own(sp2[x]) \cap Own(sp2[y]) = {}
      <3>1. CASE x = p
        <4>1. y \in B \cup {KERNEL}
          BY <1>6, <2>2, <3>1
        <4> QED BY <1>3, <1>5, <3>1, <4>1 DEF Untouched
      <3>2. CASE y = p
        <4>1. x \in B \cup {KERNEL}
          BY <1>6, <2>2, <3>2
        <4> QED BY <1>3, <1>5, <3>2, <4>1 DEF Untouched
      <3>3. CASE x # p /\ y # p
        <4>1. sp2[x] = sp[x] /\ sp2[y] = sp[y]
          BY <1>3, <1>6, <3>3
        <4> QED BY <2>2, <4>1 DEF Spaces
      <3> QED BY <3>1, <3>2, <3>3
    <2> QED BY <1>1, <1>3, <2>1, <2>2 DEF Spaces
  <1>8. Shared(u, sp2, A)
    <2>1. \A i \in KernelLines : u.pte[sp2[p].root][i] = u.pte[sp2[KERNEL].root][i]
      <3>1. \A i \in KernelLines : u.pte[s.root][i] = t.pte[s.root][i]
        BY <1>3 DEF Changes
      <3>2. \A i \in KernelLines : t.pte[s.root][i] = t.pte[sp[KERNEL].root][i]
        BY DEF Shared, s
      <3> QED BY <1>3, <1>5, <3>1, <3>2
    <2>2. \A x \in B : \A i \in KernelLines : u.pte[sp2[x].root][i] = u.pte[sp2[KERNEL].root][i]
      BY <1>3, <1>5 DEF Shared, B
    <2>3. sp2[KERNEL] = sp[KERNEL]
      BY <1>3
    <2> QED BY <1>5, <1>6, <2>1, <2>2, <2>3 DEF Shared, B
  <1>9. \A x \in A \ {p} : Untouched(t, u, sp[x], Low)
    BY <1>1, <1>5, LinesFacts DEF B
  <1> QED BY <1>7, <1>8, <1>9

LEMMA KStackFacts ==
  /\ \A f, F : KStack(f) \notin Ones(F)
  /\ \A f, g : KStack(f) = KStack(g) => f = g
  <1>1. \A f : KStack(f).num = KSTACK /\ KStack(f).ppn = f
    BY DEF KStack
  <1>2. \A F : \A x \in Ones(F) : x.num = 1
    BY DEF Ones, One
  <1> QED BY <1>1, <1>2, Constants

LEMMA ChangeSys ==
  ASSUME NEW t, NEW sp, NEW A, NEW R, NEW ks, NEW im, Sys(t, sp, A, R, ks, im), NEW p \in R,
         NEW u, NEW sp2, Changes(t, sp, p, u, sp2),
         NEW R2, NEW im2, Continues(p, u, R, R2, im, im2)
  PROVE  Sys(u, sp2, A, R2, ks, im2)
  <1>1. Spaces(t, sp, A) /\ Shared(t, sp, A) /\ Stacks(t, A, ks) /\ Programs(t, sp, A, R, im)
    BY DEF Sys
  <1>2. p \in A /\ A \subseteq Proc /\ R \subseteq A
    BY <1>1 DEF Programs, Spaces
  <1>3. Spaces(u, sp2, A) /\ Shared(u, sp2, A) /\ \A x \in A \ {p} : Untouched(t, u, sp[x], Low)
    BY <1>1, <1>2, ChangeSpaces
  <1>4. /\ sp2[p] = u.s /\ Mem(u) /\ Ext(t, sp[p], u) /\ \A x \in A \ {p} : sp2[x] = sp[x]
    BY <1>2 DEF Changes, Space
  <1>5. Stacks(u, A, ks)
    BY <1>1, <1>4, KStackFacts DEF Stacks, Ext
  <1>6. Programs(u, sp2, A, R2, im2)
    <2>1. R2 \subseteq A
      BY <1>2 DEF Continues
    <2>2. ASSUME NEW q \in A \ R2 PROVE sp2[q].data = None
      <3>1. CASE q = p
        BY <1>4, <2>2, <3>1 DEF Continues
      <3>2. CASE q # p
        BY <1>1, <1>4, <2>2, <3>2 DEF Continues, Programs
      <3> QED BY <3>1, <3>2
    <2>3. ASSUME NEW q \in R2
          PROVE  /\ Mapped(In(u, sp2[q])) /\ im2[q] \in Images
                 /\ im2[q] \cup Stack \subseteq DOMAIN sp2[q].data
      <3>1. CASE q = p
        BY <1>4, <2>3, <3>1 DEF Continues
      <3>2. CASE q # p
        <4>1. q \in R /\ q \in A \ {p} /\ im2[q] = im[q] /\ sp2[q] = sp[q]
          BY <1>2, <1>4, <3>2 DEF Continues
        <4>2. Mapped(In(t, sp[q])) /\ im[q] \in Images /\ im[q] \cup Stack \subseteq DOMAIN sp[q].data
          BY <1>1, <4>1 DEF Programs
        <4>3. Mapped(In(u, sp[q]))
          BY <1>3, <1>4, <4>1, <4>2, OtherMapped
        <4> QED BY <4>1, <4>2, <4>3
      <3> QED BY <3>1, <3>2
    <2> QED BY <2>1, <2>2, <2>3 DEF Programs
  <1> QED BY <1>3, <1>5, <1>6 DEF Sys

LEMMA MappedHolds ==
  ASSUME NEW u, Mapped(u)
  PROVE  Mem(u) /\ Holds(u, u.s, Low) /\ Mapped(In(u, u.s))
  <1>1. Mem(u) /\ Tree(u.pte, u.s.root, u.s.frames, Low) /\ Ones(u.s.frames) \subseteq u.tr /\ Owns(u)
    BY DEF Mapped, Base
  <1>2. Ones(DataFrames(u.s)) \subseteq u.tr
    BY <1>1, OwnKnown
  <1>3. Ones(Own(u.s)) = Ones(u.s.frames) \cup Ones(DataFrames(u.s))
    BY OneFacts DEF Own
  <1>4. Holds(u, u.s, Low)
    BY <1>1, <1>2, <1>3 DEF Holds
  <1> DEFINE b == In(u, u.s)
  <1>5. b.fl = u.fl /\ b.tr = u.tr /\ b.pte = u.pte /\ b.s = u.s
    BY DEF In
  <1> HIDE DEF b
  <1>6. Mapped(b)
    BY <1>5 DEF Mapped, Base, Owns, Stored, Mem
  <1> QED BY <1>1, <1>4, <1>6 DEF b

\* p gets the new space u.s and a kernel stack.
Creates(t, sp, A, p, u, sp2) ==
  /\ p \in Proc \ A /\ Ext(t, NoSpace, u) /\ Mapped(u)
  /\ \A i \in KernelLines : u.pte[u.s.root][i] = t.pte[sp[KERNEL].root][i]
  /\ sp2[p] = u.s /\ \A x \in Space \ {p} : sp2[x] = sp[x]

Begins(t, p, u, ks, ks2, im, im2) ==
  /\ KStack(ks2[p]) \in u.tr \ t.tr
  /\ im2[p] \in Images /\ im2[p] \cup Stack \subseteq DOMAIN u.s.data
  /\ \A x \in Proc \ {p} : ks2[x] = ks[x] /\ im2[x] = im[x]

LEMMA CreateSpaces ==
  ASSUME NEW t, NEW sp, NEW A, Spaces(t, sp, A), Shared(t, sp, A),
         NEW p, NEW u, NEW sp2, Creates(t, sp, A, p, u, sp2)
  PROVE  Spaces(u, sp2, A \cup {p}) /\ Shared(u, sp2, A \cup {p})
         /\ \A x \in A : Untouched(t, u, sp[x], Low)
  <1> USE DEF Creates
  <1>1. A \subseteq Proc /\ p \in Proc /\ p # KERNEL /\ KERNEL \notin A
        /\ \A x \in A \cup {KERNEL} : x \in Space \ {p}
    BY PageTableAssumption DEF Spaces, Space
  <1>2. \A x \in A \cup {KERNEL} : Own(NoSpace) \cap Own(sp[x]) = {}
    BY NoSpaceFacts
  <1>3. Mem(u) /\ Holds(u, u.s, Low)
    BY MappedHolds
  <1>4. \A x \in A \cup {KERNEL} : sp2[x] = sp[x]
    BY <1>1
  <1>5. /\ \A x \in A \cup {KERNEL} : Untouched(t, u, sp[x], Lines(x))
        /\ \A f \in Linear : Translates(u.pte, sp[KERNEL].root, f)
        /\ \A x \in A \cup {KERNEL} : u.pte[sp[x].root] = t.pte[sp[x].root]
    BY <1>2, <1>3, OthersStay
  <1>6. Spaces(u, sp2, A \cup {p})
    <2>1. \A x \in A \cup {p} \cup {KERNEL} : Holds(u, sp2[x], Lines(x))
      BY <1>1, <1>3, <1>4, <1>5, LinesFacts DEF Untouched
    <2>2. ASSUME NEW x \in A \cup {p} \cup {KERNEL}, NEW y \in A \cup {p} \cup {KERNEL}, x # y
          PROVE  Own(sp2[x]) \cap Own(sp2[y]) = {}
      <3>1. CASE x = p
        BY <1>4, <1>5, <2>2, <3>1 DEF Untouched
      <3>2. CASE y = p
        BY <1>4, <1>5, <2>2, <3>2 DEF Untouched
      <3>3. CASE x # p /\ y # p
        BY <1>4, <2>2, <3>3 DEF Spaces
      <3> QED BY <3>1, <3>2, <3>3
    <2> QED BY <1>1, <1>3, <2>1, <2>2 DEF Spaces
  <1>7. Shared(u, sp2, A \cup {p})
    <2>1. \A i \in KernelLines : u.pte[sp2[p].root][i] = u.pte[sp2[KERNEL].root][i]
      BY <1>4, <1>5
    <2>2. \A x \in A : \A i \in KernelLines : u.pte[sp2[x].root][i] = u.pte[sp2[KERNEL].root][i]
      BY <1>4, <1>5 DEF Shared
    <2>3. sp2[KERNEL] = sp[KERNEL]
      BY <1>4
    <2> QED BY <1>5, <2>1, <2>2, <2>3 DEF Shared
  <1>8. \A x \in A : Untouched(t, u, sp[x], Low)
    BY <1>1, <1>5, LinesFacts
  <1> QED BY <1>6, <1>7, <1>8

LEMMA CreateSys ==
  ASSUME NEW t, NEW sp, NEW A, NEW R, NEW ks, NEW im, Sys(t, sp, A, R, ks, im),
         NEW p, NEW u, NEW sp2, Creates(t, sp, A, p, u, sp2),
         NEW ks2, NEW im2, Begins(t, p, u, ks, ks2, im, im2)
  PROVE  Sys(u, sp2, A \cup {p}, R \cup {p}, ks2, im2)
  <1>1. Spaces(t, sp, A) /\ Shared(t, sp, A) /\ Stacks(t, A, ks) /\ Programs(t, sp, A, R, im)
    BY DEF Sys
  <1>2. p \in Proc \ A /\ A \subseteq Proc /\ R \subseteq A
    BY <1>1 DEF Programs, Spaces, Creates
  <1>3. Spaces(u, sp2, A \cup {p}) /\ Shared(u, sp2, A \cup {p})
        /\ \A x \in A : Untouched(t, u, sp[x], Low)
    BY <1>1, CreateSpaces
  <1>4. /\ sp2[p] = u.s /\ Mapped(In(u, u.s)) /\ Mem(u) /\ Ext(t, NoSpace, u)
        /\ \A x \in A : sp2[x] = sp[x] /\ ks2[x] = ks[x] /\ im2[x] = im[x]
    BY <1>2, MappedHolds DEF Creates, Begins, Space
  <1>5. Stacks(u, A \cup {p}, ks2)
    <2>1. \A q \in A : KStack(ks2[q]) \in t.tr /\ KStack(ks2[q]) \in u.tr
      BY <1>1, <1>4, KStackFacts DEF Stacks, Ext
    <2>2. \A q \in A : ks2[q] # ks2[p]
      BY <2>1 DEF Begins
    <2>3. \A q, r \in A : q # r => ks2[q] # ks2[r]
      BY <1>1, <1>4 DEF Stacks
    <2> QED BY <2>1, <2>2, <2>3 DEF Stacks, Begins
  <1>6. Programs(u, sp2, A \cup {p}, R \cup {p}, im2)
    <2>1. ASSUME NEW q \in (A \cup {p}) \ (R \cup {p}) PROVE sp2[q].data = None
      BY <1>1, <1>4, <2>1 DEF Programs
    <2>2. ASSUME NEW q \in R \cup {p}
          PROVE  /\ Mapped(In(u, sp2[q])) /\ im2[q] \in Images
                 /\ im2[q] \cup Stack \subseteq DOMAIN sp2[q].data
      <3>1. CASE q = p
        BY <1>4, <3>1 DEF Begins
      <3>2. CASE q # p
        <4>1. q \in R /\ q \in A /\ im2[q] = im[q] /\ sp2[q] = sp[q]
          BY <1>2, <1>4, <2>2, <3>2
        <4>2. Mapped(In(t, sp[q])) /\ im[q] \in Images /\ im[q] \cup Stack \subseteq DOMAIN sp[q].data
          BY <1>1, <4>1 DEF Programs
        <4>3. Mapped(In(u, sp[q]))
          BY <1>3, <1>4, <4>1, <4>2, OtherMapped
        <4> QED BY <4>1, <4>2, <4>3
      <3> QED BY <3>1, <3>2
    <2> QED BY <1>2, <2>1, <2>2 DEF Programs
  <1> QED BY <1>3, <1>5, <1>6 DEF Sys

\* q is reaped.
Reaped(t, sp, q, ks) ==
  drop(DropAll(In(t, NoSpace), sp[q].frames), KStack(ks[q]))

Forgets(q, sp, sp2, ks, ks2, im, im2) ==
  /\ \A x \in Space \ {q} : sp2[x] = sp[x]
  /\ \A x \in Proc \ {q} : ks2[x] = ks[x] /\ im2[x] = im[x]

LEMMA ReapedFacts ==
  ASSUME NEW t, NEW sp, NEW A, NEW R, NEW ks, NEW im, Sys(t, sp, A, R, ks, im), NEW q \in A \ R,
         NEW u, u = Reaped(t, sp, q, ks)
  PROVE  /\ u.pte = t.pte /\ u.s = NoSpace /\ Mem(u)
         /\ u.tr = (t.tr \ Ones(sp[q].frames)) \ {KStack(ks[q])}
         /\ KStack(ks[q]) \in t.tr
  <1> DEFINE a == In(t, NoSpace)
             F == sp[q].frames
             b == DropAll(a, F)
  <1>1. a.fl = t.fl /\ a.tr = t.tr /\ a.pte = t.pte /\ a.s = NoSpace
    BY DEF In
  <1>2. u = drop(b, KStack(ks[q]))
    BY DEF Reaped
  <1> HIDE DEF a
  <1>3. Mem(a)
    BY <1>1 DEF Sys, Spaces, Mem
  <1>4. Ones(F) \subseteq a.tr
    <2>1. Holds(t, sp[q], Lines(q))
      BY DEF Sys, Spaces
    <2>2. Ones(F) \subseteq Ones(Own(sp[q]))
      BY OneFacts DEF Own
    <2> QED BY <1>1, <2>1, <2>2 DEF Holds
  <1>5. Fewer(a, F, b)
    BY <1>3, <1>4, DropAllFacts
  <1> HIDE DEF b, F
  <1>6. b.pte = t.pte /\ b.s = NoSpace /\ b.tr = t.tr \ Ones(F) /\ Mem(b)
    BY <1>1, <1>5 DEF Fewer
  <1>7. KStack(ks[q]) \in t.tr
    BY DEF Sys, Stacks
  <1>8. KStack(ks[q]) \in b.tr
    BY <1>6, <1>7, KStackFacts
  <1>9. /\ u.tr = b.tr \ {KStack(ks[q])} /\ u.pte = b.pte /\ u.s = b.s /\ Mem(u)
    BY <1>2, <1>6, <1>8, DropFacts
  <1> QED BY <1>6, <1>7, <1>9 DEF F

LEMMA ReapSys ==
  ASSUME NEW t, NEW sp, NEW A, NEW R, NEW ks, NEW im, Sys(t, sp, A, R, ks, im), NEW q \in A \ R,
         NEW u, u = Reaped(t, sp, q, ks),
         NEW sp2, NEW ks2, NEW im2, Forgets(q, sp, sp2, ks, ks2, im, im2)
  PROVE  Sys(u, sp2, A \ {q}, R, ks2, im2)
  <1> DEFINE B == A \ {q}
  <1>1. Spaces(t, sp, A) /\ Shared(t, sp, A) /\ Stacks(t, A, ks) /\ Programs(t, sp, A, R, im)
    BY DEF Sys
  <1>2. /\ u.pte = t.pte /\ u.s = NoSpace /\ Mem(u)
        /\ u.tr = (t.tr \ Ones(sp[q].frames)) \ {KStack(ks[q])}
    BY ReapedFacts
  <1>3. A \subseteq Proc /\ q \in Proc /\ q # KERNEL /\ KERNEL \notin A /\ R \subseteq B
        /\ \A x \in B \cup {KERNEL} : x \in Space \ {q} /\ x \in A \cup {KERNEL} /\ x # q
    BY <1>1, PageTableAssumption DEF Spaces, Space, Programs
  <1>4. /\ \A x \in B \cup {KERNEL} : sp2[x] = sp[x]
        /\ \A x \in B : ks2[x] = ks[x] /\ im2[x] = im[x]
    BY <1>3 DEF Forgets
  <1> HIDE DEF B
  <1>5. ASSUME NEW x \in B \cup {KERNEL}
        PROVE  Holds(u, sp[x], Lines(x)) /\ Untouched(t, u, sp[x], Lines(x))
    <2>1. Holds(t, sp[x], Lines(x)) /\ Own(sp[q]) \cap Own(sp[x]) = {} /\ sp[q].frames \subseteq Own(sp[q])
      BY <1>1, <1>3 DEF Spaces, Own
    <2>2. Ones(Own(sp[x])) \subseteq u.tr
      <3> SUFFICES ASSUME NEW f \in Own(sp[x]) PROVE One(f) \in u.tr
        BY DEF Ones
      <3>1. One(f) \in t.tr /\ f \notin sp[q].frames
        BY <2>1, OneFacts DEF Holds
      <3>2. One(f) \notin Ones(sp[q].frames)
        BY <3>1, OneFacts
      <3>3. One(f) # KStack(ks[q])
        <4>1. One(f) \in Ones({f})
          BY OneFacts
        <4> QED BY <4>1, KStackFacts
      <3> QED BY <1>2, <3>1, <3>2, <3>3
    <2>3. Holds(u, sp[x], Lines(x))
      BY <1>2, <2>1, <2>2 DEF Holds
    <2> QED BY <1>2, <2>3, NoSpaceFacts DEF Untouched, SameWalks
  <1>6. Spaces(u, sp2, B)
    <2>1. \A x, y \in B \cup {KERNEL} : x # y => Own(sp2[x]) \cap Own(sp2[y]) = {}
      BY <1>1, <1>3, <1>4 DEF Spaces
    <2>2. B \subseteq Proc
      BY <1>3 DEF B
    <2> QED BY <1>2, <1>4, <1>5, <2>1, <2>2 DEF Spaces
  <1>7. Shared(u, sp2, B)
    BY <1>1, <1>2, <1>3, <1>4 DEF Shared, B
  <1>8. Stacks(u, B, ks2)
    <2>1. ASSUME NEW p \in B PROVE KStack(ks2[p]) \in u.tr
      <3>1. KStack(ks[p]) \in t.tr /\ ks[p] # ks[q]
        BY <1>1, <1>3 DEF Stacks, B
      <3> QED BY <1>2, <1>4, <3>1, KStackFacts
    <2>2. \A p, r \in B : p # r => ks2[p] # ks2[r]
      BY <1>1, <1>4 DEF Stacks, B
    <2> QED BY <2>1, <2>2 DEF Stacks
  <1>9. Programs(u, sp2, B, R, im2)
    <2>1. \A p \in B \ R : sp2[p].data = None
      BY <1>1, <1>4 DEF Programs, B
    <2>2. ASSUME NEW p \in R
          PROVE  /\ Mapped(In(u, sp2[p])) /\ im2[p] \in Images
                 /\ im2[p] \cup Stack \subseteq DOMAIN sp2[p].data
      <3>1. p \in B /\ p \in Proc /\ Lines(p) = Low
        BY <1>3, LinesFacts DEF B
      <3>2. Mapped(In(t, sp[p])) /\ im[p] \in Images /\ im[p] \cup Stack \subseteq DOMAIN sp[p].data
        BY <1>1 DEF Programs
      <3>3. Untouched(t, u, sp[p], Low)
        BY <1>5, <3>1
      <3>4. Mapped(In(u, sp[p]))
        BY <1>2, <3>2, <3>3, OtherMapped
      <3> QED BY <1>4, <3>1, <3>2, <3>4
    <2> QED BY <1>3, <2>1, <2>2 DEF Programs
  <1> QED BY <1>6, <1>7, <1>8, <1>9 DEF Sys, B

-----------------------------------------------------------------------------
(* The processor.                                                          *)

LEMMA OrphanKept ==
  ASSUME NEW t, NEW u, NEW f, Orphan(t, f), DOMAIN t.pte \subseteq DOMAIN u.pte,
         \A x \in u.tr \ t.tr : Reach(x) \cap DOMAIN t.pte = {}
  PROVE  Orphan(u, f)
  BY DEF Orphan

LEMMA Orphaned ==
  ASSUME NEW t, Mem(t), NEW s, NEW u, Ext(t, s, u), NEW f, One(f) \in t.tr, One(f) \notin u.tr
  PROVE  Orphan(u, f)
  <1>1. f \in DOMAIN t.pte /\ f \in Nat /\ One(f) \in Tracker /\ Reach(One(f)) = {f}
    BY OneKnown DEF Mem, Typed
  <1>2. f \in DOMAIN u.pte
    BY <1>1 DEF Ext
  <1>3. ASSUME NEW x \in u.tr, f \in Reach(x) PROVE FALSE
    <2>1. x \in t.tr
      BY <1>1, <1>3 DEF Ext
    <2>2. x \in Tracker /\ x # One(f)
      BY <2>1 DEF Mem, Typed
    <2>3. f - BEGIN \in Held(x)
      BY <1>3, <2>2, ReachFacts
    <2>4. f - BEGIN \in Held(One(f))
      BY <1>1, ReachFacts
    <2> QED BY <2>1, <2>2, <2>3, <2>4 DEF Mem, Apart
  <1> QED BY <1>2, <1>3 DEF Orphan

LEMMA Roots ==
  ASSUME NEW t, NEW sp, NEW A, Spaces(t, sp, A),
         NEW x \in A \cup {KERNEL}, NEW y \in A \cup {KERNEL}, sp[x].root = sp[y].root
  PROVE  x = y
  <1>1. sp[x].root \in Own(sp[x]) /\ sp[y].root \in Own(sp[y])
    BY HoldsFacts DEF Spaces
  <1> QED BY <1>1 DEF Spaces

\* The pages of the program of p are where they were, or nothing is remembered.
Steady(p, sp, u, R2, im, im2, cache) ==
  p \in R2 /\ cache # {} =>
    /\ im2[p] = im[p]
    /\ \A v \in im[p] \cup Stack : v \in DOMAIN sp[p].data =>
         v \in DOMAIN u.s.data /\ u.s.data[v] = sp[p].data[v]

LEMMA ChangeCpu ==
  ASSUME NEW t, NEW sp, NEW A, NEW R, NEW ks, NEW im, Sys(t, sp, A, R, ks, im), NEW p \in R,
         NEW u, NEW sp2, Changes(t, sp, p, u, sp2),
         NEW R2, NEW im2, Continues(p, u, R, R2, im, im2),
         NEW root, NEW curr, NEW cache, Cpu(t, sp, A, R, im, root, curr, cache),
         NEW curr2, NEW cache2, curr2 # Nobody => curr2 = curr /\ curr2 \in R2, cache2 \subseteq cache,
         Steady(p, sp, u, R2, im, im2, cache2)
  PROVE  Cpu(u, sp2, A, R2, im2, root, curr2, cache2)
  <1>1. p \in A /\ A \subseteq Proc /\ R \subseteq A /\ R2 \subseteq R /\ R \subseteq R2 \cup {p}
        /\ KERNEL # p /\ \A x \in (A \cup {KERNEL}) \ {p} : x \in Space \ {p}
    BY PageTableAssumption DEF Sys, Spaces, Programs, Continues, Space
  <1>2. /\ sp2[p] = u.s /\ Ext(t, sp[p], u) /\ u.s.root = sp[p].root
        /\ \A x \in (A \cup {KERNEL}) \ {p} : sp2[x] = sp[x]
    BY <1>1 DEF Changes
  <1>3. \A x \in A \cup {KERNEL} : sp2[x].root = sp[x].root
    BY <1>2
  <1>4. \E x \in A \cup {KERNEL} : root = sp2[x].root
    BY <1>3 DEF Cpu
  <1>5. curr2 # Nobody => curr2 \in R2 /\ root = sp2[curr2].root
    BY <1>1, <1>3 DEF Cpu
  <1>6. ASSUME NEW e \in cache2
        PROVE  Orphan(u, e[2]) \/ \E o \in R2 : sp2[o].root = root /\ e[2] \in DataFrames(sp2[o])
    <2>1. CASE Orphan(t, e[2])
      BY <1>2, <2>1, OrphanKept DEF Ext
    <2>2. CASE ~Orphan(t, e[2])
      <3>1. PICK o \in R : sp[o].root = root /\ e[2] \in DataFrames(sp[o])
        BY <2>2 DEF Cpu
      <3>2. CASE o # p
        <4>1. o \in R2 /\ sp2[o] = sp[o]
          BY <1>1, <1>2, <3>2
        <4> QED BY <3>1, <4>1
      <3>3. CASE o = p
        <4>1. CASE e[2] \in DataFrames(u.s)
          <5>1. p \in R2
            BY <4>1, NoSpaceFacts DEF Continues
          <5> QED BY <1>2, <3>1, <3>3, <4>1, <5>1
        <4>2. CASE e[2] \notin DataFrames(u.s)
          <5>1. One(e[2]) \notin u.tr
            BY <1>2, <3>1, <3>3, <4>2 DEF Ext
          <5>2. Mem(t) /\ Holds(t, sp[p], Lines(p)) /\ e[2] \in Own(sp[p])
            BY <1>1, <3>1, <3>3 DEF Sys, Spaces, Own
          <5>3. One(e[2]) \in t.tr
            BY <5>2, HoldsFacts
          <5> QED BY <1>2, <5>1, <5>2, <5>3, Orphaned
        <4> QED BY <4>1, <4>2
      <3> QED BY <3>2, <3>3
    <2> QED BY <2>1, <2>2
  <1>7. ASSUME NEW e \in cache2, NEW o \in R2, sp2[o].root = root, e[1] \in im2[o] \cup Stack
        PROVE  e[1] \in DOMAIN sp2[o].data /\ e[2] = sp2[o].data[e[1]]
    <2>1. o \in R /\ o \in A /\ o \in Proc /\ sp[o].root = root /\ e \in cache
      BY <1>1, <1>3, <1>7
    <2>2. CASE o # p
      <3>1. im2[o] = im[o] /\ sp2[o] = sp[o]
        BY <1>2, <2>1, <2>2 DEF Continues
      <3> QED BY <1>7, <2>1, <3>1 DEF Cpu
    <2>3. CASE o = p
      <3>1. /\ im2[p] = im[p]
            /\ \A v \in im[p] \cup Stack : v \in DOMAIN sp[p].data =>
                 v \in DOMAIN u.s.data /\ u.s.data[v] = sp[p].data[v]
        BY <2>3 DEF Steady
      <3>2. e[1] \in DOMAIN sp[p].data /\ e[2] = sp[p].data[e[1]] /\ e[1] \in im[p] \cup Stack
        BY <1>7, <2>1, <2>3, <3>1 DEF Cpu
      <3> QED BY <1>2, <2>3, <3>1, <3>2
    <2> QED BY <2>2, <2>3
  <1> QED BY <1>4, <1>5, <1>6, <1>7 DEF Cpu

LEMMA CreateCpu ==
  ASSUME NEW t, NEW sp, NEW A, NEW R, NEW ks, NEW im, Sys(t, sp, A, R, ks, im),
         NEW p, NEW u, NEW sp2, Creates(t, sp, A, p, u, sp2),
         NEW ks2, NEW im2, Begins(t, p, u, ks, ks2, im, im2),
         NEW root, NEW curr, NEW cache, Cpu(t, sp, A, R, im, root, curr, cache)
  PROVE  Cpu(u, sp2, A \cup {p}, R \cup {p}, im2, root, curr, cache)
  <1>1. p \in Proc \ A /\ A \subseteq Proc /\ R \subseteq A /\ Ext(t, NoSpace, u) /\ p # KERNEL
        /\ \A x \in A \cup {KERNEL} : x \in Space \ {p}
    BY PageTableAssumption DEF Sys, Programs, Spaces, Creates, Space
  <1>2. /\ \A x \in A \cup {KERNEL} : sp2[x] = sp[x]
        /\ \A x \in A : im2[x] = im[x]
    BY <1>1 DEF Creates, Begins
  <1>3. PICK x \in A \cup {KERNEL} : root = sp[x].root
    BY DEF Cpu
  <1>4. sp2[p].root # root
    <2>1. Spaces(u, sp2, A \cup {p})
      BY CreateSpaces DEF Sys
    <2>2. x # p /\ sp2[x] = sp[x]
      BY <1>1, <1>2
    <2> QED BY <1>3, <2>1, <2>2, Roots
  <1>5. ASSUME NEW e \in cache
        PROVE  Orphan(u, e[2]) \/ \E o \in R \cup {p} : sp2[o].root = root /\ e[2] \in DataFrames(sp2[o])
    <2>1. CASE Orphan(t, e[2])
      BY <1>1, <2>1, OrphanKept DEF Ext
    <2>2. CASE ~Orphan(t, e[2])
      <3>1. PICK o \in R : sp[o].root = root /\ e[2] \in DataFrames(sp[o])
        BY <2>2 DEF Cpu
      <3> QED BY <1>1, <1>2, <3>1
    <2> QED BY <2>1, <2>2
  <1>6. ASSUME NEW e \in cache, NEW o \in R \cup {p}, sp2[o].root = root, e[1] \in im2[o] \cup Stack
        PROVE  e[1] \in DOMAIN sp2[o].data /\ e[2] = sp2[o].data[e[1]]
    <2>1. o \in R /\ o \in A
      BY <1>1, <1>4, <1>6
    <2>2. im2[o] = im[o] /\ sp2[o] = sp[o]
      BY <1>2, <2>1
    <2> QED BY <1>6, <2>1, <2>2 DEF Cpu
  <1>7. curr # Nobody => curr \in R \cup {p} /\ root = sp2[curr].root
    BY <1>1, <1>2 DEF Cpu
  <1>8. \E y \in A \cup {p} \cup {KERNEL} : root = sp2[y].root
    BY <1>2, <1>3
  <1> QED BY <1>5, <1>6, <1>7, <1>8 DEF Cpu

LEMMA ReapCpu ==
  ASSUME NEW t, NEW sp, NEW A, NEW R, NEW ks, NEW im, Sys(t, sp, A, R, ks, im), NEW q \in A \ R,
         NEW u, u = Reaped(t, sp, q, ks),
         NEW sp2, NEW ks2, NEW im2, Forgets(q, sp, sp2, ks, ks2, im, im2),
         NEW root, NEW curr, NEW cache, Cpu(t, sp, A, R, im, root, curr, cache), curr # Nobody
  PROVE  Cpu(u, sp2, A \ {q}, R, im2, root, curr, cache)
  <1>1. /\ A \subseteq Proc /\ R \subseteq A \ {q} /\ \A x \in R : x \in Space \ {q} /\ x \in Proc \ {q}
    BY DEF Sys, Spaces, Programs, Space
  <1>2. \A x \in R : sp2[x] = sp[x] /\ im2[x] = im[x]
    BY <1>1 DEF Forgets
  <1>3. curr \in R /\ root = sp2[curr].root
    BY <1>2 DEF Cpu
  <1>4. \A f : Orphan(t, f) => Orphan(u, f)
    BY ReapedFacts DEF Orphan
  <1>5. ASSUME NEW e \in cache
        PROVE  Orphan(u, e[2]) \/ \E o \in R : sp2[o].root = root /\ e[2] \in DataFrames(sp2[o])
    BY <1>2, <1>4 DEF Cpu
  <1>6. ASSUME NEW e \in cache, NEW o \in R, sp2[o].root = root, e[1] \in im2[o] \cup Stack
        PROVE  e[1] \in DOMAIN sp2[o].data /\ e[2] = sp2[o].data[e[1]]
    BY <1>2, <1>6 DEF Cpu
  <1> QED BY <1>1, <1>3, <1>5, <1>6 DEF Cpu

-----------------------------------------------------------------------------
(* The steps of the kernel keep the system as it should be.                *)

Active == {p \in Proc : status[p] # "none"}

\* The inductive invariant: the lists, trackers and tables, who owns them, and
\* what the processor may use and remember of them.
IndInv ==
  /\ space = [x \in Space |-> space[x]] /\ image = [p \in Proc |-> image[p]]
  /\ kstack = [p \in Proc |-> kstack[p]] /\ status \in [Proc -> {"none", "ready", "zombie"}]
  /\ Sys(At(NoSpace), space, Active, Live, kstack, image)
  /\ Cpu(At(NoSpace), space, Active, Live, image, satp, current, tlb)

\* Sys and Cpu are about the memory only.
LEMMA Repack ==
  ASSUME NEW u, NEW m, m.fl = u.fl, m.tr = u.tr, m.pte = u.pte
  PROVE  /\ \A s : In(u, s) = In(m, s)
         /\ \A s, w : Ext(u, s, w) <=> Ext(m, s, w)
         /\ Mem(u) <=> Mem(m)
         /\ \A sp, A, R, ks, im : Sys(u, sp, A, R, ks, im) <=> Sys(m, sp, A, R, ks, im)
         /\ \A sp, A, R, im, root, curr, cache :
              Cpu(u, sp, A, R, im, root, curr, cache) <=> Cpu(m, sp, A, R, im, root, curr, cache)
  <1>1. \A s : In(u, s) = In(m, s)
    BY DEF In
  <1>2. \A s, w : Ext(u, s, w) <=> Ext(m, s, w)
    BY DEF Ext
  <1>3. Mem(u) <=> Mem(m)
    BY DEF Mem
  <1>4. \A s, L : Holds(u, s, L) <=> Holds(m, s, L)
    BY DEF Holds
  <1>5. \A sp, A : Spaces(u, sp, A) <=> Spaces(m, sp, A)
    BY <1>3, <1>4 DEF Spaces
  <1>6. \A sp, A : Shared(u, sp, A) <=> Shared(m, sp, A)
    BY DEF Shared
  <1>7. \A A, ks : Stacks(u, A, ks) <=> Stacks(m, A, ks)
    BY DEF Stacks
  <1>8. \A sp, A, R, im : Programs(u, sp, A, R, im) <=> Programs(m, sp, A, R, im)
    BY <1>1 DEF Programs
  <1>9. \A sp, A, R, ks, im : Sys(u, sp, A, R, ks, im) <=> Sys(m, sp, A, R, ks, im)
    BY <1>5, <1>6, <1>7, <1>8 DEF Sys
  <1>10. \A f : Orphan(u, f) <=> Orphan(m, f)
    BY DEF Orphan
  <1>11. \A sp, A, R, im, root, curr, cache :
           Cpu(u, sp, A, R, im, root, curr, cache) <=> Cpu(m, sp, A, R, im, root, curr, cache)
    BY <1>10 DEF Cpu
  <1> QED BY <1>1, <1>2, <1>3, <1>9, <1>11

\* What keeps the root of a space changes it alone.
LEMMA KeepChanges ==
  ASSUME NEW m, NEW sp, NEW p, NEW a, a = In(m, sp[p]), NEW u, Mem(u), Holds(u, u.s, Low),
         Ext(a, a.s, u), KeepsRoot(a, u),
         NEW sp2, sp2[p] = u.s, \A x \in Space \ {p} : sp2[x] = sp[x]
  PROVE  Changes(m, sp, p, u, sp2)
  <1>1. a.fl = m.fl /\ a.tr = m.tr /\ a.pte = m.pte /\ a.s = sp[p]
    BY DEF In
  <1>2. Ext(m, sp[p], u)
    BY <1>1, Repack
  <1>3. \A i \in KernelLines : i \in Line \ Low
    BY Constants DEF Low
  <1> QED BY <1>1, <1>2, <1>3 DEF Changes, KeepsRoot

\* What a brk may give back is none of the pages of the program.
LEMMA AboveImage ==
  ASSUME NEW program \in Images, NEW v \in program
  PROVE  v <= Max(program) /\ ~(v > Max(program)) /\ Max(program) \in Nat
  <1>1. program \subseteq 0 .. LOW_END /\ program # {} /\ LOW_END \in Nat
    BY PagesFacts, Constants DEF Page
  <1>2. Max(program) \in program /\ v <= Max(program)
    BY <1>1, GreatestNumber
  <1> DEFINE top == Max(program)
  <1> HIDE DEF top
  <1>3. top \in program /\ v \in program /\ v <= top
    BY <1>2 DEF top
  <1>4. top \in Nat /\ v \in Nat
    BY <1>1, <1>3
  <1>5. ~(v > top)
    BY <1>3, <1>4
  <1> QED BY <1>3, <1>4, <1>5 DEF top

LEMMA LoadOk ==
  ASSUME NEW t, NEW program, load(t, program).ok
  PROVE  t.ok
  <1> DEFINE F == DataFrames(t.s) \cup (t.s.frames \ {t.s.root})
             d == DropAll(t, F)
  <1>1. Bare(d).ok
    BY AllOk DEF load, recycle_user_pages
  <1>2. Bare(d).ok <=> d.ok
    <2> HIDE DEF d
    <2> DEFINE e == [d.pte EXCEPT ![d.s.root] = ClearedHalf(@)]
               s == [root |-> d.s.root, frames |-> {d.s.root}, data |-> None]
    <2>1. Bare(d) = With(d, e, s, d.ok)
      BY DEF Bare
    <2> HIDE DEF e, s
    <2> QED BY <2>1 DEF With
  <1> QED BY <1>1, <1>2, AllOk

LEMMA KernelAreasOk ==
  ASSUME NEW t, NEW root, map_kernel_areas(t, root).ok
  PROVE  t.ok
  <1> DEFINE e == [t.pte EXCEPT ![t.s.root] =
                    [i \in Line |-> IF i \in KernelLines THEN t.pte[root][i] ELSE @[i]]]
  <1>1. map_kernel_areas(t, root) = With(t, e, t.s, t.ok)
    BY DEF map_kernel_areas
  <1> HIDE DEF e
  <1> QED BY <1>1 DEF With

LEMMA WithRootOk ==
  ASSUME NEW t, with_root(t).ok
  PROVE  t.ok
  <1> DEFINE w == Taken(t, 1)
             s == [root |-> TakenPpn(t, 1), frames |-> {TakenPpn(t, 1)}, data |-> None]
  <1>1. with_root(t) = With(w, w.pte, s, w.ok)
    BY DEF with_root, Rooted
  <1> HIDE DEF w, s
  <1>2. w.ok
    BY <1>1 DEF With
  <1> QED BY <1>2, OkFacts DEF w

LEMMA Settle ==
  ASSUME NEW p, NEW u, Becomes(p, u), IndInv, p \in Space
  PROVE  /\ u.ok /\ space'[p] = u.s /\ (\A x \in Space \ {p} : space'[x] = space[x])
         /\ space' = [x \in Space |-> space'[x]]
         /\ \A A, R, ks, im : Sys(u, space', A, R, ks, im) =>
              Sys(At(NoSpace)', space', A, R, ks, im)
         /\ \A A, R, im, root, curr, cache : Cpu(u, space', A, R, im, root, curr, cache) =>
              Cpu(At(NoSpace)', space', A, R, im, root, curr, cache)
  <1> DEFINE m == At(NoSpace)'
  <1>1. u.ok /\ m.fl = u.fl /\ m.tr = u.tr /\ m.pte = u.pte
    BY DEF Becomes, At
  <1>2. space' = [space EXCEPT ![p] = u.s] /\ space = [x \in Space |-> space[x]]
    BY DEF Becomes, IndInv
  <1> HIDE DEF m
  <1>3. space'[p] = u.s /\ (\A x \in Space \ {p} : space'[x] = space[x])
        /\ space' = [x \in Space |-> space'[x]]
    BY <1>2
  <1>4. \A sp, A, R, ks, im : Sys(u, sp, A, R, ks, im) <=> Sys(m, sp, A, R, ks, im)
    BY <1>1, Repack
  <1>5. \A sp, A, R, im, root, curr, cache :
          Cpu(u, sp, A, R, im, root, curr, cache) <=> Cpu(m, sp, A, R, im, root, curr, cache)
    BY <1>1, Repack
  <1> QED BY <1>1, <1>3, <1>4, <1>5 DEF m

\* The process that runs.
LEMMA Running ==
  ASSUME IndInv, NEW p \in Proc, current = p
  PROVE  /\ p \in Live /\ p \in Active /\ p \in Space /\ p # Nobody /\ satp = space[p].root
         /\ At(space[p]) = In(At(NoSpace), space[p]) /\ Mapped(At(space[p])) /\ At(space[p]).s = space[p]
         /\ image[p] \in Images /\ image[p] \cup Stack \subseteq DOMAIN space[p].data
         /\ DOMAIN space[p].data \subseteq Page
  <1>1. p # Nobody /\ p \in Space
    BY PageTableAssumption DEF Space
  <1>2. p \in Live /\ satp = space[p].root
    BY <1>1 DEF IndInv, Cpu
  <1>3. At(space[p]) = In(At(NoSpace), space[p]) /\ At(space[p]).s = space[p]
    BY DEF At, In
  <1>4. /\ Mapped(In(At(NoSpace), space[p])) /\ image[p] \in Images
        /\ image[p] \cup Stack \subseteq DOMAIN space[p].data
    BY <1>2 DEF IndInv, Sys, Programs
  <1>5. p \in Active
    BY <1>2 DEF Live, Active
  <1>6. DOMAIN space[p].data \subseteq Page
    BY <1>3, <1>4 DEF Mapped, Owns
  <1> QED BY <1>1, <1>2, <1>3, <1>4, <1>5, <1>6

LEMMA BrkStep ==
  ASSUME IndInv, NEW p \in Proc, NEW n \in 1 .. MaxHeap, set_user_brk(p, n)
  PROVE  IndInv'
  <1> DEFINE a == At(space[p])
             m == At(NoSpace)
             V == Max(image[p]) + 1 .. Max(image[p]) + n
             H == Heap(p)
  <1>1. /\ p \in Live /\ p \in Active /\ p \in Space /\ p # Nobody /\ a = In(m, space[p]) /\ Mapped(a)
        /\ a.s = space[p] /\ image[p] \in Images /\ image[p] \cup Stack \subseteq DOMAIN space[p].data
    BY Running DEF set_user_brk
  <1>2. H \subseteq DOMAIN space[p].data /\ H \cap (image[p] \cup Stack) = {}
    <2>1. \A v \in image[p] : ~(v > Max(image[p]))
      BY <1>1, AboveImage
    <2> QED BY <2>1 DEF Heap
  <1>3. /\ image' = image /\ kstack' = kstack /\ status' = status /\ current' = current
        /\ satp' = satp /\ tlb' = tlb /\ Active' = Active /\ Live' = Live
    BY DEF set_user_brk, Active, Live
  <1>4. \E u : /\ Becomes(p, u)
               /\ u = MapAll(a, V \ H) \/ u = UnmapAll(a, H \ V)
    BY DEF set_user_brk
  <1> HIDE DEF a, m, V, H
  <1>5. PICK u : /\ Becomes(p, u)
                 /\ u = MapAll(a, V \ H) \/ u = UnmapAll(a, H \ V)
    BY <1>4
  <1>6. /\ u.ok /\ space'[p] = u.s /\ (\A x \in Space \ {p} : space'[x] = space[x])
        /\ space' = [x \in Space |-> space'[x]]
        /\ \A A, R, ks, im : Sys(u, space', A, R, ks, im) =>
             Sys(At(NoSpace)', space', A, R, ks, im)
        /\ \A A, R, im, root, curr, cache : Cpu(u, space', A, R, im, root, curr, cache) =>
             Cpu(At(NoSpace)', space', A, R, im, root, curr, cache)
    BY <1>1, <1>5, Settle
  <1>7. /\ Mapped(u) /\ Ext(a, a.s, u) /\ KeepsRoot(a, u)
        /\ \A v \in image[p] \cup Stack : v \in DOMAIN u.s.data /\ u.s.data[v] = space[p].data[v]
    <2>1. CASE u = MapAll(a, V \ H)
      <3>1. Grown(a, V \ H, LOW_END, u)
        BY <1>1, <1>6, <2>1, MapAllFacts
      <3> QED BY <1>1, <3>1 DEF Grown
    <2>2. CASE u = UnmapAll(a, H \ V)
      <3>1. Shrunk(a, H \ V, LOW_END, u)
        BY <1>1, <1>2, <1>6, <2>2, UnmapAllFacts
      <3> QED BY <1>1, <1>2, <3>1 DEF Shrunk
    <2> QED BY <1>5, <2>1, <2>2
  <1>8. Changes(m, space, p, u, space')
    BY <1>1, <1>6, <1>7, MappedHolds, KeepChanges
  <1>9. Continues(p, u, Live, Live, image, image)
    BY <1>1, <1>7, MappedHolds DEF Continues
  <1>10. Sys(m, space, Active, Live, kstack, image)
         /\ Cpu(m, space, Active, Live, image, satp, current, tlb)
    BY DEF IndInv, m
  <1>11. Sys(u, space', Active, Live, kstack, image)
    BY <1>1, <1>8, <1>9, <1>10, ChangeSys
  <1>12. Cpu(u, space', Active, Live, image, satp, current, tlb)
    <2>1. Steady(p, space, u, Live, image, image, tlb)
      BY <1>7 DEF Steady
    <2>2. current = p
      BY DEF set_user_brk
    <2> QED BY <1>1, <1>8, <1>9, <1>10, <2>1, <2>2, ChangeCpu
  <1> QED BY <1>3, <1>6, <1>11, <1>12 DEF IndInv

LEMMA ExecStep ==
  ASSUME IndInv, NEW p \in Proc, NEW program \in Images, exec(p, program)
  PROVE  IndInv'
  <1> DEFINE a == At(space[p])
             m == At(NoSpace)
             u == load(a, program)
  <1>1. /\ p \in Live /\ p \in Active /\ p \in Space /\ p # Nobody /\ a = In(m, space[p]) /\ Mapped(a)
        /\ a.s = space[p]
    BY Running DEF exec
  <1>2. /\ kstack' = kstack /\ status' = status /\ current' = current /\ current = p
        /\ satp' = satp /\ tlb' = {} /\ Active' = Active /\ Live' = Live /\ Becomes(p, u)
        /\ image' = [image EXCEPT ![p] = program] /\ image = [x \in Proc |-> image[x]]
    BY DEF exec, ExecFlush, Active, Live, IndInv
  <1>3. image' = [x \in Proc |-> image'[x]] /\ image'[p] = program
        /\ \A x \in Proc \ {p} : image'[x] = image[x]
    BY <1>2
  <1>4. Mapped(u) /\ Ext(a, a.s, u) /\ KeepsRoot(a, u) /\ DOMAIN u.s.data = program \cup Stack
    <2>1. u.ok
      BY <1>2 DEF Becomes
    <2> QED BY <1>1, <2>1, LoadFacts
  <1> HIDE DEF a, m, u
  <1>5. /\ u.ok /\ space'[p] = u.s /\ (\A x \in Space \ {p} : space'[x] = space[x])
        /\ space' = [x \in Space |-> space'[x]]
        /\ \A A, R, ks, im : Sys(u, space', A, R, ks, im) =>
             Sys(At(NoSpace)', space', A, R, ks, im)
        /\ \A A, R, im, root, curr, cache : Cpu(u, space', A, R, im, root, curr, cache) =>
             Cpu(At(NoSpace)', space', A, R, im, root, curr, cache)
    BY <1>1, <1>2, Settle
  <1>6. Changes(m, space, p, u, space')
    BY <1>1, <1>4, <1>5, MappedHolds, KeepChanges
  <1>7. Continues(p, u, Live, Live, image, image')
    BY <1>1, <1>3, <1>4, MappedHolds DEF Continues
  <1>8. Sys(m, space, Active, Live, kstack, image)
        /\ Cpu(m, space, Active, Live, image, satp, current, tlb)
    BY DEF IndInv, m
  <1>9. Sys(u, space', Active, Live, kstack, image')
    BY <1>1, <1>6, <1>7, <1>8, ChangeSys
  <1>10. Cpu(u, space', Active, Live, image', satp, current, {})
    <2>1. Steady(p, space, u, Live, image, image', {})
      BY DEF Steady
    <2> QED BY <1>1, <1>2, <1>6, <1>7, <1>8, <2>1, ChangeCpu
  <1>11. status \in [Proc -> {"none", "ready", "zombie"}] /\ kstack = [x \in Proc |-> kstack[x]]
    BY DEF IndInv
  <1>12. /\ Sys(At(NoSpace)', space', Active', Live', kstack', image')
         /\ Cpu(At(NoSpace)', space', Active', Live', image', satp', current', tlb')
    BY <1>2, <1>5, <1>9, <1>10
  <1> QED BY <1>2, <1>3, <1>5, <1>11, <1>12 DEF IndInv

LEMMA ExitStep ==
  ASSUME IndInv, NEW p \in Proc, exit(p)
  PROVE  IndInv'
  <1> DEFINE a == At(space[p])
             m == At(NoSpace)
             w == UnmapAll(a, Stack)
             u == WithData(DropAll(w, DataFrames(w.s)), None)
             R2 == Live \ {p}
  <1>1. /\ p \in Live /\ p \in Active /\ p \in Space /\ p # Nobody /\ a = In(m, space[p]) /\ Mapped(a)
        /\ a.s = space[p] /\ Stack \subseteq DOMAIN a.s.data
    BY Running DEF exit
  <1>2. /\ image' = image /\ kstack' = kstack /\ current' = Nobody /\ satp' = satp /\ tlb' = tlb
        /\ Becomes(p, u) /\ status' = [status EXCEPT ![p] = "zombie"]
        /\ status \in [Proc -> {"none", "ready", "zombie"}]
    BY DEF exit, IndInv
  <1>3. status' \in [Proc -> {"none", "ready", "zombie"}] /\ Active' = Active /\ Live' = R2
    BY <1>1, <1>2 DEF Active, Live
  <1>4. Ext(a, a.s, u) /\ KeepsRoot(a, u) /\ Base(u, Low) /\ u.s.data = None
    <2>1. u.ok
      BY <1>2 DEF Becomes
    <2> QED BY <1>1, <2>1, ExitFacts
  <1> HIDE DEF a, m, u, w
  <1>5. /\ u.ok /\ space'[p] = u.s /\ (\A x \in Space \ {p} : space'[x] = space[x])
        /\ space' = [x \in Space |-> space'[x]]
        /\ \A A, R, ks, im : Sys(u, space', A, R, ks, im) =>
             Sys(At(NoSpace)', space', A, R, ks, im)
        /\ \A A, R, im, root, curr, cache : Cpu(u, space', A, R, im, root, curr, cache) =>
             Cpu(At(NoSpace)', space', A, R, im, root, curr, cache)
    BY <1>1, <1>2, Settle
  <1>6. Mem(u) /\ Holds(u, u.s, Low)
    <2>1. Own(u.s) = u.s.frames
      BY <1>4, NoSpaceFacts DEF Own
    <2> QED BY <1>4, <2>1 DEF Base, Holds
  <1>7. Changes(m, space, p, u, space')
    BY <1>1, <1>4, <1>5, <1>6, KeepChanges
  <1>8. Continues(p, u, Live, R2, image, image)
    BY <1>4 DEF Continues
  <1>9. Sys(m, space, Active, Live, kstack, image)
        /\ Cpu(m, space, Active, Live, image, satp, current, tlb)
    BY DEF IndInv, m
  <1>10. Sys(u, space', Active, R2, kstack, image)
    BY <1>1, <1>7, <1>8, <1>9, ChangeSys
  <1>11. Cpu(u, space', Active, R2, image, satp, Nobody, tlb)
    <2>1. Steady(p, space, u, R2, image, image, tlb)
      BY DEF Steady
    <2> HIDE DEF R2
    <2> QED BY <1>1, <1>7, <1>8, <1>9, <2>1, ChangeCpu
  <1>12. image = [x \in Proc |-> image[x]] /\ kstack = [x \in Proc |-> kstack[x]]
    BY DEF IndInv
  <1>13. /\ Sys(At(NoSpace)', space', Active', Live', kstack', image')
         /\ Cpu(At(NoSpace)', space', Active', Live', image', satp', current', tlb')
    BY <1>2, <1>3, <1>5, <1>10, <1>11
  <1> QED BY <1>2, <1>3, <1>5, <1>12, <1>13 DEF IndInv

\* The child of a fork.
LEMMA ChildFacts ==
  ASSUME NEW m, Mem(m), NEW V, V \subseteq Page, NEW root \in DOMAIN m.pte,
         NEW b, b = MapAll(with_root(m), V),
         NEW c, c = map_kernel_areas(b, root),
         NEW u, u = Taken(c, KSTACK), u.ok
  PROVE  /\ Mapped(u) /\ Ext(m, NoSpace, u) /\ DOMAIN u.s.data = V
         /\ \A i \in KernelLines : u.pte[u.s.root][i] = m.pte[root][i]
         /\ KStack(TakenPpn(c, KSTACK)) \in u.tr \ m.tr
  <1> DEFINE a == with_root(m)
             x == KStack(TakenPpn(c, KSTACK))
  <1>1. c.ok
    BY OkFacts
  <1>2. b.ok
    BY <1>1, KernelAreasOk
  <1>3. a.ok
    BY <1>2, AllOk
  <1>4. Rootlike(m, a) /\ Mapped(a)
    BY <1>3, WithRootFacts
  <1>5. b = MapAll(a, V)
    OBVIOUS
  <1> HIDE DEF a
  <1>6. Ext(m, NoSpace, a) /\ a.s.data = None /\ a.s.root \notin DOMAIN m.pte /\ Mem(a)
    BY <1>4 DEF Rootlike, Mapped, Base
  <1>7. Grown(a, V, LOW_END, b)
    BY <1>2, <1>4, <1>5, MapAllFacts
  <1>8. Mapped(b) /\ Ext(a, a.s, b) /\ b.s.root = a.s.root /\ DOMAIN b.s.data = V
    <2>1. {v \in V : v \in 0 .. LOW_END - 1} = V
      BY DEF Page
    <2> QED BY <1>6, <1>7, <2>1, NoSpaceFacts DEF Grown, KeepsRoot
  <1>9. Ext(m, NoSpace, b) /\ Mem(b)
    <2>1. DataFrames(NoSpace) \subseteq DOMAIN m.pte
      BY NoSpaceFacts
    <2>2. Mem(b)
      BY <1>8 DEF Mapped, Base
    <2> QED BY <1>6, <1>8, <2>1, <2>2, ExtTrans
  <1>10. root \in DOMAIN b.pte /\ b.pte[root] = m.pte[root]
    BY <1>9, NoSpaceFacts DEF Ext
  <1>11. /\ Mapped(c) /\ Ext(b, b.s, c) /\ c.s = b.s /\ c.tr = b.tr
         /\ \A i \in KernelLines : c.pte[c.s.root][i] = b.pte[root][i]
    BY <1>8, <1>10, KernelAreasFacts
  <1>12. Mem(c) /\ c.s.root \in DOMAIN c.pte
    BY <1>11 DEF Mapped, Base, Tree
  <1>13. Ext(m, NoSpace, c)
    <2>1. DataFrames(NoSpace) \subseteq DOMAIN m.pte
      BY NoSpaceFacts
    <2> QED BY <1>9, <1>11, <2>1, ExtTrans
  <1>14. /\ Mapped(u) /\ Ext(c, c.s, u) /\ u.s = c.s /\ x \in u.tr /\ x \notin c.tr
         /\ \A g \in DOMAIN c.pte : u.pte[g] = c.pte[g]
    BY <1>11, TakenMapped, Constants DEF KStack
  <1>15. Ext(m, NoSpace, u)
    <2>1. DataFrames(NoSpace) \subseteq DOMAIN m.pte
      BY NoSpaceFacts
    <2> QED BY <1>12, <1>13, <1>14, <2>1, ExtTrans
  <1>16. x \notin m.tr
    BY <1>13, <1>14, KStackFacts DEF Ext
  <1> QED BY <1>8, <1>10, <1>11, <1>12, <1>14, <1>15, <1>16

LEMMA ForkStep ==
  ASSUME IndInv, NEW p \in Proc, NEW q \in Proc, fork(p, q)
  PROVE  IndInv'
  <1> DEFINE m == At(NoSpace)
             V == DOMAIN space[p].data
             b == MapAll(with_root(m), V)
             c == map_kernel_areas(b, space[p].root)
             u == Taken(c, KSTACK)
  <1>1. /\ p \in Live /\ p \in Active /\ p \in Space /\ p # Nobody /\ q \in Space
        /\ image[p] \in Images /\ image[p] \cup Stack \subseteq V /\ V \subseteq Page
    BY Running DEF fork, Space
  <1>2. Sys(m, space, Active, Live, kstack, image)
        /\ Cpu(m, space, Active, Live, image, satp, current, tlb)
    BY DEF IndInv
  <1>3. /\ current' = current /\ satp' = satp /\ tlb' = tlb /\ Becomes(q, u)
        /\ status' = [status EXCEPT ![q] = "ready"] /\ status[q] = "none"
        /\ kstack' = [kstack EXCEPT ![q] = TakenPpn(c, KSTACK)]
        /\ image' = [image EXCEPT ![q] = image[p]]
        /\ status \in [Proc -> {"none", "ready", "zombie"}]
        /\ image = [x \in Proc |-> image[x]] /\ kstack = [x \in Proc |-> kstack[x]]
    BY DEF fork, IndInv
  <1>4. u.ok
    BY <1>3 DEF Becomes
  <1> HIDE DEF m, V, b, c, u
  <1>5. /\ status' \in [Proc -> {"none", "ready", "zombie"}] /\ Active' = Active \cup {q}
        /\ Live' = Live \cup {q} /\ q \notin Active
    BY <1>3 DEF Active, Live
  <1>6. /\ image' = [x \in Proc |-> image'[x]] /\ kstack' = [x \in Proc |-> kstack'[x]]
        /\ image'[q] = image[p] /\ kstack'[q] = TakenPpn(c, KSTACK)
        /\ \A x \in Proc \ {q} : kstack'[x] = kstack[x] /\ image'[x] = image[x]
    BY <1>3
  <1>7. Mem(m) /\ space[p].root \in DOMAIN m.pte
    <2>1. Mem(m) /\ Holds(m, space[p], Lines(p))
      BY <1>1, <1>2 DEF Sys, Spaces
    <2> QED BY <2>1, HoldsFacts
  <1>8. /\ Mapped(u) /\ Ext(m, NoSpace, u) /\ DOMAIN u.s.data = V
        /\ \A i \in KernelLines : u.pte[u.s.root][i] = m.pte[space[p].root][i]
        /\ KStack(TakenPpn(c, KSTACK)) \in u.tr \ m.tr
    BY <1>1, <1>4, <1>7, ChildFacts DEF u, c, b
  <1>9. /\ space'[q] = u.s /\ (\A x \in Space \ {q} : space'[x] = space[x])
        /\ space' = [x \in Space |-> space'[x]]
        /\ \A A, R, ks, im : Sys(u, space', A, R, ks, im) =>
             Sys(At(NoSpace)', space', A, R, ks, im)
        /\ \A A, R, im, root, curr, cache : Cpu(u, space', A, R, im, root, curr, cache) =>
             Cpu(At(NoSpace)', space', A, R, im, root, curr, cache)
    BY <1>1, <1>3, Settle
  <1>10. Creates(m, space, Active, q, u, space')
    <2>1. \A i \in KernelLines : m.pte[space[p].root][i] = m.pte[space[KERNEL].root][i]
      BY <1>1, <1>2 DEF Sys, Shared
    <2> QED BY <1>5, <1>8, <1>9, <2>1 DEF Creates
  <1>11. Begins(m, q, u, kstack, kstack', image, image')
    BY <1>1, <1>6, <1>8 DEF Begins
  <1>12. Sys(u, space', Active \cup {q}, Live \cup {q}, kstack', image')
    BY <1>2, <1>10, <1>11, CreateSys
  <1>13. Cpu(u, space', Active \cup {q}, Live \cup {q}, image', satp, current, tlb)
    BY <1>2, <1>10, <1>11, CreateCpu
  <1>14. /\ Sys(At(NoSpace)', space', Active', Live', kstack', image')
         /\ Cpu(At(NoSpace)', space', Active', Live', image', satp', current', tlb')
    BY <1>3, <1>5, <1>9, <1>12, <1>13
  <1> QED BY <1>5, <1>6, <1>9, <1>14 DEF IndInv

LEMMA WaitStep ==
  ASSUME IndInv, NEW p \in Proc, NEW q \in Proc, wait4(p, q)
  PROVE  IndInv'
  <1> DEFINE m == At(NoSpace)
             u == Reaped(m, space, q, kstack)
  <1>1. /\ p \in Live /\ p # Nobody /\ q \in Space /\ q \in Active \ Live
    BY Running DEF wait4, Space, Active, Live
  <1>2. Sys(m, space, Active, Live, kstack, image)
        /\ Cpu(m, space, Active, Live, image, satp, current, tlb)
    BY DEF IndInv
  <1>3. m = In(m, NoSpace)
    BY DEF At, In
  <1>4. u = drop(DropAll(m, space[q].frames), [ppn |-> kstack[q], num |-> KSTACK])
    BY <1>3 DEF Reaped, KStack
  <1>5. /\ current' = current /\ current = p /\ satp' = satp /\ tlb' = tlb
        /\ status' = [status EXCEPT ![q] = "none"]
        /\ kstack' = [kstack EXCEPT ![q] = NoFrame]
        /\ image' = [image EXCEPT ![q] = {}]
        /\ status \in [Proc -> {"none", "ready", "zombie"}] /\ status[q] = "zombie"
        /\ image = [x \in Proc |-> image[x]] /\ kstack = [x \in Proc |-> kstack[x]]
    BY DEF wait4, IndInv
  <1>6. Becomes(q, u)
    BY <1>4 DEF wait4
  <1> HIDE DEF m, u
  <1>7. /\ status' \in [Proc -> {"none", "ready", "zombie"}] /\ Active' = Active \ {q}
        /\ Live' = Live
    BY <1>5 DEF Active, Live
  <1>8. /\ image' = [x \in Proc |-> image'[x]] /\ kstack' = [x \in Proc |-> kstack'[x]]
        /\ \A x \in Proc \ {q} : kstack'[x] = kstack[x] /\ image'[x] = image[x]
    BY <1>5
  <1>9. /\ (\A x \in Space \ {q} : space'[x] = space[x])
        /\ space' = [x \in Space |-> space'[x]]
        /\ \A A, R, ks, im : Sys(u, space', A, R, ks, im) =>
             Sys(At(NoSpace)', space', A, R, ks, im)
        /\ \A A, R, im, root, curr, cache : Cpu(u, space', A, R, im, root, curr, cache) =>
             Cpu(At(NoSpace)', space', A, R, im, root, curr, cache)
    BY <1>1, <1>6, Settle
  <1>10. Forgets(q, space, space', kstack, kstack', image, image')
    BY <1>8, <1>9 DEF Forgets
  <1>11. u = Reaped(m, space, q, kstack)
    BY DEF u
  <1>12. Sys(u, space', Active \ {q}, Live, kstack', image')
    BY <1>1, <1>2, <1>10, <1>11, ReapSys
  <1>13. Cpu(u, space', Active \ {q}, Live, image', satp, current, tlb)
    BY <1>1, <1>2, <1>5, <1>10, <1>11, ReapCpu
  <1>14. /\ Sys(At(NoSpace)', space', Active', Live', kstack', image')
         /\ Cpu(At(NoSpace)', space', Active', Live', image', satp', current', tlb')
    BY <1>5, <1>7, <1>9, <1>12, <1>13
  <1> QED BY <1>7, <1>8, <1>9, <1>14 DEF IndInv

\* The steps that leave the memory alone.
LEMMA Quiet ==
  ASSUME IndInv, UNCHANGED <<memory, space, image, kstack, status>>,
         Cpu(At(NoSpace), space, Active, Live, image, satp', current', tlb')
  PROVE  IndInv'
  <1>1. /\ At(NoSpace)' = At(NoSpace) /\ Active' = Active /\ Live' = Live
        /\ space' = space /\ image' = image /\ kstack' = kstack /\ status' = status
    BY DEF memory, At, Active, Live
  <1> QED BY <1>1 DEF IndInv

LEMMA ActivateStep ==
  ASSUME IndInv, NEW p \in Proc, activate(p)
  PROVE  IndInv'
  <1> DEFINE m == At(NoSpace)
  <1>1. Sys(m, space, Active, Live, kstack, image)
        /\ Cpu(m, space, Active, Live, image, satp, current, tlb)
    BY DEF IndInv
  <1>2. p \in Live /\ p \in Active
    BY DEF activate, Live, Active
  <1>3. /\ current' = p /\ satp' = space[p].root /\ (satp' = satp => tlb' = tlb)
        /\ (satp' # satp => tlb' = {})
    BY DEF activate, FlushIfSwitched
  <1> HIDE DEF m
  <1>4. Cpu(m, space, Active, Live, image, satp', current', tlb')
    <2>1. CASE satp' = satp
      BY <1>1, <1>2, <1>3, <2>1 DEF Cpu
    <2>2. CASE satp' # satp
      BY <1>1, <1>2, <1>3, <2>2 DEF Cpu
    <2> QED BY <2>1, <2>2
  <1> QED BY <1>4, Quiet DEF activate, m

LEMMA SuspendStep ==
  ASSUME IndInv, NEW p \in Proc, suspend_curr_and_run_next(p)
  PROVE  IndInv'
  <1>1. Cpu(At(NoSpace), space, Active, Live, image, satp', current', tlb')
    BY DEF IndInv, Cpu, suspend_curr_and_run_next
  <1> QED BY <1>1, Quiet DEF suspend_curr_and_run_next

\* A walk of the tables of a process that is ready finds what its areas own.
LEMMA LiveWalk ==
  ASSUME IndInv, NEW p \in Live, NEW v \in Page
  PROVE  find_pte(pte, space[p].root, v) = Lookup(space[p].data, v)
  <1> DEFINE m == At(NoSpace)
  <1>1. Mapped(In(m, space[p])) /\ p \in Active
    BY DEF IndInv, Sys, Programs, Live, Active
  <1>2. In(m, space[p]).pte = pte /\ In(m, space[p]).s = space[p] /\ m.pte = pte
    BY DEF In, At
  <1> HIDE DEF m
  <1>3. Stored(pte, space[p])
    BY <1>1, <1>2 DEF Mapped
  <1>4. space[p].root # Empty
    <2>1. Mem(m) /\ Holds(m, space[p], Lines(p))
      BY <1>1 DEF IndInv, Sys, Spaces, m
    <2> QED BY <2>1, HoldsFacts
  <1>5. find_pte(pte, space[p].root, v) = Walk(pte, space[p].root, I1(v), I2(v), I3(v))
    BY <1>4, PageFacts, FindFacts
  <1> QED BY <1>3, <1>5 DEF Stored

LEMMA TouchStep ==
  ASSUME IndInv, NEW p \in Proc, NEW v \in Page, Touch(p, v)
  PROVE  IndInv'
  <1> DEFINE m == At(NoSpace)
             f == find_pte(pte, satp, v)
             e == <<v, f>>
  <1>1. p \in Live /\ p \in Active /\ satp = space[p].root /\ p # Nobody
    BY Running DEF Touch
  <1>2. f # Empty /\ tlb' = {e} /\ satp' = satp /\ current' = current
    BY DEF Touch
  <1>3. f = Lookup(space[p].data, v)
    BY <1>1, LiveWalk
  <1>4. e[1] = v /\ e[2] = f
    OBVIOUS
  <1> HIDE DEF f, e
  <1>5. v \in DOMAIN space[p].data /\ f = space[p].data[v] /\ f \in DataFrames(space[p])
    BY <1>2, <1>3 DEF Lookup, DataFrames
  <1>6. Sys(m, space, Active, Live, kstack, image)
        /\ Cpu(m, space, Active, Live, image, satp, current, tlb)
    BY DEF IndInv
  <1> HIDE DEF m
  <1>7. \A o \in Live : space[o].root = satp => o = p
    <2>1. Spaces(m, space, Active) /\ Live \subseteq Active
      BY <1>6 DEF Sys, Programs
    <2> QED BY <1>1, <2>1, Roots
  <1>8. Cpu(m, space, Active, Live, image, satp', current', tlb')
    <2>1. \A d \in tlb' : d = e
      BY <1>2
    <2>2. /\ \E x \in Active \cup {KERNEL} : satp' = space[x].root
          /\ current' # Nobody => current' \in Live /\ satp' = space[current'].root
      BY <1>2, <1>6 DEF Cpu
    <2>3. \A d \in tlb' : \E o \in Live : space[o].root = satp' /\ d[2] \in DataFrames(space[o])
      BY <1>1, <1>2, <1>4, <1>5, <2>1
    <2>4. \A d \in tlb' : \A o \in Live : space[o].root = satp' =>
            d[1] \in DOMAIN space[o].data /\ d[2] = space[o].data[d[1]]
      BY <1>2, <1>4, <1>5, <1>7, <2>1
    <2> QED BY <2>2, <2>3, <2>4 DEF Cpu
  <1> QED BY <1>8, Quiet DEF Touch, m

LEMMA NextStep ==
  ASSUME IndInv, [PTNext]_ptvars
  PROVE  IndInv'
  <1>1. CASE UNCHANGED ptvars
    <2>1. /\ UNCHANGED <<memory, space, image, kstack, status>>
          /\ satp' = satp /\ current' = current /\ tlb' = tlb
      BY <1>1 DEF ptvars
    <2>2. Cpu(At(NoSpace), space, Active, Live, image, satp', current', tlb')
      BY <2>1 DEF IndInv
    <2> QED BY <2>1, <2>2, Quiet
  <1>2. ASSUME NEW p \in Proc, activate(p) PROVE IndInv'
    BY <1>2, ActivateStep
  <1>3. ASSUME NEW p \in Proc, suspend_curr_and_run_next(p) PROVE IndInv'
    BY <1>3, SuspendStep
  <1>4. ASSUME NEW p \in Proc, NEW n \in 1 .. MaxHeap, set_user_brk(p, n) PROVE IndInv'
    BY <1>4, BrkStep
  <1>5. ASSUME NEW p \in Proc, NEW program \in Images, exec(p, program) PROVE IndInv'
    BY <1>5, ExecStep
  <1>6. ASSUME NEW p \in Proc, NEW q \in Proc, fork(p, q) PROVE IndInv'
    BY <1>6, ForkStep
  <1>7. ASSUME NEW p \in Proc, NEW q \in Proc, wait4(p, q) PROVE IndInv'
    BY <1>7, WaitStep
  <1>8. ASSUME NEW p \in Proc, exit(p) PROVE IndInv'
    BY <1>8, ExitStep
  <1>9. ASSUME NEW p \in Proc, NEW v \in Page, Touch(p, v) PROVE IndInv'
    BY <1>9, TouchStep
  <1> QED BY <1>1, <1>2, <1>3, <1>4, <1>5, <1>6, <1>7, <1>8, <1>9 DEF PTNext

-----------------------------------------------------------------------------
(* The first state: the kernel space k and the driver's frames, then the   *)
(* address space of initproc as that of any other process.                 *)

LEMMA BootFacts ==
  ASSUME NEW k, k = Boot, k.ok
  PROVE  Kernel(NoFrame, k)
  <1> DEFINE m == [fl |-> InitialLists, tr |-> {},
                   pte |-> [f \in {NoFrame} |-> Cleared], s |-> NoSpace, ok |-> TRUE]
  <1>1. k = new_kernel(m)
    BY DEF Boot
  <1>2. m.fl = InitialLists /\ m.tr = {} /\ m.pte = [f \in {NoFrame} |-> Cleared]
    OBVIOUS
  <1> HIDE DEF m
  <1>3. DOMAIN m.pte = {NoFrame} /\ m.pte \in [{NoFrame} -> [Line -> Nat]]
    BY <1>2, Constants
  <1>4. NoFrame \in Nat \ {Empty} /\ ~IsFree(m.fl, NoFrame - BEGIN)
    <2>1. NoFrame - BEGIN \notin 0 .. Frames - 1
      BY Constants, OrderFacts DEF NoFrame
    <2> QED BY <1>2, <2>1, InitFacts, Constants DEF Empty
  <1>5. Typed(m.fl, m.tr) /\ Apart(m.fl, m.tr)
    BY <1>2, InitFacts
  <1>6. Mem(m)
    BY <1>2, <1>3, <1>4, <1>5 DEF Mem
  <1> QED BY <1>1, <1>6, NewKernelFacts

\* The kernel alone.
LEMMA AloneFacts ==
  ASSUME NEW k, Kernel(NoFrame, k), NEW d, d = Taken(k, DMA), d.ok,
         NEW sp, sp[KERNEL] = k.s, NEW ks, NEW im
  PROVE  Sys(d, sp, {}, {}, ks, im)
  <1> DEFINE x == [ppn |-> TakenPpn(k, DMA), num |-> DMA]
  <1>1. Base(k, KernelLines) /\ k.s.data = None /\ Mem(k) /\ KernelLines \subseteq Line /\ DMA \in Counts
    BY Constants DEF Kernel, Base
  <1>2. /\ d.s = k.s /\ d.tr = k.tr \cup {x} /\ DOMAIN d.pte = DOMAIN k.pte \cup Reach(x)
        /\ \A g \in DOMAIN k.pte : d.pte[g] = k.pte[g]
        /\ Mem(d)
    BY <1>1, TakenFacts
  <1> HIDE DEF x
  <1>3. Base(d, KernelLines) /\ SameWalks(k.pte, d.pte, k.s.root, KernelLines)
    BY <1>1, <1>2, TakenBase
  <1>4. Holds(d, sp[KERNEL], Lines(KERNEL))
    <2>1. Own(k.s) = k.s.frames
      BY <1>1, NoSpaceFacts DEF Own
    <2> QED BY <1>2, <1>3, <2>1, LinesFacts DEF Base, Holds
  <1>5. ASSUME NEW f \in Linear PROVE Translates(d.pte, k.s.root, f)
    <2> DEFINE v == f + PA_TO_VA
               r == k.s.root
    <2>1. v \in Nat /\ I1(v) \in KernelLines /\ f < NoFrame
      BY LinearAssumption, Constants DEF I1
    <2>2. Walk(k.pte, r, I1(v), I2(v), I3(v)) = f
      BY <2>1 DEF Kernel, Translates
    <2> HIDE DEF v
    <2>3. I2(v) \in Line /\ I3(v) \in Line
      BY <2>1, IndexFacts
    <2>4. Walk(d.pte, r, I1(v), I2(v), I3(v)) = Walk(k.pte, r, I1(v), I2(v), I3(v))
      BY <1>3, <2>1, <2>3 DEF SameWalks
    <2> QED BY <2>2, <2>4 DEF Translates, v
  <1>6. Spaces(d, sp, {})
    BY <1>2, <1>4 DEF Spaces
  <1>7. Shared(d, sp, {})
    BY <1>1, <1>5 DEF Shared
  <1> QED BY <1>6, <1>7 DEF Sys, Stacks, Programs

\* The first process.
LEMMA FirstFacts ==
  ASSUME NEW d, Mem(d), NEW root \in DOMAIN d.pte, NEW program \in Images,
         NEW bare, bare = with_root(d),
         NEW t, t = Taken(bare, KSTACK),
         NEW c, c = map_kernel_areas(t, root),
         NEW u, u = load(c, program), u.ok
  PROVE  /\ d.ok /\ Mapped(u) /\ Ext(d, NoSpace, u) /\ DOMAIN u.s.data = program \cup Stack
         /\ \A i \in KernelLines : u.pte[u.s.root][i] = d.pte[root][i]
         /\ KStack(TakenPpn(bare, KSTACK)) \in u.tr \ d.tr
  <1> DEFINE x == KStack(TakenPpn(bare, KSTACK))
  <1>1. c.ok
    BY LoadOk
  <1>2. t.ok
    BY <1>1, KernelAreasOk
  <1>3. bare.ok
    BY <1>2, OkFacts
  <1>4. d.ok /\ Rootlike(d, bare) /\ Mapped(bare)
    BY <1>3, WithRootFacts
  <1>5. Ext(d, NoSpace, bare) /\ Mem(bare) /\ DataFrames(NoSpace) \subseteq DOMAIN d.pte
    BY <1>4, NoSpaceFacts DEF Rootlike, Mapped, Base
  <1>6. /\ Mapped(t) /\ Ext(bare, bare.s, t) /\ t.s = bare.s /\ x \in t.tr /\ x \notin bare.tr
    BY <1>2, <1>4, TakenMapped, Constants DEF KStack
  <1>7. Ext(d, NoSpace, t) /\ Mem(t)
    <2>1. Mem(t)
      BY <1>6 DEF Mapped, Base
    <2> QED BY <1>5, <1>6, <2>1, ExtTrans
  <1>8. root \in DOMAIN t.pte /\ t.pte[root] = d.pte[root]
    BY <1>7, NoSpaceFacts DEF Ext
  <1>9. /\ Mapped(c) /\ Ext(t, t.s, c) /\ c.s = t.s /\ c.tr = t.tr
        /\ \A i \in KernelLines : c.pte[c.s.root][i] = t.pte[root][i]
    BY <1>6, <1>8, KernelAreasFacts
  <1>10. Ext(d, NoSpace, c) /\ Mem(c)
    <2>1. Mem(c)
      BY <1>9 DEF Mapped, Base
    <2> QED BY <1>5, <1>7, <1>9, <2>1, ExtTrans
  <1>11. Mapped(u) /\ Ext(c, c.s, u) /\ KeepsRoot(c, u) /\ DOMAIN u.s.data = program \cup Stack
    BY <1>9, LoadFacts
  <1>12. Ext(d, NoSpace, u)
    BY <1>5, <1>10, <1>11, ExtTrans
  <1>13. \A i \in KernelLines : u.pte[u.s.root][i] = d.pte[root][i]
    <2>1. \A i \in KernelLines : i \in Line \ Low
      BY Constants DEF Low
    <2> QED BY <1>8, <1>9, <1>11, <2>1 DEF KeepsRoot
  <1>14. x \in u.tr
    BY <1>6, <1>9, <1>11, KStackFacts DEF Ext
  <1>15. x \notin d.tr
    BY <1>5, <1>6, KStackFacts DEF Ext
  <1> QED BY <1>4, <1>11, <1>12, <1>13, <1>14, <1>15

LEMMA InitStep ==
  ASSUME PTInit
  PROVE  IndInv
  <1> DEFINE k == Boot
             d == Taken(k, DMA)
             bare == with_root(d)
             t == Taken(bare, KSTACK)
             c == map_kernel_areas(t, k.s.root)
             x == TakenPpn(bare, KSTACK)
             none == [p \in Space |-> IF p = KERNEL THEN k.s ELSE NoSpace]
  <1>1. PICK program \in Images :
          LET u == load(c, program) IN
          /\ u.ok
          /\ free_list = u.fl /\ trackers = u.tr /\ pte = u.pte
          /\ space = [p \in Space |-> IF p = KERNEL THEN k.s ELSE IF p = INITPROC THEN u.s ELSE NoSpace]
          /\ image = [p \in Proc |-> IF p = INITPROC THEN program ELSE {}]
          /\ kstack = [p \in Proc |-> IF p = INITPROC THEN x ELSE NoFrame]
          /\ status = [p \in Proc |-> IF p = INITPROC THEN "ready" ELSE "none"]
          /\ current = Nobody
          /\ satp = k.s.root
          /\ tlb = {}
    BY DEF PTInit
  <1> DEFINE u == load(c, program)
             m == At(NoSpace)
  <1>2. INITPROC \in Proc /\ INITPROC # KERNEL /\ INITPROC \in Space /\ KERNEL \in Space
    BY PageTableAssumption DEF Space
  <1>3. u.ok /\ m.fl = u.fl /\ m.tr = u.tr /\ m.pte = u.pte
    BY <1>1 DEF At
  <1>4. d.ok
    <2>1. c.ok
      BY <1>3, LoadOk
    <2>2. t.ok
      BY <2>1, KernelAreasOk
    <2>3. bare.ok
      BY <2>2, OkFacts
    <2> QED BY <2>3, WithRootOk
  <1>5. k.ok
    BY <1>4, OkFacts
  <1> HIDE DEF k
  <1>6. Kernel(NoFrame, k)
    BY <1>5, BootFacts DEF k
  <1>7. none[KERNEL] = k.s
    BY <1>2
  <1> HIDE DEF none
  <1>8. Sys(d, none, {}, {}, kstack, image)
    BY <1>4, <1>6, <1>7, AloneFacts
  <1>9. Mem(d) /\ k.s.root \in DOMAIN d.pte
    <2>1. Mem(d) /\ Holds(d, k.s, Lines(KERNEL))
      BY <1>7, <1>8 DEF Sys, Spaces
    <2> QED BY <2>1, HoldsFacts
  <1> HIDE DEF d
  <1>10. /\ Mapped(u) /\ Ext(d, NoSpace, u) /\ DOMAIN u.s.data = program \cup Stack
         /\ \A i \in KernelLines : u.pte[u.s.root][i] = d.pte[k.s.root][i]
         /\ KStack(x) \in u.tr \ d.tr
    <2>1. /\ bare = with_root(d) /\ t = Taken(bare, KSTACK) /\ c = map_kernel_areas(t, k.s.root)
          /\ u = load(c, program) /\ x = TakenPpn(bare, KSTACK)
      OBVIOUS
    <2> HIDE DEF bare, t, c, x, u, m
    <2> QED BY <1>3, <1>9, <2>1, FirstFacts
  <1> HIDE DEF bare, t, c, x, u, m
  <1>11. /\ space = [p \in Space |-> IF p = KERNEL THEN k.s ELSE IF p = INITPROC THEN u.s ELSE NoSpace]
         /\ image = [p \in Proc |-> IF p = INITPROC THEN program ELSE {}]
         /\ kstack = [p \in Proc |-> IF p = INITPROC THEN x ELSE NoFrame]
         /\ status = [p \in Proc |-> IF p = INITPROC THEN "ready" ELSE "none"]
         /\ current = Nobody /\ satp = k.s.root /\ tlb = {}
    BY <1>1 DEF u
  <1>12. /\ space[INITPROC] = u.s /\ space[KERNEL] = k.s
         /\ \A p \in Space \ {INITPROC} : space[p] = none[p]
         /\ image[INITPROC] = program /\ kstack[INITPROC] = x
    BY <1>2, <1>11 DEF none
  <1>13. Active = {INITPROC} /\ Live = {INITPROC} /\ status \in [Proc -> {"none", "ready", "zombie"}]
    BY <1>2, <1>11 DEF Active, Live
  <1>14. /\ space = [p \in Space |-> space[p]] /\ image = [p \in Proc |-> image[p]]
         /\ kstack = [p \in Proc |-> kstack[p]]
    BY <1>11
  <1>15. Creates(d, none, {}, INITPROC, u, space)
    BY <1>2, <1>7, <1>10, <1>12 DEF Creates
  <1>16. Begins(d, INITPROC, u, kstack, kstack, image, image)
    BY <1>10, <1>12 DEF Begins
  <1>17. Sys(u, space, Active, Live, kstack, image)
    <2>1. Sys(u, space, {} \cup {INITPROC}, {} \cup {INITPROC}, kstack, image)
      BY <1>8, <1>15, <1>16, CreateSys
    <2>2. {} \cup {INITPROC} = {INITPROC}
      OBVIOUS
    <2> QED BY <1>13, <2>1, <2>2
  <1>18. Cpu(u, space, Active, Live, image, satp, current, tlb)
    BY <1>11, <1>12 DEF Cpu
  <1>19. Sys(m, space, Active, Live, kstack, image)
         /\ Cpu(m, space, Active, Live, image, satp, current, tlb)
    BY <1>3, <1>17, <1>18, Repack DEF u
  <1> QED BY <1>13, <1>14, <1>19 DEF IndInv, m

-----------------------------------------------------------------------------
(* The theorems.                                                           *)

(* Boot establishes the inductive invariant, and every system call, every  *)
(* switch of the processor and every access of a program keeps it.         *)
THEOREM Invariant == PTSpec => []IndInv
  <1>1. PTInit => IndInv
    BY InitStep
  <1>2. IndInv /\ [PTNext]_ptvars => IndInv'
    BY NextStep
  <1> QED BY <1>1, <1>2, PTL DEF PTSpec

LEMMA NoFrameTwiceHolds ==
  ASSUME IndInv
  PROVE  NoFrameTwice
  <1>1. Apart(free_list, trackers)
    BY DEF IndInv, Sys, Spaces, Mem, At
  <1> QED BY <1>1 DEF NoFrameTwice, Apart

(* Whatever boot, exec, fork, brk, exit and wait4 take and give back for   *)
(* tables, pages and kernel stacks (frame_alloc, FrameTracker::drop): no   *)
(* frame is in two trackers, or in a tracker and in a free list.           *)
THEOREM FramesApart == PTSpec => []NoFrameTwice
  <1>1. IndInv => NoFrameTwice
    BY NoFrameTwiceHolds
  <1> QED BY <1>1, Invariant, PTL

LEMMA WalkIsMapHolds ==
  ASSUME IndInv
  PROVE  WalkIsMap
  <1> SUFFICES ASSUME NEW p \in Live
               PROVE  /\ \A v \in Page : find_pte(pte, space[p].root, v) =
                           (IF v \in DOMAIN space[p].data THEN space[p].data[v] ELSE Empty)
                      /\ space[p].frames = {space[p].root} \cup Tables(space[p].root)
                      /\ Ones(space[p].frames \cup DataFrames(space[p])) \subseteq trackers
    BY DEF WalkIsMap
  <1> DEFINE m == At(NoSpace)
             s == space[p]
  <1>1. \A v \in Page : find_pte(pte, s.root, v) = (IF v \in DOMAIN s.data THEN s.data[v] ELSE Empty)
    BY LiveWalk DEF Lookup
  <1>2. m.pte = pte /\ m.tr = trackers
    BY DEF At
  <1>3. p \in Proc /\ p \in Active
    BY DEF Live, Active
  <1> HIDE DEF m
  <1>4. Holds(m, s, Low)
    BY <1>3, LinesFacts DEF IndInv, Sys, Spaces, m
  <1> HIDE DEF s
  <1>5. s.frames = {s.root} \cup Tables(s.root)
    <2>1. s.frames = {s.root} \cup Upper(pte, s.root, Low) \cup Lower(pte, s.root, Low)
      BY <1>2, <1>4 DEF Holds, Tree
    <2>2. Tables(s.root) = Upper(pte, s.root, Low) \cup Lower(pte, s.root, Low)
      <3> DEFINE next(F, lines) == {pte[f][i] : f \in F, i \in lines} \ {Empty}
      <3>1. next({s.root}, Low) = Upper(pte, s.root, Low)
        BY DEF Upper
      <3>2. next(Upper(pte, s.root, Low), Line) = Lower(pte, s.root, Low)
        BY DEF Lower
      <3>3. Tables(s.root) = next({s.root}, Low) \cup next(next({s.root}, Low), Line)
        BY DEF Tables, Low
      <3> HIDE DEF next
      <3> QED BY <3>1, <3>2, <3>3
    <2> QED BY <2>1, <2>2
  <1>6. Ones(s.frames \cup DataFrames(s)) \subseteq trackers
    BY <1>2, <1>4 DEF Holds, Own
  <1> QED BY <1>1, <1>5, <1>6 DEF s

(* The three-level walk (PageTable::find_pte) of every process that is     *)
(* ready finds exactly the frames that its areas own, page by page, and    *)
(* the tables on the way are exactly those that the process will free,     *)
(* after any sequence of exec, fork, brk, exit and wait4 of all processes. *)
THEOREM TablesStoreTheMap == PTSpec => []WalkIsMap
  <1>1. IndInv => WalkIsMap
    BY WalkIsMapHolds
  <1> QED BY <1>1, Invariant, PTL

LEMMA KernelStaysMappedHolds ==
  ASSUME IndInv
  PROVE  KernelStaysMapped
  <1> DEFINE m == At(NoSpace)
  <1>1. Sys(m, space, Active, Live, kstack, image)
        /\ Cpu(m, space, Active, Live, image, satp, current, tlb)
    BY DEF IndInv
  <1>2. m.pte = pte /\ m.tr = trackers
    BY DEF At
  <1> HIDE DEF m
  <1>3. PICK x \in Active \cup {KERNEL} : satp = space[x].root
    BY <1>1 DEF Cpu
  <1>4. Mem(m) /\ Holds(m, space[x], Lines(x))
    BY <1>1 DEF Sys, Spaces
  <1>5. One(satp) \in trackers /\ satp # Empty
    BY <1>2, <1>3, <1>4, HoldsFacts
  <1>6. ASSUME NEW f \in Linear PROVE find_pte(pte, satp, f + PA_TO_VA) = f
    <2> DEFINE v == f + PA_TO_VA
               r == space[KERNEL].root
    <2>1. v \in Nat /\ I1(v) \in KernelLines
      BY LinearAssumption, Constants DEF I1
    <2>2. Walk(pte, r, I1(v), I2(v), I3(v)) = f
      BY <1>1, <1>2 DEF Sys, Shared, Translates
    <2> HIDE DEF v
    <2>3. pte[satp][I1(v)] = pte[r][I1(v)]
      BY <1>1, <1>2, <1>3, <2>1 DEF Sys, Shared
    <2>4. Walk(pte, satp, I1(v), I2(v), I3(v)) = f
      BY <2>2, <2>3 DEF Walk
    <2>5. find_pte(pte, satp, v) = f
      BY <1>5, <2>1, <2>4, FindFacts
    <2> QED BY <2>5 DEF v
  <1>7. current # Nobody => satp = space[current].root
    BY <1>1 DEF Cpu
  <1> QED BY <1>5, <1>6, <1>7 DEF KernelStaysMapped

(* The root in the page table register (MemorySet::activate) is never      *)
(* freed, not even when its process has exited; it maps the kernel's       *)
(* frames linearly, as new_kernel did; and when a process runs it is the   *)
(* root of that process.                                                   *)
THEOREM KernelNeverUnmapped == PTSpec => []KernelStaysMapped
  <1>1. IndInv => KernelStaysMapped
    BY KernelStaysMappedHolds
  <1> QED BY <1>1, Invariant, PTL

\* The process that the remembered translations are about.
LEMMA CurrentOwner ==
  ASSUME IndInv, current # Nobody
  PROVE  /\ current \in Live /\ satp = space[current].root
         /\ \A o \in Live : space[o].root = satp => o = current
  <1> DEFINE m == At(NoSpace)
  <1>1. Sys(m, space, Active, Live, kstack, image)
        /\ Cpu(m, space, Active, Live, image, satp, current, tlb)
    BY DEF IndInv
  <1> HIDE DEF m
  <1>2. current \in Live /\ satp = space[current].root
    BY <1>1 DEF Cpu
  <1>3. Spaces(m, space, Active) /\ Live \subseteq Active
    BY <1>1 DEF Sys, Programs
  <1> QED BY <1>2, <1>3, Roots

LEMMA StaleReachesHolds ==
  ASSUME IndInv
  PROVE  StaleReachesNoOther
  <1> SUFFICES ASSUME current # Nobody, NEW e \in tlb
               PROVE  e[2] \in DataFrames(space[current]) \/
                      \A t \in trackers : e[2] \notin t.ppn .. t.ppn + t.num - 1
    BY DEF StaleReachesNoOther
  <1> DEFINE m == At(NoSpace)
  <1>1. Cpu(m, space, Active, Live, image, satp, current, tlb) /\ m.tr = trackers
    BY DEF IndInv, At
  <1> HIDE DEF m
  <1>2. \A o \in Live : space[o].root = satp => o = current
    BY CurrentOwner
  <1>3. Orphan(m, e[2]) \/ \E o \in Live : space[o].root = satp /\ e[2] \in DataFrames(space[o])
    BY <1>1 DEF Cpu
  <1>4. CASE Orphan(m, e[2])
    BY <1>1, <1>4 DEF Orphan, Reach
  <1>5. CASE \E o \in Live : space[o].root = satp /\ e[2] \in DataFrames(space[o])
    BY <1>2, <1>5
  <1> QED BY <1>3, <1>4, <1>5

(* set_user_brk shrinks the heap without flush_tlb: what the processor     *)
(* still translates is the program's own frame or nobody's, never one of   *)
(* another process or of the kernel.                                       *)
THEOREM StaleNeverReachesOther == PTSpec => []StaleReachesNoOther
  <1>1. IndInv => StaleReachesNoOther
    BY StaleReachesHolds
  <1> QED BY <1>1, Invariant, PTL

LEMMA ProgramIsFreshHolds ==
  ASSUME IndInv
  PROVE  ProgramIsFresh
  <1> SUFFICES ASSUME current # Nobody, NEW e \in tlb, e[1] \in image[current] \cup Stack
               PROVE  e[2] = find_pte(pte, satp, e[1])
    BY DEF ProgramIsFresh
  <1>1. current \in Live /\ satp = space[current].root
    BY CurrentOwner
  <1>2. e[1] \in DOMAIN space[current].data /\ e[2] = space[current].data[e[1]]
    BY <1>1 DEF IndInv, Cpu
  <1>3. e[1] \in Page
    <2>1. image[current] \in Images
      BY <1>1 DEF IndInv, Sys, Programs
    <2> QED BY <2>1, PagesFacts
  <1>4. find_pte(pte, satp, e[1]) = Lookup(space[current].data, e[1])
    BY <1>1, <1>3, LiveWalk
  <1> QED BY <1>2, <1>4 DEF Lookup

(* exec keeps the root, so that activate() does not flush: the pages of    *)
(* the program that runs and its stack are nevertheless translated as its  *)
(* tables say, because exec flushes and brk leaves these pages alone.      *)
THEOREM ProgramNeverStale == PTSpec => []ProgramIsFresh
  <1>1. IndInv => ProgramIsFresh
    BY ProgramIsFreshHolds
  <1> QED BY <1>1, Invariant, PTL
=============================================================================
