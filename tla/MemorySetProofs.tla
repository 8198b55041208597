--------------------------- MODULE MemorySetProofs ---------------------------
(***************************************************************************)
(* Theorems about MemorySet, for any number of processes, frames and pages *)
(* and any programs.  They say what holds until some program calls mmap a  *)
(* second time before its next exec, which panics the kernel or gives      *)
(* frames back that are still mapped.                                      *)
(***************************************************************************)
EXTENDS MemorySet, FiniteSetTheorems, WellFoundedInduction, TLAPS

-----------------------------------------------------------------------------
(* Numbers.                                                                *)

LEMMA SmallestNumber ==
  ASSUME NEW S \in SUBSET Nat, S # {}
  PROVE  \E n \in S : \A m \in S : n <= m
  <1>1. PICK n \in S : \A m \in S : ~(<<m, n>> \in OpToRel(<, Nat))
    BY NatLessThanWellFounded, WFMin, Zenon
  <1>2. ASSUME NEW m \in S PROVE ~(m < n)
    <2>1. m \in Nat /\ n \in Nat
      OBVIOUS
    <2> QED BY <1>1, <2>1, Zenon DEF OpToRel
  <1> QED BY <1>2

LEMMA GreatestNumber ==
  ASSUME NEW S, NEW b \in Nat, S \subseteq 0 .. b, S # {}
  PROVE  \E n \in S : \A m \in S : m <= n
  <1> DEFINE D == {b - n : n \in S}
  <1>1. D \in SUBSET Nat /\ D # {}
    <2>1. \A n \in S : b - n \in Nat
      OBVIOUS
    <2>2. \A d \in D : d \in Nat
      BY <2>1
    <2>3. D # {}
      OBVIOUS
    <2> QED BY <2>2, <2>3
  <1>2. PICK d \in D : \A e \in D : d <= e
    BY <1>1, SmallestNumber
  <1>3. PICK n \in S : d = b - n
    OBVIOUS
  <1>4. ASSUME NEW m \in S PROVE m <= n
    <2>1. b - m \in D
      OBVIOUS
    <2>2. b - n <= b - m
      BY <2>1, <1>2, <1>3
    <2>3. m \in Int /\ n \in Int
      OBVIOUS
    <2> QED BY <2>2, <2>3
  <1> QED BY <1>4

\* vpn_ceil: the first page boundary at or after an address.
LEMMA PageCeil ==
  ASSUME NEW addr \in Nat
  PROVE  /\ vpn_ceil(addr) \in Nat
         /\ (vpn_ceil(addr) - 1) * PAGE_SIZE < addr
         /\ addr <= vpn_ceil(addr) * PAGE_SIZE
  <1> DEFINE q == (addr + PAGE_SIZE - 1) \div PAGE_SIZE
             r == (addr + PAGE_SIZE - 1) % PAGE_SIZE
  <1>1. PAGE_SIZE \in Nat /\ PAGE_SIZE > 0
    BY SizesAssumption
  <1>2. /\ q \in Nat /\ r \in 0 .. PAGE_SIZE - 1
        /\ addr + PAGE_SIZE - 1 = q * PAGE_SIZE + r
    BY <1>1, Z3
  <1>3. q * PAGE_SIZE \in Int /\ (q - 1) * PAGE_SIZE = q * PAGE_SIZE - PAGE_SIZE
    BY <1>1, <1>2, Z3
  <1> HIDE DEF q, r
  <1>4. (q - 1) * PAGE_SIZE < addr /\ addr <= q * PAGE_SIZE
    BY <1>1, <1>2, <1>3
  <1> QED BY <1>2, <1>4 DEF vpn_ceil, q

LEMMA MultipleOrder ==
  ASSUME NEW a \in Int, NEW b \in Int, a * PAGE_SIZE < b * PAGE_SIZE
  PROVE  a < b
  <1> SUFFICES ASSUME b <= a PROVE FALSE
    OBVIOUS
  <1>1. PICK k \in Nat : a = b + k
    <2>1. a - b \in Nat /\ a = b + (a - b)
      OBVIOUS
    <2> QED BY <2>1
  <1>2. a * PAGE_SIZE = b * PAGE_SIZE + k * PAGE_SIZE
    BY <1>1, SizesAssumption, Z3
  <1>3. k * PAGE_SIZE \in Nat /\ b * PAGE_SIZE \in Int
    BY SizesAssumption
  <1> QED BY <1>2, <1>3

-----------------------------------------------------------------------------
(* Frames: Fresh hands out different ones.                                 *)

Inj(f) == \A v, w \in DOMAIN f : f[v] = f[w] => v = w

LEMMA FreshFrames ==
  ASSUME NEW V, NEW F, IsFiniteSet(V), IsFiniteSet(F), HasFrames(V, F)
  PROVE  Fresh(V, F) \in [V -> F] /\ Inj(Fresh(V, F))
  <1> DEFINE m == Cardinality(V)
             n == Cardinality(F)
  <1>1. m \in Nat /\ n \in Nat /\ m <= n
    BY FS_CardinalityType DEF HasFrames
  <1>2. PICK g \in Bijection(1 .. n, F) : TRUE
    BY FS_CardinalityType DEF ExistsBijection
  <1>3. PICK h \in Bijection(1 .. m, V) : TRUE
    BY FS_CardinalityType DEF ExistsBijection
  <1> HIDE DEF m, n
  <1>4. g \in [1 .. n -> F] /\ \A i, j \in 1 .. n : g[i] = g[j] => i = j
    BY <1>2 DEF Bijection, Injection, IsInjective
  <1>5. h \in [1 .. m -> V] /\ \A v \in V : \E i \in 1 .. m : h[i] = v
    BY <1>3 DEF Bijection, Surjection
  <1> DEFINE k == [v \in V |-> CHOOSE i \in 1 .. m : h[i] = v]
             f == [v \in V |-> g[k[v]]]
  <1>6. \A v \in V : k[v] \in 1 .. m /\ h[k[v]] = v
    BY <1>5
  <1>7. \A v \in V : k[v] \in 1 .. n
    BY <1>6, <1>1
  <1> HIDE DEF k
  <1>8. f \in [V -> F]
    BY <1>4, <1>7
  <1>9. \A v, w \in V : f[v] = f[w] => v = w
    BY <1>4, <1>6, <1>7
  <1>10. \E x \in [V -> F] : \A v, w \in V : x[v] = x[w] => v = w
    BY <1>8, <1>9
  <1>11. Fresh(V, F) \in [V -> F] /\ \A v, w \in V : Fresh(V, F)[v] = Fresh(V, F)[w] => v = w
    BY <1>10 DEF Fresh
  <1> QED BY <1>11 DEF Inj

LEMMA PagesFinite ==
  ASSUME NEW V \in SUBSET Page
  PROVE  IsFiniteSet(V)
  <1>1. 0 \in Int /\ LOW_END - 1 \in Int
    BY SizesAssumption
  <1>2. IsFiniteSet(Page)
    BY <1>1, FS_Interval DEF Page
  <1> QED BY <1>2, FS_Subset

LEMMA FramesFinite ==
  ASSUME NEW F \in SUBSET Frame
  PROVE  IsFiniteSet(F)
  BY FrameAssumption, FS_Subset

-----------------------------------------------------------------------------
(* One address space.                                                      *)

\* Areas a and page table t fit each other.
SpaceOK(a, t) ==
  /\ DOMAIN a \subseteq Page
  /\ \A s \in DOMAIN a : /\ a[s].end \in s .. LOW_END
                         /\ a[s].frames \in [s .. a[s].end - 1 -> Frame]
  /\ DOMAIN t = Pages(a)
  /\ \A s \in DOMAIN a : \A v \in s .. a[s].end - 1 : t[v] = a[s].frames[v]
  /\ t \in [DOMAIN t -> Frame]

\* The part of TypeOK about address spaces, with the two invariants.
SpacesInv ==
  /\ DOMAIN areas = Proc /\ DOMAIN page_table = Proc
  /\ \A p \in Proc : SpaceOK(areas[p], page_table[p])
  /\ FramesApart
  /\ content \in [Frame -> Value]

LEMMA SpaceFacts ==
  ASSUME NEW a, NEW t, SpaceOK(a, t)
  PROVE  /\ DOMAIN t \subseteq Page
         /\ \A s \in DOMAIN a : s \in Nat /\ a[s].end \in Nat
         /\ \A s \in DOMAIN a : \A v \in s .. a[s].end - 1 : v \in DOMAIN t
         /\ \A v \in DOMAIN t : \E s \in DOMAIN a : v \in s .. a[s].end - 1
         /\ \A v \in DOMAIN t : t[v] \in FramesOf(a)
         /\ \A f \in FramesOf(a) : \E v \in DOMAIN t : t[v] = f
  <1>1. \A s \in DOMAIN a : s \in Nat /\ a[s].end \in Nat /\ a[s].end <= LOW_END
    BY SizesAssumption DEF SpaceOK, Page
  <1>2. /\ \A s \in DOMAIN a : \A v \in s .. a[s].end - 1 : v \in DOMAIN t
        /\ \A v \in DOMAIN t : \E s \in DOMAIN a : v \in s .. a[s].end - 1
    BY DEF SpaceOK, Pages
  <1>3. DOMAIN t \subseteq Page
    <2> SUFFICES ASSUME NEW v \in DOMAIN t PROVE v \in Page
      OBVIOUS
    <2>1. PICK s \in DOMAIN a : v \in s .. a[s].end - 1
      BY <1>2
    <2> QED BY <2>1, <1>1, SizesAssumption DEF Page
  <1>4. \A s \in DOMAIN a : DOMAIN a[s].frames = s .. a[s].end - 1
    BY DEF SpaceOK
  <1>5. \A s \in DOMAIN a : \A v \in s .. a[s].end - 1 : t[v] = a[s].frames[v]
    BY DEF SpaceOK
  <1>6. \A v \in DOMAIN t : t[v] \in FramesOf(a)
    <2> SUFFICES ASSUME NEW v \in DOMAIN t PROVE t[v] \in FramesOf(a)
      OBVIOUS
    <2>1. PICK s \in DOMAIN a : v \in s .. a[s].end - 1
      BY <1>2
    <2>2. t[v] \in {a[s].frames[w] : w \in DOMAIN a[s].frames}
      BY <2>1, <1>4, <1>5
    <2> QED BY <2>2 DEF FramesOf
  <1>7. \A f \in FramesOf(a) : \E v \in DOMAIN t : t[v] = f
    <2> SUFFICES ASSUME NEW f \in FramesOf(a) PROVE \E v \in DOMAIN t : t[v] = f
      OBVIOUS
    <2>1. PICK s \in DOMAIN a : f \in {a[s].frames[w] : w \in DOMAIN a[s].frames}
      BY DEF FramesOf
    <2>2. PICK w \in s .. a[s].end - 1 : f = a[s].frames[w]
      BY <2>1, <1>4
    <2> QED BY <2>2, <1>2, <1>5
  <1> QED BY <1>1, <1>2, <1>3, <1>6, <1>7

LEMMA EmptySpace ==
  /\ SpaceOK(None, None) /\ DOMAIN None = {} /\ Inj(None)
  BY DEF SpaceOK, None, Pages, Inj

\* A frame that is free is mapped by nobody.
LEMMA FreeIsUnmapped ==
  ASSUME SpacesInv, NEW f \in Free, NEW p \in Proc, NEW v \in DOMAIN page_table[p]
  PROVE  page_table[p][v] # f
  <1>1. page_table[p][v] \in FramesOf(areas[p])
    BY SpaceFacts DEF SpacesInv
  <1>2. page_table[p][v] \in Owned(areas)
    BY <1>1 DEF Owned
  <1> QED BY <1>2 DEF Free

memory == [p \in Proc |-> [v \in DOMAIN page_table[p] |-> content[page_table[p][v]]]]

LEMMA SpacesFromInv ==
  ASSUME TypeOK, TablesMatch, FramesApart
  PROVE  SpacesInv
  <1> SUFFICES ASSUME NEW p \in Proc PROVE SpaceOK(areas[p], page_table[p])
    BY DEF SpacesInv, TypeOK
  <1> DEFINE a == areas[p]
             t == page_table[p]
  <1>1. /\ DOMAIN a \subseteq Page
        /\ \A s \in DOMAIN a : /\ a[s].end \in s .. LOW_END
                               /\ a[s].frames \in [s .. a[s].end - 1 -> Frame]
        /\ t \in [DOMAIN t -> Frame]
    BY DEF TypeOK
  <1>2. /\ DOMAIN t = Pages(a)
        /\ \A s \in DOMAIN a : \A v \in DOMAIN a[s].frames : t[v] = a[s].frames[v]
    BY DEF TablesMatch
  <1>3. \A s \in DOMAIN a : DOMAIN a[s].frames = s .. a[s].end - 1
    BY <1>1
  <1> HIDE DEF a, t
  <1>4. \A s \in DOMAIN a : \A v \in s .. a[s].end - 1 : t[v] = a[s].frames[v]
    BY <1>2, <1>3
  <1>5. SpaceOK(a, t)
    BY <1>1, <1>2, <1>4 DEF SpaceOK
  <1> QED BY <1>5 DEF a, t

LEMMA SpacesToInv ==
  ASSUME SpacesInv
  PROVE  /\ TablesMatch /\ FramesApart
         /\ DOMAIN areas = Proc /\ DOMAIN page_table = Proc
         /\ content \in [Frame -> Value]
         /\ \A p \in Proc :
              /\ DOMAIN areas[p] \subseteq Page
              /\ \A s \in DOMAIN areas[p] :
                   /\ areas[p][s].end \in s .. LOW_END
                   /\ areas[p][s].frames \in [s .. areas[p][s].end - 1 -> Frame]
              /\ DOMAIN page_table[p] \subseteq Page
              /\ page_table[p] \in [DOMAIN page_table[p] -> Frame]
  <1>1. \A p \in Proc : SpaceOK(areas[p], page_table[p])
    BY DEF SpacesInv
  <1>2. \A p \in Proc : DOMAIN page_table[p] \subseteq Page
    BY <1>1, SpaceFacts
  <1>3. ASSUME NEW p \in Proc, NEW s \in DOMAIN areas[p], NEW v \in DOMAIN areas[p][s].frames
        PROVE  v \in DOMAIN page_table[p] /\ page_table[p][v] = areas[p][s].frames[v]
    <2>1. v \in s .. areas[p][s].end - 1
      BY <1>1, <1>3 DEF SpaceOK
    <2>2. page_table[p][v] = areas[p][s].frames[v]
      BY <1>1, <2>1 DEF SpaceOK
    <2>3. v \in DOMAIN page_table[p]
      BY <1>1, <2>1, SpaceFacts
    <2> QED BY <2>2, <2>3
  <1>4. TablesMatch
    BY <1>1, <1>3 DEF TablesMatch, SpaceOK
  <1>5. \A p \in Proc : /\ DOMAIN areas[p] \subseteq Page
                        /\ \A s \in DOMAIN areas[p] :
                             /\ areas[p][s].end \in s .. LOW_END
                             /\ areas[p][s].frames \in [s .. areas[p][s].end - 1 -> Frame]
                        /\ page_table[p] \in [DOMAIN page_table[p] -> Frame]
    BY <1>1 DEF SpaceOK
  <1> QED BY <1>2, <1>4, <1>5 DEF SpacesInv

\* The heart of the proofs: a process gets the address space a, t, whose
\* frames nobody else maps; those in `new` are filled with `data`.
LEMMA BecomesSpace ==
  ASSUME SpacesInv, NEW p \in Proc, NEW a, NEW t, NEW new, NEW data,
         Becomes(p, a, t, new, data), SpaceOK(a, t), Inj(t),
         \A v \in DOMAIN t : \A q \in Proc : \A w \in DOMAIN page_table[q] :
           q # p => t[v] # page_table[q][w],
         \A v \in DOMAIN new : v \in DOMAIN t /\ new[v] = t[v] /\ data[v] \in Value
  PROVE  /\ SpacesInv'
         /\ areas'[p] = a /\ page_table'[p] = t
         /\ \A q \in Proc : q # p => areas'[q] = areas[q] /\ page_table'[q] = page_table[q]
         /\ memory' = [memory EXCEPT ![p] =
              [v \in DOMAIN t |-> IF v \in DOMAIN new THEN data[v] ELSE content[t[v]]]]
  <1>1. /\ areas' = [areas EXCEPT ![p] = a]
        /\ page_table' = [page_table EXCEPT ![p] = t]
        /\ content' = [f \in Frame |->
                         IF \E v \in DOMAIN new : new[v] = f
                         THEN data[CHOOSE v \in DOMAIN new : new[v] = f] ELSE content[f]]
    BY DEF Becomes
  <1>2. /\ DOMAIN areas' = Proc /\ DOMAIN page_table' = Proc
        /\ areas'[p] = a /\ page_table'[p] = t
        /\ \A q \in Proc : q # p => areas'[q] = areas[q] /\ page_table'[q] = page_table[q]
    BY <1>1 DEF SpacesInv
  <1>3. \A q \in Proc : SpaceOK(areas'[q], page_table'[q])
    BY <1>2 DEF SpacesInv
  <1>4. FramesApart'
    <2> SUFFICES ASSUME NEW q \in Proc, NEW r \in Proc, NEW v \in DOMAIN page_table'[q],
                        NEW w \in DOMAIN page_table'[r], page_table'[q][v] = page_table'[r][w]
                 PROVE  q = r /\ v = w
      BY DEF FramesApart
    <2>1. CASE q = p /\ r = p
      BY <2>1, <1>2 DEF Inj
    <2>2. CASE q = p /\ r # p
      BY <2>2, <1>2
    <2>3. CASE q # p /\ r = p
      BY <2>3, <1>2
    <2>4. CASE q # p /\ r # p
      BY <2>4, <1>2 DEF SpacesInv, FramesApart
    <2> QED BY <2>1, <2>2, <2>3, <2>4
  <1>5. content' \in [Frame -> Value]
    BY <1>1 DEF SpacesInv
  <1>6. \A v \in DOMAIN t : t[v] \in Frame
    BY DEF SpaceOK
  <1>7. ASSUME NEW v \in DOMAIN new
        PROVE  content'[t[v]] = data[v]
    <2>1. v \in DOMAIN t /\ new[v] = t[v] /\ t[v] \in Frame
      BY <1>6
    <2>2. \A w \in DOMAIN new : new[w] = t[v] => w = v
      BY <2>1 DEF Inj
    <2>3. (CHOOSE w \in DOMAIN new : new[w] = t[v]) = v
      BY <2>1, <2>2
    <2>4. \E w \in DOMAIN new : new[w] = t[v]
      BY <2>1
    <2> QED BY <1>1, <2>1, <2>3, <2>4
  <1>8. ASSUME NEW f \in Frame, \A v \in DOMAIN new : new[v] # f
        PROVE  content'[f] = content[f]
    BY <1>1, <1>8
  <1>9. ASSUME NEW v \in DOMAIN t, v \notin DOMAIN new
        PROVE  content'[t[v]] = content[t[v]]
    <2>1. \A w \in DOMAIN new : new[w] # t[v]
      BY <1>9 DEF Inj
    <2> QED BY <2>1, <1>6, <1>8
  <1>10. ASSUME NEW q \in Proc, q # p
         PROVE  memory'[q] = memory[q]
    <2>1. \A w \in DOMAIN page_table[q] : page_table[q][w] \in Frame
      BY DEF SpacesInv, SpaceOK
    <2>2. \A w \in DOMAIN page_table[q] : content'[page_table[q][w]] = content[page_table[q][w]]
      BY <2>1, <1>8, <1>10
    <2>3. page_table'[q] = page_table[q]
      BY <1>2, <1>10
    <2>4. memory'[q] = [v \in DOMAIN page_table'[q] |-> content'[page_table'[q][v]]]
      BY DEF memory
    <2>5. memory[q] = [v \in DOMAIN page_table[q] |-> content[page_table[q][v]]]
      BY DEF memory
    <2> QED BY <2>2, <2>3, <2>4, <2>5
  <1>11. memory'[p] = [v \in DOMAIN t |-> IF v \in DOMAIN new THEN data[v] ELSE content[t[v]]]
    <2>1. memory'[p] = [v \in DOMAIN page_table'[p] |-> content'[page_table'[p][v]]]
      BY DEF memory
    <2>2. memory'[p] = [v \in DOMAIN t |-> content'[t[v]]]
      BY <2>1, <1>2
    <2>3. \A v \in DOMAIN t :
            content'[t[v]] = IF v \in DOMAIN new THEN data[v] ELSE content[t[v]]
      BY <1>7, <1>9
    <2> QED BY <2>2, <2>3
  <1>12. memory' = [memory EXCEPT ![p] =
              [v \in DOMAIN t |-> IF v \in DOMAIN new THEN data[v] ELSE content[t[v]]]]
    <2> DEFINE m == [v \in DOMAIN t |-> IF v \in DOMAIN new THEN data[v] ELSE content[t[v]]]
    <2>1. memory = [q \in Proc |-> memory[q]] /\ memory' = [q \in Proc |-> memory'[q]]
      BY DEF memory
    <2> HIDE DEF m, memory
    <2>2. memory'[p] = m
      BY <1>11 DEF m
    <2>3. memory' = [memory EXCEPT ![p] = m]
      BY <2>1, <2>2, <1>10
    <2> QED BY <2>3 DEF m
  <1>13. SpacesInv'
    BY <1>2, <1>3, <1>4, <1>5 DEF SpacesInv
  <1> QED BY <1>2, <1>12, <1>13

-----------------------------------------------------------------------------
(* Growing and shrinking an area.                                          *)

LEMMA FreeFrames == Free \in SUBSET Frame
  BY DEF Free

Panicked == panic' = "no frame" /\ UNCHANGED <<areas, page_table, content>>

\* The area at `start` of p now ends at `end`, the other areas are the same.
Resized(p, start, end) ==
  /\ DOMAIN areas'[p] = DOMAIN areas[p] \cup {start}
  /\ areas'[p][start].end = end
  /\ \A s \in DOMAIN areas[p] : s # start => areas'[p][s] = areas[p][s]
  /\ \A q \in Proc : q # p => areas'[q] = areas[q] /\ page_table'[q] = page_table[q]
  /\ panic' = panic

\* Map either runs out of frames or adds zeroed pages.
LEMMA MapSpace ==
  ASSUME SpacesInv, NEW p \in Proc, NEW start \in Page, NEW end \in start .. LOW_END, NEW kept,
         \/ start \notin DOMAIN areas[p] /\ kept = None
         \/ /\ start \in DOMAIN areas[p] /\ kept = areas[p][start].frames
            /\ areas[p][start].end <= end,
         ((start .. end - 1) \ DOMAIN kept) \cap DOMAIN page_table[p] = {},
         Map(p, start, end, kept)
  PROVE  \/ Panicked
         \/ /\ SpacesInv' /\ Resized(p, start, end)
            /\ VM!Grow(p)
  <1> DEFINE V == (start .. end - 1) \ DOMAIN kept
             new == Fresh(V, Free)
             frames == Over(new, kept)
             old == areas[p]
             tab == page_table[p]
             a == Over(At(start, end, frames), old)
             t == Over(new, tab)
             data == [v \in V |-> Zero]
  <1> USE SizesAssumption
  <1>1. CASE ~HasFrames(V, Free)
    BY <1>1 DEF Map, Panic, Panicked
  <1>2. CASE HasFrames(V, Free)
    <2>1. Becomes(p, a, t, new, data)
      BY <1>2 DEF Map
    <2>2. SpaceOK(old, tab)
      BY DEF SpacesInv
    <2>3. /\ V \in SUBSET Page /\ start \in Nat /\ end \in Nat /\ end <= LOW_END
          /\ start .. end - 1 \subseteq Page
      BY DEF Page
    <2>4. new \in [V -> Free] /\ Inj(new)
      <3>1. IsFiniteSet(V) /\ IsFiniteSet(Free)
        BY <2>3, PagesFinite, FreeFrames, FramesFinite
      <3> QED BY <1>2, <3>1, FreshFrames
    <2>5. /\ DOMAIN kept \subseteq start .. end - 1
          /\ \A v \in DOMAIN kept : v \in DOMAIN tab /\ kept[v] = tab[v] /\ kept[v] \in Frame
      <3>1. CASE kept = None
        BY <3>1, EmptySpace
      <3>2. CASE start \in DOMAIN old /\ kept = old[start].frames /\ old[start].end <= end
        <4>1. /\ old[start].end \in start .. LOW_END
              /\ kept \in [start .. old[start].end - 1 -> Frame]
          BY <3>2, <2>2 DEF SpaceOK
        <4>2. start .. old[start].end - 1 \subseteq start .. end - 1
          BY <4>1, <3>2, <2>3
        <4>3. \A v \in start .. old[start].end - 1 : v \in DOMAIN tab
          BY <3>2, <2>2, SpaceFacts
        <4>4. \A v \in start .. old[start].end - 1 : tab[v] = kept[v]
          BY <3>2, <2>2 DEF SpaceOK
        <4> QED BY <4>1, <4>2, <4>3, <4>4
      <3> QED BY <3>1, <3>2
    <2>6. V \cap DOMAIN tab = {} /\ DOMAIN kept \cap V = {} /\ V \cup DOMAIN kept = start .. end - 1
      BY <2>5
    <2>7. DOMAIN new = V /\ \A v \in V : new[v] \in Free /\ new[v] \in Frame
      BY <2>4, FreeFrames
    <2> HIDE DEF V, new
    <2>8. /\ frames \in [start .. end - 1 -> Frame]
          /\ \A v \in V : frames[v] = new[v]
          /\ \A v \in DOMAIN kept : frames[v] = kept[v]
      BY <2>5, <2>6, <2>7 DEF Over
    <2> HIDE DEF frames
    <2>9. /\ DOMAIN a = DOMAIN old \cup {start}
          /\ a[start].end = end /\ a[start].frames = frames
          /\ \A s \in DOMAIN old : s # start => a[s] = old[s]
      BY DEF Over, At
    <2>10. /\ DOMAIN t = V \cup DOMAIN tab
           /\ \A v \in V : t[v] = new[v]
           /\ \A v \in DOMAIN tab : t[v] = tab[v]
      BY <2>6, <2>7 DEF Over
    <2>11. \A v \in DOMAIN tab : tab[v] \in Frame
      BY <2>2 DEF SpaceOK
    <2>12. t \in [DOMAIN t -> Frame]
      <3>1. t = [v \in DOMAIN t |-> t[v]]
        BY DEF Over
      <3>2. \A v \in DOMAIN t : t[v] \in Frame
        BY <2>7, <2>10, <2>11
      <3> QED BY <3>1, <3>2
    <2> HIDE DEF a, t
    <2>13. \A v : v \in DOMAIN tab <=> \E s \in DOMAIN old : v \in s .. old[s].end - 1
      BY <2>2 DEF SpaceOK, Pages
    <2>14. DOMAIN t = Pages(a)
      <3>1. ASSUME NEW v \in DOMAIN t
            PROVE  \E s \in DOMAIN a : v \in s .. a[s].end - 1
        <4>1. CASE v \in V
          BY <4>1, <2>6, <2>9
        <4>2. CASE v \in DOMAIN tab
          <5>1. PICK s \in DOMAIN old : v \in s .. old[s].end - 1
            BY <4>2, <2>13
          <5>2. CASE s # start
            BY <5>1, <5>2, <2>9
          <5>3. CASE s = start
            <6>1. kept = old[start].frames
              BY <5>3, <5>1
            <6>2. v \in DOMAIN kept
              BY <6>1, <5>1, <5>3, <2>2 DEF SpaceOK
            <6> QED BY <6>2, <2>6, <2>9
          <5> QED BY <5>2, <5>3
        <4> QED BY <4>1, <4>2, <2>10
      <3>2. ASSUME NEW s \in DOMAIN a, NEW v \in s .. a[s].end - 1
            PROVE  v \in DOMAIN t
        <4>1. CASE s = start
          BY <4>1, <3>2, <2>5, <2>6, <2>9, <2>10
        <4>2. CASE s # start
          BY <4>2, <3>2, <2>9, <2>10, <2>13
        <4> QED BY <4>1, <4>2
      <3> QED BY <3>1, <3>2 DEF Pages
    <2>15. ASSUME NEW s \in DOMAIN a, NEW v \in s .. a[s].end - 1
           PROVE  t[v] = a[s].frames[v]
      <3>1. CASE s = start
        <4>1. v \in V \/ v \in DOMAIN kept
          BY <3>1, <2>6, <2>9
        <4> QED BY <3>1, <4>1, <2>5, <2>8, <2>9, <2>10
      <3>2. CASE s # start
        <4>1. s \in DOMAIN old /\ a[s] = old[s] /\ v \in DOMAIN tab
          BY <3>2, <2>9, <2>13
        <4>2. tab[v] = old[s].frames[v]
          BY <4>1, <2>2 DEF SpaceOK
        <4> QED BY <4>1, <4>2, <2>10
      <3> QED BY <3>1, <3>2
    <2>16. SpaceOK(a, t)
      <3>1. DOMAIN a \subseteq Page
        BY <2>2, <2>9 DEF SpaceOK
      <3>2. \A s \in DOMAIN a : /\ a[s].end \in s .. LOW_END
                                /\ a[s].frames \in [s .. a[s].end - 1 -> Frame]
        BY <2>2, <2>8, <2>9 DEF SpaceOK
      <3> QED BY <3>1, <3>2, <2>12, <2>14, <2>15 DEF SpaceOK
    <2>17. \A v \in V : \A q \in Proc : \A w \in DOMAIN page_table[q] : new[v] # page_table[q][w]
      BY <2>7, FreeIsUnmapped
    <2>18. \A v, w \in DOMAIN tab : tab[v] = tab[w] => v = w
      BY DEF SpacesInv, FramesApart
    <2>19. Inj(t)
      BY <2>4, <2>7, <2>10, <2>17, <2>18 DEF Inj
    <2>20. \A v \in DOMAIN t : \A q \in Proc : \A w \in DOMAIN page_table[q] :
             q # p => t[v] # page_table[q][w]
      BY <2>10, <2>17 DEF SpacesInv, FramesApart
    <2>21. \A v \in DOMAIN new : v \in DOMAIN t /\ new[v] = t[v] /\ data[v] \in Value
      BY <2>7, <2>10, ValueAssumption
    <2>22. /\ SpacesInv' /\ areas'[p] = a /\ page_table'[p] = t
           /\ \A q \in Proc : q # p => areas'[q] = areas[q] /\ page_table'[q] = page_table[q]
           /\ memory' = [memory EXCEPT ![p] =
                [v \in DOMAIN t |-> IF v \in DOMAIN new THEN data[v] ELSE content[t[v]]]]
      <3> HIDE DEF data
      <3> QED BY <2>1, <2>16, <2>19, <2>20, <2>21, BecomesSpace
    <2>23. Resized(p, start, end)
      BY <2>1, <2>9, <2>22 DEF Resized, Becomes
    <2>24. VM!Grow(p)
      <3> DEFINE m == [v \in DOMAIN t |-> IF v \in DOMAIN new THEN data[v] ELSE content[t[v]]]
      <3>1. memory'[p] = m /\ DOMAIN memory'[p] = DOMAIN t
        <4>1. p \in DOMAIN memory
          BY DEF memory
        <4> HIDE DEF memory
        <4> QED BY <4>1, <2>22
      <3>2. memory[p] = [v \in DOMAIN tab |-> content[tab[v]]] /\ DOMAIN memory[p] = DOMAIN tab
        BY DEF memory
      <3>3. DOMAIN t \subseteq Page
        BY <2>16, SpaceFacts
      <3>4. m = [v \in DOMAIN memory[p] \cup DOMAIN memory'[p] |->
                   IF v \in DOMAIN memory[p] THEN memory[p][v] ELSE Zero]
        <4>1. DOMAIN memory[p] \cup DOMAIN memory'[p] = DOMAIN t
          BY <3>1, <3>2, <2>10
        <4>2. \A v \in DOMAIN t : (IF v \in DOMAIN new THEN data[v] ELSE content[t[v]])
                                  = IF v \in DOMAIN memory[p] THEN memory[p][v] ELSE Zero
          BY <3>2, <2>6, <2>7, <2>10
        <4> HIDE DEF memory
        <4> QED BY <4>1, <4>2
      <3>5. memory' = [memory EXCEPT ![p] =
                         [v \in DOMAIN memory[p] \cup DOMAIN memory'[p] |->
                            IF v \in DOMAIN memory[p] THEN memory[p][v] ELSE Zero]]
        BY <2>22, <3>4
      <3> QED BY <3>1, <3>3, <3>5 DEF VM!Grow, VM!Becomes, memory
    <2> QED BY <2>22, <2>23, <2>24
  <1> QED BY <1>1, <1>2

\* shrink takes pages away and leaves the others as they are.
LEMMA ShrinkSpace ==
  ASSUME SpacesInv, NEW p \in Proc, NEW start \in DOMAIN areas[p],
         NEW new_end \in start .. areas[p][start].end,
         \A s \in DOMAIN areas[p] : s # start =>
           \A v \in s .. areas[p][s].end - 1 : v \notin new_end .. areas[p][start].end - 1,
         shrink(p, start, new_end)
  PROVE  SpacesInv' /\ Resized(p, start, new_end) /\ VM!Shrink(p)
  <1> DEFINE old == areas[p]
             tab == page_table[p]
             V == new_end .. old[start].end - 1
             frames == Minus(old[start].frames, V)
             a == Over(At(start, new_end, frames), old)
             t == Minus(tab, V)
  <1> USE SizesAssumption
  <1>1. SpaceOK(old, tab)
    BY DEF SpacesInv
  <1>2. /\ start \in Nat /\ old[start].end \in start .. LOW_END
        /\ old[start].frames \in [start .. old[start].end - 1 -> Frame]
    BY <1>1 DEF SpaceOK, Page
  <1>3. \A v \in V : v \in DOMAIN tab
    <2>1. V \subseteq start .. old[start].end - 1
      BY <1>2
    <2> QED BY <1>1, <2>1, SpaceFacts
  <1>4. Becomes(p, a, t, None, None)
    <2>1. V \subseteq DOMAIN tab
      BY <1>3
    <2> QED BY <2>1 DEF shrink, Shrunk, Unmapped
  <1>5. new_end \in Nat /\ new_end <= LOW_END
    BY <1>2
  <1>6. /\ \A v : v \in start .. new_end - 1 <=> v \in start .. old[start].end - 1 /\ v \notin V
    BY <1>2, <1>5
  <1>7. \A s \in DOMAIN old : s # start => \A v \in s .. old[s].end - 1 : v \notin V
    OBVIOUS
  <1> HIDE DEF V
  <1>8. /\ frames \in [start .. new_end - 1 -> Frame]
        /\ \A v \in start .. new_end - 1 : frames[v] = old[start].frames[v]
    BY <1>2, <1>6 DEF Minus
  <1> HIDE DEF frames
  <1>9. /\ DOMAIN a = DOMAIN old \cup {start}
        /\ a[start].end = new_end /\ a[start].frames = frames
        /\ \A s \in DOMAIN old : s # start => a[s] = old[s]
    BY DEF Over, At
  <1>10. /\ DOMAIN t = DOMAIN tab \ V
         /\ \A v \in DOMAIN t : t[v] = tab[v]
    BY DEF Minus
  <1>11. t \in [DOMAIN t -> Frame]
    BY <1>1 DEF SpaceOK, Minus
  <1> HIDE DEF a, t
  <1>12. \A v : v \in DOMAIN tab <=> \E s \in DOMAIN old : v \in s .. old[s].end - 1
    BY <1>1 DEF SpaceOK, Pages
  <1>13. DOMAIN t = Pages(a)
    <2>1. ASSUME NEW v \in DOMAIN t
          PROVE  \E s \in DOMAIN a : v \in s .. a[s].end - 1
      <3>1. PICK s \in DOMAIN old : v \in s .. old[s].end - 1
        BY <1>10, <1>12
      <3>2. CASE s # start
        BY <3>1, <3>2, <1>9
      <3>3. CASE s = start
        BY <3>1, <3>3, <1>6, <1>9, <1>10
      <3> QED BY <3>2, <3>3
    <2>2. ASSUME NEW s \in DOMAIN a, NEW v \in s .. a[s].end - 1
          PROVE  v \in DOMAIN t
      <3>1. CASE s = start
        BY <3>1, <2>2, <1>6, <1>9, <1>10, <1>12
      <3>2. CASE s # start
        BY <3>2, <2>2, <1>7, <1>9, <1>10, <1>12
      <3> QED BY <3>1, <3>2
    <2> QED BY <2>1, <2>2 DEF Pages
  <1>14. ASSUME NEW s \in DOMAIN a, NEW v \in s .. a[s].end - 1
         PROVE  t[v] = a[s].frames[v]
    <2>1. v \in DOMAIN t
      BY <1>13 DEF Pages
    <2>2. \A r \in DOMAIN old : \A w \in r .. old[r].end - 1 : tab[w] = old[r].frames[w]
      BY <1>1 DEF SpaceOK
    <2>3. CASE s = start
      <3>1. v \in start .. new_end - 1 /\ v \in start .. old[start].end - 1
        BY <2>3, <1>6, <1>9
      <3> QED BY <2>1, <2>2, <2>3, <3>1, <1>8, <1>9, <1>10
    <2>4. CASE s # start
      <3>1. s \in DOMAIN old /\ a[s] = old[s]
        BY <2>4, <1>9
      <3> QED BY <2>1, <2>2, <3>1, <1>10
    <2> QED BY <2>3, <2>4
  <1>15. SpaceOK(a, t)
    <2>1. DOMAIN a \subseteq Page
      BY <1>1, <1>9 DEF SpaceOK
    <2>2. \A s \in DOMAIN a : /\ a[s].end \in s .. LOW_END
                              /\ a[s].frames \in [s .. a[s].end - 1 -> Frame]
      BY <1>1, <1>5, <1>8, <1>9 DEF SpaceOK
    <2> QED BY <2>1, <2>2, <1>11, <1>13, <1>14 DEF SpaceOK
  <1>16. Inj(t)
    BY <1>10 DEF SpacesInv, FramesApart, Inj
  <1>17. \A v \in DOMAIN t : \A q \in Proc : \A w \in DOMAIN page_table[q] :
           q # p => t[v] # page_table[q][w]
    BY <1>10 DEF SpacesInv, FramesApart
  <1>18. \A v \in DOMAIN None : v \in DOMAIN t /\ None[v] = t[v] /\ None[v] \in Value
    BY EmptySpace
  <1>19. /\ SpacesInv' /\ areas'[p] = a /\ page_table'[p] = t
         /\ \A q \in Proc : q # p => areas'[q] = areas[q] /\ page_table'[q] = page_table[q]
         /\ memory' = [memory EXCEPT ![p] =
              [v \in DOMAIN t |-> IF v \in DOMAIN None THEN None[v] ELSE content[t[v]]]]
    BY <1>4, <1>15, <1>16, <1>17, <1>18, BecomesSpace
  <1>20. Resized(p, start, new_end)
    BY <1>4, <1>9, <1>19 DEF Resized, Becomes
  <1>21. VM!Shrink(p)
    <2> DEFINE m == [v \in DOMAIN t |-> IF v \in DOMAIN None THEN None[v] ELSE content[t[v]]]
    <2>1. memory'[p] = m /\ DOMAIN memory'[p] = DOMAIN t
      <3>1. p \in DOMAIN memory
        BY DEF memory
      <3> HIDE DEF memory
      <3> QED BY <3>1, <1>19
    <2>2. memory[p] = [v \in DOMAIN tab |-> content[tab[v]]] /\ DOMAIN memory[p] = DOMAIN tab
      BY DEF memory
    <2>3. m = [v \in DOMAIN memory[p] \cap DOMAIN memory'[p] |-> memory[p][v]]
      <3>1. DOMAIN memory[p] \cap DOMAIN memory'[p] = DOMAIN t
        BY <2>1, <2>2, <1>10
      <3>2. \A v \in DOMAIN t : (IF v \in DOMAIN None THEN None[v] ELSE content[t[v]]) = memory[p][v]
        BY <2>2, <1>10, EmptySpace
      <3> HIDE DEF memory
      <3> QED BY <3>1, <3>2
    <2>4. memory' = [memory EXCEPT ![p] =
                       [v \in DOMAIN memory[p] \cap DOMAIN memory'[p] |-> memory[p][v]]]
      BY <1>19, <2>3
    <2> QED BY <2>4 DEF VM!Shrink, VM!Becomes, memory
  <1> QED BY <1>19, <1>20, <1>21

-----------------------------------------------------------------------------
(* The inductive invariant, one process at a time.                         *)

\* HeapsEnd for one process.
HeapOK(p) ==
  IF heap_start[p] \in DOMAIN areas[p]
  THEN LET end == areas[p][heap_start[p]].end IN
       (end - 1) * PAGE_SIZE < brk[p] /\ brk[p] <= end * PAGE_SIZE
  ELSE brk[p] = heap_start[p] * PAGE_SIZE

\* What exit leaves is a page table.
ZombiesOK ==
  /\ DOMAIN zombies = Proc
  /\ \A p \in Proc : /\ DOMAIN zombies[p] \subseteq Page
                     /\ zombies[p] \in [DOMAIN zombies[p] -> Frame]

RestOK ==
  /\ brk \in [Proc -> Nat] /\ heap_start \in [Proc -> Page]
  /\ live \subseteq Proc /\ mmaps \in [Proc -> Nat] /\ remapped \in BOOLEAN
  /\ ZombiesOK

\* Sound by parts.
Parts ==
  /\ SpacesInv /\ RestOK
  /\ panic \in {"no", "no frame"}
  /\ panic = "no" => /\ \A p \in live : Layout(p) /\ HeapOK(p)
                     /\ \A p \in Proc \ live : areas[p] = None /\ page_table[p] = None

LEMMA InvParts == Sound => Parts
  <1> SUFFICES ASSUME Sound PROVE Parts
    OBVIOUS
  <1>1. SpacesInv
    BY SpacesFromInv DEF Sound
  <1>2. RestOK
    BY DEF Sound, TypeOK, RestOK, ZombiesOK
  <1>3. panic = "no" => \A p \in live : HeapOK(p)
    BY DEF Sound, HeapsEnd, HeapOK
  <1>4. panic \in {"no", "no frame"}
    BY DEF Sound, TypeOK, PageTableAssertions
  <1> QED BY <1>1, <1>2, <1>3, <1>4 DEF Sound, Parts

LEMMA InvFromParts == Parts => Sound
  <1> SUFFICES ASSUME Parts PROVE Sound
    OBVIOUS
  <1>1. TypeOK
    BY SpacesToInv DEF TypeOK, RestOK, ZombiesOK, Parts
  <1>2. TablesMatch /\ FramesApart
    BY SpacesToInv DEF Parts
  <1>3. HeapsEnd
    BY DEF HeapsEnd, HeapOK, Parts
  <1>4. PageTableAssertions
    BY DEF PageTableAssertions, Parts
  <1> QED BY <1>1, <1>2, <1>3, <1>4 DEF Sound, Parts

\* A step that leaves areas, tables and frames alone.
LEMMA SpacesSame ==
  ASSUME SpacesInv, areas' = areas, page_table' = page_table, content' = content
  PROVE  SpacesInv'
  <1>1. DOMAIN areas' = Proc /\ DOMAIN page_table' = Proc /\ content' \in [Frame -> Value]
    BY DEF SpacesInv
  <1>2. \A p \in Proc : SpaceOK(areas[p], page_table[p])'
    <2>1. \A p \in Proc : SpaceOK(areas[p], page_table[p])
      BY DEF SpacesInv
    <2> QED BY <2>1
  <1>3. FramesApart'
    <2>1. FramesApart
      BY DEF SpacesInv
    <2> QED BY <2>1 DEF FramesApart
  <1> QED BY <1>1, <1>2, <1>3 DEF SpacesInv

LEMMA ZombiesSame ==
  ASSUME ZombiesOK, zombies' = zombies
  PROVE  ZombiesOK'
  BY DEF ZombiesOK

\* A step of p that runs out of frames.
LEMMA PanicStep ==
  ASSUME Sound, Panicked, RestOK'
  PROVE  Sound' /\ memory' = memory
  <1>1. SpacesInv
    BY InvParts DEF Parts
  <1>2. /\ areas' = areas /\ page_table' = page_table /\ content' = content
        /\ panic' = "no frame"
    BY DEF Panicked
  <1>3. SpacesInv'
    BY <1>1, <1>2, SpacesSame
  <1>4. Sound'
    <2>1. Parts'
      BY <1>2, <1>3 DEF Parts
    <2> QED BY <2>1, InvFromParts, PTL
  <1> QED BY <1>2, <1>4 DEF memory

\* A step that changes p and nobody else.
OthersSame(p) ==
  \A q \in Proc : q # p =>
    /\ areas'[q] = areas[q] /\ page_table'[q] = page_table[q]
    /\ brk'[q] = brk[q] /\ heap_start'[q] = heap_start[q] /\ mmaps'[q] = mmaps[q]
    /\ q \in live' <=> q \in live

LEMMA ProcessStep ==
  ASSUME Sound, panic = "no", panic' = "no", NEW p \in Proc, SpacesInv', RestOK',
         OthersSame(p),
         p \in live' => Layout(p)' /\ HeapOK(p)',
         p \notin live' => areas'[p] = None /\ page_table'[p] = None
  PROVE  Sound'
  <1>1. ASSUME NEW q \in live' PROVE Layout(q)' /\ HeapOK(q)'
    <2>1. CASE q = p
      BY <1>1, <2>1
    <2>2. CASE q # p
      <3>1. q \in Proc
        BY <1>1 DEF RestOK
      <3>2. q \in live /\ Layout(q) /\ HeapOK(q)
        BY <1>1, <2>2, <3>1, InvParts DEF OthersSame, Parts
      <3>3. /\ areas'[q] = areas[q] /\ brk'[q] = brk[q]
            /\ heap_start'[q] = heap_start[q] /\ mmaps'[q] = mmaps[q]
        BY <2>2, <3>1 DEF OthersSame
      <3> QED BY <3>2, <3>3 DEF Layout, HeapOK
    <2> QED BY <2>1, <2>2
  <1>2. ASSUME NEW q \in Proc \ live' PROVE areas'[q] = None /\ page_table'[q] = None
    <2>1. CASE q = p
      BY <1>2, <2>1
    <2>2. CASE q # p
      BY <1>2, <2>2, InvParts DEF OthersSame, Parts
    <2> QED BY <2>1, <2>2
  <1>3. Parts'
    BY <1>1, <1>2 DEF Parts
  <1> QED BY <1>3, InvFromParts, PTL

-----------------------------------------------------------------------------
(* brk.                                                                    *)

\* The pages that a break above the heap adds are not mapped yet.
LEMMA HeapRoom ==
  ASSUME SpacesInv, RestOK, NEW p \in Proc, Layout(p),
         NEW v \in DOMAIN page_table[p], heap_start[p] <= v, v < MMAP_START
  PROVE  /\ heap_start[p] \in DOMAIN areas[p]
         /\ v \in heap_start[p] .. areas[p][heap_start[p]].end - 1
  <1> DEFINE h == heap_start[p]
             a == areas[p]
  <1>1. SpaceOK(a, page_table[p])
    BY DEF SpacesInv
  <1>2. PICK s \in DOMAIN a : v \in s .. a[s].end - 1
    BY <1>1, SpaceFacts
  <1>3. s \in Nat /\ a[s].end \in Nat
    BY <1>1, SpaceFacts
  <1>4. /\ h \in 1 .. MMAP_START - 1
        /\ \/ s < h /\ a[s].end \in s + 1 .. h
           \/ s = h
           \/ s = MMAP_START
           \/ s = LOW_END - StackPages
    BY <1>2 DEF Layout
  <1> HIDE DEF h, a
  <1>5. v \in Int /\ h <= v
    BY <1>2, <1>3 DEF h
  <1>6. s = h
    BY <1>2, <1>3, <1>4, <1>5, SizesAssumption
  <1> QED BY <1>2, <1>6 DEF h, a

\* Layout after the heap of p ends somewhere else.
LEMMA HeapLayout ==
  ASSUME SpacesInv, RestOK, NEW p \in Proc, Layout(p),
         NEW end \in heap_start[p] + 1 .. MMAP_START,
         Resized(p, heap_start[p], end), heap_start' = heap_start, mmaps' = mmaps
  PROVE  Layout(p)'
  <1> DEFINE h == heap_start[p]
             a == areas[p]
             b == areas'[p]
             bottom == LOW_END - StackPages
             m == mmaps[p] > 0
  <1> USE SizesAssumption
  <1>1. /\ h \in 1 .. MMAP_START - 1
        /\ bottom \in DOMAIN a /\ a[bottom].end = LOW_END
        /\ \A s \in DOMAIN a :
             \/ s < h /\ a[s].end \in s + 1 .. h
             \/ s = h /\ a[s].end \in h + 1 .. MMAP_START
             \/ s = MMAP_START /\ m /\ a[s].end \in MMAP_START .. bottom
             \/ s = bottom
        /\ \A s, t \in DOMAIN a : s < t => a[s].end <= t
    BY DEF Layout
  <1>2. /\ DOMAIN b = DOMAIN a \cup {h} /\ b[h].end = end
        /\ \A s \in DOMAIN a : s # h => b[s] = a[s]
    BY DEF Resized
  <1>3. end \in h + 1 .. MMAP_START /\ MMAP_START \in Nat /\ bottom \in Nat /\ MMAP_START < bottom
    OBVIOUS
  <1>4. heap_start'[p] = h /\ (mmaps'[p] > 0) = m
    OBVIOUS
  <1>5. \A s \in DOMAIN a : s \in Nat
    BY SpaceFacts DEF SpacesInv
  <1> HIDE DEF h, a, b, bottom, m
  <1>6. bottom \in DOMAIN b /\ b[bottom].end = LOW_END
    BY <1>1, <1>2, <1>3
  <1>7. \A s \in DOMAIN b :
             \/ s < h /\ b[s].end \in s + 1 .. h
             \/ s = h /\ b[s].end \in h + 1 .. MMAP_START
             \/ s = MMAP_START /\ m /\ b[s].end \in MMAP_START .. bottom
             \/ s = bottom
    BY <1>1, <1>2, <1>3
  <1>8. ASSUME NEW s \in DOMAIN b, NEW t \in DOMAIN b, s < t
        PROVE  b[s].end <= t
    <2>1. CASE s = h
      BY <1>8, <2>1, <1>1, <1>2, <1>3, <1>5
    <2>2. CASE s # h /\ t = h
      BY <1>8, <2>2, <1>1, <1>2, <1>3, <1>5
    <2>3. CASE s # h /\ t # h
      BY <1>8, <2>3, <1>1, <1>2
    <2> QED BY <2>1, <2>2, <2>3
  <1> QED BY <1>1, <1>4, <1>6, <1>7, <1>8 DEF Layout, h, b, bottom, m

LEMMA BrkStep ==
  ASSUME Sound, NEW p \in Proc, NEW n \in 0 .. MaxBrk, set_user_brk(p, n)
  PROVE  Sound' /\ (VM!Grow(p) \/ VM!Shrink(p) \/ memory' = memory)
  <1> DEFINE h == heap_start[p]
             a == areas[p]
             end == vpn_ceil(n)
  <1> USE SizesAssumption
  <1>1. SpacesInv /\ RestOK /\ p \in live /\ panic = "no" /\ Layout(p)
    BY InvParts DEF Parts, set_user_brk, Runs
  <1>2. n \in Nat /\ end \in Nat /\ (end - 1) * PAGE_SIZE < n /\ n <= end * PAGE_SIZE
    BY PageCeil
  <1>3. end > h /\ h \in Nat /\ h \in Page /\ h < MMAP_START
    BY <1>1 DEF set_user_brk, Layout, Page
  <1> HIDE DEF end
  <1>4. end <= MMAP_START
    <2>1. (end - 1) * PAGE_SIZE < MMAP_START * PAGE_SIZE
      <3>1. (end - 1) * PAGE_SIZE \in Int /\ MMAP_START * PAGE_SIZE \in Int
        BY <1>2
      <3> QED BY <3>1, <1>2
    <2>2. end - 1 < MMAP_START
      BY <2>1, <1>2, MultipleOrder
    <2> QED BY <2>2, <1>2
  <1>5. /\ brk' = [brk EXCEPT ![p] = n]
        /\ heap_start' = heap_start /\ live' = live /\ mmaps' = mmaps
        /\ zombies' = zombies /\ remapped' = remapped
    BY DEF set_user_brk
  <1>6. RestOK'
    BY <1>1, <1>2, <1>5, ZombiesSame DEF RestOK
  <1>7. ASSUME SpacesInv', Resized(p, h, end)
        PROVE  Sound'
    <2>1. end \in h + 1 .. MMAP_START
      BY <1>2, <1>3, <1>4
    <2>2. Layout(p)'
      BY <1>1, <1>5, <1>7, <2>1, HeapLayout
    <2>3. HeapOK(p)'
      <3>1. /\ brk'[p] = n /\ heap_start'[p] = h
            /\ h \in DOMAIN areas'[p] /\ areas'[p][h].end = end
        BY <1>1, <1>5, <1>7 DEF RestOK, Resized
      <3> QED BY <3>1, <1>2 DEF HeapOK
    <2>4. OthersSame(p) /\ panic' = "no"
      BY <1>1, <1>5, <1>7 DEF OthersSame, Resized, RestOK
    <2>5. p \in live'
      BY <1>1, <1>5
    <2> QED BY <1>1, <1>6, <1>7, <2>2, <2>3, <2>4, <2>5, ProcessStep
  <1>8. CASE h \in DOMAIN a /\ a[h].end >= end /\ shrink(p, h, end)
    <2>1. a[h].end \in Nat
      BY <1>1, <1>8, SpaceFacts DEF SpacesInv
    <2>2. end \in h .. a[h].end
      BY <1>2, <1>3, <1>8, <2>1
    <2>3. ASSUME NEW s \in DOMAIN a, s # h, NEW v \in s .. a[s].end - 1, v \in end .. a[h].end - 1
          PROVE  FALSE
      <3>1. a[h].end \in h + 1 .. MMAP_START
        BY <1>1, <1>3, <1>8 DEF Layout
      <3>2. /\ s < h => a[s].end <= h
            /\ s > h => a[h].end <= s
        BY <1>1, <1>8, <2>3 DEF Layout
      <3>3. s \in Nat /\ a[s].end \in Nat
        BY <1>1, <2>3, SpaceFacts DEF SpacesInv
      <3> HIDE DEF a, h
      <3> QED BY <1>2, <1>3, <2>1, <2>3, <3>1, <3>2, <3>3
    <2>4. \A s \in DOMAIN areas[p] : s # h =>
            \A v \in s .. areas[p][s].end - 1 : v \notin end .. areas[p][h].end - 1
      BY <2>3
    <2>5. SpacesInv' /\ Resized(p, h, end) /\ VM!Shrink(p)
      BY <1>1, <1>8, <2>2, <2>4, ShrinkSpace
    <2> QED BY <2>5, <1>7
  <1>9. ASSUME NEW kept, Map(p, h, end, kept),
               \/ h \notin DOMAIN a /\ kept = None
               \/ h \in DOMAIN a /\ kept = a[h].frames /\ a[h].end <= end
        PROVE  Sound' /\ (VM!Grow(p) \/ memory' = memory)
    <2>1. ((h .. end - 1) \ DOMAIN kept) \cap DOMAIN page_table[p] = {}
      <3> SUFFICES ASSUME NEW v \in h .. end - 1, v \notin DOMAIN kept, v \in DOMAIN page_table[p]
                   PROVE  FALSE
        OBVIOUS
      <3>1. h <= v /\ v < MMAP_START
        BY <1>2, <1>3, <1>4
      <3>2. h \in DOMAIN a /\ v \in h .. a[h].end - 1
        BY <1>1, <3>1, HeapRoom
      <3>3. DOMAIN a[h].frames = h .. a[h].end - 1
        BY <1>1, <3>2 DEF SpacesInv, SpaceOK
      <3> QED BY <1>9, <3>2, <3>3
    <2>2. end \in h .. LOW_END
      BY <1>2, <1>3, <1>4
    <2>3. \/ Panicked
          \/ SpacesInv' /\ Resized(p, h, end) /\ VM!Grow(p)
      BY <1>1, <1>3, <1>9, <2>1, <2>2, MapSpace
    <2> QED BY <2>3, <1>6, <1>7, PanicStep
  <1>10. CASE h \in DOMAIN a /\ a[h].end < end /\ Map(p, h, end, a[h].frames)
    <2>1. a[h].end <= end
      BY <1>1, <1>2, <1>10, SpaceFacts DEF SpacesInv
    <2> QED BY <1>9, <1>10, <2>1
  <1>11. CASE h \notin DOMAIN a /\ Map(p, h, end, None)
    BY <1>9, <1>11
  <1> QED BY <1>8, <1>10, <1>11 DEF set_user_brk, end

-----------------------------------------------------------------------------
(* mmap.                                                                   *)

\* Where the search of a program that has not called mmap yet ends: at the
\* beginning of the region, if the mapping fits below the stack.
LEMMA FirstMmap ==
  ASSUME NEW p \in Proc, NEW len \in Nat, SpacesInv, RestOK, Layout(p), mmaps[p] = 0,
         Search(areas[p], len).found
  PROVE  /\ Search(areas[p], len).start = MMAP_START
         /\ MMAP_START + len <= LOW_END - StackPages
         /\ MMAP_START \notin DOMAIN areas[p]
  <1> DEFINE a == areas[p]
             bottom == LOW_END - StackPages
             at[v \in 0 .. LOW_END] ==
               IF v = 0 THEN [start |-> MMAP_START, found |-> FALSE]
               ELSE IF v - 1 \in DOMAIN a THEN Probe(a, len, at[v - 1], v - 1) ELSE at[v - 1]
             End == IF MMAP_START + len <= bottom THEN [start |-> MMAP_START, found |-> TRUE]
                    ELSE IF MMAP_START + len > LOW_END
                         THEN [start |-> MMAP_START, found |-> FALSE]
                         ELSE [start |-> LOW_END, found |-> FALSE]
             g == [v \in 0 .. LOW_END |-> IF v <= bottom
                                          THEN [start |-> MMAP_START, found |-> FALSE] ELSE End]
  <1> USE SizesAssumption
  <1>1. Search(a, len) = at[LOW_END]
    BY DEF Search
  <1>2. /\ bottom \in Nat /\ MMAP_START < bottom /\ bottom < LOW_END
        /\ bottom \in DOMAIN a /\ a[bottom].end = LOW_END
        /\ \A s \in DOMAIN a : s \in Nat /\ (s < MMAP_START \/ s = bottom)
    <2>1. \A s \in DOMAIN a : s \in Nat
      BY SpaceFacts DEF SpacesInv
    <2>2. \A s \in DOMAIN a : s < MMAP_START \/ s = bottom
      BY <2>1 DEF Layout
    <2> QED BY <2>1, <2>2 DEF Layout
  <1> HIDE DEF a, bottom
  <1>3. \A v \in 0 .. LOW_END : v # 0 =>
          g[v] = IF v - 1 \in DOMAIN a THEN Probe(a, len, g[v - 1], v - 1) ELSE g[v - 1]
    <2> SUFFICES ASSUME NEW v \in 0 .. LOW_END, v # 0
                 PROVE  g[v] = IF v - 1 \in DOMAIN a THEN Probe(a, len, g[v - 1], v - 1) ELSE g[v - 1]
      OBVIOUS
    <2>1. v - 1 \in 0 .. LOW_END
      OBVIOUS
    <2>2. CASE v <= bottom
      <3>1. g[v] = [start |-> MMAP_START, found |-> FALSE] /\ g[v - 1] = g[v]
        BY <2>1, <2>2, <1>2
      <3>2. v - 1 \in DOMAIN a => Probe(a, len, g[v], v - 1) = g[v]
        <4>1. v - 1 \in DOMAIN a => v - 1 <= MMAP_START
          BY <1>2, <2>2
        <4> HIDE DEF g
        <4> QED BY <3>1, <4>1 DEF Probe
      <3> QED BY <3>1, <3>2
    <2>3. CASE v - 1 = bottom
      <3>1. g[v] = End /\ g[v - 1] = [start |-> MMAP_START, found |-> FALSE] /\ v - 1 \in DOMAIN a
        BY <2>1, <2>3, <1>2
      <3>2. Probe(a, len, [start |-> MMAP_START, found |-> FALSE], v - 1) = End
        <4> DEFINE b == [start |-> MMAP_START, found |-> FALSE]
                   s == v - 1
        <4>1. b.start = MMAP_START /\ b.found = FALSE /\ s = bottom
          BY <2>3
        <4> HIDE DEF b, s, End
        <4>2. CASE MMAP_START + len <= bottom
          <5>1. Probe(a, len, b, s) = [start |-> MMAP_START, found |-> TRUE]
            BY <1>2, <4>1, <4>2 DEF Probe
          <5> QED BY <5>1, <4>2 DEF End, b, s
        <4>3. CASE ~(MMAP_START + len <= bottom) /\ MMAP_START + len > LOW_END
          <5>1. Probe(a, len, b, s) = b
            BY <1>2, <4>1, <4>3 DEF Probe
          <5> QED BY <5>1, <4>3 DEF End, b, s
        <4>4. CASE ~(MMAP_START + len <= bottom) /\ ~(MMAP_START + len > LOW_END)
          <5>1. Probe(a, len, b, s) = [start |-> LOW_END, found |-> FALSE]
            <6>1. /\ ~b.found /\ ~(s <= b.start)
                  /\ ~(b.start + len > LOW_END) /\ ~(b.start + len <= s)
              BY <1>2, <4>1, <4>4
            <6>2. a[s].end = LOW_END
              BY <1>2, <4>1
            <6>3. Probe(a, len, b, s) = [start |-> a[s].end, found |-> FALSE]
              BY ONLY <6>1 DEF Probe
            <6> QED BY <6>2, <6>3
          <5> QED BY <5>1, <4>4 DEF End, b, s
        <4> QED BY <4>2, <4>3, <4>4
      <3> QED BY <3>1, <3>2
    <2>4. CASE v - 1 > bottom
      <3>1. v - 1 \notin DOMAIN a
        BY <2>4, <1>2
      <3>2. g[v] = End /\ g[v - 1] = End
        BY <2>1, <2>4, <1>2
      <3> QED BY <3>1, <3>2
    <2> QED BY <2>2, <2>3, <2>4, <1>2
  <1>4. g[0] = [start |-> MMAP_START, found |-> FALSE] /\ g = [v \in 0 .. LOW_END |-> g[v]]
    BY <1>2
  <1> HIDE DEF g
  <1>5. g = [v \in 0 .. LOW_END |->
               IF v = 0 THEN [start |-> MMAP_START, found |-> FALSE]
               ELSE IF v - 1 \in DOMAIN a THEN Probe(a, len, g[v - 1], v - 1) ELSE g[v - 1]]
    BY <1>3, <1>4
  <1>6. at = [v \in 0 .. LOW_END |->
               IF v = 0 THEN [start |-> MMAP_START, found |-> FALSE]
               ELSE IF v - 1 \in DOMAIN a THEN Probe(a, len, at[v - 1], v - 1) ELSE at[v - 1]]
    BY <1>5
  <1> HIDE DEF at
  <1>7. \A v \in 0 .. LOW_END : at[v] = g[v]
    <2> DEFINE S == {v \in 0 .. LOW_END : at[v] # g[v]}
    <2> SUFFICES ASSUME S # {} PROVE FALSE
      OBVIOUS
    <2>1. S \in SUBSET Nat
      OBVIOUS
    <2>2. PICK n \in S : \A m \in S : n <= m
      BY <2>1, SmallestNumber
    <2>3. CASE n = 0
      <3>1. at[0] = g[0]
        BY <1>4, <1>6
      <3> QED BY <2>3, <3>1
    <2>4. CASE n # 0
      <3>1. n - 1 \in 0 .. LOW_END /\ n - 1 < n
        BY <2>4
      <3>2. at[n - 1] = g[n - 1]
        BY <2>2, <3>1
      <3>3. at[n] = g[n]
        <4>1. n \in 0 .. LOW_END
          OBVIOUS
        <4>2. g[n] = IF n - 1 \in DOMAIN a THEN Probe(a, len, g[n - 1], n - 1) ELSE g[n - 1]
          BY <1>3, <2>4, <4>1
        <4>3. at[n] = IF n - 1 \in DOMAIN a THEN Probe(a, len, at[n - 1], n - 1) ELSE at[n - 1]
          BY <1>6, <2>4, <4>1
        <4> QED BY <3>2, <4>2, <4>3
      <3> QED BY <3>3
    <2> QED BY <2>3, <2>4
  <1>8. Search(a, len) = End
    <2>1. LOW_END \in 0 .. LOW_END /\ ~(LOW_END <= bottom)
      BY <1>2
    <2>2. at[LOW_END] = g[LOW_END]
      BY <1>7, <2>1
    <2>3. g[LOW_END] = End
      BY <2>1 DEF g
    <2> QED BY <1>1, <2>2, <2>3
  <1>9. Search(a, len).found
    BY DEF a
  <1>10. Search(a, len).start = MMAP_START /\ MMAP_START + len <= bottom
    <2>1. CASE MMAP_START + len <= bottom
      BY <1>8, <2>1
    <2>2. CASE ~(MMAP_START + len <= bottom)
      BY <1>8, <1>9, <2>2
    <2> QED BY <2>1, <2>2
  <1>11. MMAP_START \notin DOMAIN a
    BY <1>2
  <1> QED BY <1>10, <1>11 DEF a, bottom

LEMMA MmapStep ==
  ASSUME Sound, NEW p \in Proc, NEW len \in 0 .. MaxLen, sys_mmap(p, len), ~remapped'
  PROVE  Sound' /\ (VM!Grow(p) \/ memory' = memory)
  <1> DEFINE h == heap_start[p]
             a == areas[p]
             b == areas'[p]
             bottom == LOW_END - StackPages
             pages == len \div PAGE_SIZE
             end == MMAP_START + pages
  <1> USE SizesAssumption
  <1>1. SpacesInv /\ RestOK /\ p \in live /\ panic = "no" /\ Layout(p) /\ HeapOK(p)
    BY InvParts DEF Parts, sys_mmap, Runs
  <1>2. mmaps[p] = 0
    <2>1. mmaps[p] \in Nat /\ ~(mmaps[p] > 0)
      BY <1>1 DEF RestOK, sys_mmap
    <2> QED BY <2>1
  <1>3. pages \in Nat
    BY Z3
  <1>4. Search(a, pages).found /\ Map(p, Search(a, pages).start, Search(a, pages).start + pages, None)
    BY DEF sys_mmap
  <1> HIDE DEF pages
  <1>5. /\ Search(a, pages).start = MMAP_START
        /\ end <= bottom /\ MMAP_START \notin DOMAIN a
    BY <1>1, <1>2, <1>3, <1>4, FirstMmap
  <1>6. Map(p, MMAP_START, end, None)
    BY <1>4, <1>5
  <1>7. MMAP_START \in Page /\ end \in MMAP_START .. LOW_END /\ end \in Nat
    BY <1>3, <1>5 DEF Page
  <1>8. /\ mmaps' = [mmaps EXCEPT ![p] = @ + 1]
        /\ brk' = brk /\ heap_start' = heap_start /\ live' = live
        /\ zombies' = zombies /\ remapped' = (remapped \/ mmaps[p] > 0)
    BY DEF sys_mmap, heap
  <1>9. /\ h \in 1 .. MMAP_START - 1
        /\ bottom \in DOMAIN a /\ a[bottom].end = LOW_END
        /\ \A s \in DOMAIN a :
             \/ s < h /\ a[s].end \in s + 1 .. h
             \/ s = h /\ a[s].end \in h + 1 .. MMAP_START
             \/ s = bottom
        /\ \A s, t \in DOMAIN a : s < t => a[s].end <= t
    BY <1>1, <1>5 DEF Layout
  <1>10. \A s \in DOMAIN a : s \in Nat /\ a[s].end \in Nat
    BY <1>1, SpaceFacts DEF SpacesInv
  <1>11. MMAP_START < bottom /\ bottom \in Nat
    OBVIOUS
  <1>12. ((MMAP_START .. end - 1) \ DOMAIN None) \cap DOMAIN page_table[p] = {}
    <2> SUFFICES ASSUME NEW v \in MMAP_START .. end - 1, v \in DOMAIN page_table[p] PROVE FALSE
      OBVIOUS
    <2>1. PICK s \in DOMAIN a : v \in s .. a[s].end - 1
      BY <1>1, SpaceFacts DEF SpacesInv
    <2> HIDE DEF a, h, bottom, end
    <2> QED BY <1>5, <1>7, <1>9, <1>10, <1>11, <2>1
  <1>13. \/ Panicked
         \/ SpacesInv' /\ Resized(p, MMAP_START, end) /\ VM!Grow(p)
    BY <1>1, <1>5, <1>6, <1>7, <1>12, MapSpace
  <1>14. RestOK'
    BY <1>1, <1>8, ZombiesSame DEF RestOK
  <1>15. ASSUME SpacesInv', Resized(p, MMAP_START, end)
         PROVE  Sound'
    <2>1. /\ DOMAIN b = DOMAIN a \cup {MMAP_START} /\ b[MMAP_START].end = end
          /\ \A s \in DOMAIN a : b[s] = a[s]
      BY <1>5, <1>15 DEF Resized
    <2>2. heap_start'[p] = h /\ mmaps'[p] > 0 /\ brk'[p] = brk[p]
      BY <1>2, <1>8, <1>1 DEF RestOK
    <2>3. Layout(p)'
      <3> HIDE DEF h, a, b, bottom, end
      <3>1. bottom \in DOMAIN b /\ b[bottom].end = LOW_END
        BY <1>9, <2>1
      <3>2. \A s \in DOMAIN b :
             \/ s < h /\ b[s].end \in s + 1 .. h
             \/ s = h /\ b[s].end \in h + 1 .. MMAP_START
             \/ s = MMAP_START /\ b[s].end \in MMAP_START .. bottom
             \/ s = bottom
        BY <1>5, <1>7, <1>9, <1>11, <2>1
      <3>3. ASSUME NEW s \in DOMAIN b, NEW t \in DOMAIN b, s < t
            PROVE  b[s].end <= t
        <4>1. CASE s = MMAP_START
          BY <3>3, <4>1, <1>5, <1>9, <1>10, <1>11, <2>1
        <4>2. CASE s # MMAP_START /\ t = MMAP_START
          BY <3>3, <4>2, <1>9, <1>10, <1>11, <2>1
        <4>3. CASE s # MMAP_START /\ t # MMAP_START
          BY <3>3, <4>3, <1>9, <2>1
        <4> QED BY <4>1, <4>2, <4>3
      <3> QED BY <1>9, <2>2, <3>1, <3>2, <3>3 DEF Layout, h, b, bottom
    <2>4. HeapOK(p)'
      <3>1. h \in DOMAIN b <=> h \in DOMAIN a
        BY <1>9, <2>1
      <3> QED BY <1>1, <2>1, <2>2, <3>1 DEF HeapOK
    <2>5. OthersSame(p) /\ panic' = "no"
      BY <1>1, <1>8, <1>15 DEF OthersSame, Resized, RestOK
    <2>6. p \in live'
      BY <1>1, <1>8
    <2> QED BY <1>1, <1>14, <1>15, <2>3, <2>4, <2>5, <2>6, ProcessStep
  <1> QED BY <1>13, <1>14, <1>15, PanicStep

-----------------------------------------------------------------------------
(* Programs.                                                               *)

LEMMA ElfEndFacts ==
  ASSUME NEW image \in Images
  PROVE  /\ ElfEnd(image) \in 1 .. MMAP_START - 1
         /\ \A i \in image : i[2] <= ElfEnd(image)
  <1> DEFINE S == {i[2] : i \in image}
  <1>1. image # {} /\ \A i \in image : i[2] \in 1 .. MMAP_START - 1
    BY ImagesAssumption
  <1>2. S \subseteq 0 .. MMAP_START /\ S # {} /\ MMAP_START \in Nat
    BY <1>1, SizesAssumption
  <1>3. PICK e \in S : \A n \in S : n <= e
    <2> HIDE DEF S
    <2> QED BY <1>2, GreatestNumber
  <1>4. \A i \in image : i[2] <= e
    BY <1>3
  <1>5. ElfEnd(image) \in S /\ \A i \in image : i[2] <= ElfEnd(image)
    BY <1>4 DEF ElfEnd
  <1> QED BY <1>1, <1>5

\* The areas of a loaded program: its sections below ElfEnd, and the stack.
LEMMA LoadedSpace ==
  ASSUME NEW image \in Images, NEW new \in [Sections(image) \cup Stack -> Frame]
  PROVE  /\ SpaceOK(Loaded(image, new), new)
         /\ LOW_END - StackPages \in DOMAIN Loaded(image, new)
         /\ Loaded(image, new)[LOW_END - StackPages].end = LOW_END
         /\ \A s \in DOMAIN Loaded(image, new) :
              \/ /\ s < ElfEnd(image)
                 /\ Loaded(image, new)[s].end \in s + 1 .. ElfEnd(image)
              \/ s = LOW_END - StackPages
         /\ \A s, t \in DOMAIN Loaded(image, new) : s < t => Loaded(image, new)[s].end <= t
  <1> DEFINE bottom == LOW_END - StackPages
             top == <<bottom, LOW_END>>
             ranges == image \cup {top}
             end(s) == CHOOSE e \in 0 .. LOW_END : <<s, e>> \in ranges
             a == Loaded(image, new)
             E == ElfEnd(image)
  <1> USE SizesAssumption
  <1>1. /\ \A i \in image : /\ i = <<i[1], i[2]>> /\ i[1] \in Nat /\ i[2] \in Nat
                            /\ 1 <= i[1] /\ i[1] < i[2] /\ i[2] < MMAP_START
        /\ \A i, j \in image : i # j => i[2] <= j[1] \/ j[2] <= i[1]
    <2>1. \A i \in image : i \in Nat \X Nat
      BY ImagesAssumption
    <2>2. \A i \in image : i = <<i[1], i[2]>> /\ i[1] \in Nat /\ i[2] \in Nat
      BY <2>1
    <2>3. \A i \in image : i[1] \in 1 .. i[2] - 1 /\ i[2] \in 1 .. MMAP_START - 1
      BY ImagesAssumption
    <2>4. \A i \in image : 1 <= i[1] /\ i[1] < i[2] /\ i[2] < MMAP_START
      BY <2>2, <2>3
    <2>5. \A i, j \in image : i # j => i[2] <= j[1] \/ j[2] <= i[1]
      BY ImagesAssumption
    <2> QED BY <2>2, <2>4, <2>5
  <1>2. /\ bottom \in Nat /\ MMAP_START < bottom /\ bottom < LOW_END
        /\ E \in Nat /\ E < MMAP_START /\ \A i \in image : i[2] <= E
    BY ElfEndFacts
  <1>3. top[1] = bottom /\ top[2] = LOW_END
    OBVIOUS
  <1> HIDE DEF bottom, E
  <1>4. \A i \in ranges : /\ i = <<i[1], i[2]>> /\ i[1] \in Nat /\ i[2] \in 0 .. LOW_END
                          /\ i[1] < i[2]
    BY <1>1, <1>2, <1>3
  <1>5. \A i, j \in ranges : i[1] < j[1] => i[2] <= j[1]
    <2> SUFFICES ASSUME NEW i \in ranges, NEW j \in ranges, i[1] < j[1] PROVE i[2] <= j[1]
      OBVIOUS
    <2>1. CASE i \in image /\ j \in image
      BY <2>1, <1>1
    <2>2. CASE i = top
      BY <2>2, <1>1, <1>2, <1>3
    <2>3. CASE i \in image /\ j = top
      BY <2>3, <1>1, <1>2, <1>3
    <2> QED BY <2>1, <2>2, <2>3
  <1>6. \A i, j \in ranges : i[1] = j[1] => i[2] = j[2]
    <2> SUFFICES ASSUME NEW i \in ranges, NEW j \in ranges, i[1] = j[1] PROVE i[2] = j[2]
      OBVIOUS
    <2>1. CASE i \in image /\ j \in image
      <3>1. i = j
        BY <2>1, <1>1
      <3> QED BY <3>1
    <2>2. CASE i = top /\ j = top
      BY <2>2
    <2>3. CASE i \in image /\ j = top
      BY <2>3, <1>1, <1>2, <1>3
    <2>4. CASE i = top /\ j \in image
      BY <2>4, <1>1, <1>2, <1>3
    <2> QED BY <2>1, <2>2, <2>3, <2>4
  <1>7. a = [s \in {i[1] : i \in ranges} |->
               [end |-> end(s), frames |-> Only(new, s .. end(s) - 1)]]
    BY DEF Loaded, bottom
  <1> HIDE DEF a, ranges, top
  <1>8. \A i \in ranges : end(i[1]) = i[2]
    <2> SUFFICES ASSUME NEW i \in ranges PROVE end(i[1]) = i[2]
      OBVIOUS
    <2>1. i[2] \in 0 .. LOW_END /\ <<i[1], i[2]>> \in ranges
      BY <1>4
    <2>2. end(i[1]) \in 0 .. LOW_END /\ <<i[1], end(i[1])>> \in ranges
      BY <2>1
    <2> HIDE DEF end
    <2>3. <<i[1], end(i[1])>>[1] = i[1] /\ <<i[1], end(i[1])>>[2] = end(i[1])
      OBVIOUS
    <2> QED BY <1>6, <2>2, <2>3
  <1> HIDE DEF end
  <1>9. DOMAIN a = {i[1] : i \in ranges}
    BY <1>7
  <1>10. \A i \in ranges : /\ i[1] \in DOMAIN a /\ a[i[1]].end = i[2]
                           /\ a[i[1]].frames = Only(new, i[1] .. i[2] - 1)
    BY <1>7, <1>8
  <1>11. \A s \in DOMAIN a : \E i \in ranges : s = i[1]
    BY <1>9
  <1>12. ranges = image \cup {top} /\ top \in ranges
    BY DEF ranges
  <1>13. bottom \in DOMAIN a /\ a[bottom].end = LOW_END
    BY <1>3, <1>10, <1>12
  <1>14. \A s \in DOMAIN a : \/ s < E /\ a[s].end \in s + 1 .. E
                             \/ s = bottom
    <2> SUFFICES ASSUME NEW s \in DOMAIN a, s # bottom PROVE s < E /\ a[s].end \in s + 1 .. E
      OBVIOUS
    <2>1. PICK i \in ranges : s = i[1]
      BY <1>11
    <2>2. i \in image /\ a[s].end = i[2]
      BY <2>1, <1>3, <1>10, <1>12
    <2> QED BY <2>1, <2>2, <1>1, <1>2
  <1>15. \A s, t \in DOMAIN a : s < t => a[s].end <= t
    <2> SUFFICES ASSUME NEW s \in DOMAIN a, NEW t \in DOMAIN a, s < t PROVE a[s].end <= t
      OBVIOUS
    <2>1. PICK i \in ranges : s = i[1]
      BY <1>11
    <2>2. PICK j \in ranges : t = j[1]
      BY <1>11
    <2> QED BY <2>1, <2>2, <1>5, <1>10
  <1>16. \A v : v \in Sections(image) \cup Stack <=> \E i \in ranges : v \in i[1] .. i[2] - 1
    <2>1. \A v : v \in Sections(image) <=> \E i \in image : v \in i[1] .. i[2] - 1
      BY DEF Sections
    <2>2. Stack = top[1] .. top[2] - 1
      BY <1>3 DEF Stack, bottom
    <2> QED BY <2>1, <2>2, <1>12
  <1>17. DOMAIN new = Sections(image) \cup Stack /\ \A v \in DOMAIN new : new[v] \in Frame
    OBVIOUS
  <1>18. Pages(a) = DOMAIN new
    <2>1. ASSUME NEW v \in DOMAIN new PROVE \E s \in DOMAIN a : v \in s .. a[s].end - 1
      BY <1>10, <1>16, <1>17
    <2>2. ASSUME NEW s \in DOMAIN a, NEW v \in s .. a[s].end - 1 PROVE v \in DOMAIN new
      BY <1>10, <1>11, <1>16, <1>17
    <2> QED BY <2>1, <2>2 DEF Pages
  <1>19. \A s \in DOMAIN a : a[s].frames = Only(new, s .. a[s].end - 1)
    BY <1>10, <1>11
  <1>20. \A s \in DOMAIN a : \A v \in s .. a[s].end - 1 : v \in DOMAIN new
    BY <1>18 DEF Pages
  <1>21. SpaceOK(a, new)
    <2>1. DOMAIN a \subseteq Page
      <3> SUFFICES ASSUME NEW s \in DOMAIN a PROVE s \in Page
        OBVIOUS
      <3>1. PICK i \in ranges : s = i[1]
        BY <1>11
      <3> QED BY <3>1, <1>4 DEF Page
    <2>2. \A s \in DOMAIN a : a[s].end \in s .. LOW_END
      <3> SUFFICES ASSUME NEW s \in DOMAIN a PROVE a[s].end \in s .. LOW_END
        OBVIOUS
      <3>1. PICK i \in ranges : s = i[1]
        BY <1>11
      <3> QED BY <3>1, <1>4, <1>10
    <2>3. \A s \in DOMAIN a : a[s].frames \in [s .. a[s].end - 1 -> Frame]
      BY <1>17, <1>19, <1>20 DEF Only
    <2>4. \A s \in DOMAIN a : \A v \in s .. a[s].end - 1 : new[v] = a[s].frames[v]
      BY <1>19 DEF Only
    <2>5. new \in [DOMAIN new -> Frame]
      BY <1>17
    <2> QED BY <2>1, <2>2, <2>3, <2>4, <2>5, <1>18 DEF SpaceOK
  <1> QED BY <1>13, <1>14, <1>15, <1>21 DEF a, bottom, E

\* Layout and HeapOK as formulas about areas a, a heap at h, m calls of mmap
\* and a break at b.
LayoutOf(a, h, m) ==
  LET bottom == LOW_END - StackPages IN
  /\ h \in 1 .. MMAP_START - 1
  /\ bottom \in DOMAIN a /\ a[bottom].end = LOW_END
  /\ \A s \in DOMAIN a :
       \/ s < h /\ a[s].end \in s + 1 .. h
       \/ s = h /\ a[s].end \in h + 1 .. MMAP_START
       \/ s = MMAP_START /\ m > 0 /\ a[s].end \in MMAP_START .. bottom
       \/ s = bottom
  /\ \A s, t \in DOMAIN a : s < t => a[s].end <= t

HeapOf(a, h, b) ==
  IF h \in DOMAIN a
  THEN (a[h].end - 1) * PAGE_SIZE < b /\ b <= a[h].end * PAGE_SIZE
  ELSE b = h * PAGE_SIZE

LEMMA SpaceOf ==
  ASSUME NEW p
  PROVE  /\ Layout(p) <=> LayoutOf(areas[p], heap_start[p], mmaps[p])
         /\ HeapOK(p) <=> HeapOf(areas[p], heap_start[p], brk[p])
         /\ Layout(p)' <=> LayoutOf(areas'[p], heap_start'[p], mmaps'[p])
         /\ HeapOK(p)' <=> HeapOf(areas'[p], heap_start'[p], brk'[p])
  BY DEF Layout, LayoutOf, HeapOK, HeapOf

\* The space of a program that has just begun, in the terms of the invariant.
LEMMA LoadedLayout ==
  ASSUME NEW image \in Images, NEW new \in [Sections(image) \cup Stack -> Frame], NEW m
  PROVE  /\ LayoutOf(Loaded(image, new), ElfEnd(image), m)
         /\ HeapOf(Loaded(image, new), ElfEnd(image), ElfEnd(image) * PAGE_SIZE)
  <1> DEFINE a == Loaded(image, new)
             h == ElfEnd(image)
             bottom == LOW_END - StackPages
  <1>1. h \in 1 .. MMAP_START - 1
    BY ElfEndFacts
  <1>2. /\ bottom \in DOMAIN a /\ a[bottom].end = LOW_END
        /\ \A s \in DOMAIN a : (s < h /\ a[s].end \in s + 1 .. h) \/ s = bottom
        /\ \A s, t \in DOMAIN a : s < t => a[s].end <= t
    BY LoadedSpace
  <1> HIDE DEF a, h
  <1>3. LayoutOf(a, h, m)
    BY <1>1, <1>2 DEF LayoutOf
  <1>4. h \notin DOMAIN a
    BY <1>1, <1>2, SizesAssumption
  <1> QED BY <1>3, <1>4 DEF HeapOf, a, h

LEMMA ImagePages ==
  ASSUME NEW image \in Images
  PROVE  /\ Sections(image) \cup Stack \in SUBSET Page
         /\ \A x \in Value : \A v \in Sections(image) \cup Stack : ImageData(image, x)[v] \in Value
  <1>1. \A i \in image : i[1] \in Nat /\ i[2] \in Nat /\ i[2] < MMAP_START
    <2>1. \A i \in image : i \in Nat \X Nat
      BY ImagesAssumption
    <2>2. \A i \in image : i[2] \in 1 .. MMAP_START - 1
      BY ImagesAssumption
    <2> QED BY <2>1, <2>2, SizesAssumption
  <1>2. Sections(image) \subseteq Page
    <2> SUFFICES ASSUME NEW i \in image, NEW v \in i[1] .. i[2] - 1 PROVE v \in Page
      BY DEF Sections
    <2> QED BY <1>1, SizesAssumption DEF Page
  <1>3. Stack \subseteq Page
    BY SizesAssumption DEF Stack, Page
  <1> QED BY <1>2, <1>3, ValueAssumption DEF ImageData

LEMMA ExecStep ==
  ASSUME Sound, NEW p \in Proc, NEW image \in Images, NEW x \in Value, exec(p, image, x)
  PROVE  Sound' /\ (VM!Load(p, ImageData(image, x)) \/ memory' = memory)
  <1> DEFINE V == Sections(image) \cup Stack
             rest == [areas EXCEPT ![p] = None]
             free == Frame \ Owned(rest)
             new == Fresh(V, free)
             a == Loaded(image, new)
             data == ImageData(image, x)
             e == ElfEnd(image)
  <1>1. SpacesInv /\ RestOK /\ p \in live /\ panic = "no"
    BY InvParts DEF Parts, exec, Runs
  <1>2. /\ brk' = [brk EXCEPT ![p] = e * PAGE_SIZE]
        /\ heap_start' = [heap_start EXCEPT ![p] = e]
        /\ mmaps' = [mmaps EXCEPT ![p] = 0] /\ live' = live
        /\ zombies' = zombies /\ remapped' = remapped
    BY DEF exec
  <1>3. e \in Page /\ e * PAGE_SIZE \in Nat
    <2>1. e \in Nat /\ e < MMAP_START
      BY ElfEndFacts, SizesAssumption
    <2> HIDE DEF e
    <2> QED BY <2>1, SizesAssumption DEF Page
  <1> HIDE DEF e
  <1>4. RestOK'
    BY <1>1, <1>2, <1>3, ZombiesSame DEF RestOK
  <1>5. CASE ~HasFrames(V, free)
    <2>1. Panicked
      BY <1>5 DEF exec, Panic, Panicked
    <2> QED BY <1>4, <2>1, PanicStep
  <1>6. CASE HasFrames(V, free)
    <2>1. Becomes(p, a, new, new, data)
      BY <1>6 DEF exec
    <2>2. new \in [V -> free] /\ Inj(new)
      <3>1. IsFiniteSet(V) /\ IsFiniteSet(free)
        BY ImagePages, PagesFinite, FramesFinite
      <3> QED BY <1>6, <3>1, FreshFrames
    <2>3. new \in [V -> Frame] /\ DOMAIN new = V
      BY <2>2
    <2>4. \A v \in DOMAIN new : \A q \in Proc : \A w \in DOMAIN page_table[q] :
            q # p => new[v] # page_table[q][w]
      <3> SUFFICES ASSUME NEW v \in V, NEW q \in Proc, NEW w \in DOMAIN page_table[q], q # p
                   PROVE  page_table[q][w] \in Owned(rest)
        BY <2>2, <2>3
      <3>1. page_table[q][w] \in FramesOf(areas[q])
        BY <1>1, SpaceFacts DEF SpacesInv
      <3>2. rest[q] = areas[q]
        BY <1>1 DEF SpacesInv
      <3> HIDE DEF rest
      <3> QED BY <3>1, <3>2 DEF Owned
    <2>5. \A v \in DOMAIN new : data[v] \in Value
      BY <2>3, ImagePages
    <2> HIDE DEF new, data
    <2>6. SpaceOK(a, new)
      BY <2>3, LoadedSpace
    <2>7. /\ SpacesInv' /\ areas'[p] = a /\ page_table'[p] = new
          /\ \A q \in Proc : q # p => areas'[q] = areas[q] /\ page_table'[q] = page_table[q]
          /\ memory' = [memory EXCEPT ![p] =
               [v \in DOMAIN new |-> IF v \in DOMAIN new THEN data[v] ELSE content[new[v]]]]
      <3> HIDE DEF a
      <3> QED BY <1>1, <2>1, <2>2, <2>4, <2>5, <2>6, BecomesSpace
    <2>8. Layout(p)' /\ HeapOK(p)'
      <3>1. /\ areas'[p] = Loaded(image, new) /\ heap_start'[p] = e
            /\ brk'[p] = e * PAGE_SIZE /\ mmaps'[p] = 0
        BY <1>1, <1>2, <2>7 DEF RestOK
      <3>2. LayoutOf(a, e, 0) /\ HeapOf(a, e, e * PAGE_SIZE)
        BY <2>3, LoadedLayout DEF e
      <3> QED BY <3>1, <3>2, SpaceOf
    <2>9. OthersSame(p) /\ panic' = "no"
      BY <1>1, <1>2, <2>1, <2>7 DEF OthersSame, RestOK, Becomes
    <2>10. Sound'
      BY <1>1, <1>2, <1>4, <2>7, <2>8, <2>9, ProcessStep
    <2>11. VM!Load(p, data)
      <3>1. data = [v \in V |-> data[v]]
        BY DEF data, ImageData
      <3>2. [v \in DOMAIN new |-> IF v \in DOMAIN new THEN data[v] ELSE content[new[v]]] = data
        BY <2>3, <3>1
      <3>3. memory' = [memory EXCEPT ![p] = data]
        BY <2>7, <3>2
      <3> QED BY <3>3 DEF VM!Load, VM!Becomes, memory
    <2> QED BY <2>10, <2>11 DEF data
  <1> QED BY <1>5, <1>6

-----------------------------------------------------------------------------
(* Processes.                                                              *)

LEMMA ForkStep ==
  ASSUME Sound, NEW p \in Proc, NEW q \in Proc, fork(p, q)
  PROVE  Sound' /\ (VM!Copy(p, q) \/ memory' = memory)
  <1> DEFINE old == areas[p]
             V == Pages(old)
             new == Fresh(V, Free)
             a == [s \in DOMAIN old |-> [end |-> old[s].end,
                                         frames |-> Only(new, s .. old[s].end - 1)]]
             data == [v \in V |-> content[page_table[p][v]]]
  <1>1. /\ SpacesInv /\ RestOK /\ p \in live /\ panic = "no" /\ q \notin live
        /\ areas[q] = None /\ page_table[q] = None /\ Layout(p) /\ HeapOK(p)
    BY InvParts DEF Parts, fork, Runs
  <1>2. /\ brk' = [brk EXCEPT ![q] = brk[p]]
        /\ heap_start' = [heap_start EXCEPT ![q] = heap_start[p]]
        /\ mmaps' = [mmaps EXCEPT ![q] = mmaps[p]] /\ live' = live \cup {q}
        /\ zombies' = zombies /\ remapped' = remapped
    BY DEF fork
  <1>3. RestOK'
    BY <1>1, <1>2, ZombiesSame DEF RestOK
  <1>4. CASE ~HasFrames(V, Free)
    <2>1. Panicked
      BY <1>4 DEF fork, Panic, Panicked
    <2> QED BY <1>3, <2>1, PanicStep
  <1>5. CASE HasFrames(V, Free)
    <2>1. Becomes(q, a, new, new, data)
      BY <1>5 DEF fork, ChildFrames
    <2>2. SpaceOK(old, page_table[p])
      BY <1>1 DEF SpacesInv
    <2>3. V = DOMAIN page_table[p] /\ V \in SUBSET Page
      BY <2>2, SpaceFacts DEF SpaceOK
    <2>4. new \in [V -> Free] /\ Inj(new)
      <3>1. IsFiniteSet(V) /\ IsFiniteSet(Free)
        BY <2>3, PagesFinite, FreeFrames, FramesFinite
      <3> QED BY <1>5, <3>1, FreshFrames
    <2>5. DOMAIN new = V /\ \A v \in V : new[v] \in Free /\ new[v] \in Frame
      BY <2>4, FreeFrames
    <2>6. new \in [DOMAIN new -> Frame]
      BY <2>4, <2>5
    <2>7. \A v \in DOMAIN new : \A r \in Proc : \A w \in DOMAIN page_table[r] :
            r # q => new[v] # page_table[r][w]
      BY <1>1, <2>5, FreeIsUnmapped
    <2>8. \A v \in DOMAIN new : data[v] \in Value
      BY <1>1, <2>2, <2>3, <2>5 DEF SpacesInv, SpaceOK
    <2>9. \A s \in DOMAIN old : \A v \in s .. old[s].end - 1 : v \in V
      BY DEF Pages
    <2> HIDE DEF new
    <2>10. DOMAIN a = DOMAIN old
           /\ \A s \in DOMAIN old : /\ a[s].end = old[s].end
                                    /\ a[s].frames = Only(new, s .. old[s].end - 1)
      OBVIOUS
    <2> HIDE DEF a
    <2>11. SpaceOK(a, new)
      <3>1. DOMAIN a \subseteq Page /\ \A s \in DOMAIN a : a[s].end \in s .. LOW_END
        BY <2>2, <2>10 DEF SpaceOK
      <3>2. \A s \in DOMAIN a : a[s].frames \in [s .. a[s].end - 1 -> Frame]
        <4> SUFFICES ASSUME NEW s \in DOMAIN old
                     PROVE  a[s].frames \in [s .. old[s].end - 1 -> Frame]
          BY <2>10
        <4>1. a[s].frames = [v \in s .. old[s].end - 1 |-> new[v]]
          BY <2>10 DEF Only
        <4>2. \A v \in s .. old[s].end - 1 : new[v] \in Frame
          BY <2>5, <2>9
        <4> QED BY <4>1, <4>2
      <3>3. \A s \in DOMAIN a : \A v \in s .. a[s].end - 1 : new[v] = a[s].frames[v]
        BY <2>10, ZenonT(40) DEF Only
      <3>4. Pages(a) = V
        BY <2>10 DEF Pages
      <3> QED BY <2>5, <2>6, <3>1, <3>2, <3>3, <3>4 DEF SpaceOK
    <2>12. /\ SpacesInv' /\ areas'[q] = a /\ page_table'[q] = new
           /\ \A r \in Proc : r # q => areas'[r] = areas[r] /\ page_table'[r] = page_table[r]
           /\ memory' = [memory EXCEPT ![q] =
                [v \in DOMAIN new |-> IF v \in DOMAIN new THEN data[v] ELSE content[new[v]]]]
      <3> HIDE DEF data, V
      <3> QED BY <1>1, <2>1, <2>4, <2>7, <2>8, <2>11, BecomesSpace
    <2>13. Layout(q)' /\ HeapOK(q)'
      <3>1. /\ areas'[q] = a /\ heap_start'[q] = heap_start[p]
            /\ brk'[q] = brk[p] /\ mmaps'[q] = mmaps[p]
        BY <1>1, <1>2, <2>12 DEF RestOK
      <3>2. LayoutOf(old, heap_start[p], mmaps[p]) /\ HeapOf(old, heap_start[p], brk[p])
        BY <1>1, SpaceOf
      <3> HIDE DEF old
      <3>3. LayoutOf(a, heap_start[p], mmaps[p])
        BY <3>2, <2>10 DEF LayoutOf
      <3>4. HeapOf(a, heap_start[p], brk[p])
        BY <3>2, <2>10 DEF HeapOf
      <3> QED BY <3>1, <3>3, <3>4, SpaceOf
    <2>14. OthersSame(q) /\ panic' = "no" /\ q \in live'
      BY <1>1, <1>2, <2>1, <2>12 DEF OthersSame, RestOK, Becomes
    <2>15. Sound'
      BY <1>1, <1>3, <2>12, <2>13, <2>14, ProcessStep
    <2>16. VM!Copy(p, q)
      <3>1. memory[p] = data
        BY <2>3 DEF memory
      <3>2. [v \in DOMAIN new |-> IF v \in DOMAIN new THEN data[v] ELSE content[new[v]]] = data
        BY <2>5
      <3>3. memory' = [memory EXCEPT ![q] = memory[p]]
        BY <2>12, <3>1, <3>2
      <3>4. memory[q] = [v \in {} |-> Zero]
        <4>1. memory[q] = [v \in DOMAIN None |-> content[None[v]]]
          BY <1>1 DEF memory
        <4> QED BY <4>1, EmptySpace
      <3> QED BY <3>3, <3>4 DEF VM!Copy, VM!Becomes, VM!Empty, memory
    <2> QED BY <2>15, <2>16
  <1> QED BY <1>4, <1>5

LEMMA ExitStep ==
  ASSUME Sound, NEW p \in Proc, exit(p)
  PROVE  Sound' /\ VM!End(p)
  <1>1. SpacesInv /\ RestOK /\ p \in live /\ panic = "no" /\ Layout(p)
    BY InvParts DEF Parts, exit, Runs
  <1>2. /\ brk' = [brk EXCEPT ![p] = 0] /\ heap_start' = [heap_start EXCEPT ![p] = 0]
        /\ mmaps' = [mmaps EXCEPT ![p] = 0] /\ live' = live \ {p} /\ remapped' = remapped
    BY DEF exit
  <1>3. Stack \subseteq DOMAIN page_table[p]
    <2>1. LOW_END - StackPages \in DOMAIN areas[p] /\ areas[p][LOW_END - StackPages].end = LOW_END
      BY <1>1 DEF Layout
    <2>2. SpaceOK(areas[p], page_table[p])
      BY <1>1 DEF SpacesInv
    <2> QED BY <2>1, <2>2, SpaceFacts DEF Stack
  <1>4. RestOK'
    <2> DEFINE t == Unmapped(page_table[p], Stack)
    <2>1. 0 \in Page
      BY SizesAssumption DEF Page
    <2>2. zombies' = [zombies EXCEPT ![p] = t]
      BY <1>3 DEF exit
    <2>3. DOMAIN t \subseteq Page /\ t \in [DOMAIN t -> Frame]
      <3>1. SpaceOK(areas[p], page_table[p])
        BY <1>1 DEF SpacesInv
      <3>2. DOMAIN page_table[p] \subseteq Page /\ page_table[p] \in [DOMAIN page_table[p] -> Frame]
        BY <3>1, SpaceFacts DEF SpaceOK
      <3> QED BY <3>2 DEF Unmapped, Minus
    <2> HIDE DEF t
    <2>4. ZombiesOK'
      BY <1>1, <2>2, <2>3 DEF RestOK, ZombiesOK
    <2> QED BY <1>1, <1>2, <2>1, <2>4 DEF RestOK
  <1>5. Becomes(p, None, None, None, None)
    BY <1>3 DEF exit
  <1>6. /\ SpaceOK(None, None) /\ Inj(None)
        /\ \A v \in DOMAIN None : FALSE
    BY EmptySpace
  <1>7. /\ SpacesInv' /\ areas'[p] = None /\ page_table'[p] = None
        /\ \A q \in Proc : q # p => areas'[q] = areas[q] /\ page_table'[q] = page_table[q]
        /\ memory' = [memory EXCEPT ![p] =
             [v \in DOMAIN None |-> IF v \in DOMAIN None THEN None[v] ELSE content[None[v]]]]
    BY <1>1, <1>5, <1>6, BecomesSpace
  <1>8. OthersSame(p) /\ panic' = "no" /\ p \notin live'
    BY <1>1, <1>2, <1>5, <1>7 DEF OthersSame, RestOK, Becomes
  <1>9. Sound'
    BY <1>1, <1>4, <1>7, <1>8, ProcessStep
  <1>10. VM!End(p)
    <2>1. [v \in DOMAIN None |-> IF v \in DOMAIN None THEN None[v] ELSE content[None[v]]]
          = [v \in {} |-> Zero]
      BY EmptySpace
    <2>2. memory' = [memory EXCEPT ![p] = [v \in {} |-> Zero]]
      BY <1>7, <2>1
    <2> QED BY <2>2 DEF VM!End, VM!Becomes, VM!Empty, memory
  <1> QED BY <1>9, <1>10

\* Reaping changes nothing that a running process uses.
LEMMA ReapStep ==
  ASSUME Sound, NEW p \in Proc, reap(p)
  PROVE  Sound' /\ memory' = memory
  <1>1. Parts /\ SpacesInv /\ RestOK
    BY InvParts DEF Parts
  <1>2. /\ areas' = areas /\ page_table' = page_table /\ brk' = brk /\ content' = content
        /\ heap_start' = heap_start /\ live' = live /\ mmaps' = mmaps /\ panic' = panic
        /\ remapped' = remapped /\ zombies' = [zombies EXCEPT ![p] = None]
    BY DEF reap, heap
  <1>3. SpacesInv'
    BY <1>1, <1>2, SpacesSame
  <1>4. RestOK'
    <2>1. DOMAIN None \subseteq Page /\ None \in [DOMAIN None -> Frame]
      BY EmptySpace DEF SpaceOK
    <2>2. ZombiesOK'
      BY <1>1, <1>2, <2>1 DEF RestOK, ZombiesOK
    <2> QED BY <1>1, <1>2, <2>2 DEF RestOK
  <1>5. \A q : (Layout(q)' <=> Layout(q)) /\ (HeapOK(q)' <=> HeapOK(q))
    BY <1>2 DEF Layout, HeapOK
  <1>6. Parts'
    BY <1>1, <1>2, <1>3, <1>4, <1>5 DEF Parts
  <1>7. Sound'
    BY <1>6, InvFromParts, PTL
  <1> QED BY <1>2, <1>7 DEF memory

\* What a program stores is seen in its own page and nowhere else.
LEMMA StoreStep ==
  ASSUME Sound, NEW p \in Proc, NEW v \in Page, NEW x \in Value, Store(p, v, x)
  PROVE  Sound' /\ VM!Store(p, v, x)
  <1> DEFINE f == page_table[p][v]
  <1>1. Parts /\ SpacesInv /\ RestOK
    BY InvParts DEF Parts
  <1>2. /\ v \in DOMAIN page_table[p] /\ content' = [content EXCEPT ![f] = x]
        /\ areas' = areas /\ page_table' = page_table /\ brk' = brk
        /\ heap_start' = heap_start /\ live' = live /\ mmaps' = mmaps /\ panic' = panic
        /\ zombies' = zombies /\ remapped' = remapped
    BY DEF Store, heap
  <1>3. \A q \in Proc : \A w \in DOMAIN page_table[q] : page_table[q][w] \in Frame
    BY <1>1 DEF SpacesInv, SpaceOK
  <1>4. f \in Frame /\ content \in [Frame -> Value]
    BY <1>1, <1>2, <1>3 DEF SpacesInv
  <1>5. Sound'
    <2>1. SpacesInv'
      BY <1>1, <1>2, <1>4 DEF SpacesInv, FramesApart
    <2>2. RestOK'
      BY <1>1, <1>2, ZombiesSame DEF RestOK
    <2>3. \A q : (Layout(q)' <=> Layout(q)) /\ (HeapOK(q)' <=> HeapOK(q))
      BY <1>2 DEF Layout, HeapOK
    <2>4. Parts'
      BY <1>1, <1>2, <2>1, <2>2, <2>3 DEF Parts
    <2> QED BY <2>4, InvFromParts, PTL
  <1>6. \A q \in Proc : \A w \in DOMAIN page_table[q] :
          content'[page_table[q][w]] = IF q = p /\ w = v THEN x ELSE content[page_table[q][w]]
    BY <1>1, <1>2, <1>3, <1>4 DEF SpacesInv, FramesApart
  <1> DEFINE m == [memory[p] EXCEPT ![v] = x]
  <1>7. \A q \in Proc : memory'[q] = [w \in DOMAIN page_table[q] |-> content'[page_table[q][w]]]
    BY <1>2 DEF memory
  <1>8. \A q \in Proc : memory[q] = [w \in DOMAIN page_table[q] |-> content[page_table[q][w]]]
    BY DEF memory
  <1>9. memory = [q \in Proc |-> memory[q]] /\ memory' = [q \in Proc |-> memory'[q]]
    BY DEF memory
  <1> HIDE DEF memory, f
  <1>10. memory'[p] = m
    <2>1. m = [w \in DOMAIN page_table[p] |-> IF w = v THEN x ELSE content[page_table[p][w]]]
      <3> DEFINE old == memory[p]
      <3>1. old = [w \in DOMAIN page_table[p] |-> content[page_table[p][w]]]
        BY <1>8
      <3> HIDE DEF old
      <3>2. DOMAIN old = DOMAIN page_table[p]
            /\ \A w \in DOMAIN page_table[p] : old[w] = content[page_table[p][w]]
        BY <3>1
      <3>3. [old EXCEPT ![v] = x] = [w \in DOMAIN old |-> IF w = v THEN x ELSE old[w]]
        OBVIOUS
      <3>4. [old EXCEPT ![v] = x]
            = [w \in DOMAIN page_table[p] |-> IF w = v THEN x ELSE content[page_table[p][w]]]
        BY <3>2, <3>3
      <3> QED BY <3>4 DEF old
    <2> HIDE DEF m
    <2>2. \A w \in DOMAIN page_table[p] :
            content'[page_table[p][w]] = IF w = v THEN x ELSE content[page_table[p][w]]
      BY <1>6
    <2>3. memory'[p] = [w \in DOMAIN page_table[p] |-> content'[page_table[p][w]]]
      BY <1>7
    <2> QED BY <2>1, <2>2, <2>3
  <1>11. \A q \in Proc : q # p => memory'[q] = memory[q]
    <2> SUFFICES ASSUME NEW q \in Proc, q # p PROVE memory'[q] = memory[q]
      OBVIOUS
    <2>1. \A w \in DOMAIN page_table[q] : content'[page_table[q][w]] = content[page_table[q][w]]
      BY <1>6
    <2>2. memory'[q] = [w \in DOMAIN page_table[q] |-> content'[page_table[q][w]]]
      BY <1>7
    <2>3. memory[q] = [w \in DOMAIN page_table[q] |-> content[page_table[q][w]]]
      BY <1>8
    <2> QED BY <2>1, <2>2, <2>3
  <1>12. memory' = [memory EXCEPT ![p] = m]
    <2> HIDE DEF m
    <2> QED BY <1>9, <1>10, <1>11
  <1>13. v \in DOMAIN memory[p]
    BY <1>2, <1>8
  <1> QED BY <1>5, <1>12, <1>13 DEF VM!Store, VM!Becomes, memory

LEMMA InitFacts ==
  ASSUME Init
  PROVE  Sound /\ ~remapped /\ VM!Init
  <1>1. PICK image \in Images, x \in Value :
          LET V == Sections(image) \cup Stack
              new == Fresh(V, Frame)
              data == ImageData(image, x)
          IN
          /\ areas = [p \in Proc |-> IF p = INITPROC THEN Loaded(image, new) ELSE None]
          /\ page_table = [p \in Proc |-> IF p = INITPROC THEN new ELSE None]
          /\ content = [f \in Frame |->
                          IF \E v \in V : new[v] = f THEN data[CHOOSE v \in V : new[v] = f]
                          ELSE Zero]
          /\ brk = [p \in Proc |-> IF p = INITPROC THEN ElfEnd(image) * PAGE_SIZE ELSE 0]
          /\ heap_start = [p \in Proc |-> IF p = INITPROC THEN ElfEnd(image) ELSE 0]
          /\ live = {INITPROC}
          /\ mmaps = [p \in Proc |-> 0]
          /\ zombies = [p \in Proc |-> None]
          /\ remapped = FALSE
          /\ panic = "no"
    BY DEF Init
  <1> DEFINE V == Sections(image) \cup Stack
             new == Fresh(V, Frame)
             data == ImageData(image, x)
             a == Loaded(image, new)
             e == ElfEnd(image)
  <1>2. new \in [V -> Frame] /\ Inj(new)
    <2>1. IsFiniteSet(V) /\ IsFiniteSet(Frame)
      BY ImagePages, PagesFinite, FramesFinite
    <2>2. HasFrames(V, Frame)
      BY FrameAssumption
    <2> QED BY <2>1, <2>2, FreshFrames
  <1>3. /\ areas = [p \in Proc |-> IF p = INITPROC THEN a ELSE None]
        /\ page_table = [p \in Proc |-> IF p = INITPROC THEN new ELSE None]
        /\ content = [f \in Frame |->
                        IF \E v \in V : new[v] = f THEN data[CHOOSE v \in V : new[v] = f]
                        ELSE Zero]
        /\ brk = [p \in Proc |-> IF p = INITPROC THEN e * PAGE_SIZE ELSE 0]
        /\ heap_start = [p \in Proc |-> IF p = INITPROC THEN e ELSE 0]
        /\ live = {INITPROC}
        /\ mmaps = [p \in Proc |-> 0]
        /\ panic = "no"
    BY <1>1
  <1>4. \A v \in V : data[v] \in Value
    BY ImagePages
  <1>5. data = [v \in V |-> data[v]]
    BY DEF ImageData
  <1>6. LayoutOf(a, e, 0) /\ HeapOf(a, e, e * PAGE_SIZE) /\ SpaceOK(a, new)
    BY <1>2, LoadedLayout, LoadedSpace
  <1>7. e \in Page /\ e * PAGE_SIZE \in Nat /\ 0 \in Page
    <2>1. e \in Nat /\ e < MMAP_START
      BY ElfEndFacts, SizesAssumption
    <2> HIDE DEF e
    <2> QED BY <2>1, SizesAssumption DEF Page
  <1>8. INITPROC \in Proc
    BY ProcAssumption
  <1>9. DOMAIN new = V
    BY <1>2
  <1> HIDE DEF new, data, a, e, V
  <1>10. SpacesInv
    <2>1. \A p \in Proc : SpaceOK(areas[p], page_table[p])
      BY <1>3, <1>6, EmptySpace
    <2>2. FramesApart
      <3> SUFFICES ASSUME NEW p \in Proc, NEW q \in Proc, NEW v \in DOMAIN page_table[p],
                          NEW w \in DOMAIN page_table[q], page_table[p][v] = page_table[q][w]
                   PROVE  p = q /\ v = w
        BY DEF FramesApart
      <3>1. p = INITPROC /\ q = INITPROC
        BY <1>3, EmptySpace
      <3> QED BY <3>1, <1>2, <1>3 DEF Inj
    <2>3. content \in [Frame -> Value]
      <3>1. \A f \in Frame : content[f] \in Value
        <4> SUFFICES ASSUME NEW f \in Frame PROVE content[f] \in Value
          OBVIOUS
        <4>1. CASE \E v \in V : new[v] = f
          <5>1. content[f] = data[CHOOSE v \in V : new[v] = f]
            BY <1>3, <4>1
          <5> QED BY <5>1, <4>1, <1>4
        <4>2. CASE ~\E v \in V : new[v] = f
          BY <1>3, <4>2, ValueAssumption
        <4> QED BY <4>1, <4>2
      <3> QED BY <1>3, <3>1
    <2> QED BY <1>3, <2>1, <2>2, <2>3 DEF SpacesInv
  <1>11. RestOK
    <2>1. DOMAIN None \subseteq Page /\ None \in [DOMAIN None -> Frame]
      BY EmptySpace DEF SpaceOK
    <2>2. ZombiesOK
      BY <1>1, <2>1 DEF ZombiesOK
    <2>3. remapped \in BOOLEAN
      BY <1>1
    <2> QED BY <1>3, <1>7, <1>8, <2>2, <2>3 DEF RestOK
  <1>12. \A p \in live : Layout(p) /\ HeapOK(p)
    <2>1. /\ areas[INITPROC] = a /\ heap_start[INITPROC] = e
          /\ brk[INITPROC] = e * PAGE_SIZE /\ mmaps[INITPROC] = 0
      BY <1>3, <1>8
    <2>2. Layout(INITPROC) /\ HeapOK(INITPROC)
      BY <1>6, <2>1, SpaceOf
    <2> QED BY <1>3, <2>2
  <1>13. \A p \in Proc \ live : areas[p] = None /\ page_table[p] = None
    BY <1>3
  <1>14. Sound
    <2>1. Parts
      BY <1>3, <1>10, <1>11, <1>12, <1>13 DEF Parts
    <2> QED BY <2>1, InvFromParts
  <1>15. VM!Init
    <2> DEFINE Programs == {ImageData(i, y) : i \in Images, y \in Value}
    <2>1. data \in Programs
      BY DEF data
    <2>2. ASSUME NEW p \in Proc PROVE memory[p] \in Programs \cup {[v \in {} |-> Zero]}
      <3>1. memory[p] = [v \in DOMAIN page_table[p] |-> content[page_table[p][v]]]
        BY DEF memory
      <3>2. CASE p = INITPROC
        <4>1. memory[p] = [v \in V |-> content[new[v]]]
          BY <3>1, <3>2, <1>3, <1>9
        <4>2. ASSUME NEW v \in V PROVE content[new[v]] = data[v]
          <5>1. new[v] \in Frame /\ \A w \in V : new[w] = new[v] => w = v
            BY <1>2, <1>9 DEF Inj
          <5>2. (CHOOSE w \in V : new[w] = new[v]) = v
            BY <5>1
          <5> QED BY <1>3, <5>1, <5>2
        <4>3. memory[p] = data
          BY <4>1, <4>2, <1>5
        <4> QED BY <4>3, <2>1
      <3>3. CASE p # INITPROC
        <4>1. page_table[p] = None
          BY <3>3, <1>3
        <4>2. memory[p] = [v \in {} |-> Zero]
          BY <3>1, <4>1, EmptySpace
        <4> QED BY <4>2
      <3> QED BY <3>2, <3>3
    <2>3. memory = [p \in Proc |-> memory[p]]
      BY DEF memory
    <2> HIDE DEF Programs, memory
    <2>4. memory \in [Proc -> Programs \cup {[v \in {} |-> Zero]}]
      BY <2>2, <2>3
    <2>5. (~remapped) = TRUE
      BY <1>1
    <2> QED BY <2>4, <2>5 DEF VM!Init, VM!Empty, memory, Programs
  <1> QED BY <1>1, <1>14, <1>15

-----------------------------------------------------------------------------
(* Theorems.                                                               *)

LEMMA NextFacts ==
  ASSUME Sound, [Next]_vars, ~remapped'
  PROVE  Sound' /\ (VM!Promised \/ memory' = memory)
  <1>1. CASE UNCHANGED vars
    <2>1. /\ areas' = areas /\ page_table' = page_table /\ brk' = brk /\ content' = content
          /\ heap_start' = heap_start /\ live' = live /\ mmaps' = mmaps /\ panic' = panic
          /\ zombies' = zombies /\ remapped' = remapped
      BY <1>1 DEF vars, heap
    <2>2. Parts
      BY InvParts
    <2>3. SpacesInv'
      BY <2>1, <2>2, SpacesSame DEF Parts
    <2>4. RestOK'
      BY <2>1, <2>2, ZombiesSame DEF Parts, RestOK
    <2>5. \A q : (Layout(q)' <=> Layout(q)) /\ (HeapOK(q)' <=> HeapOK(q))
      BY <2>1 DEF Layout, HeapOK
    <2>6. Parts'
      BY <2>1, <2>2, <2>3, <2>4, <2>5 DEF Parts
    <2>7. Sound'
      BY <2>6, InvFromParts, PTL
    <2> QED BY <2>1, <2>7 DEF memory
  <1>2. ASSUME NEW p \in Proc, NEW n \in 0 .. MaxBrk, set_user_brk(p, n)
        PROVE  Sound' /\ (VM!Promised \/ memory' = memory)
    <2>1. Sound' /\ (VM!Grow(p) \/ VM!Shrink(p) \/ memory' = memory)
      BY <1>2, BrkStep
    <2> QED BY <2>1 DEF VM!Promised
  <1>3. ASSUME NEW p \in Proc, NEW len \in 0 .. MaxLen, sys_mmap(p, len)
        PROVE  Sound' /\ (VM!Promised \/ memory' = memory)
    <2>1. Sound' /\ (VM!Grow(p) \/ memory' = memory)
      BY <1>3, MmapStep
    <2> QED BY <2>1 DEF VM!Promised
  <1>4. ASSUME NEW p \in Proc, NEW image \in Images, NEW x \in Value, exec(p, image, x)
        PROVE  Sound' /\ (VM!Promised \/ memory' = memory)
    <2>1. Sound' /\ (VM!Load(p, ImageData(image, x)) \/ memory' = memory)
      BY <1>4, ExecStep
    <2>2. ImageData(image, x) \in {ImageData(i, y) : i \in Images, y \in Value}
      OBVIOUS
    <2> QED BY <2>1, <2>2 DEF VM!Promised
  <1>5. ASSUME NEW p \in Proc, NEW q \in Proc, fork(p, q)
        PROVE  Sound' /\ (VM!Promised \/ memory' = memory)
    <2>1. Sound' /\ (VM!Copy(p, q) \/ memory' = memory)
      BY <1>5, ForkStep
    <2> QED BY <2>1 DEF VM!Promised
  <1>6. ASSUME NEW p \in Proc, exit(p)
        PROVE  Sound' /\ (VM!Promised \/ memory' = memory)
    <2>1. Sound' /\ VM!End(p)
      BY <1>6, ExitStep
    <2> QED BY <2>1 DEF VM!Promised
  <1>7. ASSUME NEW p \in Proc, reap(p)
        PROVE  Sound' /\ (VM!Promised \/ memory' = memory)
    BY <1>7, ReapStep
  <1>8. ASSUME NEW p \in Proc, NEW v \in Page, NEW x \in Value, Store(p, v, x)
        PROVE  Sound' /\ (VM!Promised \/ memory' = memory)
    <2>1. Sound' /\ VM!Store(p, v, x)
      BY <1>8, StoreStep
    <2> QED BY <2>1 DEF VM!Promised
  <1> QED BY <1>1, <1>2, <1>3, <1>4, <1>5, <1>6, <1>7, <1>8 DEF Next

\* Once a program has called mmap twice, it has.
LEMMA RemappedForGood ==
  ASSUME [Next]_vars, remapped
  PROVE  remapped'
  <1>1. CASE UNCHANGED vars
    BY <1>1 DEF vars
  <1>2. CASE Next
    BY <1>2 DEF Next, set_user_brk, sys_mmap, exec, fork, exit, reap, Store
  <1> QED BY <1>1, <1>2

(* The inductive invariant holds in every state, whatever brk, mmap, exec, *)
(* fork, exit, reaping and the programs' stores do, and when the frames    *)
(* run out, until a program calls mmap twice before its next exec.         *)
THEOREM Invariance == Spec => []MemoryInv
  <1>1. Init => MemoryInv
    BY InitFacts DEF MemoryInv
  <1>2. ASSUME MemoryInv, [Next]_vars PROVE MemoryInv'
    <2>1. CASE remapped'
      BY <2>1 DEF MemoryInv
    <2>2. CASE ~remapped'
      <3>1. ~remapped
        BY <1>2, <2>2, RemappedForGood
      <3>2. Sound
        BY <1>2, <3>1 DEF MemoryInv
      <3>3. Sound'
        BY <1>2, <2>2, <3>2, NextFacts
      <3> QED BY <3>3 DEF MemoryInv
    <2> QED BY <2>1, <2>2
  <1> QED BY <1>1, <1>2, PTL DEF Spec

(* The page table of a running process maps exactly what its areas own, to *)
(* the frames they own: MapArea's data_frames and the entries of the table *)
(* are changed together, until a program calls mmap twice.                 *)
THEOREM Ownership == Spec => []MappedIsOwned
  <1>1. MemoryInv => MappedIsOwned
    BY DEF MemoryInv, Sound, MappedIsOwned
  <1> QED BY <1>1, Invariance, PTL

(* No frame is mapped twice, by one running process or by two: fork        *)
(* copies.  Until a program calls mmap twice.                              *)
THEOREM Isolation == Spec => []NoAliasing
  <1>1. MemoryInv => NoAliasing
    BY DEF MemoryInv, Sound, NoAliasing
  <1> QED BY <1>1, Invariance, PTL

(* The heap area ends with the page of the break that brk recorded, until  *)
(* a program calls mmap twice.                                             *)
THEOREM Heap == Spec => []HeapEndsAtBrk
  <1>1. MemoryInv => HeapEndsAtBrk
    BY DEF MemoryInv, Sound, HeapEndsAtBrk
  <1> QED BY <1>1, Invariance, PTL

(* The assertions of PageTable::map and unmap, that no page is mapped over *)
(* another and no invalid page is unmapped, hold until a program calls     *)
(* mmap twice: the second mmap is the only thing that makes them fail.     *)
THEOREM Assertions == Spec => []AssertionsUntilRemap
  <1>1. MemoryInv => AssertionsUntilRemap
    BY DEF MemoryInv, Sound, AssertionsUntilRemap
  <1> QED BY <1>1, Invariance, PTL

(* Areas, page tables and frames implement a private memory per process,   *)
(* a promise that ends when a program calls mmap twice.                    *)
THEOREM Refinement == Spec => ImplementsVirtualMemory
  <1>1. Init => VM!Init
    BY InitFacts
  <1>2. ASSUME MemoryInv, [Next]_vars PROVE [VM!Next]_<<memory, ~remapped>>
    <2>1. CASE remapped'
      <3>1. (~remapped)' = FALSE
        BY <2>1
      <3> QED BY <3>1 DEF VM!Next
    <2>2. CASE ~remapped'
      <3>1. ~remapped
        BY <1>2, <2>2, RemappedForGood
      <3>2. Sound
        BY <1>2, <3>1 DEF MemoryInv
      <3>3. VM!Promised \/ memory' = memory
        BY <1>2, <2>2, <3>2, NextFacts
      <3>4. (~remapped)' = ~remapped
        BY <2>2, <3>1
      <3> QED BY <3>1, <3>3, <3>4 DEF VM!Next
    <2> QED BY <2>1, <2>2
  <1>3. Spec => []MemoryInv
    BY Invariance
  <1> QED BY <1>1, <1>2, <1>3, PTL DEF Spec, ImplementsVirtualMemory, VM!Spec, memory
=============================================================================
