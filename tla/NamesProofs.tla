---------------------------- MODULE NamesProofs ----------------------------
(***************************************************************************)
(* Theorems about Names, for any volume, any paths, flags and buffers that *)
(* programs use and any number of descriptors.                             *)
(***************************************************************************)
EXTENDS Names, FiniteSetTheorems, WellFoundedInduction, TLAPS

\* Min of a set of positions is one of them and the least.
LEMMA SmallestIndex ==
  ASSUME NEW S \in SUBSET Nat, S # {}
  PROVE  Min(S) \in S /\ \A n \in S : Min(S) <= n
  <1>1. PICK m \in S : \A n \in S : ~(<<n, m>> \in OpToRel(<, Nat))
    BY NatLessThanWellFounded, WFMin, Zenon
  <1>2. ASSUME NEW n \in S PROVE ~(n < m)
    <2>1. n \in Nat /\ m \in Nat
      OBVIOUS
    <2> QED BY <1>1, <2>1, Zenon DEF OpToRel
  <1>3. \A n \in S : m <= n
    BY <1>2
  <1> QED BY <1>3 DEF Min

-----------------------------------------------------------------------------
(* Chains of clusters: what the FAT fa leads to from x.                    *)

FatType == [Cluster -> Cluster \cup {None, Free}]

\* The set S has x and whatever follows on its members.
Leads(fa, x, S) ==
  /\ S \subseteq Cluster
  /\ x \in Cluster => x \in S
  /\ \A y \in S : fa[y] \in Cluster => fa[y] \in S

Reach(fa, x) == {c \in Cluster : \A S \in SUBSET Cluster : Leads(fa, x, S) => c \in S}

\* Names's Chain is Reach in the current FAT.
LEMMA ChainIsReach ==
  ASSUME NEW x
  PROVE  Chain(x) = Reach(fat, x)
  <1>1. \A S \in SUBSET Cluster :
          (({x} \cup {fat[y] : y \in S}) \cap Cluster \subseteq S) <=> Leads(fat, x, S)
    BY DEF Leads
  <1> QED BY <1>1 DEF Chain, Reach

\* A chain has its first cluster and whatever follows on its members.
LEMMA ReachFacts ==
  ASSUME NEW fa, NEW x
  PROVE  /\ Leads(fa, x, Reach(fa, x))
         /\ \A S : Leads(fa, x, S) => Reach(fa, x) \subseteq S
         /\ x \notin Cluster => Reach(fa, x) = {}
  <1>1. \A S : Leads(fa, x, S) => Reach(fa, x) \subseteq S
    BY DEF Reach, Leads
  <1>2. Reach(fa, x) \subseteq Cluster /\ (x \in Cluster => x \in Reach(fa, x))
    BY DEF Reach, Leads
  <1>3. ASSUME NEW y \in Reach(fa, x), fa[y] \in Cluster PROVE fa[y] \in Reach(fa, x)
    <2>1. \A S \in SUBSET Cluster : Leads(fa, x, S) => y \in S
      BY DEF Reach
    <2>2. \A S \in SUBSET Cluster : Leads(fa, x, S) => fa[y] \in S
      BY <1>3, <2>1 DEF Leads
    <2> QED BY <1>3, <2>2 DEF Reach
  <1>4. ASSUME x \notin Cluster PROVE Reach(fa, x) = {}
    <2>1. Leads(fa, x, {})
      BY <1>4 DEF Leads
    <2> QED BY <1>1, <2>1
  <1> QED BY <1>1, <1>2, <1>3, <1>4 DEF Leads

\* A chain does not change when its clusters keep their successors.
LEMMA ReachSame ==
  ASSUME NEW fa, NEW fb, NEW x, \A c \in Reach(fa, x) : fb[c] = fa[c]
  PROVE  Reach(fb, x) = Reach(fa, x)
  <1>1. Leads(fa, x, Reach(fa, x)) /\ Leads(fb, x, Reach(fb, x))
    BY ReachFacts
  <1>2. Leads(fb, x, Reach(fa, x))
    BY <1>1 DEF Leads
  <1>3. Reach(fb, x) \subseteq Reach(fa, x)
    BY <1>2, ReachFacts
  <1>4. Leads(fa, x, Reach(fb, x))
    BY <1>1, <1>3 DEF Leads
  <1> QED BY <1>3, <1>4, ReachFacts

\* A chain of one cluster.
LEMMA ReachOne ==
  ASSUME NEW fa, NEW x \in Cluster, fa[x] \notin Cluster
  PROVE  Reach(fa, x) = {x}
  <1>1. Leads(fa, x, {x})
    BY DEF Leads
  <1>2. x \in Reach(fa, x)
    BY ReachFacts DEF Leads
  <1> QED BY <1>1, <1>2, ReachFacts

\* alloc_cluster hangs a new cluster to the last one.
LEMMA ReachGrow ==
  ASSUME NEW fa, NEW fb, NEW x, NEW prev \in Reach(fa, x), fa[prev] \notin Cluster,
         NEW new \in Cluster \ Reach(fa, x), fb[new] \notin Cluster, fb[prev] = new,
         \A c \in Reach(fa, x) \ {prev} : fb[c] = fa[c]
  PROVE  Reach(fb, x) = Reach(fa, x) \cup {new}
  <1> DEFINE A == Reach(fa, x)
             B == Reach(fb, x)
  <1>1. Leads(fa, x, A) /\ Leads(fb, x, B) /\ x \in Cluster
    BY ReachFacts
  <1> HIDE DEF A, B
  <1>2. Leads(fb, x, A \cup {new})
    BY <1>1 DEF Leads, A
  <1>3. B \subseteq A \cup {new}
    BY <1>2, ReachFacts DEF B
  <1>4. Leads(fa, x, B \ {new})
    <2>1. x # new
      BY <1>1 DEF Leads, A
    <2>2. ASSUME NEW y \in B \ {new}, fa[y] \in Cluster PROVE fa[y] \in B \ {new}
      <3>1. y \in A /\ y # prev
        BY <1>3, <2>2
      <3>2. fb[y] = fa[y] /\ fa[y] \in A
        BY <1>1, <2>2, <3>1 DEF Leads, A
      <3>3. fa[y] \in B
        BY <1>1, <2>2, <3>2 DEF Leads
      <3> QED BY <3>2, <3>3 DEF A
    <2> QED BY <1>1, <2>1, <2>2 DEF Leads
  <1>5. A \subseteq B \ {new}
    BY <1>4, ReachFacts DEF A
  <1>6. new \in B
    BY <1>1, <1>5 DEF Leads, A
  <1> QED BY <1>3, <1>5, <1>6 DEF A, B

-----------------------------------------------------------------------------
(* The accounts: E are the entries of the volume, g[s] the first cluster   *)
(* of entry s.  Chains are disjoint, and they are what is in use.          *)

Accounts(fa, E, g) ==
  /\ fa \in FatType
  /\ \A s \in E : g[s] \in Cluster \cup {None}
  /\ \A s \in E : \A c \in Reach(fa, g[s]) : fa[c] # Free
  /\ \A s, t \in E : s # t => Reach(fa, g[s]) \cap Reach(fa, g[t]) = {}
  /\ \A c \in Cluster : fa[c] # Free => \E s \in E : c \in Reach(fa, g[s])

\* The marks of the FAT are no clusters.
LEMMA Symbols ==
  /\ None \notin Cluster /\ Free \notin Cluster /\ None # Free
  /\ Root \notin Cluster /\ Root # None
  BY NamesAssumption

\* What a chain leads to.
LEMMA AccountNext ==
  ASSUME NEW fa, NEW E, NEW g, Accounts(fa, E, g), NEW s \in E, NEW c \in Reach(fa, g[s])
  PROVE  /\ c \in Cluster /\ fa[c] \in Cluster \cup {None} /\ g[s] \in Reach(fa, g[s])
         /\ fa[c] # None => fa[c] \in Reach(fa, g[s])
  <1>1. Leads(fa, g[s], Reach(fa, g[s])) /\ (g[s] \notin Cluster => Reach(fa, g[s]) = {})
    BY ReachFacts
  <1>2. fa[c] # Free /\ c \in Cluster
    BY <1>1 DEF Accounts, Leads
  <1> QED BY <1>1, <1>2 DEF Accounts, Leads, FatType

\* Entries with the same first clusters.
LEMMA AccountSame ==
  ASSUME NEW fa, NEW E, NEW g, NEW h, Accounts(fa, E, g), \A s \in E : h[s] = g[s]
  PROVE  Accounts(fa, E, h)
  BY DEF Accounts

\* A new file has no cluster.
LEMMA AccountFile ==
  ASSUME NEW fa, NEW E, NEW g, NEW h, Accounts(fa, E, g),
         NEW s, s \notin E, NEW F, F = E \cup {s}, \A t \in E : h[t] = g[t], h[s] = None
  PROVE  Accounts(fa, F, h)
  <1>1. Reach(fa, h[s]) = {}
    BY Symbols, ReachFacts
  <1> QED BY <1>1 DEF Accounts

\* A new directory, or the first cluster of a file.
LEMMA AccountFirst ==
  ASSUME NEW fa, NEW E, NEW g, NEW h, Accounts(fa, E, g),
         NEW s, s \notin E, NEW F, F = E \cup {s}, NEW c \in Cluster, fa[c] = Free,
         \A t \in E : h[t] = g[t], h[s] = c,
         NEW fb, fb = [x \in Cluster |-> IF x = c THEN None ELSE fa[x]]
  PROVE  /\ Accounts(fb, F, h)
         /\ \A t \in E : Reach(fb, h[t]) = Reach(fa, g[t])
  <1>1. Reach(fb, h[s]) = {c}
    BY Symbols, ReachOne
  <1>2. ASSUME NEW t \in E PROVE Reach(fb, h[t]) = Reach(fa, g[t])
    <2>1. \A x \in Reach(fa, g[t]) : x \in Cluster /\ fb[x] = fa[x]
      BY AccountNext DEF Accounts
    <2> QED BY <2>1, ReachSame
  <1>3. \A t \in E : c \notin Reach(fa, g[t])
    BY DEF Accounts
  <1>4. fb \in FatType
    BY DEF Accounts, FatType
  <1>5. \A t \in F : h[t] \in Cluster \cup {None} /\ \A x \in Reach(fb, h[t]) : fb[x] # Free
    <2>1. ASSUME NEW t \in E, NEW x \in Reach(fb, h[t]) PROVE fb[x] # Free
      BY <1>2, <2>1, Symbols, AccountNext DEF Accounts
    <2> QED BY <1>1, <2>1, Symbols DEF Accounts
  <1>6. \A t, u \in F : t # u => Reach(fb, h[t]) \cap Reach(fb, h[u]) = {}
    BY <1>1, <1>2, <1>3 DEF Accounts
  <1>7. ASSUME NEW x \in Cluster, fb[x] # Free PROVE \E t \in F : x \in Reach(fb, h[t])
    <2>1. CASE x = c
      BY <1>1, <2>1
    <2>2. CASE x # c
      <3>1. PICK t \in E : x \in Reach(fa, g[t])
        BY <1>7, <2>2 DEF Accounts
      <3> QED BY <1>2, <3>1
    <2> QED BY <2>1, <2>2
  <1> QED BY <1>2, <1>4, <1>5, <1>6, <1>7 DEF Accounts

\* free_cluster_chain: the entry s goes, with its clusters.
LEMMA AccountFreed ==
  ASSUME NEW fa, NEW E, NEW g, NEW h, Accounts(fa, E, g),
         NEW s \in E, NEW F, F = E \ {s}, \A t \in F : h[t] = g[t],
         NEW fb, fb = [c \in Cluster |-> IF c \in Reach(fa, g[s]) THEN Free ELSE fa[c]]
  PROVE  /\ Accounts(fb, F, h)
         /\ \A t \in F : Reach(fb, h[t]) = Reach(fa, g[t])
  <1>1. ASSUME NEW t \in F PROVE Reach(fb, h[t]) = Reach(fa, g[t])
    <2>1. \A x \in Reach(fa, g[t]) : x \in Cluster /\ fb[x] = fa[x]
      BY AccountNext DEF Accounts
    <2> QED BY <2>1, ReachSame
  <1>2. fb \in FatType
    BY DEF Accounts, FatType
  <1>3. ASSUME NEW t \in F, NEW x \in Reach(fb, h[t]) PROVE fb[x] # Free
    <2>1. x \in Reach(fa, g[t]) /\ x \notin Reach(fa, g[s]) /\ fa[x] # Free /\ x \in Cluster
      BY <1>1, <1>3, AccountNext DEF Accounts
    <2> QED BY <2>1
  <1>4. ASSUME NEW x \in Cluster, fb[x] # Free PROVE \E t \in F : x \in Reach(fb, h[t])
    <2>1. x \notin Reach(fa, g[s]) /\ fa[x] # Free
      BY <1>4
    <2>2. PICK t \in E : x \in Reach(fa, g[t])
      BY <2>1 DEF Accounts
    <2> QED BY <1>1, <2>1, <2>2
  <1>5. \A t \in F : h[t] \in Cluster \cup {None}
    BY DEF Accounts
  <1>6. \A t, u \in F : t # u => Reach(fb, h[t]) \cap Reach(fb, h[u]) = {}
    BY <1>1 DEF Accounts
  <1> QED BY <1>1, <1>2, <1>3, <1>4, <1>5, <1>6 DEF Accounts

\* The chain of the file s gets longer.
LEMMA AccountGrown ==
  ASSUME NEW fa, NEW E, NEW g, Accounts(fa, E, g),
         NEW s \in E, NEW prev \in Reach(fa, g[s]), fa[prev] = None,
         NEW c \in Cluster, fa[c] = Free,
         NEW fb, fb = [x \in Cluster |-> IF x = c THEN None ELSE IF x = prev THEN c ELSE fa[x]]
  PROVE  /\ Accounts(fb, E, g)
         /\ c \in Reach(fb, g[s]) /\ Reach(fa, g[s]) \subseteq Reach(fb, g[s])
         /\ \A t \in E \ {s} : Reach(fb, g[t]) = Reach(fa, g[t])
  <1>1. c \notin Reach(fa, g[s]) /\ prev \in Cluster /\ prev # c
    BY AccountNext, Symbols DEF Accounts
  <1>2. Reach(fb, g[s]) = Reach(fa, g[s]) \cup {c}
    <2>1. \A x \in Reach(fa, g[s]) \ {prev} : fb[x] = fa[x]
      BY <1>1, AccountNext
    <2>2. fb[c] = None /\ fb[prev] = c
      BY <1>1
    <2> QED BY <1>1, <2>1, <2>2, Symbols, ReachGrow
  <1>3. ASSUME NEW t \in E \ {s} PROVE Reach(fb, g[t]) = Reach(fa, g[t])
    <2>1. \A x \in Reach(fa, g[t]) : x \in Cluster /\ x # c /\ x # prev
      <3>1. Reach(fa, g[s]) \cap Reach(fa, g[t]) = {}
        BY DEF Accounts
      <3>2. \A x \in Reach(fa, g[t]) : x \in Cluster /\ fa[x] # Free
        BY AccountNext DEF Accounts
      <3> QED BY <3>1, <3>2
    <2>2. \A x \in Reach(fa, g[t]) : fb[x] = fa[x]
      BY <2>1
    <2> QED BY <2>2, ReachSame
  <1>4. fb \in FatType
    BY DEF Accounts, FatType
  <1>5. \A t \in E : c \notin Reach(fa, g[t])
    BY DEF Accounts
  <1>6. ASSUME NEW t \in E, NEW x \in Reach(fb, g[t]) PROVE fb[x] # Free
    <2>1. x = c \/ (x \in Cluster /\ fa[x] # Free)
      BY <1>2, <1>3, <1>6, AccountNext, ZenonT(40) DEF Accounts
    <2> QED BY <2>1, Symbols
  <1>7. \A t, u \in E : t # u => Reach(fb, g[t]) \cap Reach(fb, g[u]) = {}
    BY <1>2, <1>3, <1>5 DEF Accounts
  <1>8. ASSUME NEW x \in Cluster, fb[x] # Free PROVE \E t \in E : x \in Reach(fb, g[t])
    <2>1. CASE x = c
      BY <1>2, <2>1
    <2>2. CASE x # c
      <3>1. fa[x] # Free
        BY <1>8, <2>2, Symbols
      <3>2. PICK t \in E : x \in Reach(fa, g[t])
        BY <3>1 DEF Accounts
      <3> QED BY <1>2, <1>3, <3>2
    <2> QED BY <2>1, <2>2
  <1>9. \A t \in E : g[t] \in Cluster \cup {None}
    BY DEF Accounts
  <1> QED BY <1>2, <1>3, <1>4, <1>6, <1>7, <1>8, <1>9 DEF Accounts

-----------------------------------------------------------------------------
(* The slots sl of all directories: a tree.                                *)

Dirs == Cluster \cup {Root}
Piece == Name \cup {"", ".", ".."}
Slot == [name : Piece, kind : {"file", "dir", "deleted"},
         cluster : Dirs \cup {None}, size : Nat]
SlotsType == [Dirs -> Seq(Slot)]

UsedIn(sl, d) == {i \in DOMAIN sl[d] : sl[d][i].kind # "deleted"}
Alike(sl, d, name) == {i \in UsedIn(sl, d) : Upper(sl[d][i].name) = Upper(name)}

IsEntry(sl, d, i) == d \in Dirs /\ i \in UsedIn(sl, d) /\ (d = Root \/ i > 2)
IsDir(sl, d, i) == IsEntry(sl, d, i) /\ sl[d][i].kind = "dir"
IsFile(sl, d, i) == IsEntry(sl, d, i) /\ sl[d][i].kind = "file"

\* The directory c, whose entry is in d.
Begins(sl, c, d) ==
  /\ c \in Cluster /\ {1, 2} \subseteq DOMAIN sl[c]
  /\ sl[c][1] = DirSlot(".", c) /\ sl[c][2] = DirSlot("..", d)

\* A directory that the walk of a path may come to.
Exists(sl, d) == d = Root \/ (d \in Cluster /\ DOMAIN sl[d] # {})

\* Whatever has slots is entered somewhere, begins with "." and "..", and is
\* entered once; and the names of a directory differ.
Housed(sl) ==
  \A c \in Cluster : DOMAIN sl[c] # {} => \E d, i : IsDir(sl, d, i) /\ sl[d][i].cluster = c
Dotted(sl) ==
  \A d, i : IsDir(sl, d, i) => Begins(sl, sl[d][i].cluster, d)
Single(sl) ==
  \A d, i, b, j : IsDir(sl, d, i) /\ IsDir(sl, b, j) /\ sl[d][i].cluster = sl[b][j].cluster
                    => d = b /\ i = j
Distinct(sl) ==
  \A d, i : IsEntry(sl, d, i) => sl[d][i].name # "" /\ Alike(sl, d, sl[d][i].name) = {i}

IsTree(sl) == sl \in SlotsType /\ Housed(sl) /\ Dotted(sl) /\ Single(sl) /\ Distinct(sl)

LEMMA SlotFacts ==
  ASSUME NEW sl \in SlotsType, NEW d \in Dirs
  PROVE  /\ sl[d] \in Seq(Slot) /\ DOMAIN sl[d] = 1 .. Len(sl[d]) /\ Len(sl[d]) \in Nat
         /\ \A i \in DOMAIN sl[d] : sl[d][i] \in Slot /\ i \in Nat /\ i > 0
         /\ UsedIn(sl, d) \subseteq DOMAIN sl[d]
  <1>1. sl[d] \in Seq(Slot)
    BY DEF SlotsType
  <1>2. DOMAIN sl[d] = 1 .. Len(sl[d]) /\ Len(sl[d]) \in Nat
    BY <1>1
  <1>3. \A i \in DOMAIN sl[d] : sl[d][i] \in Slot /\ i \in Nat /\ i > 0
    BY <1>1, <1>2
  <1> QED BY <1>1, <1>2, <1>3 DEF UsedIn

LEMMA DirSlotFacts ==
  ASSUME NEW name, NEW c
  PROVE  /\ DirSlot(name, c).kind = "dir" /\ DirSlot(name, c).cluster = c
         /\ DirSlot(name, c).name = name /\ DirSlot(name, c).size = 0
         /\ FileSlot(name).kind = "file" /\ FileSlot(name).cluster = None
         /\ FileSlot(name).name = name /\ FileSlot(name).size = 0
         /\ Deleted.kind = "deleted"
  BY DEF DirSlot, FileSlot, Deleted

\* A directory other than the root has its first two slots in use.
LEMMA ExistsFacts ==
  ASSUME NEW sl, IsTree(sl), NEW c \in Cluster, Exists(sl, c)
  PROVE  \E d, i : /\ IsDir(sl, d, i) /\ sl[d][i].cluster = c /\ Begins(sl, c, d) /\ Exists(sl, d)
                   /\ {1, 2} \subseteq UsedIn(sl, c)
  <1>1. PICK d, i : IsDir(sl, d, i) /\ sl[d][i].cluster = c
    BY Symbols DEF IsTree, Housed, Exists
  <1>2. Begins(sl, c, d)
    BY <1>1 DEF IsTree, Dotted
  <1>3. {1, 2} \subseteq UsedIn(sl, c)
    BY <1>2, DirSlotFacts DEF Begins, UsedIn
  <1>4. Exists(sl, d)
    BY <1>1 DEF IsDir, IsEntry, UsedIn, Exists, Dirs
  <1> QED BY <1>1, <1>2, <1>3, <1>4

\* One slot is written; c, if it is a cluster, becomes or was a directory
\* without entries.
Edit(sl, sm, d, i, e, c) ==
  /\ sl \in SlotsType /\ sm \in SlotsType /\ d \in Dirs /\ i \in Nat /\ (d = Root \/ i > 2) /\ d # c
  /\ \A b \in Dirs \ {d, c} : sm[b] = sl[b]
  /\ DOMAIN sm[d] = DOMAIN sl[d] \cup {i} /\ sm[d][i] = e
  /\ \A j \in DOMAIN sl[d] \ {i} : sm[d][j] = sl[d][j]
  /\ c \in Dirs => \A j : ~IsEntry(sl, c, j) /\ ~IsEntry(sm, c, j)

\* What is an entry after one slot has changed.
LEMMA EditEntries ==
  ASSUME NEW sl, NEW sm, NEW d, NEW i, NEW e, NEW c, Edit(sl, sm, d, i, e, c)
  PROVE  /\ IsEntry(sm, d, i) <=> e.kind # "deleted"
         /\ \A b, j : ~(b = d /\ j = i) => /\ IsEntry(sm, b, j) <=> IsEntry(sl, b, j)
                                           /\ IsEntry(sl, b, j) => sm[b][j] = sl[b][j]
         /\ \A b, name : b \in Dirs \ {d, c} => Alike(sm, b, name) = Alike(sl, b, name)
         /\ \A name : Alike(sm, d, name) = (Alike(sl, d, name) \ {i}) \cup
                        {j \in {i} : e.kind # "deleted" /\ Upper(e.name) = Upper(name)}
  <1>1. UsedIn(sm, d) = (UsedIn(sl, d) \ {i}) \cup {j \in {i} : e.kind # "deleted"}
    BY DEF Edit, UsedIn
  <1>2. \A j \in UsedIn(sl, d) \ {i} : sm[d][j] = sl[d][j]
    BY DEF Edit, UsedIn
  <1>3. IsEntry(sm, d, i) <=> e.kind # "deleted"
    BY <1>1 DEF IsEntry, Edit
  <1>4. ASSUME NEW b, NEW j, ~(b = d /\ j = i)
        PROVE  (IsEntry(sm, b, j) <=> IsEntry(sl, b, j)) /\ (IsEntry(sl, b, j) => sm[b][j] = sl[b][j])
    <2>1. CASE b = d
      BY <1>1, <1>2, <1>4, <2>1 DEF IsEntry
    <2>2. CASE b \in Dirs /\ b = c
      BY <2>2 DEF Edit
    <2>3. CASE b \in Dirs \ {d, c}
      <3>1. sm[b] = sl[b]
        BY <2>3 DEF Edit
      <3> QED BY <3>1 DEF IsEntry, UsedIn
    <2>4. CASE b \notin Dirs
      BY <2>4 DEF IsEntry
    <2> QED BY <2>1, <2>2, <2>3, <2>4
  <1>5. ASSUME NEW b \in Dirs \ {d, c}, NEW name PROVE Alike(sm, b, name) = Alike(sl, b, name)
    <2>1. sm[b] = sl[b]
      BY DEF Edit
    <2> QED BY <2>1 DEF Alike, UsedIn
  <1>6. sm[d][i] = e
    BY DEF Edit
  <1>7. ASSUME NEW name
        PROVE  Alike(sm, d, name) = (Alike(sl, d, name) \ {i}) \cup
                 {j \in {i} : e.kind # "deleted" /\ Upper(e.name) = Upper(name)}
    BY <1>1, <1>2, <1>6 DEF Alike
  <1> QED BY <1>3, <1>4, <1>5, <1>7

\* What an edit leaves of the beginning of another directory.
LEMMA BeginsKept ==
  ASSUME NEW sl, NEW sm, NEW d, NEW i, NEW e, NEW c, Edit(sl, sm, d, i, e, c),
         NEW x, NEW b, x # c, Begins(sl, x, b)
  PROVE  Begins(sm, x, b)
  <1>1. CASE x = d
    <2>1. x # Root /\ i > 2 /\ i \in Nat
      BY <1>1, Symbols DEF Begins, Edit
    <2>2. 1 # i /\ 2 # i
      BY <2>1
    <2>3. 1 \in DOMAIN sl[d] \ {i} /\ 2 \in DOMAIN sl[d] \ {i}
      BY <1>1, <2>2 DEF Begins
    <2>4. sm[d][1] = sl[d][1] /\ sm[d][2] = sl[d][2] /\ {1, 2} \subseteq DOMAIN sm[d]
      BY <2>3 DEF Edit
    <2> QED BY <1>1, <2>4 DEF Begins
  <1>2. CASE x # d
    <2>1. sm[x] = sl[x]
      BY <1>2 DEF Edit, Begins, Dirs
    <2> QED BY <2>1 DEF Begins
  <1> QED BY <1>1, <1>2

\* The name of the written slot is the only one of its kind.
NewName(sl, d, i, e) ==
  /\ e.name # ""
  /\ \/ IsEntry(sl, d, i) /\ sl[d][i].name = e.name
     \/ i \notin UsedIn(sl, d) /\ Alike(sl, d, e.name) = {}

\* Names still differ after one slot has changed.
LEMMA EditNames ==
  ASSUME NEW sl, NEW sm, NEW d, NEW i, NEW e, NEW c, Edit(sl, sm, d, i, e, c), IsTree(sl),
         e.kind = "deleted" \/ NewName(sl, d, i, e)
  PROVE  Distinct(sm)
  <1> SUFFICES ASSUME NEW b, NEW j, IsEntry(sm, b, j)
               PROVE  sm[b][j].name # "" /\ Alike(sm, b, sm[b][j].name) = {j}
    BY DEF Distinct
  <1>1. CASE b = d /\ j = i
    <2>1. e.kind # "deleted" /\ sm[d][i] = e
      <3>1. sm[d][i] = e
        BY DEF Edit
      <3> QED BY <1>1, <3>1 DEF IsEntry, UsedIn
    <2>2. Alike(sl, d, e.name) \subseteq {i}
      BY <2>1 DEF NewName, IsTree, Distinct
    <2>3. Alike(sm, d, e.name) = (Alike(sl, d, e.name) \ {i}) \cup {i}
      BY <2>1, EditEntries
    <2> QED BY <1>1, <2>1, <2>2, <2>3 DEF NewName
  <1>2. CASE b = d /\ j # i
    <2>1. IsEntry(sl, d, j) /\ sm[d][j] = sl[d][j]
      BY <1>2, EditEntries
    <2> DEFINE name == sl[d][j].name
    <2>2. name # "" /\ Alike(sl, d, name) = {j}
      BY <2>1 DEF IsTree, Distinct
    <2>3. e.kind # "deleted" => Upper(e.name) # Upper(name)
      <3> SUFFICES ASSUME e.kind # "deleted", Upper(e.name) = Upper(name) PROVE FALSE
        OBVIOUS
      <3>1. Alike(sl, d, e.name) = Alike(sl, d, name)
        BY DEF Alike
      <3>2. Alike(sl, d, e.name) \subseteq {i}
        BY DEF NewName, IsTree, Distinct
      <3> QED BY <1>2, <2>2, <3>1, <3>2
    <2>4. Alike(sm, d, name) = (Alike(sl, d, name) \ {i}) \cup
                        {k \in {i} : e.kind # "deleted" /\ Upper(e.name) = Upper(name)}
      BY EditEntries
    <2>5. Alike(sm, d, name) = {j}
      BY <1>2, <2>2, <2>3, <2>4
    <2> QED BY <1>2, <2>1, <2>2, <2>5
  <1>3. CASE b # d
    <2>1. IsEntry(sl, b, j) /\ sm[b][j] = sl[b][j]
      BY <1>3, EditEntries
    <2>2. b \in Dirs \ {d, c}
      BY <1>3, <2>1 DEF IsEntry, Edit
    <2>3. Alike(sm, b, sl[b][j].name) = Alike(sl, b, sl[b][j].name)
      BY <2>2, EditEntries
    <2> QED BY <2>1, <2>3 DEF IsTree, Distinct
  <1> QED BY <1>1, <1>2, <1>3

\* A file is made, changed or removed.
LEMMA TreeFile ==
  ASSUME NEW sl, NEW sm, NEW d, NEW i, NEW e, Edit(sl, sm, d, i, e, None), IsTree(sl),
         Exists(sl, d), ~IsDir(sl, d, i), e.kind # "dir",
         e.kind = "deleted" \/ NewName(sl, d, i, e)
  PROVE  IsTree(sm)
  <1>1. ASSUME NEW b, NEW j
        PROVE  /\ IsDir(sm, b, j) <=> IsDir(sl, b, j)
               /\ IsDir(sl, b, j) => sm[b][j] = sl[b][j]
    <2>1. CASE b = d /\ j = i
      BY <2>1 DEF IsDir, Edit
    <2>2. CASE ~(b = d /\ j = i)
      BY <2>2, EditEntries DEF IsDir
    <2> QED BY <2>1, <2>2
  <1>2. \A x \in Cluster : DOMAIN sm[x] # {} => DOMAIN sl[x] # {}
    BY Symbols DEF Edit, Exists, Dirs
  <1>3. Housed(sm)
    <2> SUFFICES ASSUME NEW x \in Cluster, DOMAIN sm[x] # {}
                 PROVE  \E b, j : IsDir(sm, b, j) /\ sm[b][j].cluster = x
      BY DEF Housed
    <2>1. PICK b, j : IsDir(sl, b, j) /\ sl[b][j].cluster = x
      BY <1>2 DEF IsTree, Housed
    <2> QED BY <1>1, <2>1
  <1>4. Dotted(sm)
    <2> SUFFICES ASSUME NEW b, NEW j, IsDir(sm, b, j) PROVE Begins(sm, sm[b][j].cluster, b)
      BY DEF Dotted
    <2>1. IsDir(sl, b, j) /\ sm[b][j] = sl[b][j]
      BY <1>1
    <2>2. Begins(sl, sl[b][j].cluster, b)
      BY <2>1 DEF IsTree, Dotted
    <2>3. sl[b][j].cluster # None
      BY <2>2, Symbols DEF Begins
    <2> QED BY <2>1, <2>2, <2>3, BeginsKept
  <1>5. Single(sm)
    BY <1>1 DEF IsTree, Single
  <1>6. sm \in SlotsType
    BY DEF Edit
  <1> QED BY <1>3, <1>4, <1>5, <1>6, EditNames DEF IsTree

\* A directory c is made in d.
LEMMA TreeMkdir ==
  ASSUME NEW sl, NEW sm, NEW d, NEW i, NEW e, NEW c \in Cluster, Edit(sl, sm, d, i, e, c), IsTree(sl),
         Exists(sl, d), i \notin UsedIn(sl, d), NewName(sl, d, i, e),
         e.kind = "dir", e.cluster = c, DOMAIN sl[c] = {}, Begins(sm, c, d)
  PROVE  IsTree(sm)
  <1>1. ASSUME NEW b, NEW j, ~(b = d /\ j = i)
        PROVE  /\ IsDir(sm, b, j) <=> IsDir(sl, b, j)
               /\ IsDir(sl, b, j) => sm[b][j] = sl[b][j]
    BY <1>1, EditEntries DEF IsDir
  <1>2. /\ IsDir(sm, d, i) /\ sm[d][i].cluster = c
    <2>1. IsEntry(sm, d, i)
      BY EditEntries
    <2>2. sm[d][i] = e
      BY DEF Edit
    <2> QED BY <2>1, <2>2 DEF IsDir
  <1>3. ASSUME NEW b, NEW j, IsDir(sl, b, j) PROVE sl[b][j].cluster # c /\ ~(b = d /\ j = i)
    BY <1>3 DEF IsTree, Dotted, Begins, IsDir, IsEntry
  <1>4. Housed(sm)
    <2> SUFFICES ASSUME NEW x \in Cluster, DOMAIN sm[x] # {}
                 PROVE  \E b, j : IsDir(sm, b, j) /\ sm[b][j].cluster = x
      BY DEF Housed
    <2>1. CASE x = c
      BY <1>2, <2>1
    <2>2. CASE x # c
      <3>1. DOMAIN sl[x] # {}
        BY <2>2, Symbols DEF Edit, Exists, Dirs
      <3>2. PICK b, j : IsDir(sl, b, j) /\ sl[b][j].cluster = x
        BY <3>1 DEF IsTree, Housed
      <3> QED BY <1>1, <1>3, <3>2
    <2> QED BY <2>1, <2>2
  <1>5. Dotted(sm)
    <2> SUFFICES ASSUME NEW b, NEW j, IsDir(sm, b, j) PROVE Begins(sm, sm[b][j].cluster, b)
      BY DEF Dotted
    <2>1. CASE b = d /\ j = i
      BY <1>2, <2>1
    <2>2. CASE ~(b = d /\ j = i)
      <3>1. IsDir(sl, b, j) /\ sm[b][j] = sl[b][j]
        BY <1>1, <2>2
      <3>2. Begins(sl, sl[b][j].cluster, b) /\ sl[b][j].cluster # c
        BY <1>3, <3>1 DEF IsTree, Dotted
      <3> QED BY <3>1, <3>2, BeginsKept
    <2> QED BY <2>1, <2>2
  <1>6. Single(sm)
    <2> SUFFICES ASSUME NEW x, NEW k, NEW b, NEW j, IsDir(sm, x, k), IsDir(sm, b, j),
                        sm[x][k].cluster = sm[b][j].cluster
                 PROVE  x = b /\ k = j
      BY DEF Single
    <2>1. CASE (x = d /\ k = i) \/ (b = d /\ j = i)
      BY <1>1, <1>2, <1>3, <2>1
    <2>2. CASE ~(x = d /\ k = i) /\ ~(b = d /\ j = i)
      BY <1>1, <2>2 DEF IsTree, Single
    <2> QED BY <2>1, <2>2
  <1>7. sm \in SlotsType
    BY DEF Edit
  <1> QED BY <1>4, <1>5, <1>6, <1>7, EditNames DEF IsTree

\* The directory c is removed from d.
LEMMA TreeRmdir ==
  ASSUME NEW sl, NEW sm, NEW d, NEW i, NEW e, NEW c, Edit(sl, sm, d, i, e, c), IsTree(sl),
         IsDir(sl, d, i), sl[d][i].cluster = c, e.kind = "deleted", DOMAIN sm[c] = {}
  PROVE  IsTree(sm)
  <1>1. ASSUME NEW b, NEW j
        PROVE  /\ IsDir(sm, b, j) <=> IsDir(sl, b, j) /\ ~(b = d /\ j = i)
               /\ IsDir(sm, b, j) => sm[b][j] = sl[b][j]
    <2>1. CASE b = d /\ j = i
      BY <2>1, EditEntries DEF IsDir
    <2>2. CASE ~(b = d /\ j = i)
      BY <2>2, EditEntries DEF IsDir
    <2> QED BY <2>1, <2>2
  <1>2. ASSUME NEW b, NEW j, IsDir(sl, b, j), ~(b = d /\ j = i) PROVE sl[b][j].cluster # c
    BY <1>2 DEF IsTree, Single
  <1>3. Housed(sm)
    <2> SUFFICES ASSUME NEW x \in Cluster, DOMAIN sm[x] # {}
                 PROVE  \E b, j : IsDir(sm, b, j) /\ sm[b][j].cluster = x
      BY DEF Housed
    <2>1. x # c /\ DOMAIN sl[x] # {}
      BY DEF Edit, IsDir, IsEntry, UsedIn, Dirs
    <2>2. PICK b, j : IsDir(sl, b, j) /\ sl[b][j].cluster = x
      BY <2>1 DEF IsTree, Housed
    <2> QED BY <1>1, <2>1, <2>2
  <1>4. Dotted(sm)
    <2> SUFFICES ASSUME NEW b, NEW j, IsDir(sm, b, j) PROVE Begins(sm, sm[b][j].cluster, b)
      BY DEF Dotted
    <2>1. IsDir(sl, b, j) /\ sm[b][j] = sl[b][j] /\ sl[b][j].cluster # c
      BY <1>1, <1>2
    <2>2. Begins(sl, sl[b][j].cluster, b)
      BY <2>1 DEF IsTree, Dotted
    <2> QED BY <2>1, <2>2, BeginsKept
  <1>5. Single(sm)
    BY <1>1 DEF IsTree, Single
  <1>6. sm \in SlotsType
    BY DEF Edit
  <1> QED BY <1>3, <1>4, <1>5, <1>6, EditNames DEF IsTree

-----------------------------------------------------------------------------
(* The walk of a path.                                                     *)

\* A set of numbers without a least counterexample has them all.
LEMMA Induct ==
  ASSUME NEW N \in Nat, NEW S, 0 \in S, \A n \in 0 .. N - 1 : n \in S => n + 1 \in S
  PROVE  N \in S
  <1> SUFFICES ASSUME N \notin S PROVE FALSE
    OBVIOUS
  <1> DEFINE R == {n \in Nat : n <= N /\ n \notin S}
             k == Min(R)
  <1>1. R \in SUBSET Nat /\ R # {}
    OBVIOUS
  <1> HIDE DEF R
  <1>2. k \in R /\ \A m \in R : k <= m
    BY <1>1, SmallestIndex
  <1> HIDE DEF k
  <1> USE DEF R
  <1>3. k \in Nat /\ k <= N /\ k \notin S /\ k # 0
    BY <1>2
  <1>4. k - 1 \in 0 .. N - 1 /\ k - 1 \in Nat /\ (k - 1) + 1 = k /\ ~(k <= k - 1) /\ k - 1 <= N
    BY <1>3
  <1>5. k - 1 \in S
    BY <1>2, <1>4
  <1> QED BY <1>3, <1>4, <1>5

\* The directories that a walk passes, up to the N-th.
Turn(names, g, n) == IF n = 0 THEN RootDir ELSE Step(g[n - 1], names[n])
IsWalk(names, N, g) == g = [n \in 0 .. N |-> Turn(names, g, n)]

\* The recursive function of Resolve exists.
LEMMA WalkExists ==
  ASSUME NEW names, NEW N \in Nat
  PROVE  \E g : IsWalk(names, N, g)
  <1> DEFINE S == {n \in Nat : \E g : IsWalk(names, n, g)}
  <1>1. 0 \in S
    <2> DEFINE g == [n \in 0 .. 0 |-> RootDir]
    <2>1. g = [n \in 0 .. 0 |-> g[n]] /\ \A n \in 0 .. 0 : n = 0 /\ g[n] = RootDir
      OBVIOUS
    <2> HIDE DEF g
    <2>2. \A n \in 0 .. 0 : g[n] = Turn(names, g, n)
      BY <2>1 DEF Turn
    <2>3. IsWalk(names, 0, g)
      BY <2>1, <2>2 DEF IsWalk
    <2> QED BY <2>3
  <1>2. ASSUME NEW m \in 0 .. N - 1, m \in S PROVE m + 1 \in S
    <2>1. PICK g : IsWalk(names, m, g)
      BY <1>2
    <2> DEFINE k == m + 1
               h == [n \in 0 .. k |-> IF n = k THEN Turn(names, g, k) ELSE g[n]]
    <2>2. m \in Nat /\ k \in Nat /\ k \in 0 .. k
      BY <1>2
    <2>3. \A n \in 0 .. m : g[n] = Turn(names, g, n)
      BY <2>1 DEF IsWalk
    <2>4. /\ \A n \in 0 .. m : n \in 0 .. k /\ n # k /\ h[n] = g[n]
          /\ h[k] = Turn(names, g, k) /\ h = [n \in 0 .. k |-> h[n]]
      BY <2>2
    <2> HIDE DEF h
    <2>5. \A n \in 0 .. k : h[n] = Turn(names, h, n)
      <3> SUFFICES ASSUME NEW n \in 0 .. k PROVE h[n] = Turn(names, h, n)
        OBVIOUS
      <3>1. h[n] = Turn(names, g, n)
        <4>1. n = k \/ n \in 0 .. m
          BY <2>2
        <4> QED BY <2>3, <2>4, <4>1
      <3>2. CASE n = 0
        BY <3>1, <3>2 DEF Turn
      <3>3. CASE n # 0
        <4>1. n - 1 \in 0 .. m
          BY <2>2, <3>3
        <4>2. h[n - 1] = g[n - 1]
          BY <2>4, <4>1
        <4> QED BY <3>1, <3>3, <4>2 DEF Turn
      <3> QED BY <3>2, <3>3
    <2>6. IsWalk(names, k, h)
      BY <2>4, <2>5 DEF IsWalk
    <2> QED BY <2>2, <2>6
  <1>3. N \in S
    <2> HIDE DEF S
    <2> QED BY <1>1, <1>2, Induct
  <1> QED BY <1>3

\* A walk of more names passes the same directories first.
LEMMA WalkPrefix ==
  ASSUME NEW names, NEW more, NEW N \in Nat, NEW M \in Nat, N <= M, NEW g, NEW h,
         IsWalk(names, N, g), IsWalk(more, M, h), \A n \in 1 .. N : more[n] = names[n]
  PROVE  g[N] = h[N]
  <1> DEFINE S == {n \in Nat : n <= N => g[n] = h[n]}
  <1>1. \A n \in 0 .. N : g[n] = Turn(names, g, n) /\ h[n] = Turn(more, h, n)
    <2>1. \A n \in 0 .. N : g[n] = Turn(names, g, n)
      BY DEF IsWalk
    <2>2. \A n \in 0 .. M : h[n] = Turn(more, h, n)
      BY DEF IsWalk
    <2>3. \A n \in 0 .. N : n \in 0 .. M
      OBVIOUS
    <2> QED BY <2>1, <2>2, <2>3
  <1>2. 0 \in S
    BY <1>1 DEF Turn
  <1>3. ASSUME NEW n \in 0 .. N - 1, n \in S PROVE n + 1 \in S
    <2>1. n + 1 \in 0 .. N /\ n + 1 \in 1 .. N /\ n + 1 # 0 /\ (n + 1) - 1 = n /\ n <= N
      BY <1>3
    <2>2. g[n] = h[n]
      BY <1>3, <2>1
    <2>3. g[n + 1] = Step(g[n], names[n + 1]) /\ h[n + 1] = Step(h[n], more[n + 1])
      BY <1>1, <2>1 DEF Turn
    <2> QED BY <2>1, <2>2, <2>3
  <1>4. N \in S
    <2> HIDE DEF S
    <2> QED BY <1>2, <1>3, Induct
  <1> QED BY <1>4

LEMMA ResolveIs ==
  ASSUME NEW names, Len(names) \in Nat
  PROVE  \E g : IsWalk(names, Len(names), g) /\ Resolve(names) = g[Len(names)]
  <1> DEFINE N == Len(names)
             Is(g) == g = [n \in 0 .. N |-> IF n = 0 THEN RootDir ELSE Step(g[n - 1], names[n])]
  <1>1. \A g : Is(g) <=> IsWalk(names, N, g)
    BY DEF IsWalk, Turn
  <1>2. \E g : IsWalk(names, N, g)
    BY WalkExists
  <1>3. Resolve(names) = (CHOOSE g : Is(g))[N]
    BY DEF Resolve
  <1> HIDE DEF Is
  <1>4. IsWalk(names, N, CHOOSE g : Is(g))
    BY <1>1, <1>2
  <1> QED BY <1>3, <1>4

\* One more piece is one more turn of open_inode's loop.
LEMMA ResolveAppend ==
  ASSUME NEW names \in Seq(Piece), NEW name \in Piece
  PROVE  Resolve(<<>>) = RootDir /\ Resolve(Append(names, name)) = Step(Resolve(names), name)
  <1>1. Resolve(<<>>) = RootDir
    <2>1. Len(<<>>) = 0 /\ 0 \in 0 .. 0
      OBVIOUS
    <2>2. PICK g : IsWalk(<<>>, 0, g) /\ Resolve(<<>>) = g[0]
      BY <2>1, ResolveIs
    <2>3. g[0] = Turn(<<>>, g, 0)
      BY <2>1, <2>2 DEF IsWalk
    <2> QED BY <2>2, <2>3 DEF Turn
  <1>2. Resolve(Append(names, name)) = Step(Resolve(names), name)
    <2> DEFINE more == Append(names, name)
               N == Len(names)
    <2>1. /\ N \in Nat /\ Len(more) = N + 1 /\ N + 1 \in Nat /\ N <= N + 1 /\ more[N + 1] = name
          /\ \A n \in 1 .. N : more[n] = names[n]
      OBVIOUS
    <2> HIDE DEF more
    <2>2. PICK g : IsWalk(names, N, g) /\ Resolve(names) = g[N]
      BY <2>1, ResolveIs
    <2>3. PICK h : IsWalk(more, N + 1, h) /\ Resolve(more) = h[N + 1]
      BY <2>1, ResolveIs
    <2>4. g[N] = h[N]
      BY <2>1, <2>2, <2>3, WalkPrefix
    <2>5. h[N + 1] = Turn(more, h, N + 1)
      BY <2>1, <2>3 DEF IsWalk
    <2>6. h[N + 1] = Step(h[N], more[N + 1])
      <3>1. N + 1 # 0 /\ (N + 1) - 1 = N
        BY <2>1
      <3> QED BY <2>5, <3>1 DEF Turn
    <2> QED BY <2>1, <2>2, <2>3, <2>4, <2>6 DEF more
  <1> QED BY <1>1, <1>2

\* The definitions of Names are about its own slots.
LEMMA Views ==
  /\ \A d : Used(d) = UsedIn(slots, d)
  /\ \A d, name : IgnoringCase(d, name) = Alike(slots, d, name)
  /\ \A d, i : <<d, i>> \in Entries <=> IsEntry(slots, d, i)
  /\ \A s \in Entries : s = <<s[1], s[2]>> /\ IsEntry(slots, s[1], s[2])
  <1>1. \A d : Used(d) = UsedIn(slots, d)
    BY DEF Used, UsedIn
  <1>2. \A d, name : IgnoringCase(d, name) = Alike(slots, d, name)
    BY <1>1 DEF IgnoringCase, Alike
  <1>3. \A d, i : <<d, i>> \in Entries <=> IsEntry(slots, d, i)
    BY <1>1 DEF Entries, IsEntry, Dirs
  <1>4. \A s \in Entries : s = <<s[1], s[2]>>
    BY DEF Entries
  <1> QED BY <1>1, <1>2, <1>3, <1>4

WalkType == [status : {"found", "missing", "ENOENT", "ENOTDIR"}, kind : {"file", "dir"},
             dir : Dirs, index : Nat, name : Piece]

\* A walk comes to directories and files that exist.
Arrived(w) ==
  /\ w \in WalkType
  /\ w.status \in {"found", "missing"} => Exists(slots, w.dir)
  /\ w.status = "found" /\ w.kind = "file" => IsFile(slots, w.dir, w.index)

\* What a slot in use is.
LEMMA UsedSlot ==
  ASSUME IsTree(slots), NEW d, Exists(slots, d), NEW i \in UsedIn(slots, d)
  PROVE  /\ d \in Dirs /\ i \in Nat /\ slots[d][i] \in Slot /\ slots[d][i].name # ""
         /\ slots[d][i].kind = "dir" => Exists(slots, slots[d][i].cluster)
         /\ slots[d][i].kind # "dir" => IsFile(slots, d, i)
  <1>1. d \in Dirs /\ i \in Nat /\ i > 0 /\ slots[d][i] \in Slot /\ slots[d][i].kind # "deleted"
    BY SlotFacts DEF IsTree, Exists, Dirs, UsedIn
  <1>2. CASE IsEntry(slots, d, i)
    <2>1. slots[d][i].name # ""
      BY <1>2 DEF IsTree, Distinct
    <2>2. slots[d][i].kind = "dir" => Exists(slots, slots[d][i].cluster)
      BY <1>2 DEF IsTree, Dotted, IsDir, Begins, Exists
    <2>3. slots[d][i].kind # "dir" => slots[d][i].kind = "file"
      BY <1>1 DEF Slot
    <2> QED BY <1>1, <1>2, <2>1, <2>2, <2>3 DEF IsFile
  <1>3. CASE ~IsEntry(slots, d, i)
    <2>1. d # Root /\ ~(i > 2)
      BY <1>1, <1>3 DEF IsEntry
    <2>2. i = 1 \/ i = 2
      BY <1>1, <2>1
    <2>3. d \in Cluster
      BY <1>1, <2>1 DEF Dirs
    <2>4. PICK b, j : Begins(slots, d, b) /\ Exists(slots, b)
      BY <2>3, ExistsFacts
    <2>5. slots[d][i] = DirSlot(".", d) \/ slots[d][i] = DirSlot("..", b)
      BY <2>2, <2>4 DEF Begins
    <2>6. /\ slots[d][i].kind = "dir" /\ slots[d][i].name # ""
          /\ slots[d][i].cluster \in {d, b}
      <3>1. CASE slots[d][i] = DirSlot(".", d)
        BY <3>1 DEF DirSlot
      <3>2. CASE slots[d][i] = DirSlot("..", b)
        BY <3>2 DEF DirSlot
      <3> QED BY <2>5, <3>1, <3>2
    <2> QED BY <1>1, <2>4, <2>6
  <1> QED BY <1>2, <1>3

\* A turn of the loop from something that exists comes to something that exists.
LEMMA StepArrives ==
  ASSUME IsTree(slots), NEW w, Arrived(w), NEW name \in Piece
  PROVE  Arrived(Step(w, name)) /\ Step(w, "").status # "found"
  <1>1. CASE w.status = "missing"
    BY <1>1 DEF Step, Arrived, WalkType
  <1>2. CASE w.status \in {"ENOENT", "ENOTDIR"}
    BY <1>2 DEF Step, Arrived, WalkType
  <1>3. CASE w.status = "found" /\ w.kind = "file"
    BY <1>3 DEF Step, Arrived, WalkType
  <1>4. CASE w.status = "found" /\ w.kind = "dir"
    <2>1. Exists(slots, w.dir) /\ w.dir \in Dirs
      BY <1>4 DEF Arrived, WalkType
    <2>2. ASSUME NEW n
          PROVE  Step(w, n) = IF Exactly(w.dir, n) = {}
                   THEN [w EXCEPT !.status = "missing", !.name = n]
                   ELSE LET i == Min(Exactly(w.dir, n))
                            e == slots[w.dir][i]
                        IN  IF e.kind = "dir" THEN [w EXCEPT !.dir = e.cluster]
                            ELSE [w EXCEPT !.kind = "file", !.index = i]
      BY <1>4 DEF Step
    <2>3. Exactly(w.dir, "") = {}
      BY <2>1, Views, UsedSlot DEF Exactly
    <2>4. Step(w, "").status = "missing"
      BY <2>2, <2>3 DEF Arrived, WalkType
    <2>5. CASE Exactly(w.dir, name) = {}
      <3> DEFINE v == Step(w, name)
      <3>1. v = [w EXCEPT !.status = "missing", !.name = name] /\ w \in WalkType
        BY <2>2, <2>5 DEF Arrived
      <3> HIDE DEF v
      <3>2. v \in WalkType /\ v.status = "missing" /\ v.dir = w.dir
        BY <3>1 DEF WalkType
      <3>3. Arrived(v)
        BY <2>1, <3>2 DEF Arrived
      <3> QED BY <2>4, <3>3 DEF v
    <2>6. CASE Exactly(w.dir, name) # {}
      <3> DEFINE S == Exactly(w.dir, name)
                 i == Min(S)
                 e == slots[w.dir][i]
      <3>1. S \subseteq UsedIn(slots, w.dir)
        BY Views DEF Exactly
      <3>2. S \in SUBSET Nat
        BY <2>1, <3>1, UsedSlot
      <3>3. i \in UsedIn(slots, w.dir)
        BY <2>6, <3>1, <3>2, SmallestIndex
      <3>4. Step(w, name) = IF e.kind = "dir" THEN [w EXCEPT !.dir = e.cluster]
                            ELSE [w EXCEPT !.kind = "file", !.index = i]
        BY <2>2, <2>6
      <3> HIDE DEF S, i
      <3>5. /\ i \in Nat
            /\ e.kind = "dir" => Exists(slots, e.cluster) /\ e.cluster \in Dirs
            /\ e.kind # "dir" => IsFile(slots, w.dir, i)
        BY <2>1, <3>3, UsedSlot DEF Exists, Dirs
      <3>6. CASE e.kind = "dir"
        <4> DEFINE v == Step(w, name)
        <4>1. v = [w EXCEPT !.dir = e.cluster] /\ w \in WalkType
          BY <3>4, <3>6 DEF Arrived
        <4> HIDE DEF e, v
        <4>2. v \in WalkType /\ v.status = w.status /\ v.dir = e.cluster /\ v.kind = w.kind
          BY <3>5, <3>6, <4>1 DEF WalkType
        <4>3. Arrived(v)
          BY <1>4, <3>5, <3>6, <4>2 DEF Arrived
        <4> QED BY <2>4, <4>3 DEF v
      <3>7. CASE e.kind # "dir"
        <4> DEFINE v == Step(w, name)
        <4>1. v = [w EXCEPT !.kind = "file", !.index = i] /\ w \in WalkType
          BY <3>4, <3>7 DEF Arrived
        <4> HIDE DEF e, v
        <4>2. v \in WalkType /\ v.status = w.status /\ v.dir = w.dir /\ v.kind = "file" /\ v.index = i
          BY <3>5, <4>1 DEF WalkType
        <4>3. Arrived(v)
          BY <2>1, <3>5, <3>7, <4>2 DEF Arrived
        <4> QED BY <2>4, <4>3 DEF v
      <3> QED BY <3>6, <3>7
    <2> QED BY <2>4, <2>5, <2>6
  <1> QED BY <1>1, <1>2, <1>3, <1>4 DEF Arrived, WalkType

\* A walk arrives at a directory or file that exists, or misses a name there.
LEMMA ResolveArrives ==
  ASSUME IsTree(slots), NEW names \in Seq(Piece)
  PROVE  Arrived(Resolve(names))
  <1> DEFINE N == Len(names)
  <1>1. N \in Nat /\ \A n \in 1 .. N : names[n] \in Piece
    OBVIOUS
  <1>2. PICK g : IsWalk(names, N, g) /\ Resolve(names) = g[N]
    BY <1>1, ResolveIs
  <1>3. \A n \in 0 .. N : g[n] = Turn(names, g, n)
    BY <1>2 DEF IsWalk
  <1> DEFINE S == {n \in Nat : n <= N => Arrived(g[n])}
  <1>4. 0 \in S
    <2>1. g[0] = RootDir
      BY <1>1, <1>3 DEF Turn
    <2>2. Arrived(RootDir)
      BY DEF Arrived, RootDir, WalkType, Exists, Dirs, Piece
    <2> QED BY <2>1, <2>2
  <1>5. ASSUME NEW n \in 0 .. N - 1, n \in S PROVE n + 1 \in S
    <2>1. n + 1 \in 0 .. N /\ n + 1 \in 1 .. N /\ n + 1 # 0 /\ (n + 1) - 1 = n /\ n <= N
      BY <1>1, <1>5
    <2>2. Arrived(g[n])
      BY <1>5, <2>1
    <2>3. g[n + 1] = Step(g[n], names[n + 1]) /\ names[n + 1] \in Piece
      BY <1>1, <1>3, <2>1 DEF Turn
    <2>4. Arrived(g[n + 1])
      BY <2>2, <2>3, StepArrives
    <2> QED BY <2>1, <2>4
  <1>6. N \in S
    <2> HIDE DEF S
    <2> QED BY <1>1, <1>4, <1>5, Induct
  <1> QED BY <1>1, <1>2, <1>6

\* Sequences.
LEMMA AppendFacts ==
  ASSUME NEW S, NEW q \in Seq(S), NEW x \in S
  PROVE  /\ Append(q, x) \in Seq(S) /\ Len(q) \in Nat /\ Len(Append(q, x)) = Len(q) + 1
         /\ Append(q, x)[Len(q) + 1] = x
         /\ \A i \in 1 .. Len(q) : Append(q, x)[i] = q[i]
         /\ q \o <<x>> \o <<>> = Append(q, x)
         /\ Len(q) > 0 => Tail(q) \in Seq(S) /\ Tail(Append(q, x)) = Append(Tail(q), x)
  OBVIOUS

\* A path without its last piece.
LEMMA FrontFacts ==
  ASSUME NEW S, NEW p \in Seq(S), Len(p) > 0
  PROVE  /\ Front(p) \in Seq(S) /\ Tail(p) \in Seq(S) /\ Last(p) \in S
         /\ Len(p) \in Nat /\ Len(Front(p)) = Len(p) - 1
         /\ \A i \in 1 .. Len(p) - 1 : Front(p)[i] = p[i]
         /\ Len(p) > 1 => Front(Tail(p)) = Tail(Front(p)) /\ Tail(Front(p)) \in Seq(S)
  <1>1. Len(p) \in Nat /\ Len(p) \in 1 .. Len(p)
    OBVIOUS
  <1>2. Front(p) \in Seq(S) /\ Len(Front(p)) = Len(p) - 1
    <2>1. CASE Len(p) > 1
      BY <2>1 DEF Front
    <2>2. CASE Len(p) = 1
      <3>1. SubSeq(p, 1, 0) = <<>>
        OBVIOUS
      <3> QED BY <2>2, <3>1 DEF Front
    <2>3. Len(p) > 1 \/ Len(p) = 1
      <3> DEFINE n == Len(p)
      <3>1. n \in Nat /\ n > 0
        BY <1>1
      <3> HIDE DEF n
      <3>2. n > 1 \/ n = 1
        BY <3>1
      <3> QED BY <3>2 DEF n
    <2> QED BY <2>1, <2>2, <2>3
  <1>3. \A i \in 1 .. Len(p) - 1 : Front(p)[i] = p[i]
    BY DEF Front
  <1>4. Last(p) \in S /\ Tail(p) \in Seq(S) /\ Len(Tail(p)) = Len(p) - 1
    BY <1>1 DEF Last
  <1>5. ASSUME Len(p) > 1 PROVE Front(Tail(p)) = Tail(Front(p)) /\ Tail(Front(p)) \in Seq(S)
    BY <1>5, SMTT(30) DEF Front
  <1> QED BY <1>1, <1>2, <1>3, <1>4, <1>5

\* The same of a whole path, "/" included.
LEMMA WalkArrives ==
  ASSUME IsTree(slots), NEW p \in Seq(Piece)
  PROVE  Arrived(Walk(p))
  <1>1. CASE p = <<"", "">>
    BY <1>1 DEF Walk, Arrived, RootDir, WalkType, Exists, Dirs, Piece
  <1>2. CASE p # <<"", "">>
    <2>1. (IF IsAbsolute(p) THEN Tail(p) ELSE p) \in Seq(Piece)
      <3>1. Len(p) \in Nat /\ (Len(p) > 1 => Len(p) > 0)
        OBVIOUS
      <3> QED BY <3>1, FrontFacts DEF IsAbsolute
    <2> QED BY <1>2, <2>1, ResolveArrives DEF Walk
  <1> QED BY <1>1, <1>2

IsSlash(e) == e = ""

\* A path with a final slash is found only if it is "/".
LEMMA SlashIsRoot ==
  ASSUME IsTree(slots), NEW q \in Seq(Piece), NEW e \in Piece, IsSlash(e),
         NEW p, p = Append(q, e), Walk(p).status = "found"
  PROVE  Walk(p) = RootDir
  <1>0. Len(p) = Len(q) + 1 /\ Len(q) \in Nat /\ (Len(p) > 1 => Len(q) > 0)
    BY AppendFacts
  <1> SUFFICES ASSUME p # <<"", "">> PROVE FALSE
    BY DEF Walk
  <1>1. ASSUME NEW m \in Seq(Piece) PROVE Resolve(Append(m, e)).status # "found"
    <2>1. Resolve(Append(m, e)) = Step(Resolve(m), e)
      BY ResolveAppend
    <2>2. Step(Resolve(m), "").status # "found"
      BY ResolveArrives, StepArrives
    <2> QED BY <2>1, <2>2 DEF IsSlash
  <1>2. CASE IsAbsolute(p)
    <2>2. Len(q) > 0
      BY <1>0, <1>2 DEF IsAbsolute
    <2>3. Tail(q) \in Seq(Piece) /\ Tail(p) = Append(Tail(q), e)
      BY <2>2, AppendFacts, ZenonT(40)
    <2> QED BY <1>1, <1>2, <2>3 DEF Walk
  <1>3. CASE ~IsAbsolute(p)
    BY <1>1, <1>3 DEF Walk
  <1> QED BY <1>2, <1>3

-----------------------------------------------------------------------------
(* Relative names.                                                         *)

Slashed(S, cw, e) == cw \in Seq(S) /\ Len(cw) > 1 /\ cw[1] = e /\ Last(cw) = e
CwdType == Slashed(Piece, cwd, "")

\* RelativeToCwd follows from the form of the working directory.
LEMMA RelativeToCwdHolds ==
  ASSUME CwdType
  PROVE  RelativeToCwd
  <1> SUFFICES ASSUME NEW n \in Name
               PROVE  Walk(path_with_fd(AT_FDCWD, <<n>>)) = Step(Resolve(Front(Tail(cwd))), n)
    BY DEF RelativeToCwd
  <1>0. n # "" /\ n # "."
    BY NamesAssumption
  <1>1. n \in Piece
    BY DEF Piece
  <1>2. path_with_fd(AT_FDCWD, <<n>>) = Concat(cwd, <<n>>)
    <2>1. ~IsAbsolute(<<n>>) /\ <<n>> # <<".">> /\ <<n>>[1] # "."
      BY <1>0 DEF IsAbsolute
    <2> QED BY <2>1 DEF path_with_fd
  <1>3. cwd \in Seq(Piece) /\ Len(cwd) > 1 /\ cwd[1] = "" /\ Last(cwd) = ""
    BY DEF CwdType, Slashed
  <1> DEFINE q == Front(cwd)
             p == Append(q, n)
             N == Len(cwd)
  <1>4. /\ q \in Seq(Piece) /\ N \in Nat /\ N > 1 /\ Len(q) = N - 1
        /\ \A i \in 1 .. N - 1 : q[i] = cwd[i]
        /\ Front(Tail(cwd)) = Tail(q) /\ Tail(q) \in Seq(Piece)
    <2>1. Len(cwd) > 0
      <3>1. Len(cwd) \in Nat /\ Len(cwd) > 1
        BY <1>1, <1>3, AppendFacts
      <3> QED BY <3>1
    <2> QED BY <1>3, <2>1, FrontFacts
  <1>5. 1 \in 1 .. N - 1 /\ N - 1 > 0 /\ (N - 1) + 1 = N
    BY <1>4
  <1>6. Concat(cwd, <<n>>) = q \o <<n>> \o <<>>
    <2>1. Joined(Last(cwd), Head(<<n>>)) = Head(<<n>>)
      BY <1>3 DEF Joined
    <2>2. Head(<<n>>) = n /\ Tail(<<n>>) = <<>>
      OBVIOUS
    <2> QED BY <2>1, <2>2 DEF Concat
  <1> HIDE DEF q, N
  <1>7. Concat(cwd, <<n>>) = p
    BY <1>1, <1>4, <1>6, AppendFacts, SMTT(30)
  <1>8. Len(p) = N /\ p[N] = n /\ p[1] = "" /\ Tail(p) = Append(Tail(q), n)
    <2>1. /\ Len(p) = Len(q) + 1 /\ p[Len(q) + 1] = n /\ \A i \in 1 .. Len(q) : p[i] = q[i]
          /\ Len(q) > 0 => Tail(p) = Append(Tail(q), n)
      <3>1. Len(q) > 0 => Tail(p) = Append(Tail(q), n)
        BY <1>1, <1>4, AppendFacts
      <3>2. Len(p) = Len(q) + 1 /\ p[Len(q) + 1] = n
        BY <1>1, <1>4, AppendFacts
      <3>3. \A i \in 1 .. Len(q) : p[i] = q[i]
        BY <1>1, <1>4, AppendFacts
      <3> HIDE DEF p
      <3> QED BY <3>1, <3>2, <3>3
    <2>2. Len(q) = N - 1 /\ q[1] = cwd[1]
      BY <1>4, <1>5
    <2> HIDE DEF p
    <2> QED BY <1>3, <1>5, <2>1, <2>2
  <1> HIDE DEF p
  <1>9. p # <<"", "">> /\ IsAbsolute(p)
    <2>1. p # <<"", "">>
      <3> SUFFICES ASSUME p = <<"", "">> PROVE FALSE
        OBVIOUS
      <3>1. N = 2 /\ p[2] = ""
        BY <1>8
      <3> QED BY <1>0, <1>8, <3>1
    <2> QED BY <1>4, <1>8, <2>1 DEF IsAbsolute
  <1>10. Walk(p) = Resolve(Append(Tail(q), n))
    BY <1>8, <1>9 DEF Walk
  <1> QED BY <1>1, <1>2, <1>4, <1>7, <1>10, ResolveAppend

-----------------------------------------------------------------------------
(* Open files.                                                             *)

OpenFile == [kind : {"file"}, dir : Dirs, index : Nat,
             name : Piece, cluster : Cluster \cup {None}, size : Nat,
             dirty : BOOLEAN, current : Cluster \cup {None}, offset : Nat,
             readable : BOOLEAN, writable : BOOLEAN]
OpenDir == [kind : {"dir"}, path : Seq(Piece)]
FilesType == [Fd -> OpenFile \cup OpenDir \cup {Closed}]

IsOn(h, d, i) == h.kind = "file" /\ h.dir = d /\ h.index = i
On(fi, d, i) == {f \in Fd : IsOn(fi[f], d, i)}

\* An open file and the slot it is a copy of.
Handle(sl, fa, fi, f) ==
  LET h == fi[f] IN
  h.kind = "file" =>
    /\ IsFile(sl, h.dir, h.index)
    /\ sl[h.dir][h.index].name = h.name
    /\ h.dirty \/ sl[h.dir][h.index].cluster = h.cluster
    /\ h.dirty => On(fi, h.dir, h.index) = {f}
    /\ h.current # None => h.current \in Reach(fa, h.cluster)
    /\ h.offset % ClusterSize # 0 => h.current # None

Handles(sl, fa, fi) == \A f \in Fd : Handle(sl, fa, fi, f)

\* The first cluster of an entry, with the changes of whoever has it open.
FirstOf(sl, fi, d, i) ==
  LET W == {f \in On(fi, d, i) : fi[f].dirty} IN
  IF W = {} THEN sl[d][i].cluster ELSE fi[CHOOSE f \in W : TRUE].cluster

EntriesOf(sl) == {s \in Dirs \X Nat : IsEntry(sl, s[1], s[2])}
Firsts(sl, fi) == [s \in EntriesOf(sl) |-> FirstOf(sl, fi, s[1], s[2])]

\* Where the chain of an entry begins, by who has it open with changes.
LEMMA FirstIs ==
  ASSUME NEW sl, NEW fa, NEW fi, Handles(sl, fa, fi), NEW d, NEW i
  PROVE  /\ On(fi, d, i) = {} => FirstOf(sl, fi, d, i) = sl[d][i].cluster
         /\ \A f \in On(fi, d, i) : FirstOf(sl, fi, d, i) = fi[f].cluster
  <1> DEFINE W == {f \in On(fi, d, i) : fi[f].dirty}
  <1>1. FirstOf(sl, fi, d, i) = IF W = {} THEN sl[d][i].cluster ELSE fi[CHOOSE f \in W : TRUE].cluster
    BY DEF FirstOf
  <1>2. On(fi, d, i) = {} => W = {}
    OBVIOUS
  <1>3. ASSUME NEW f \in On(fi, d, i) PROVE FirstOf(sl, fi, d, i) = fi[f].cluster
    <2>1. CASE W = {}
      <3>1. ~fi[f].dirty /\ f \in Fd /\ IsOn(fi[f], d, i)
        BY <2>1 DEF On
      <3>2. sl[d][i].cluster = fi[f].cluster
        BY <3>1 DEF Handles, Handle, IsOn
      <3> QED BY <1>1, <2>1, <3>2
    <2>2. CASE W # {}
      <3> DEFINE g == CHOOSE g \in W : TRUE
      <3>1. g \in W
        BY <2>2
      <3>2. FirstOf(sl, fi, d, i) = fi[g].cluster
        BY <1>1, <2>2
      <3> HIDE DEF g
      <3>3. g \in Fd /\ IsOn(fi[g], d, i) /\ fi[g].dirty
        BY <3>1 DEF On
      <3>4. On(fi, d, i) = {g}
        BY <3>3 DEF Handles, Handle, IsOn
      <3> QED BY <3>2, <3>4
    <2> QED BY <2>1, <2>2
  <1> QED BY <1>1, <1>2, <1>3

\* Entries that the file under descriptor f is not about.
LEMMA FirstOther ==
  ASSUME NEW sl, NEW sm, NEW fi, NEW fj, NEW f, NEW d, NEW i, sm[d][i] = sl[d][i],
         \A g \in Fd \ {f} : fj[g] = fi[g], ~IsOn(fi[f], d, i), ~IsOn(fj[f], d, i)
  PROVE  FirstOf(sm, fj, d, i) = FirstOf(sl, fi, d, i)
  <1>1. On(fj, d, i) = On(fi, d, i)
    BY DEF On
  <1>2. \A g \in On(fi, d, i) : fj[g] = fi[g]
    BY DEF On
  <1>3. {g \in On(fj, d, i) : fj[g].dirty} = {g \in On(fi, d, i) : fi[g].dirty}
    BY <1>1, <1>2
  <1> DEFINE W == {g \in On(fi, d, i) : fi[g].dirty}
             g == CHOOSE g \in W : TRUE
  <1>4. W # {} => fj[g] = fi[g]
    <2>1. W # {} => g \in W
      OBVIOUS
    <2> HIDE DEF g
    <2> QED BY <1>2, <2>1
  <1>5. FirstOf(sl, fi, d, i) = IF W = {} THEN sl[d][i].cluster ELSE fi[g].cluster
    BY DEF FirstOf
  <1>6. FirstOf(sm, fj, d, i) = IF W = {} THEN sm[d][i].cluster ELSE fj[g].cluster
    <2> DEFINE V == {k \in On(fj, d, i) : fj[k].dirty}
    <2>1. FirstOf(sm, fj, d, i) = IF V = {} THEN sm[d][i].cluster
                                  ELSE fj[CHOOSE k \in V : TRUE].cluster
      BY DEF FirstOf
    <2>2. V = W
      BY <1>3
    <2> HIDE DEF V, W
    <2> QED BY <2>1, <2>2
  <1> HIDE DEF W, g
  <1> QED BY <1>4, <1>5, <1>6

\* The handle under f changes, and is now one on slot i of d, or none.
LEMMA OtherHandles ==
  ASSUME NEW sl, NEW sm, NEW fa, NEW fb, NEW fi, NEW fj, Handles(sl, fa, fi),
         NEW f \in Fd, \A g \in Fd \ {f} : fj[g] = fi[g],
         NEW d, NEW i, fj[f].kind = "file" => IsOn(fj[f], d, i),
         \A g \in On(fi, d, i) \ {f} : ~fi[g].dirty,
         \A g \in Fd \ {f} : fi[g].kind = "file" =>
           /\ sm[fi[g].dir][fi[g].index] = sl[fi[g].dir][fi[g].index]
           /\ IsEntry(sm, fi[g].dir, fi[g].index)
           /\ Reach(fa, fi[g].cluster) \subseteq Reach(fb, fi[g].cluster),
         Handle(sm, fb, fj, f)
  PROVE  Handles(sm, fb, fj)
  <1> SUFFICES ASSUME NEW g \in Fd \ {f}, fi[g].kind = "file" PROVE Handle(sm, fb, fj, g)
    BY DEF Handles, Handle
  <1> DEFINE h == fi[g]
  <1>1. fj[g] = h /\ Handle(sl, fa, fi, g)
    BY DEF Handles
  <1>2. /\ sm[h.dir][h.index] = sl[h.dir][h.index] /\ IsEntry(sm, h.dir, h.index)
        /\ Reach(fa, h.cluster) \subseteq Reach(fb, h.cluster)
    OBVIOUS
  <1>3. h.dirty => On(fj, h.dir, h.index) = {g}
    <2> SUFFICES ASSUME h.dirty PROVE On(fj, h.dir, h.index) = {g}
      OBVIOUS
    <2>1. On(fi, h.dir, h.index) = {g}
      BY <1>1 DEF Handle
    <2>2. ~(h.dir = d /\ h.index = i)
      <3> SUFFICES ASSUME h.dir = d, h.index = i PROVE FALSE
        OBVIOUS
      <3>1. g \in On(fi, d, i) \ {f}
        BY DEF On, IsOn
      <3> QED BY <3>1
    <2>3. f \notin On(fj, h.dir, h.index)
      BY <2>2 DEF On, IsOn
    <2>4. \A x \in Fd \ {f} : x \in On(fj, h.dir, h.index) <=> x \in On(fi, h.dir, h.index)
      BY DEF On
    <2>5. On(fj, h.dir, h.index) \subseteq Fd
      BY DEF On
    <2> QED BY <2>1, <2>3, <2>4, <2>5
  <1> HIDE DEF h
  <1> QED BY <1>1, <1>2, <1>3 DEF Handle, IsFile, h

-----------------------------------------------------------------------------
(* What a step leaves of the volume, the FAT and the open files.           *)

Good(sl, fa, fi) ==
  /\ IsTree(sl) /\ fi \in FilesType /\ Handles(sl, fa, fi)
  /\ Accounts(fa, EntriesOf(sl), Firsts(sl, fi))

LEMMA EntryIn ==
  ASSUME NEW sl \in SlotsType, NEW fi
  PROVE  /\ \A d, i : <<d, i>> \in EntriesOf(sl) <=> IsEntry(sl, d, i)
         /\ \A s \in EntriesOf(sl) : s = <<s[1], s[2]>> /\ IsEntry(sl, s[1], s[2])
         /\ \A d, i : IsEntry(sl, d, i) => Firsts(sl, fi)[<<d, i>>] = FirstOf(sl, fi, d, i)
  <1>1. \A d, i : IsEntry(sl, d, i) => d \in Dirs /\ i \in Nat
    BY SlotFacts DEF IsEntry
  <1>2. \A d, i : <<d, i>> \in EntriesOf(sl) <=> IsEntry(sl, d, i)
    BY <1>1 DEF EntriesOf
  <1>3. \A s \in EntriesOf(sl) : s = <<s[1], s[2]>> /\ IsEntry(sl, s[1], s[2])
    BY DEF EntriesOf
  <1>4. \A d, i : IsEntry(sl, d, i) => Firsts(sl, fi)[<<d, i>>] = FirstOf(sl, fi, d, i)
    BY <1>2 DEF Firsts
  <1> QED BY <1>2, <1>3, <1>4

LEMMA Kinds ==
  ASSUME NEW h \in OpenFile \cup OpenDir \cup {Closed}
  PROVE  (h.kind = "file" <=> h \in OpenFile) /\ (h.kind = "dir" <=> h \in OpenDir)
  BY DEF OpenFile, OpenDir, Closed

\* What an open file is.
LEMMA HandleFacts ==
  ASSUME NEW sl, NEW fa, NEW fi, Good(sl, fa, fi), NEW f \in Fd, fi[f].kind = "file",
         NEW d, NEW i, d = fi[f].dir, i = fi[f].index
  PROVE  /\ fi[f] \in OpenFile /\ IsFile(sl, d, i) /\ <<d, i>> \in EntriesOf(sl)
         /\ Firsts(sl, fi)[<<d, i>>] = fi[f].cluster
         /\ f \in On(fi, d, i) /\ (fi[f].dirty => On(fi, d, i) = {f})
         /\ fi[f].current # None => fi[f].current \in Reach(fa, fi[f].cluster)
         /\ fi[f].offset % ClusterSize # 0 => fi[f].current # None
         /\ sl[d][i].name = fi[f].name
         /\ fi[f].dirty \/ sl[d][i].cluster = fi[f].cluster
         /\ \A g \in On(fi, d, i) \ {f} : ~fi[g].dirty
  <1>1. fi[f] \in OpenFile
    BY Kinds DEF Good, FilesType
  <1>2. Handle(sl, fa, fi, f) /\ sl \in SlotsType
    BY DEF Good, Handles, IsTree
  <1>3. IsFile(sl, d, i) /\ f \in On(fi, d, i)
    BY <1>2 DEF Handle, On, IsOn
  <1>4. <<d, i>> \in EntriesOf(sl) /\ Firsts(sl, fi)[<<d, i>>] = FirstOf(sl, fi, d, i)
    BY <1>2, <1>3, EntryIn DEF IsFile
  <1>5. FirstOf(sl, fi, d, i) = fi[f].cluster
    BY <1>3, FirstIs DEF Good
  <1>6. ASSUME NEW g \in On(fi, d, i) \ {f}, fi[g].dirty PROVE FALSE
    <2>1. g \in Fd /\ IsOn(fi[g], d, i) /\ Handle(sl, fa, fi, g)
      BY DEF Good, Handles, On
    <2>2. On(fi, d, i) = {g}
      BY <1>6, <2>1 DEF Handle, IsOn
    <2> QED BY <1>3, <2>2
  <1> QED BY <1>1, <1>2, <1>3, <1>4, <1>5, <1>6 DEF Handle

LEMMA OpenEntries ==
  ASSUME NEW sl, NEW fa, NEW fi, Good(sl, fa, fi)
  PROVE  /\ Handles(sl, fa, fi)
         /\ \A g \in Fd : fi[g].kind = "file" => /\ IsEntry(sl, fi[g].dir, fi[g].index)
                                                /\ fi[g].dir \in Dirs
  <1>1. ASSUME NEW g \in Fd, fi[g].kind = "file"
        PROVE  IsEntry(sl, fi[g].dir, fi[g].index) /\ fi[g].dir \in Dirs
    <2>1. Handle(sl, fa, fi, g)
      BY DEF Good, Handles
    <2> QED BY <1>1, <2>1 DEF Handle, IsFile, IsEntry
  <1> QED BY <1>1 DEF Good

Sets(fi, fj, f, h) == fj = [fi EXCEPT ![f] = h]

LEMMA SetsFacts ==
  ASSUME NEW fi \in FilesType, NEW f \in Fd, NEW h \in OpenFile \cup OpenDir \cup {Closed},
         NEW fj, Sets(fi, fj, f, h)
  PROVE  fj \in FilesType /\ fj[f] = h /\ \A g \in Fd \ {f} : fj[g] = fi[g]
  BY DEF Sets, FilesType

LEMMA Modulo ==
  ASSUME NEW n \in Nat \ {0}, NEW m \in Nat
  PROVE  0 % n = 0 /\ m % n \in 0 .. n - 1
  OBVIOUS

\* Descriptor f gets h, which has no copy of a slot.
LEMMA GoodDir ==
  ASSUME NEW sl, NEW fa, NEW fi, Good(sl, fa, fi), NEW f \in Fd, fi[f] = Closed,
         NEW h \in OpenDir, NEW fj, Sets(fi, fj, f, h)
  PROVE  Good(sl, fa, fj)
  <1>1. fj \in FilesType /\ fj[f] = h /\ \A g \in Fd \ {f} : fj[g] = fi[g]
    BY SetsFacts DEF Good
  <1>2. fi[f].kind # "file" /\ h.kind # "file"
    BY DEF Closed, OpenDir
  <1>3. On(fi, None, 0) = {}
    BY OpenEntries, Symbols DEF On, IsOn, Dirs
  <1>4. Handles(sl, fa, fj)
    <2>1. Handle(sl, fa, fj, f)
      BY <1>1, <1>2 DEF Handle
    <2> QED BY <1>1, <1>2, <1>3, <2>1, OpenEntries, OtherHandles
  <1>5. ASSUME NEW d, NEW i PROVE FirstOf(sl, fj, d, i) = FirstOf(sl, fi, d, i)
    <2>1. ~IsOn(fi[f], d, i) /\ ~IsOn(fj[f], d, i)
      BY <1>1, <1>2 DEF IsOn
    <2> QED BY <1>1, <2>1, FirstOther
  <1>6. Firsts(sl, fj) = Firsts(sl, fi)
    BY <1>5 DEF Firsts
  <1> QED BY <1>1, <1>4, <1>6 DEF Good

\* Whoever has not changed his copy of a slot has the slot's own first cluster.
LEMMA FirstRead ==
  ASSUME NEW sl, NEW fa, NEW fi, Good(sl, fa, fi), NEW d, NEW i,
         \A g \in On(fi, d, i) : ~fi[g].dirty
  PROVE  FirstOf(sl, fi, d, i) = sl[d][i].cluster
  <1>1. CASE On(fi, d, i) = {}
    BY <1>1, FirstIs DEF Good
  <1>2. CASE On(fi, d, i) # {}
    <2>1. PICK g : g \in On(fi, d, i)
      BY <1>2
    <2>2. FirstOf(sl, fi, d, i) = fi[g].cluster
      BY <2>1, FirstIs DEF Good
    <2>3. g \in Fd /\ fi[g].kind = "file" /\ fi[g].dir = d /\ fi[g].index = i
      BY <2>1 DEF On, IsOn
    <2>4. Handle(sl, fa, fi, g)
      BY <2>3 DEF Good, Handles
    <2> QED BY <2>1, <2>2, <2>3, <2>4 DEF Handle
  <1> QED BY <1>1, <1>2

\* A file is opened: f gets a copy of its slot.
LEMMA GoodOpen ==
  ASSUME NEW sl, NEW fa, NEW fi, Good(sl, fa, fi), NEW f \in Fd, fi[f] = Closed,
         NEW d, NEW i, IsFile(sl, d, i),
         NEW h \in OpenFile, h.dir = d, h.index = i, h.name = sl[d][i].name,
         h.cluster = sl[d][i].cluster, ~h.dirty, h.current = None, h.offset = 0,
         \A g \in On(fi, d, i) : ~fi[g].dirty,
         NEW fj, Sets(fi, fj, f, h)
  PROVE  Good(sl, fa, fj)
  <1>1. fj \in FilesType /\ fj[f] = h /\ \A g \in Fd \ {f} : fj[g] = fi[g]
    BY SetsFacts DEF Good
  <1>2. fi[f].kind # "file" /\ h.kind = "file"
    BY DEF Closed, OpenFile
  <1>3. On(fj, d, i) = On(fi, d, i) \cup {f}
    BY <1>1, <1>2 DEF On, IsOn
  <1>4. Handle(sl, fa, fj, f)
    <2>1. 0 % ClusterSize = 0
      BY NamesAssumption, Modulo
    <2> QED BY <1>1, <2>1 DEF Handle
  <1>5. Handles(sl, fa, fj)
    <2>1. IsOn(fj[f], d, i)
      BY <1>1, <1>2 DEF IsOn
    <2>2. \A g \in On(fi, d, i) \ {f} : ~fi[g].dirty
      OBVIOUS
    <2> QED BY <1>1, <1>4, <2>1, <2>2, OpenEntries, OtherHandles
  <1>6. FirstOf(sl, fj, d, i) = FirstOf(sl, fi, d, i)
    <2>1. FirstOf(sl, fi, d, i) = sl[d][i].cluster
      BY FirstRead
    <2>2. FirstOf(sl, fj, d, i) = fj[f].cluster
      BY <1>3, <1>5, FirstIs
    <2> QED BY <1>1, <2>1, <2>2
  <1>7. ASSUME NEW b, NEW j PROVE FirstOf(sl, fj, b, j) = FirstOf(sl, fi, b, j)
    <2>1. CASE b = d /\ j = i
      BY <1>6, <2>1
    <2>2. CASE ~(b = d /\ j = i)
      <3>1. ~IsOn(fi[f], b, j) /\ ~IsOn(fj[f], b, j)
        BY <1>1, <1>2, <2>2 DEF IsOn
      <3> QED BY <1>1, <3>1, FirstOther
    <2> QED BY <2>1, <2>2
  <1>8. Firsts(sl, fj) = Firsts(sl, fi)
    BY <1>7 DEF Firsts
  <1> QED BY <1>1, <1>5, <1>8 DEF Good

\* An open file on another slot is another entry.
LEMMA Apart ==
  ASSUME NEW sl, NEW fa, NEW fi, Good(sl, fa, fi), NEW d, NEW i,
         NEW g \in Fd, fi[g].kind = "file", ~IsOn(fi[g], d, i)
  PROVE  /\ <<fi[g].dir, fi[g].index>> \in EntriesOf(sl) \ {<<d, i>>}
         /\ Firsts(sl, fi)[<<fi[g].dir, fi[g].index>>] = fi[g].cluster
  <1>1. ~(fi[g].dir = d /\ fi[g].index = i)
    BY DEF IsOn
  <1>2. /\ <<fi[g].dir, fi[g].index>> \in EntriesOf(sl)
        /\ Firsts(sl, fi)[<<fi[g].dir, fi[g].index>>] = fi[g].cluster
    BY HandleFacts
  <1>3. <<fi[g].dir, fi[g].index>> # <<d, i>>
    BY <1>1
  <1> QED BY <1>2, <1>3

\* The file under f changes, and with it the FAT.  If others have it open, too,
\* they and f have the slot as it is, and its chain only gets longer.
LEMMA GoodFile ==
  ASSUME NEW sl, NEW fa, NEW fi, Good(sl, fa, fi), NEW f \in Fd, NEW d, NEW i,
         IsFile(sl, d, i), fi[f].kind = "file" => IsOn(fi[f], d, i),
         NEW v \in OpenFile, v.dir = d, v.index = i, v.name = sl[d][i].name,
         v.dirty \/ sl[d][i].cluster = v.cluster,
         v.offset % ClusterSize # 0 => v.current # None,
         NEW fb, v.current # None => v.current \in Reach(fb, v.cluster),
         \A g \in On(fi, d, i) \ {f} :
           ~v.dirty /\ ~fi[g].dirty /\ Reach(fa, v.cluster) \subseteq Reach(fb, v.cluster),
         \A t \in EntriesOf(sl) \ {<<d, i>>} :
           Reach(fb, Firsts(sl, fi)[t]) = Reach(fa, Firsts(sl, fi)[t]),
         \A g : g[<<d, i>>] = v.cluster /\ (\A t \in EntriesOf(sl) \ {<<d, i>>} : g[t] = Firsts(sl, fi)[t])
                  => Accounts(fb, EntriesOf(sl), g),
         NEW fj, Sets(fi, fj, f, v)
  PROVE  Good(sl, fb, fj)
  <1>1. fj \in FilesType /\ fj[f] = v /\ \A g \in Fd \ {f} : fj[g] = fi[g]
    BY SetsFacts DEF Good
  <1>2. v.kind = "file" /\ sl \in SlotsType
    BY DEF OpenFile, Good, IsTree
  <1>3. On(fj, d, i) = On(fi, d, i) \cup {f}
    BY <1>1, <1>2 DEF On, IsOn
  <1>4. Handle(sl, fb, fj, f)
    BY <1>1, <1>3 DEF Handle
  <1>5. Handles(sl, fb, fj)
    <2>1. ASSUME NEW g \in Fd \ {f}, fi[g].kind = "file"
          PROVE  Reach(fa, fi[g].cluster) \subseteq Reach(fb, fi[g].cluster)
      <3> DEFINE t == <<fi[g].dir, fi[g].index>>
      <3>1. CASE IsOn(fi[g], d, i)
        <4>1. g \in On(fi, d, i) \ {f} /\ fi[g].dir = d /\ fi[g].index = i
          BY <3>1 DEF On, IsOn
        <4>2. fi[g].cluster = sl[d][i].cluster
          BY <2>1, <4>1, HandleFacts
        <4> QED BY <4>1, <4>2
      <3>2. CASE ~IsOn(fi[g], d, i)
        <4>1. t \in EntriesOf(sl) \ {<<d, i>>} /\ Firsts(sl, fi)[t] = fi[g].cluster
          BY <2>1, <3>2, Apart
        <4> HIDE DEF t
        <4>2. Reach(fb, Firsts(sl, fi)[t]) = Reach(fa, Firsts(sl, fi)[t])
          BY <4>1
        <4> QED BY <4>1, <4>2
      <3> QED BY <3>1, <3>2
    <2>2. IsOn(fj[f], d, i)
      BY <1>1, <1>2 DEF IsOn
    <2>3. \A g \in On(fi, d, i) \ {f} : ~fi[g].dirty
      OBVIOUS
    <2> QED BY <1>1, <1>4, <2>1, <2>2, <2>3, OpenEntries, OtherHandles
  <1>6. FirstOf(sl, fj, d, i) = v.cluster
    BY <1>1, <1>3, <1>5, FirstIs
  <1>7. ASSUME NEW b, NEW j, ~(b = d /\ j = i) PROVE FirstOf(sl, fj, b, j) = FirstOf(sl, fi, b, j)
    <2>1. ~IsOn(fi[f], b, j) /\ ~IsOn(fj[f], b, j)
      BY <1>1, <1>7 DEF IsOn
    <2> QED BY <1>1, <2>1, FirstOther
  <1> DEFINE g == Firsts(sl, fj)
  <1>8. g[<<d, i>>] = v.cluster
    BY <1>2, <1>6, EntryIn DEF IsFile
  <1>9. ASSUME NEW t \in EntriesOf(sl) \ {<<d, i>>} PROVE g[t] = Firsts(sl, fi)[t]
    <2>1. t = <<t[1], t[2]>> /\ IsEntry(sl, t[1], t[2])
      BY <1>2, EntryIn
    <2>2. ~(t[1] = d /\ t[2] = i)
      BY <2>1
    <2> QED BY <1>2, <1>7, <2>1, <2>2, EntryIn
  <1> HIDE DEF g
  <1>10. Accounts(fb, EntriesOf(sl), g)
    BY <1>8, <1>9
  <1> QED BY <1>1, <1>5, <1>10 DEF Good, g

\* The file under f is read on: only its place moves.
LEMMA GoodRead ==
  ASSUME NEW sl, NEW fa, NEW fi, Good(sl, fa, fi), NEW f \in Fd, fi[f].kind = "file",
         NEW v \in OpenFile, v.dir = fi[f].dir, v.index = fi[f].index, v.name = fi[f].name,
         v.cluster = fi[f].cluster, v.dirty = fi[f].dirty,
         v.current # None, v.current \in Reach(fa, v.cluster),
         NEW fj, Sets(fi, fj, f, v)
  PROVE  Good(sl, fa, fj)
  <1> DEFINE d == v.dir
             i == v.index
  <1>1. fj \in FilesType /\ fj[f] = v /\ \A g \in Fd \ {f} : fj[g] = fi[g]
    BY SetsFacts DEF Good
  <1>2. v.kind = "file"
    BY DEF OpenFile
  <1>3. Handle(sl, fa, fi, f) /\ Handles(sl, fa, fi)
    BY DEF Good, Handles
  <1>4. ASSUME NEW b, NEW j PROVE On(fj, b, j) = On(fi, b, j)
    <2>1. IsOn(fj[f], b, j) <=> IsOn(fi[f], b, j)
      BY <1>1, <1>2 DEF IsOn
    <2> QED BY <1>1, <2>1 DEF On
  <1>5. Handle(sl, fa, fj, f)
    BY <1>1, <1>3, <1>4 DEF Handle
  <1>6. Handles(sl, fa, fj)
    <2> SUFFICES ASSUME NEW g \in Fd \ {f} PROVE Handle(sl, fa, fj, g)
      BY <1>5 DEF Handles
    <2>1. fj[g] = fi[g] /\ Handle(sl, fa, fi, g)
      BY <1>1, <1>3 DEF Handles
    <2> QED BY <1>4, <2>1 DEF Handle
  <1>7. ASSUME NEW b, NEW j PROVE FirstOf(sl, fj, b, j) = FirstOf(sl, fi, b, j)
    <2>1. CASE On(fi, b, j) = {}
      BY <1>3, <1>4, <1>6, <2>1, FirstIs
    <2>2. CASE On(fi, b, j) # {}
      <3>1. PICK g : g \in On(fi, b, j)
        BY <2>2
      <3>2. FirstOf(sl, fi, b, j) = fi[g].cluster /\ FirstOf(sl, fj, b, j) = fj[g].cluster
        BY <1>3, <1>4, <1>6, <3>1, FirstIs
      <3>3. g \in Fd /\ fj[g].cluster = fi[g].cluster
        BY <1>1, <3>1 DEF On
      <3> QED BY <3>2, <3>3
    <2> QED BY <2>1, <2>2
  <1>8. Firsts(sl, fj) = Firsts(sl, fi)
    BY <1>7 DEF Firsts
  <1> QED BY <1>1, <1>6, <1>8 DEF Good

\* A file is truncated as it is opened.
LEMMA GoodTruncate ==
  ASSUME NEW sl, NEW fa, NEW fi, Good(sl, fa, fi), NEW f \in Fd, fi[f] = Closed,
         NEW d, NEW i, IsFile(sl, d, i), \A g \in On(fi, d, i) : ~fi[g].dirty,
         NEW v \in OpenFile, v.dir = d, v.index = i, v.name = sl[d][i].name, v.cluster = None,
         v.dirty => On(fi, d, i) = {},
         v.dirty \/ sl[d][i].cluster = None, v.current = None, v.offset = 0,
         NEW fb, fb = [c \in Cluster |-> IF c \in Reach(fa, sl[d][i].cluster) THEN Free ELSE fa[c]],
         NEW fj, Sets(fi, fj, f, v)
  PROVE  Good(sl, fb, fj)
  <1> DEFINE E == EntriesOf(sl)
             F == E \ {<<d, i>>}
             g == Firsts(sl, fi)
             x == sl[d][i].cluster
  <1>1. Accounts(fa, E, g) /\ sl \in SlotsType /\ <<d, i>> \in E
    BY EntryIn DEF Good, IsTree, IsFile
  <1>2. g[<<d, i>>] = x
    <2>1. FirstOf(sl, fi, d, i) = x
      BY FirstRead
    <2> QED BY <1>1, <2>1, EntryIn DEF IsFile
  <1>3. fb = [c \in Cluster |-> IF c \in Reach(fa, g[<<d, i>>]) THEN Free ELSE fa[c]]
    BY <1>2
  <1> HIDE DEF E, F, g, x
  <1>4. ASSUME NEW h, \A t \in F : h[t] = g[t], h[<<d, i>>] = None
        PROVE  Accounts(fb, E, h)
    <2>1. Accounts(fb, F, h)
      BY <1>1, <1>3, <1>4, AccountFreed DEF F
    <2>2. E = F \cup {<<d, i>>} /\ <<d, i>> \notin F
      BY <1>1 DEF F
    <2> QED BY <1>4, <2>1, <2>2, AccountFile
  <1>5. Accounts(fb, F, g) /\ \A t \in F : Reach(fb, g[t]) = Reach(fa, g[t])
    <2>1. F = E \ {<<d, i>>} /\ \A t \in F : g[t] = g[t]
      BY DEF F
    <2>2. Accounts(fb, F, g)
      BY <1>1, <1>3, <2>1, AccountFreed
    <2> QED BY <1>1, <1>3, <2>1, <2>2, AccountFreed
  <1>6. 0 % ClusterSize = 0
    BY NamesAssumption, Modulo
  <1>7. fi[f].kind # "file"
    BY DEF Closed
  <1>8. Reach(fa, v.cluster) = {}
    BY Symbols, ReachFacts
  <1> QED BY <1>4, <1>5, <1>6, <1>7, <1>8, GoodFile DEF E, F, g

\* A file without clusters does not count.
LEMMA AccountWithout ==
  ASSUME NEW fa, NEW E, NEW g, Accounts(fa, E, g), NEW s \in E, g[s] = None,
         NEW F, F = E \ {s}
  PROVE  Accounts(fa, F, g)
  <1>1. Reach(fa, g[s]) = {}
    BY Symbols, ReachFacts
  <1> QED BY <1>1 DEF Accounts

\* The place of an open file, in a cluster of its own chain.
LEMMA PlaceFacts ==
  ASSUME NEW sl, NEW fi, Good(sl, fat, fi), NEW f \in Fd, fi[f].kind = "file"
  PROVE  /\ ClusterAt(fi[f]) # None => ClusterAt(fi[f]) \in Reach(fat, fi[f].cluster)
         /\ ClusterAt(fi[f]) = None =>
              \/ fi[f].cluster = None /\ fi[f].current = None
              \/ /\ fi[f].cluster # None /\ fi[f].current \in Reach(fat, fi[f].cluster)
                 /\ fat[fi[f].current] = None
  <1> DEFINE h == fi[f]
             s == <<h.dir, h.index>>
             g == Firsts(sl, fi)
  <1>1. /\ h \in OpenFile /\ s \in EntriesOf(sl) /\ g[s] = h.cluster
        /\ h.current # None => h.current \in Reach(fat, h.cluster)
        /\ h.offset % ClusterSize # 0 => h.current # None
    BY HandleFacts
  <1>2. h.cluster \in Cluster \cup {None}
    BY <1>1 DEF OpenFile
  <1>3. /\ h.cluster # None => h.cluster \in Reach(fat, h.cluster)
        /\ h.cluster = None => Reach(fat, h.cluster) = {}
    BY <1>2, Symbols, ReachFacts DEF Leads
  <1>4. ASSUME h.current # None, fat[h.current] # None PROVE fat[h.current] \in Reach(fat, h.cluster)
    <2>1. Accounts(fat, EntriesOf(sl), g)
      BY DEF Good
    <2> HIDE DEF s, g, h
    <2> QED BY <1>1, <1>4, <2>1, AccountNext
  <1>5. h.current # None => fat[h.current] # Free
    BY <1>1 DEF Good, Accounts
  <1> HIDE DEF h, s, g
  <1>6. ClusterAt(h) = IF h.offset % ClusterSize # 0 THEN h.current
                       ELSE IF h.current = None THEN h.cluster ELSE fat[h.current]
    BY <1>5 DEF ClusterAt, NextCluster
  <1> QED BY <1>1, <1>3, <1>4, <1>6 DEF h

\* Who has a slot open alone after f has changed had it alone before.
LEMMA OnKept ==
  ASSUME NEW fi \in FilesType, NEW f \in Fd, NEW v \in OpenFile, NEW fj, Sets(fi, fj, f, v),
         NEW d, NEW i
  PROVE  On(fi, d, i) \ {f} \subseteq On(fj, d, i)
  BY SetsFacts DEF On

\* The file under f is written to in a cluster it has.
LEMMA GoodPut ==
  ASSUME NEW sl, NEW fa, NEW fi, Good(sl, fa, fi), NEW f \in Fd, fi[f].kind = "file",
         NEW v \in OpenFile, v.dir = fi[f].dir, v.index = fi[f].index, v.name = fi[f].name,
         v.cluster = fi[f].cluster, fi[f].dirty => v.dirty, v.current \in Reach(fa, v.cluster),
         NEW fj, Sets(fi, fj, f, v), v.dirty => On(fj, v.dir, v.index) = {f}
  PROVE  Good(sl, fa, fj)
  <1> DEFINE d == v.dir
             i == v.index
             g == Firsts(sl, fi)
             E == EntriesOf(sl)
  <1>1. /\ IsFile(sl, d, i) /\ <<d, i>> \in E /\ g[<<d, i>>] = v.cluster
        /\ fi[f].dirty \/ sl[d][i].cluster = v.cluster
        /\ sl[d][i].name = v.name /\ \A x \in On(fi, d, i) \ {f} : ~fi[x].dirty
    BY HandleFacts
  <1>2. IsOn(fi[f], d, i)
    BY DEF IsOn
  <1>3. v.current # None
    BY Symbols, ReachFacts DEF Leads
  <1>4. ASSUME NEW h, h[<<d, i>>] = v.cluster, \A t \in E \ {<<d, i>>} : h[t] = g[t]
        PROVE  Accounts(fa, E, h)
    <2>1. Accounts(fa, E, g)
      BY DEF Good
    <2>2. \A t \in E : h[t] = g[t]
      BY <1>1, <1>4
    <2> HIDE DEF E, g
    <2> QED BY <2>1, <2>2, AccountSame
  <1>5. \A x \in On(fi, d, i) \ {f} : ~v.dirty
    BY OnKept DEF Good
  <1> QED BY <1>1, <1>2, <1>3, <1>4, <1>5, GoodFile

\* The file under f is written to in a new cluster, which Linked hangs to its
\* chain or makes its first.
LEMMA GoodExtend ==
  ASSUME NEW sl, NEW fi, Good(sl, fat, fi), NEW f \in Fd, fi[f].kind = "file",
         ClusterAt(fi[f]) = None, NEW c \in FreeClusters,
         NEW v \in OpenFile, v.dir = fi[f].dir, v.index = fi[f].index, v.name = fi[f].name,
         v.cluster = IF fi[f].cluster = None THEN c ELSE fi[f].cluster,
         fi[f].cluster = None \/ fi[f].dirty => v.dirty, v.current = c,
         NEW fj, Sets(fi, fj, f, v), v.dirty => On(fj, v.dir, v.index) = {f}
  PROVE  Good(sl, Linked(c, fi[f].current), fj)
  <1> DEFINE d == v.dir
             i == v.index
             s == <<d, i>>
             g == Firsts(sl, fi)
             E == EntriesOf(sl)
             F == E \ {s}
             prev == fi[f].current
             fb == Linked(c, prev)
             x == fi[f].cluster
  <1>1. /\ IsFile(sl, d, i) /\ s \in E /\ g[s] = x
        /\ fi[f].dirty \/ sl[d][i].cluster = x
        /\ sl[d][i].name = v.name /\ \A y \in On(fi, d, i) \ {f} : ~fi[y].dirty
    BY HandleFacts
  <1>2. IsOn(fi[f], d, i) /\ Accounts(fat, E, g) /\ c \in Cluster /\ fat[c] = Free
    BY DEF IsOn, Good, FreeClusters
  <1>3. \/ x = None /\ prev = None
        \/ x # None /\ prev \in Reach(fat, x) /\ fat[prev] = None
    BY PlaceFacts
  <1>4. fb = [y \in Cluster |-> IF y = c THEN None ELSE IF y = prev THEN c ELSE fat[y]]
    BY DEF Linked
  <1>5. E = F \cup {s} /\ s \notin F
    BY <1>1
  <1> HIDE DEF g, E, fb, s
  <1>6. /\ \A t \in F : Reach(fb, g[t]) = Reach(fat, g[t])
        /\ c \in Reach(fb, v.cluster)
        /\ x # None => Reach(fat, v.cluster) \subseteq Reach(fb, v.cluster)
        /\ \A h : h[s] = v.cluster /\ (\A t \in F : h[t] = g[t]) => Accounts(fb, E, h)
    <2>1. CASE x = None
      <3>1. fb = [y \in Cluster |-> IF y = c THEN None ELSE fat[y]] /\ v.cluster = c
        BY <1>3, <1>4, <2>1, Symbols
      <3>2. Accounts(fat, F, g)
        BY <1>1, <1>2, <2>1, AccountWithout
      <3> HIDE DEF F, x, prev
      <3>3. ASSUME NEW h, h[s] = c, \A t \in F : h[t] = g[t]
            PROVE  Accounts(fb, E, h) /\ \A t \in F : Reach(fb, h[t]) = Reach(fat, g[t])
        <4>1. Accounts(fb, E, h)
          BY <1>2, <1>5, <3>1, <3>2, <3>3, AccountFirst
        <4> QED BY <1>2, <1>5, <3>1, <3>2, <3>3, <4>1, AccountFirst
      <3>4. \A t \in F : Reach(fb, g[t]) = Reach(fat, g[t])
        <4> DEFINE h == [t \in E |-> IF t = s THEN c ELSE g[t]]
        <4>1. h[s] = c /\ \A t \in F : h[t] = g[t]
          BY <1>5
        <4> HIDE DEF h
        <4> QED BY <3>3, <4>1
      <3>5. c \in Reach(fb, c)
        BY <1>2, ReachFacts DEF Leads
      <3> QED BY <2>1, <3>1, <3>3, <3>4, <3>5 DEF x
    <2>2. CASE x # None
      <3>1. v.cluster = g[s] /\ prev \in Reach(fat, g[s]) /\ fat[prev] = None
        BY <1>1, <1>3, <2>2
      <3> HIDE DEF F, x, prev
      <3>2. Accounts(fb, E, g)
        BY <1>1, <1>2, <1>4, <3>1, AccountGrown
      <3>3. /\ c \in Reach(fb, g[s]) /\ Reach(fat, g[s]) \subseteq Reach(fb, g[s])
            /\ \A t \in F : Reach(fb, g[t]) = Reach(fat, g[t])
        BY <1>1, <1>2, <1>4, <3>1, <3>2, AccountGrown DEF F
      <3>4. ASSUME NEW h, h[s] = g[s], \A t \in F : h[t] = g[t] PROVE Accounts(fb, E, h)
        BY <1>5, <3>2, <3>4, AccountSame
      <3> QED BY <3>1, <3>3, <3>4
    <2> QED BY <2>1, <2>2
  <1>7. v.dirty \/ sl[d][i].cluster = v.cluster
    BY <1>1
  <1>8. c # None
    BY <1>2, Symbols
  <1>9. \A y \in On(fi, d, i) \ {f} : ~v.dirty /\ x # None
    BY OnKept DEF Good
  <1> QED BY <1>1, <1>2, <1>6, <1>7, <1>8, <1>9, GoodFile DEF s, g, E, fb

Besides(fi, fj, f) == \A g \in Fd \ {f} : fj[g] = fi[g]
Elsewhere(h, d, i) == h.kind = "file" /\ ~IsOn(h, d, i)

\* What an edit leaves of the other entries, if the file under f is not on
\* them.
LEMMA EditFirsts ==
  ASSUME NEW sl, NEW sm, NEW d, NEW i, NEW e, NEW c, Edit(sl, sm, d, i, e, c),
         NEW fi, NEW fj, NEW f, Besides(fi, fj, f),
         ~Elsewhere(fi[f], d, i), ~Elsewhere(fj[f], d, i)
  PROVE  /\ EntriesOf(sm) = (EntriesOf(sl) \ {<<d, i>>}) \cup {s \in {<<d, i>>} : e.kind # "deleted"}
         /\ \A t \in EntriesOf(sl) \ {<<d, i>>} : Firsts(sm, fj)[t] = Firsts(sl, fi)[t]
  <1>1. sl \in SlotsType /\ sm \in SlotsType /\ <<d, i>> \in Dirs \X Nat
    BY DEF Edit
  <1>2. \A t \in Dirs \X Nat : t = <<t[1], t[2]>>
    OBVIOUS
  <1>3. ASSUME NEW t \in Dirs \X Nat, t # <<d, i>>
        PROVE  /\ t \in EntriesOf(sm) <=> t \in EntriesOf(sl)
               /\ t \in EntriesOf(sl) => Firsts(sm, fj)[t] = Firsts(sl, fi)[t]
    <2>1. ~(t[1] = d /\ t[2] = i)
      BY <1>2, <1>3
    <2>2. /\ IsEntry(sm, t[1], t[2]) <=> IsEntry(sl, t[1], t[2])
          /\ IsEntry(sl, t[1], t[2]) => sm[t[1]][t[2]] = sl[t[1]][t[2]]
      BY <2>1, EditEntries
    <2>3. t \in EntriesOf(sm) <=> t \in EntriesOf(sl)
      BY <2>2 DEF EntriesOf
    <2>4. ASSUME t \in EntriesOf(sl) PROVE Firsts(sm, fj)[t] = Firsts(sl, fi)[t]
      <3>1. sm[t[1]][t[2]] = sl[t[1]][t[2]]
        BY <2>2, <2>4 DEF EntriesOf
      <3>2. ~IsOn(fi[f], t[1], t[2]) /\ ~IsOn(fj[f], t[1], t[2])
        BY <2>1 DEF Elsewhere, IsOn
      <3>3. FirstOf(sm, fj, t[1], t[2]) = FirstOf(sl, fi, t[1], t[2])
        BY <3>1, <3>2, FirstOther DEF Besides
      <3> QED BY <2>3, <2>4, <3>3 DEF Firsts
    <2> QED BY <2>3, <2>4
  <1>4. <<d, i>> \in EntriesOf(sm) <=> e.kind # "deleted"
    BY <1>1, EntryIn, EditEntries
  <1>5. EntriesOf(sm) \subseteq Dirs \X Nat /\ EntriesOf(sl) \subseteq Dirs \X Nat
    BY DEF EntriesOf
  <1>6. EntriesOf(sm) = (EntriesOf(sl) \ {<<d, i>>}) \cup {s \in {<<d, i>>} : e.kind # "deleted"}
    BY <1>1, <1>3, <1>4, <1>5
  <1> QED BY <1>3, <1>5, <1>6

\* The handles of the other descriptors after an edit of a slot that they are
\* not on.
LEMMA EditHandles ==
  ASSUME NEW sl, NEW sm, NEW fa, NEW fb, NEW fi, NEW fj, Good(sl, fa, fi),
         NEW d, NEW i, NEW e, NEW c, Edit(sl, sm, d, i, e, c),
         NEW f \in Fd, \A g \in Fd \ {f} : fj[g] = fi[g], On(fi, d, i) \subseteq {f},
         fj[f].kind = "file" => IsOn(fj[f], d, i), Handle(sm, fb, fj, f),
         \A t \in EntriesOf(sl) \ {<<d, i>>} :
           Reach(fb, Firsts(sl, fi)[t]) = Reach(fa, Firsts(sl, fi)[t])
  PROVE  Handles(sm, fb, fj)
  <1>1. ASSUME NEW g \in Fd \ {f}, fi[g].kind = "file"
        PROVE  /\ sm[fi[g].dir][fi[g].index] = sl[fi[g].dir][fi[g].index]
               /\ IsEntry(sm, fi[g].dir, fi[g].index)
               /\ Reach(fa, fi[g].cluster) \subseteq Reach(fb, fi[g].cluster)
    <2> DEFINE t == <<fi[g].dir, fi[g].index>>
    <2>0. ~(fi[g].dir = d /\ fi[g].index = i) /\ ~IsOn(fi[g], d, i)
      BY <1>1 DEF On, IsOn
    <2>1. IsEntry(sl, fi[g].dir, fi[g].index)
      BY <1>1, OpenEntries
    <2>2. /\ sm[fi[g].dir][fi[g].index] = sl[fi[g].dir][fi[g].index]
          /\ IsEntry(sm, fi[g].dir, fi[g].index)
      BY <2>0, <2>1, EditEntries
    <2>3. t \in EntriesOf(sl) \ {<<d, i>>} /\ Firsts(sl, fi)[t] = fi[g].cluster
      BY <1>1, <2>0, Apart
    <2> HIDE DEF t
    <2>4. Reach(fb, Firsts(sl, fi)[t]) = Reach(fa, Firsts(sl, fi)[t])
      BY <2>3
    <2> QED BY <2>2, <2>3, <2>4
  <1>2. \A g \in On(fi, d, i) \ {f} : ~fi[g].dirty
    OBVIOUS
  <1>3. Handles(sl, fa, fi)
    BY DEF Good
  <1>4. \A g \in Fd \ {f} : fi[g].kind = "file" =>
          /\ sm[fi[g].dir][fi[g].index] = sl[fi[g].dir][fi[g].index]
          /\ IsEntry(sm, fi[g].dir, fi[g].index)
          /\ Reach(fa, fi[g].cluster) \subseteq Reach(fb, fi[g].cluster)
    BY <1>1
  <1> QED BY <1>2, <1>3, <1>4, OtherHandles, SMTT(40)

\* Nobody has a slot open that is not a file's.
LEMMA NotOn ==
  ASSUME NEW sl, NEW fa, NEW fi, Good(sl, fa, fi), NEW d, NEW i, ~IsFile(sl, d, i)
  PROVE  On(fi, d, i) = {}
  <1> SUFFICES ASSUME NEW g \in On(fi, d, i) PROVE FALSE
    OBVIOUS
  <1>1. g \in Fd /\ fi[g].kind = "file" /\ fi[g].dir = d /\ fi[g].index = i
    BY DEF On, IsOn
  <1>2. Handle(sl, fa, fi, g)
    BY <1>1 DEF Good, Handles
  <1> QED BY <1>1, <1>2 DEF Handle

\* A file is created and opened.
LEMMA GoodCreate ==
  ASSUME NEW sl, NEW sm, NEW fa, NEW fi, Good(sl, fa, fi), NEW f \in Fd, fi[f] = Closed,
         NEW d, NEW i, NEW e, Edit(sl, sm, d, i, e, None), Exists(sl, d),
         i \notin UsedIn(sl, d), NewName(sl, d, i, e), e.kind = "file", e.cluster = None,
         NEW h \in OpenFile, h.dir = d, h.index = i, h.name = e.name, h.cluster = None, ~h.dirty,
         h.current = None, h.offset = 0,
         NEW fj, Sets(fi, fj, f, h)
  PROVE  Good(sm, fa, fj)
  <1>1. fj \in FilesType /\ fj[f] = h /\ \A g \in Fd \ {f} : fj[g] = fi[g]
    BY SetsFacts DEF Good
  <1>2. fi[f].kind # "file" /\ h.kind = "file" /\ ~IsEntry(sl, d, i)
    BY DEF Closed, OpenFile, IsEntry
  <1>3. IsTree(sm)
    BY <1>2, TreeFile DEF Good, IsDir
  <1>4. On(fi, d, i) = {} /\ IsOn(fj[f], d, i)
    BY <1>1, <1>2, NotOn DEF IsFile, IsOn
  <1>5. On(fj, d, i) = {f}
    BY <1>1, <1>4 DEF On
  <1>6. sm[d][i] = e /\ sl \in SlotsType /\ sm \in SlotsType
    BY DEF Edit
  <1>7. IsFile(sm, d, i)
    BY <1>6, EditEntries DEF IsFile
  <1>8. Handle(sm, fa, fj, f)
    <2>1. 0 % ClusterSize = 0
      BY NamesAssumption, Modulo
    <2> QED BY <1>1, <1>5, <1>6, <1>7, <2>1 DEF Handle
  <1>9. Handles(sm, fa, fj)
    BY <1>1, <1>4, <1>8, EditHandles
  <1> DEFINE s == <<d, i>>
             E == EntriesOf(sl)
             F == EntriesOf(sm)
             g == Firsts(sl, fi)
             k == Firsts(sm, fj)
  <1>10. s \notin E /\ Accounts(fa, E, g)
    BY <1>2, <1>6, EntryIn DEF Good
  <1>11. F = E \cup {s} /\ \A t \in E : k[t] = g[t]
    <2>0. Besides(fi, fj, f) /\ ~Elsewhere(fi[f], d, i) /\ ~Elsewhere(fj[f], d, i)
      BY <1>1, <1>2, <1>4 DEF Besides, Elsewhere
    <2>1. F = (E \ {s}) \cup {x \in {s} : e.kind # "deleted"}
      BY <2>0, EditFirsts
    <2>2. \A t \in E \ {s} : k[t] = g[t]
      BY <2>0, EditFirsts
    <2> HIDE DEF s, E, F, g, k
    <2> QED BY <1>10, <2>1, <2>2
  <1>12. k[s] = None
    <2>1. FirstOf(sm, fj, d, i) = None
      BY <1>1, <1>5, <1>9, FirstIs
    <2> QED BY <1>6, <1>7, <2>1, EntryIn DEF IsFile
  <1>13. Accounts(fa, F, k)
    <2> HIDE DEF s, E, F, g, k
    <2> QED BY <1>10, <1>11, <1>12, AccountFile
  <1> QED BY <1>1, <1>3, <1>9, <1>13 DEF Good

\* A directory c is created in d, and opened.
LEMMA GoodMkdir ==
  ASSUME NEW sl, NEW sm, NEW fa, NEW fb, NEW fi, Good(sl, fa, fi), NEW f \in Fd, fi[f] = Closed,
         NEW d, NEW i, NEW e, NEW c \in Cluster, Edit(sl, sm, d, i, e, c), Exists(sl, d),
         i \notin UsedIn(sl, d), NewName(sl, d, i, e), e.kind = "dir", e.cluster = c,
         DOMAIN sl[c] = {}, Begins(sm, c, d),
         fa[c] = Free, fb = [x \in Cluster |-> IF x = c THEN None ELSE fa[x]],
         NEW h \in OpenDir, NEW fj, Sets(fi, fj, f, h)
  PROVE  Good(sm, fb, fj)
  <1>1. fj \in FilesType /\ fj[f] = h /\ \A g \in Fd \ {f} : fj[g] = fi[g]
    BY SetsFacts DEF Good
  <1>2. fi[f].kind # "file" /\ fj[f].kind # "file" /\ ~IsEntry(sl, d, i)
    BY <1>1 DEF Closed, OpenDir, IsEntry
  <1>3. IsTree(sm)
    BY TreeMkdir DEF Good
  <1>4. On(fi, d, i) = {}
    BY <1>2, NotOn DEF IsFile
  <1>5. sm[d][i] = e /\ sl \in SlotsType /\ sm \in SlotsType
    BY DEF Edit
  <1>6. IsEntry(sm, d, i)
    BY EditEntries
  <1> DEFINE s == <<d, i>>
             E == EntriesOf(sl)
             F == EntriesOf(sm)
             g == Firsts(sl, fi)
             k == Firsts(sm, fj)
  <1>7. s \notin E /\ Accounts(fa, E, g)
    BY <1>2, <1>5, EntryIn DEF Good
  <1>8. F = E \cup {s} /\ \A t \in E : k[t] = g[t]
    <2>0. Besides(fi, fj, f) /\ ~Elsewhere(fi[f], d, i) /\ ~Elsewhere(fj[f], d, i)
      BY <1>1, <1>2 DEF Besides, Elsewhere
    <2>1. F = (E \ {s}) \cup {x \in {s} : e.kind # "deleted"}
      BY <2>0, EditFirsts
    <2>2. \A t \in E \ {s} : k[t] = g[t]
      BY <2>0, EditFirsts
    <2> HIDE DEF s, E, F, g, k
    <2> QED BY <1>7, <2>1, <2>2
  <1>9. k[s] = c
    <2>1. FirstOf(sm, fj, d, i) = FirstOf(sm, fi, d, i)
      BY <1>1, <1>2, FirstOther DEF IsOn
    <2>2. FirstOf(sm, fi, d, i) = c
      BY <1>4, <1>5 DEF FirstOf
    <2> QED BY <1>5, <1>6, <2>1, <2>2, EntryIn
  <1>10. Accounts(fb, F, k) /\ \A t \in E : Reach(fb, g[t]) = Reach(fa, g[t])
    <2> HIDE DEF s, E, F, g, k
    <2>1. Accounts(fb, F, k)
      BY <1>7, <1>8, <1>9, AccountFirst
    <2>2. \A t \in E : Reach(fb, k[t]) = Reach(fa, g[t])
      BY <1>7, <1>8, <1>9, <2>1, AccountFirst
    <2> QED BY <1>8, <2>1, <2>2
  <1>11. Handles(sm, fb, fj)
    <2>1. Handle(sm, fb, fj, f)
      BY <1>2 DEF Handle
    <2> QED BY <1>1, <1>2, <1>4, <1>10, <2>1, EditHandles
  <1> QED BY <1>1, <1>3, <1>10, <1>11 DEF Good

\* A file with changes is closed: they go to its slot.
LEMMA GoodFlush ==
  ASSUME NEW sl, NEW sm, NEW fa, NEW fi, Good(sl, fa, fi), NEW f \in Fd,
         NEW d, NEW i, IsOn(fi[f], d, i), fi[f].dirty, NEW e, Edit(sl, sm, d, i, e, None),
         e.kind = sl[d][i].kind, e.name = sl[d][i].name, e.cluster = fi[f].cluster,
         NEW fj, Sets(fi, fj, f, Closed)
  PROVE  Good(sm, fa, fj)
  <1>1. fj \in FilesType /\ fj[f] = Closed /\ \A g \in Fd \ {f} : fj[g] = fi[g]
    <2>1. fi \in FilesType /\ Closed \in OpenFile \cup OpenDir \cup {Closed}
      BY DEF Good
    <2> QED BY <2>1, SetsFacts
  <1>2. IsFile(sl, d, i) /\ On(fi, d, i) = {f} /\ <<d, i>> \in EntriesOf(sl)
    BY HandleFacts DEF IsOn
  <1>3. Firsts(sl, fi)[<<d, i>>] = fi[f].cluster
    BY HandleFacts DEF IsOn
  <1>4. fj[f].kind # "file" /\ e.kind = "file" /\ sm[d][i] = e /\ sm \in SlotsType
    BY <1>1, <1>2 DEF Closed, IsFile, Edit
  <1>5. IsTree(sm)
    <2>1. Exists(sl, d) /\ ~IsDir(sl, d, i) /\ IsTree(sl)
      BY <1>2 DEF IsFile, IsDir, IsEntry, UsedIn, Exists, Dirs, Good
    <2>2. NewName(sl, d, i, e)
      <3>1. IsEntry(sl, d, i) /\ sl[d][i].name # ""
        BY <1>2, <2>1 DEF IsFile, IsTree, Distinct
      <3> QED BY <3>1 DEF NewName
    <2> QED BY <1>4, <2>1, <2>2, TreeFile
  <1>6. On(fj, d, i) = {}
    BY <1>1, <1>2, <1>4 DEF On, IsOn
  <1>7. Handles(sm, fa, fj)
    <2>1. Handle(sm, fa, fj, f)
      BY <1>4 DEF Handle
    <2> QED BY <1>1, <1>2, <1>4, <2>1, EditHandles
  <1> DEFINE s == <<d, i>>
             E == EntriesOf(sl)
             F == EntriesOf(sm)
             g == Firsts(sl, fi)
             k == Firsts(sm, fj)
  <1>8. F = E /\ \A t \in E \ {s} : k[t] = g[t]
    <2>0. Besides(fi, fj, f) /\ ~Elsewhere(fi[f], d, i) /\ ~Elsewhere(fj[f], d, i)
      BY <1>1, <1>4 DEF Besides, Elsewhere
    <2>1. EntriesOf(sm) = (EntriesOf(sl) \ {<<d, i>>}) \cup {x \in {<<d, i>>} : e.kind # "deleted"}
      BY <2>0, EditFirsts
    <2>2. ASSUME NEW t \in EntriesOf(sl) \ {<<d, i>>} PROVE Firsts(sm, fj)[t] = Firsts(sl, fi)[t]
      BY <2>0, EditFirsts
    <2> HIDE DEF s, E, F, g, k
    <2> QED BY <1>2, <1>4, <2>1, <2>2 DEF s, E, F, g, k
  <1>9. k[s] = g[s]
    <2>1. FirstOf(sm, fj, d, i) = fi[f].cluster
      BY <1>4, <1>6, <1>7, FirstIs
    <2>2. IsEntry(sm, d, i)
      BY <1>4, EditEntries
    <2> QED BY <1>3, <1>4, <2>1, <2>2, EntryIn
  <1>10. Accounts(fa, F, k)
    <2>1. Accounts(fa, E, g)
      BY DEF Good
    <2> HIDE DEF s, E, F, g, k
    <2>2. \A t \in E : k[t] = g[t]
      BY <1>8, <1>9
    <2> QED BY <1>8, <2>1, <2>2, AccountSame
  <1> QED BY <1>1, <1>5, <1>7, <1>10 DEF Good

\* Any other file is closed.
LEMMA GoodClose ==
  ASSUME NEW sl, NEW fa, NEW fi, Good(sl, fa, fi), NEW f \in Fd,
         fi[f].kind = "file" => ~fi[f].dirty, NEW fj, Sets(fi, fj, f, Closed)
  PROVE  Good(sl, fa, fj)
  <1>1. fj \in FilesType /\ fj[f] = Closed /\ \A g \in Fd \ {f} : fj[g] = fi[g]
    <2>1. fi \in FilesType /\ Closed \in OpenFile \cup OpenDir \cup {Closed}
      BY DEF Good
    <2> QED BY <2>1, SetsFacts
  <1>2. fj[f].kind # "file" /\ Handles(sl, fa, fi)
    BY <1>1 DEF Closed, Good
  <1>3. On(fi, None, 0) = {}
    BY OpenEntries, Symbols DEF On, IsOn, Dirs
  <1>4. Handles(sl, fa, fj)
    <2>1. Handle(sl, fa, fj, f)
      BY <1>2 DEF Handle
    <2> QED BY <1>1, <1>2, <1>3, <2>1, OpenEntries, OtherHandles
  <1>5. ASSUME NEW d, NEW i PROVE FirstOf(sl, fj, d, i) = FirstOf(sl, fi, d, i)
    <2>1. CASE ~IsOn(fi[f], d, i)
      <3>1. ~IsOn(fj[f], d, i)
        BY <1>2 DEF IsOn
      <3> QED BY <1>1, <2>1, <3>1, FirstOther
    <2>2. CASE IsOn(fi[f], d, i)
      <3>1. On(fj, d, i) = On(fi, d, i) \ {f} /\ f \in On(fi, d, i)
        BY <1>1, <1>2, <2>2 DEF On, IsOn
      <3>2. FirstOf(sl, fi, d, i) = fi[f].cluster
        BY <1>2, <3>1, FirstIs
      <3>3. sl[d][i].cluster = fi[f].cluster
        BY <1>2, <2>2 DEF Handles, Handle, IsOn
      <3>4. CASE On(fj, d, i) = {}
        BY <1>4, <3>2, <3>3, <3>4, FirstIs
      <3>5. CASE On(fj, d, i) # {}
        <4>1. PICK g : g \in On(fj, d, i)
          BY <3>5
        <4>2. g \in On(fi, d, i) /\ g \in Fd \ {f}
          BY <3>1, <4>1 DEF On
        <4>3. FirstOf(sl, fj, d, i) = fj[g].cluster /\ FirstOf(sl, fi, d, i) = fi[g].cluster
          BY <1>2, <1>4, <4>1, <4>2, FirstIs
        <4> QED BY <1>1, <4>2, <4>3
      <3> QED BY <3>4, <3>5
    <2> QED BY <2>1, <2>2
  <1>6. Firsts(sl, fj) = Firsts(sl, fi)
    BY <1>5 DEF Firsts
  <1> QED BY <1>1, <1>4, <1>6 DEF Good

\* A file or an empty directory is removed: c is the directory, if it is one.
Emptied(sl, sm, d, i, c) ==
  IF IsDir(sl, d, i) THEN c = sl[d][i].cluster /\ DOMAIN sm[c] = {} ELSE c = None
Frees(fa, fb, x) == fb = [c \in Cluster |-> IF c \in Reach(fa, x) THEN Free ELSE fa[c]]

\* Removing an entry that nobody has open, and giving its chain back.
LEMMA GoodRemove ==
  ASSUME NEW sl, NEW sm, NEW fa, NEW fb, NEW fi, Good(sl, fa, fi), NEW d, NEW i, NEW c,
         IsEntry(sl, d, i), On(fi, d, i) = {}, NEW e, e.kind = "deleted", Edit(sl, sm, d, i, e, c),
         Emptied(sl, sm, d, i, c), Frees(fa, fb, sl[d][i].cluster)
  PROVE  Good(sm, fb, fi)
  <1>1. sl \in SlotsType /\ sm \in SlotsType /\ sm[d][i] = e /\ Handles(sl, fa, fi) /\ IsTree(sl)
    BY DEF Edit, Good
  <1>2. IsTree(sm)
    <2>1. CASE IsDir(sl, d, i)
      BY <1>1, <2>1, TreeRmdir DEF Emptied
    <2>2. CASE ~IsDir(sl, d, i)
      <3>1. Exists(sl, d)
        BY DEF IsEntry, UsedIn, Exists, Dirs
      <3> QED BY <1>1, <2>2, <3>1, TreeFile DEF Emptied
    <2> QED BY <2>1, <2>2
  <1> DEFINE s == <<d, i>>
             E == EntriesOf(sl)
             F == EntriesOf(sm)
             g == Firsts(sl, fi)
             k == Firsts(sm, fi)
  <1>3. s \in E /\ Accounts(fa, E, g) /\ g[s] = sl[d][i].cluster
    <2>1. FirstOf(sl, fi, d, i) = sl[d][i].cluster
      BY <1>1, FirstIs
    <2> QED BY <1>1, <2>1, EntryIn DEF Good
  <1>4. F = E \ {s} /\ \A t \in F : k[t] = g[t]
    <2>1. \A f \in Fd : ~IsOn(fi[f], d, i)
      BY DEF On
    <2>2. ASSUME NEW b, NEW j, ~(b = d /\ j = i), IsEntry(sl, b, j)
          PROVE  FirstOf(sm, fi, b, j) = FirstOf(sl, fi, b, j)
      <3>1. sm[b][j] = sl[b][j]
        BY <2>2, EditEntries
      <3> QED BY <3>1 DEF FirstOf
    <2>3. ASSUME NEW t PROVE t \in F <=> t \in E /\ t # s
      <3>1. CASE t = s
        BY <1>1, <3>1, EntryIn, EditEntries
      <3>2. CASE t # s
        <4>1. t \in Dirs \X Nat => t = <<t[1], t[2]>>
          OBVIOUS
        <4>2. t \in Dirs \X Nat => ~(t[1] = d /\ t[2] = i)
          BY <3>2, <4>1
        <4> QED BY <3>2, <4>2, EditEntries DEF EntriesOf
      <3> QED BY <3>1, <3>2
    <2>4. ASSUME NEW t \in F PROVE k[t] = g[t]
      <3>1. t \in E /\ t # s
        BY <2>3
      <3>2. t = <<t[1], t[2]>> /\ IsEntry(sl, t[1], t[2])
        BY <1>1, <3>1, EntryIn
      <3>3. ~(t[1] = d /\ t[2] = i)
        BY <3>1, <3>2
      <3>4. FirstOf(sm, fi, t[1], t[2]) = FirstOf(sl, fi, t[1], t[2])
        BY <2>2, <3>2, <3>3
      <3> QED BY <2>4, <3>1, <3>4 DEF Firsts
    <2> HIDE DEF s, E, F, g, k
    <2> QED BY <2>3, <2>4
  <1>5. fb = [x \in Cluster |-> IF x \in Reach(fa, g[s]) THEN Free ELSE fa[x]]
    BY <1>3 DEF Frees
  <1>6. Accounts(fb, F, k)
    <2> HIDE DEF s, E, F, g, k
    <2> QED BY <1>3, <1>4, <1>5, AccountFreed
  <1>7. \A t \in F : Reach(fb, k[t]) = Reach(fa, g[t])
    <2> HIDE DEF s, E, F, g, k
    <2> QED BY <1>3, <1>4, <1>5, <1>6, AccountFreed
  <1>8. Handles(sm, fb, fi)
    <2> SUFFICES ASSUME NEW f \in Fd, fi[f].kind = "file" PROVE Handle(sm, fb, fi, f)
      BY DEF Handles, Handle
    <2> DEFINE b == fi[f].dir
               j == fi[f].index
    <2>1. Handle(sl, fa, fi, f) /\ IsFile(sl, b, j)
      BY <1>1 DEF Handles, Handle
    <2>2. ~(b = d /\ j = i)
      BY DEF On, IsOn
    <2>3. sm[b][j] = sl[b][j] /\ IsFile(sm, b, j)
      BY <2>1, <2>2, EditEntries DEF IsFile
    <2>4. <<b, j>> \in E /\ g[<<b, j>>] = fi[f].cluster
      BY HandleFacts
    <2>5. <<b, j>> \in F
      BY <1>4, <2>2, <2>4
    <2>6. Reach(fb, fi[f].cluster) = Reach(fa, fi[f].cluster)
      BY <1>4, <1>7, <2>4, <2>5
    <2> QED BY <2>1, <2>3, <2>6 DEF Handle
  <1> QED BY <1>2, <1>6, <1>8 DEF Good

-----------------------------------------------------------------------------
(* Files and directories, and the working directory.                       *)

Sound == Good(slots, fat, files) /\ CwdType

LEMMA OpenOnIs ==
  \A d, i : OpenOn(d, i) = On(files, d, i)
  BY DEF OpenOn, On, IsOn

\* The duty of the programs, for the slots sl and the open files fi.
Met(sl, fi) ==
  \A f \in Fd : fi[f].kind = "file" =>
    /\ fi[f].index \in UsedIn(sl, fi[f].dir)
    /\ fi[f].dirty => On(fi, fi[f].dir, fi[f].index) = {f}

LEMMA DutyIs ==
  ASSUME Duty'
  PROVE  Met(slots', files')
  <1>1. \A d, i : OpenOn(d, i)' = On(files', d, i)
    BY DEF OpenOn, On, IsOn
  <1>2. \A d : Used(d)' = UsedIn(slots', d)
    BY DEF Used, UsedIn
  <1> QED BY <1>1, <1>2 DEF Duty, Met

\* Who opens a file when it is his duty to change it alone.
LEMMA OpensClean ==
  ASSUME NEW fi \in FilesType, NEW f \in Fd, fi[f] = Closed, NEW h, NEW d, NEW i, IsOn(h, d, i),
         NEW fj, Sets(fi, fj, f, h), NEW sl, Met(sl, fj)
  PROVE  /\ \A g \in On(fi, d, i) : ~fi[g].dirty
         /\ h.dirty => On(fi, d, i) = {}
  <1>1. fj[f] = h /\ \A g \in Fd \ {f} : fj[g] = fi[g]
    BY DEF Sets, FilesType
  <1>2. f \notin On(fi, d, i)
    BY DEF On, IsOn, Closed
  <1>3. f \in On(fj, d, i)
    BY <1>1 DEF On
  <1>4. ASSUME NEW g \in On(fi, d, i)
        PROVE  g \in On(fj, d, i) /\ g # f /\ fj[g] = fi[g]
    BY <1>1, <1>2 DEF On
  <1>5. ASSUME NEW g \in On(fj, d, i), fj[g].dirty PROVE On(fj, d, i) = {g}
    BY <1>5 DEF Met, On, IsOn
  <1> QED BY <1>1, <1>3, <1>4, <1>5

\* A file that nobody else has changed, as it is opened.
LEMMA InodeFacts ==
  ASSUME Good(slots, fat, files), NEW d, NEW i, IsFile(slots, d, i), NEW flags,
         \A g \in On(files, d, i) : ~files[g].dirty,
         NEW h, h = InodeFile(d, i, slots[d][i], flags)
  PROVE  /\ h \in OpenFile /\ h.dir = d /\ h.index = i /\ h.name = slots[d][i].name
         /\ h.cluster = slots[d][i].cluster /\ ~h.dirty /\ h.current = None /\ h.offset = 0
  <1> DEFINE e == slots[d][i]
  <1>1. e \in Slot /\ d \in Dirs /\ i \in Nat /\ slots \in SlotsType
    BY SlotFacts DEF Good, IsTree, IsFile, IsEntry
  <1>2. e.cluster \in Cluster \cup {None}
    <2>1. FirstOf(slots, files, d, i) = e.cluster
      BY FirstRead
    <2>2. /\ <<d, i>> \in EntriesOf(slots)
          /\ Firsts(slots, files)[<<d, i>>] = FirstOf(slots, files, d, i)
      BY <1>1, EntryIn DEF IsFile
    <2> QED BY <2>1, <2>2 DEF Good, Accounts
  <1>3. e.size \in Nat /\ e.name \in Piece
    BY <1>1 DEF Slot
  <1> HIDE DEF e
  <1>4. h = [kind |-> "file", dir |-> d, index |-> i,
             name |-> e.name, cluster |-> e.cluster, size |-> e.size,
             dirty |-> FALSE, current |-> None, offset |-> 0,
             readable |-> Readable(flags), writable |-> Writable(flags)]
    BY DEF InodeFile, e
  <1>5. Readable(flags) \in BOOLEAN /\ Writable(flags) \in BOOLEAN
    BY DEF Readable, Writable
  <1>6. /\ h \in OpenFile /\ h.dir = d /\ h.index = i /\ h.name = e.name
        /\ h.cluster = e.cluster /\ ~h.dirty /\ h.current = None /\ h.offset = 0
    <2> HIDE DEF Readable, Writable
    <2> QED BY <1>1, <1>2, <1>3, <1>4, <1>5 DEF OpenFile
  <1> QED BY <1>6 DEF e

LEMMA InstallIs ==
  ASSUME NEW h, Install(h)
  PROVE  \E f \in Fd : files[f] = Closed /\ Sets(files, files', f, h)
  BY DEF Install, Sets

\* A directory that is opened.
LEMMA InstallDir ==
  ASSUME Good(slots, fat, files), NEW path \in Seq(Piece), Install(DirFile(path))
  PROVE  Good(slots, fat, files')
  <1>1. DirFile(path) \in OpenDir
    BY DEF DirFile, OpenDir
  <1>2. PICK f \in Fd : files[f] = Closed /\ Sets(files, files', f, DirFile(path))
    BY InstallIs
  <1> QED BY <1>1, <1>2, GoodDir

\* A file that is opened as it is.
LEMMA InstallFile ==
  ASSUME Good(slots, fat, files), NEW d, NEW i, IsFile(slots, d, i), NEW flags, Duty',
         Install(InodeFile(d, i, slots[d][i], flags))
  PROVE  Good(slots, fat, files')
  <1> DEFINE h == InodeFile(d, i, slots[d][i], flags)
  <1>1. PICK f \in Fd : files[f] = Closed /\ Sets(files, files', f, h)
    BY InstallIs
  <1>2. IsOn(h, d, i) /\ files \in FilesType /\ Met(slots', files')
    BY DutyIs DEF InodeFile, IsOn, Good
  <1>3. \A g \in On(files, d, i) : ~files[g].dirty
    BY <1>1, <1>2, OpensClean
  <1>4. /\ h \in OpenFile /\ h.dir = d /\ h.index = i /\ h.name = slots[d][i].name
        /\ h.cluster = slots[d][i].cluster /\ ~h.dirty /\ h.current = None /\ h.offset = 0
    BY <1>3, InodeFacts
  <1> HIDE DEF h
  <1> QED BY <1>1, <1>3, <1>4, GoodOpen

\* A file that is opened with O_TRUNC: its chain is free before its slot says so.
LEMMA InstallTruncated ==
  ASSUME Good(slots, fat, files), NEW d, NEW i, IsFile(slots, d, i), NEW flags, Duty',
         NEW h, h = InodeFile(d, i, slots[d][i], flags),
         Install(Truncated(h)), fat' = Freed(h.cluster)
  PROVE  Good(slots, fat', files')
  <1> DEFINE v == Truncated(h)
  <1>2. v = [h EXCEPT !.cluster = None, !.size = 0, !.dirty = h.cluster # None \/ h.size # 0]
    BY DEF Truncated
  <1>3. PICK f \in Fd : files[f] = Closed /\ Sets(files, files', f, v)
    BY InstallIs
  <1> HIDE DEF v
  <1>0. /\ \A g \in On(files, d, i) : ~files[g].dirty
        /\ v.dirty => On(files, d, i) = {}
    <2>1. IsOn(v, d, i)
      BY <1>2 DEF InodeFile, IsOn
    <2>2. files \in FilesType /\ Met(slots', files')
      BY DutyIs DEF Good
    <2> QED BY <1>3, <2>1, <2>2, OpensClean
  <1>1. /\ h \in OpenFile /\ h.dir = d /\ h.index = i /\ h.name = slots[d][i].name
        /\ h.cluster = slots[d][i].cluster /\ ~h.dirty /\ h.current = None /\ h.offset = 0
    BY <1>0, InodeFacts
  <1>4. /\ v \in OpenFile /\ v.dir = h.dir /\ v.index = h.index /\ v.cluster = None
        /\ v.name = h.name /\ v.current = h.current /\ v.offset = h.offset
        /\ v.dirty = (h.cluster # None \/ h.size # 0)
    BY <1>1, <1>2, ZenonT(40) DEF OpenFile
  <1>5. fat' = [c \in Cluster |-> IF c \in Reach(fat, slots[d][i].cluster) THEN Free ELSE fat[c]]
    BY <1>1, ChainIsReach DEF Freed
  <1>6. v.dirty \/ slots[d][i].cluster = None
    BY <1>1, <1>4
  <1>7. /\ v \in OpenFile /\ v.dir = d /\ v.index = i /\ v.cluster = None
        /\ v.name = slots[d][i].name /\ v.current = None /\ v.offset = 0
    BY <1>1, <1>4
  <1> QED BY <1>0, <1>3, <1>5, <1>6, <1>7, GoodTruncate

\* open_inode of what is there.
LEMMA OpenExistingKeeps ==
  ASSUME Good(slots, fat, files), NEW w, Arrived(w), NEW path \in Seq(Piece), NEW flags,
         OpenExisting(w, path, flags), Duty'
  PROVE  Good(slots, fat, files)'
  <1>1. w.status = "found" /\ UNCHANGED <<slots, cwd>>
    BY DEF OpenExisting
  <1>2. CASE w.kind = "dir" /\ Install(DirFile(path)) /\ UNCHANGED fat
    BY <1>1, <1>2, InstallDir
  <1>3. CASE w.kind = "file"
    <2> DEFINE h == InodeFile(w.dir, w.index, slots[w.dir][w.index], flags)
    <2>1. IsFile(slots, w.dir, w.index)
      BY <1>1, <1>3 DEF Arrived
    <2>2. CASE Install(Truncated(h)) /\ fat' = Freed(h.cluster)
      BY <1>1, <1>3, <2>1, <2>2, InstallTruncated
    <2>3. CASE Install(h) /\ UNCHANGED fat
      BY <1>1, <1>3, <2>1, <2>3, InstallFile
    <2>4. w.kind # "dir"
      BY <1>3
    <2> QED BY <2>2, <2>3, <2>4 DEF OpenExisting
  <1> QED BY <1>2, <1>3 DEF OpenExisting

\* open_inode with O_CREAT of a name that is there in another case.
LEMMA OpenSimilarKeeps ==
  ASSUME Good(slots, fat, files), NEW w, Arrived(w), w.status = "missing",
         NEW path \in Seq(Piece), NEW flags,
         IgnoringCase(w.dir, w.name) # {}, OpenSimilar(w, path, flags), Duty'
  PROVE  Good(slots, fat, files)'
  <1> DEFINE S == IgnoringCase(w.dir, w.name)
             i == Min(S)
             e == slots[w.dir][i]
  <1>1. IsTree(slots) /\ Exists(slots, w.dir) /\ UNCHANGED <<slots, fat>>
    BY DEF Good, Arrived, OpenSimilar
  <1>2. S \subseteq UsedIn(slots, w.dir)
    BY Views DEF Alike
  <1>3. S \in SUBSET Nat
    BY <1>1, <1>2, UsedSlot
  <1>4. i \in UsedIn(slots, w.dir)
    BY <1>2, <1>3, SmallestIndex
  <1>5. CASE e.kind = "dir"
    <2>1. Install(DirFile(path))
      BY <1>5 DEF OpenSimilar
    <2> QED BY <1>1, <2>1, InstallDir
  <1>6. CASE e.kind # "dir"
    <2>1. Install(InodeFile(w.dir, i, e, flags))
      BY <1>6 DEF OpenSimilar
    <2> HIDE DEF i
    <2>2. IsFile(slots, w.dir, i)
      BY <1>1, <1>4, <1>6, UsedSlot
    <2> QED BY <1>1, <2>1, <2>2, InstallFile
  <1> QED BY <1>5, <1>6

\* One element of a sequence is replaced or added.
LEMMA SeqWith ==
  ASSUME NEW S, NEW q \in Seq(S), NEW i \in 1 .. Len(q) + 1, NEW e \in S,
         NEW r, r = IF i > Len(q) THEN Append(q, e) ELSE [q EXCEPT ![i] = e]
  PROVE  /\ r \in Seq(S) /\ DOMAIN r = DOMAIN q \cup {i} /\ r[i] = e
         /\ \A j \in DOMAIN q \ {i} : r[j] = q[j]
  <1>1. CASE i > Len(q)
    <2>1. i = Len(q) + 1 /\ r = Append(q, e)
      BY <1>1
    <2> QED BY <2>1
  <1>2. CASE ~(i > Len(q))
    <2>1. i \in 1 .. Len(q) /\ r = [q EXCEPT ![i] = e]
      BY <1>2
    <2> QED BY <2>1
  <1> QED BY <1>1, <1>2

LEMMA SeqTwo ==
  ASSUME NEW S, NEW a \in S, NEW b \in S
  PROVE  /\ <<a, b>> \in Seq(S) /\ DOMAIN <<a, b>> = {1, 2}
         /\ <<a, b>>[1] = a /\ <<a, b>>[2] = b
  <1>1. <<a, b>> \in Seq(S) /\ Len(<<a, b>>) = 2 /\ <<a, b>>[1] = a /\ <<a, b>>[2] = b
    OBVIOUS
  <1>2. DOMAIN <<a, b>> = 1 .. 2 /\ 1 .. 2 = {1, 2}
    BY <1>1
  <1> QED BY <1>1, <1>2

\* find_free_entries finds a slot that is not in use, after "." and "..".
LEMMA FreeSlotFacts ==
  ASSUME IsTree(slots), NEW d, Exists(slots, d), NEW i, i = FreeSlot(d)
  PROVE  /\ d \in Dirs /\ i \in 1 .. Len(slots[d]) + 1 /\ i \in Nat
         /\ i \notin UsedIn(slots, d) /\ (d = Root \/ i > 2)
  <1>1. d \in Dirs /\ slots \in SlotsType
    BY DEF Exists, Dirs, IsTree
  <1> DEFINE n == Len(slots[d])
             S == (1 .. n + 1) \ UsedIn(slots, d)
  <1>2. n \in Nat /\ UsedIn(slots, d) \subseteq 1 .. n
    BY <1>1, SlotFacts
  <1> HIDE DEF n
  <1>3. S \in SUBSET Nat /\ n + 1 \in S
    BY <1>2
  <1>4. i = Min(S)
    BY Views DEF FreeSlot, n
  <1> HIDE DEF S
  <1>5. i \in S
    BY <1>3, <1>4, SmallestIndex
  <1> USE DEF S
  <1>6. i \in 1 .. n + 1 /\ i \in Nat /\ i \notin UsedIn(slots, d)
    BY <1>2, <1>5
  <1>7. d = Root \/ i > 2
    <2> SUFFICES ASSUME d # Root PROVE i > 2
      OBVIOUS
    <2>1. d \in Cluster
      BY <1>1 DEF Dirs
    <2>2. {1, 2} \subseteq UsedIn(slots, d)
      BY <2>1, ExistsFacts
    <2>3. i # 1 /\ i # 2
      BY <1>6, <2>2
    <2> QED BY <1>2, <1>6, <2>3
  <1> QED BY <1>1, <1>6, <1>7 DEF n

\* A new slot e is written to directory d.
Writes(q, r, i, e) ==
  /\ r \in Seq(Slot) /\ DOMAIN r = DOMAIN q \cup {i} /\ r[i] = e
  /\ \A j \in DOMAIN q \ {i} : r[j] = q[j]

\* write_entry into the free slot replaces a deleted slot or adds one.
LEMMA NewSlot ==
  ASSUME IsTree(slots), NEW d, Exists(slots, d), NEW i, i = FreeSlot(d), NEW e \in Slot,
         NEW r, r = WithSlot(d, i, e)
  PROVE  Writes(slots[d], r, i, e)
  <1>1. i \in 1 .. Len(slots[d]) + 1 /\ slots[d] \in Seq(Slot)
    BY FreeSlotFacts, SlotFacts DEF IsTree
  <1>2. r = IF i > Len(slots[d]) THEN Append(slots[d], e) ELSE [slots[d] EXCEPT ![i] = e]
    BY DEF WithSlot
  <1> QED BY <1>1, <1>2, SeqWith DEF Writes

\* The walk misses a name that is not there in any case.
Misses(w) ==
  Arrived(w) /\ w.status = "missing" /\ w.name # "" /\ IgnoringCase(w.dir, w.name) = {}

\* A name that a walk misses and that is like no other may be entered in the free slot.
LEMMA MissedName ==
  ASSUME Good(slots, fat, files), NEW w, Misses(w), NEW i, i = FreeSlot(w.dir), NEW e, e.name = w.name
  PROVE  /\ NewName(slots, w.dir, i, e) /\ w.dir \in Dirs /\ w.name \in Piece
         /\ IsTree(slots) /\ Exists(slots, w.dir) /\ slots \in SlotsType
         /\ i \in Nat /\ i \notin UsedIn(slots, w.dir) /\ (w.dir = Root \/ i > 2)
  <1>1. IsTree(slots) /\ Exists(slots, w.dir) /\ slots \in SlotsType
    BY DEF Good, Misses, Arrived, IsTree
  <1>2. i \in Nat /\ i \notin UsedIn(slots, w.dir) /\ (w.dir = Root \/ i > 2)
    BY <1>1, FreeSlotFacts
  <1>3. Alike(slots, w.dir, e.name) = {}
    BY Views DEF Misses
  <1>4. w.dir \in Dirs /\ w.name \in Piece
    BY DEF Misses, Arrived, WalkType
  <1> QED BY <1>1, <1>2, <1>3, <1>4 DEF NewName, Misses

\* Dir::create_file of a name that is not there.
LEMMA CreateFileKeeps ==
  ASSUME Good(slots, fat, files), NEW w, Misses(w), NEW flags, create_file(w, flags)
  PROVE  Good(slots, fat, files)'
  <1> DEFINE d == w.dir
             i == FreeSlot(d)
             e == FileSlot(w.name)
             r == WithSlot(d, i, e)
             h == InodeFile(d, i, e, flags)
  <1>1. /\ slots' = [slots EXCEPT ![d] = r] /\ Install(h) /\ UNCHANGED fat
    BY DEF create_file
  <1>2. e.name = w.name /\ e.kind = "file" /\ e.cluster = None /\ e.size = 0
    BY DirSlotFacts
  <1>3. /\ NewName(slots, d, i, e) /\ d \in Dirs /\ w.name \in Piece
        /\ IsTree(slots) /\ Exists(slots, d) /\ slots \in SlotsType
        /\ i \in Nat /\ i \notin UsedIn(slots, d) /\ (d = Root \/ i > 2)
    BY <1>2, MissedName
  <1>4. e \in Slot
    BY <1>3 DEF FileSlot, Slot
  <1>0. i = FreeSlot(d) /\ r = WithSlot(d, i, e)
    OBVIOUS
  <1>5. /\ r \in Seq(Slot) /\ DOMAIN r = DOMAIN slots[d] \cup {i} /\ r[i] = e
        /\ \A j \in DOMAIN slots[d] \ {i} : r[j] = slots[d][j]
    <2>1. IsTree(slots) /\ Exists(slots, d)
      BY <1>3
    <2> HIDE DEF d, i, e, r
    <2>2. Writes(slots[d], r, i, e)
      BY <1>0, <1>4, <2>1, NewSlot
    <2> QED BY <2>2 DEF Writes
  <1>6. PICK f \in Fd : files[f] = Closed /\ Sets(files, files', f, h)
    BY <1>1, InstallIs
  <1>7. /\ h \in OpenFile /\ h.dir = d /\ h.index = i /\ h.name = e.name /\ h.cluster = None
        /\ ~h.dirty /\ h.current = None /\ h.offset = 0
    <2>1. h = [kind |-> "file", dir |-> d, index |-> i,
               name |-> e.name, cluster |-> e.cluster, size |-> e.size,
               dirty |-> FALSE, current |-> None, offset |-> 0,
               readable |-> Readable(flags), writable |-> Writable(flags)]
      BY DEF InodeFile
    <2>2. Readable(flags) \in BOOLEAN /\ Writable(flags) \in BOOLEAN
      BY DEF Readable, Writable
    <2>3. /\ d \in Dirs /\ i \in Nat /\ e.cluster \in Cluster \cup {None} /\ e.size \in Nat
          /\ e.cluster = None /\ e.name \in Piece
      BY <1>2, <1>3
    <2> HIDE DEF e, h, i, d
    <2>4. h \in OpenFile
      BY <2>1, <2>2, <2>3 DEF OpenFile
    <2> QED BY <2>1, <2>3, <2>4
  <1> HIDE DEF h, e, i, r, d
  <1>8. Edit(slots, slots', d, i, e, None)
    <2>1. slots' \in SlotsType /\ slots'[d] = r /\ \A b \in Dirs \ {d} : slots'[b] = slots[b]
      BY <1>1, <1>3, <1>5 DEF SlotsType
    <2>2. None \notin Dirs
      BY Symbols DEF Dirs
    <2> QED BY <1>3, <1>5, <2>1, <2>2 DEF Edit
  <1>9. Good(slots', fat, files')
    BY <1>2, <1>3, <1>6, <1>7, <1>8, GoodCreate
  <1> QED BY <1>1, <1>9

\* A free cluster is no directory's.
LEMMA FreeIsNoDir ==
  ASSUME Good(slots, fat, files), NEW c \in FreeClusters
  PROVE  DOMAIN slots[c] = {}
  <1> SUFFICES ASSUME DOMAIN slots[c] # {} PROVE FALSE
    OBVIOUS
  <1>1. c \in Cluster /\ fat[c] = Free /\ slots \in SlotsType
    BY DEF FreeClusters, Good, IsTree
  <1>2. PICK d, i : IsDir(slots, d, i) /\ slots[d][i].cluster = c
    BY <1>1 DEF Good, IsTree, Housed
  <1>3. On(files, d, i) = {}
    BY <1>2, NotOn DEF IsDir, IsFile
  <1>4. FirstOf(slots, files, d, i) = c
    BY <1>2, <1>3, FirstIs DEF Good
  <1>5. <<d, i>> \in EntriesOf(slots) /\ Firsts(slots, files)[<<d, i>>] = c
    BY <1>1, <1>2, <1>4, EntryIn DEF IsDir
  <1>6. c \in Reach(fat, c)
    BY <1>1, ReachFacts DEF Leads
  <1> QED BY <1>1, <1>5, <1>6 DEF Good, Accounts

\* Dir::create_dir of a name that is not there.
LEMMA CreateDirKeeps ==
  ASSUME Good(slots, fat, files), NEW w, Misses(w), NEW path \in Seq(Piece), create_dir(w, path)
  PROVE  Good(slots, fat, files)'
  <1> DEFINE d == w.dir
             i == FreeSlot(d)
  <1>1. PICK c \in FreeClusters :
          /\ fat' = [fat EXCEPT ![c] = None]
          /\ slots' = [slots EXCEPT ![d] = WithSlot(d, i, DirSlot(w.name, c)), ![c] = DotSlots(c, d)]
          /\ Install(DirFile(path))
    BY DEF create_dir
  <1> DEFINE e == DirSlot(w.name, c)
             r == WithSlot(d, i, e)
             q == DotSlots(c, d)
  <1>2. e.name = w.name /\ e.kind = "dir" /\ e.cluster = c /\ e.size = 0
    BY DEF DirSlot
  <1>3. /\ NewName(slots, d, i, e) /\ d \in Dirs /\ w.name \in Piece
        /\ IsTree(slots) /\ Exists(slots, d) /\ slots \in SlotsType
        /\ i \in Nat /\ i \notin UsedIn(slots, d) /\ (d = Root \/ i > 2)
    BY <1>2, MissedName
  <1>4. c \in Cluster /\ c \in Dirs /\ fat[c] = Free /\ DOMAIN slots[c] = {} /\ c # Root /\ c # d
    <2>1. c \in Cluster /\ c \in Dirs /\ fat[c] = Free /\ c # Root
      BY Symbols DEF FreeClusters, Dirs
    <2>2. DOMAIN slots[c] = {}
      BY FreeIsNoDir
    <2> QED BY <1>3, <2>1, <2>2 DEF Exists
  <1>5. e \in Slot
    BY <1>3, <1>4 DEF DirSlot, Slot, Dirs
  <1>0. i = FreeSlot(d) /\ r = WithSlot(d, i, e)
    OBVIOUS
  <1>6. /\ r \in Seq(Slot) /\ DOMAIN r = DOMAIN slots[d] \cup {i} /\ r[i] = e
        /\ \A j \in DOMAIN slots[d] \ {i} : r[j] = slots[d][j]
    <2>1. IsTree(slots) /\ Exists(slots, d)
      BY <1>3
    <2> HIDE DEF d, i, e, r
    <2>2. Writes(slots[d], r, i, e)
      BY <1>0, <1>5, <2>1, NewSlot
    <2> QED BY <2>2 DEF Writes
  <1>7. /\ q \in Seq(Slot) /\ DOMAIN q = {1, 2}
        /\ q[1] = DirSlot(".", c) /\ q[2] = DirSlot("..", d)
    <2>1. DirSlot(".", c) \in Slot /\ DirSlot("..", d) \in Slot
      BY <1>3, <1>4 DEF DirSlot, Slot, Dirs, Piece
    <2>2. q = <<DirSlot(".", c), DirSlot("..", d)>>
      BY DEF DotSlots
    <2> HIDE DEF q
    <2> QED BY <2>1, <2>2, SeqTwo
  <1>8. PICK f \in Fd : files[f] = Closed /\ Sets(files, files', f, DirFile(path))
    BY <1>1, InstallIs
  <1>9. DirFile(path) \in OpenDir
    BY DEF DirFile, OpenDir
  <1> HIDE DEF e, i, r, d, q
  <1>10. /\ slots' \in SlotsType /\ slots'[d] = r /\ slots'[c] = q
         /\ \A b \in Dirs \ {d, c} : slots'[b] = slots[b]
    BY <1>1, <1>3, <1>4, <1>6, <1>7 DEF SlotsType, r, e, q
  <1>11. ASSUME NEW j PROVE ~IsEntry(slots, c, j) /\ ~IsEntry(slots', c, j)
    <2>1. ~IsEntry(slots, c, j)
      BY <1>4 DEF IsEntry, UsedIn
    <2>2. ~IsEntry(slots', c, j)
      <3>1. DOMAIN slots'[c] = {1, 2}
        BY <1>7, <1>10
      <3>2. IsEntry(slots', c, j) => j \in {1, 2} /\ j > 2
        BY <1>4, <3>1 DEF IsEntry, UsedIn
      <3> QED BY <3>2
    <2> QED BY <2>1, <2>2
  <1>12. Edit(slots, slots', d, i, e, c)
    BY <1>3, <1>4, <1>6, <1>10, <1>11 DEF Edit
  <1>13. Begins(slots', c, d)
    BY <1>4, <1>7, <1>10 DEF Begins
  <1>14. fat' = [x \in Cluster |-> IF x = c THEN None ELSE fat[x]]
    BY <1>1, <1>4 DEF Good, Accounts, FatType
  <1>15. Good(slots', fat', files')
    BY <1>2, <1>3, <1>4, <1>8, <1>9, <1>12, <1>13, <1>14, GoodMkdir
  <1> QED BY <1>15

-----------------------------------------------------------------------------
(* The system calls.                                                       *)

LEMMA SeqFacts ==
  ASSUME NEW S, NEW p \in Seq(S), NEW q \in Seq(S), NEW x \in S
  PROVE  /\ p \o q \in Seq(S) /\ p \o <<x>> \o q \in Seq(S) /\ Front(p) \in Seq(S)
         /\ Append(p, x) \in Seq(S) /\ <<x>> \o p \in Seq(S)
         /\ p # <<>> => Head(p) \in S /\ Tail(p) \in Seq(S) /\ Len(p) > 0
         /\ Len(p) \in Nat
         /\ p # <<>> /\ Tail(p) = <<>> => p = <<p[1]>>
  <1>1. Len(p) \in Nat /\ (p # <<>> => Len(p) > 0)
    OBVIOUS
  <1>2. Front(p) \in Seq(S)
    <2>1. CASE p = <<>>
      <3>1. SubSeq(p, 1, Len(p) - 1) = <<>>
        BY <2>1
      <3> QED BY <3>1 DEF Front
    <2>2. CASE p # <<>>
      BY <1>1, <2>2, FrontFacts
    <2> QED BY <2>1, <2>2
  <1>3. ASSUME p # <<>>, Tail(p) = <<>> PROVE p = <<p[1]>>
    <2>1. Len(Tail(p)) = Len(p) - 1
      BY <1>1, <1>3
    <2>2. Len(p) = 1
      <3> DEFINE n == Len(p)
      <3>1. n \in Nat /\ n - 1 = Len(<<>>) /\ Len(<<>>) = 0
        BY <1>1, <1>3, <2>1
      <3> HIDE DEF n
      <3>2. n = 1
        BY <3>1
      <3> QED BY <3>2 DEF n
    <2>3. p[1] \in S
      BY <2>2
    <2> DEFINE r == <<p[1]>>
    <2>4. r \in Seq(S) /\ Len(r) = 1 /\ r[1] = p[1]
      BY <2>3
    <2> HIDE DEF r
    <2>5. Len(r) = Len(p) /\ \A i \in 1 .. Len(p) : p[i] = r[i]
      BY <2>2, <2>4
    <2>6. r = p
      BY <2>4, <2>5
    <2> QED BY <2>6 DEF r
  <1> QED BY <1>1, <1>2, <1>3

\* The paths that path_with_fd makes have pieces of the same kinds.
LEMMA PathType ==
  ASSUME Sound, NEW p \in Seq(Piece), p # <<>>, NEW fd \in Fd \cup {AT_FDCWD}, BaseOk(fd, p)
  PROVE  path_with_fd(fd, p) \in Seq(Piece)
  <1> DEFINE q == IF p[1] = "." THEN Tail(p) ELSE p
  <1>1. path_with_fd(fd, p) = IF IsAbsolute(p) THEN p
                              ELSE IF fd # AT_FDCWD THEN files[fd].path \o p
                              ELSE IF p = <<".">> THEN cwd ELSE Concat(cwd, q)
    BY DEF path_with_fd
  <1>2. cwd \in Seq(Piece)
    BY DEF Sound, CwdType, Slashed
  <1>3. CASE ~IsAbsolute(p) /\ fd # AT_FDCWD
    <2>1. fd \in Fd /\ files[fd].kind = "dir"
      BY <1>3 DEF BaseOk
    <2>2. files[fd] \in OpenDir
      BY <2>1, Kinds DEF Sound, Good, FilesType
    <2>3. files[fd].path \in Seq(Piece)
      BY <2>2 DEF OpenDir
    <2> QED BY <1>1, <1>3, <2>3, SeqFacts
  <1>4. CASE ~IsAbsolute(p) /\ fd = AT_FDCWD /\ p # <<".">>
    <2>1. q \in Seq(Piece) /\ q # <<>>
      <3>1. CASE p[1] = "."
        <4>1. Tail(p) # <<>>
          <5> SUFFICES ASSUME Tail(p) = <<>> PROVE FALSE
            OBVIOUS
          <5>1. p = <<p[1]>>
            BY SeqFacts
          <5> QED BY <1>4, <3>1, <5>1
        <4>2. Tail(p) \in Seq(Piece)
          BY SeqFacts
        <4> QED BY <3>1, <4>1, <4>2
      <3>2. CASE p[1] # "."
        BY <3>2
      <3> QED BY <3>1, <3>2
    <2>2. Last(cwd) = ""
      BY DEF Sound, CwdType, Slashed
    <2>3. Concat(cwd, q) = Front(cwd) \o <<Head(q)>> \o Tail(q)
      BY <2>2 DEF Concat, Joined
    <2> HIDE DEF q
    <2>4. Front(cwd) \in Seq(Piece) /\ Head(q) \in Piece /\ Tail(q) \in Seq(Piece)
      BY <1>2, <2>1, SeqFacts
    <2>5. Front(cwd) \o <<Head(q)>> \o Tail(q) \in Seq(Piece)
      BY <2>4, SeqFacts
    <2> QED BY <1>1, <1>4, <2>3, <2>5
  <1> HIDE DEF q
  <1> QED BY <1>1, <1>2, <1>3, <1>4

\* sys_openat, and with its flags sys_mkdirat.
LEMMA OpenKeeps ==
  ASSUME Sound, NEW p \in Seq(Piece), p # <<>>, NEW fd \in Fd \cup {AT_FDCWD}, NEW flags,
         sys_openat(fd, p, flags), Duty'
  PROVE  Sound'
  <1> DEFINE path == path_with_fd(fd, p)
             w == Walk(path)
  <1>1. path \in Seq(Piece)
    BY PathType DEF sys_openat
  <1>2. Good(slots, fat, files) /\ Arrived(w)
    BY <1>1, WalkArrives DEF Sound, Good
  <1>3. OpenExisting(w, path, flags) \/ OpenMissing(w, path, flags)
    BY DEF sys_openat, open_inode
  <1> HIDE DEF path, w
  <1>4. CASE OpenExisting(w, path, flags)
    <2>1. cwd' = cwd
      BY <1>4 DEF OpenExisting
    <2> QED BY <1>1, <1>2, <1>4, <2>1, OpenExistingKeeps DEF Sound, CwdType
  <1>5. CASE OpenMissing(w, path, flags)
    <2>1. w.status = "missing" /\ w.name # ""
      BY <1>5 DEF OpenMissing
    <2>2. CASE IgnoringCase(w.dir, w.name) # {}
      <3>1. OpenSimilar(w, path, flags) /\ cwd' = cwd
        BY <1>5, <2>2 DEF OpenMissing, OpenSimilar
      <3> QED BY <1>1, <1>2, <2>1, <2>2, <3>1, OpenSimilarKeeps DEF Sound, CwdType
    <2>3. CASE IgnoringCase(w.dir, w.name) = {}
      <3>1. Misses(w)
        BY <1>2, <2>1, <2>3 DEF Misses
      <3>2. CASE create_dir(w, path)
        <4>1. cwd' = cwd
          BY <3>2 DEF create_dir
        <4> QED BY <1>1, <1>2, <3>1, <3>2, <4>1, CreateDirKeeps DEF Sound, CwdType
      <3>3. CASE create_file(w, flags)
        <4>1. cwd' = cwd
          BY <3>3 DEF create_file
        <4> QED BY <1>1, <1>2, <3>1, <3>3, <4>1, CreateFileKeeps DEF Sound, CwdType
      <3> QED BY <1>5, <2>3, <3>2, <3>3 DEF OpenMissing
    <2> QED BY <2>2, <2>3
  <1> QED BY <1>3, <1>4, <1>5

\* The slot of a file is written.
LEMMA FlushEdit ==
  ASSUME NEW sl \in SlotsType, NEW d, NEW i, IsEntry(sl, d, i), NEW e \in Slot,
         NEW sm, sm = [sl EXCEPT ![d][i] = e]
  PROVE  Edit(sl, sm, d, i, e, None)
  <1> DEFINE q == sl[d]
  <1>1. d \in Dirs /\ q \in Seq(Slot) /\ i \in DOMAIN q /\ i \in 1 .. Len(q) /\ i \in Nat
    BY SlotFacts DEF IsEntry
  <1>4. sm = [sl EXCEPT ![d] = [q EXCEPT ![i] = e]]
    BY <1>1 DEF SlotsType
  <1> DEFINE r == [q EXCEPT ![i] = e]
  <1>5. /\ r \in Seq(Slot) /\ DOMAIN r = DOMAIN q /\ r[i] = e
        /\ \A j \in DOMAIN q \ {i} : r[j] = q[j]
    BY <1>1
  <1> HIDE DEF r
  <1>6. sm \in SlotsType /\ sm[d] = r /\ \A b \in Dirs \ {d} : sm[b] = sl[b]
    BY <1>1, <1>4, <1>5 DEF SlotsType, r
  <1>7. None \notin Dirs
    BY Symbols DEF Dirs
  <1> QED BY <1>1, <1>5, <1>6, <1>7 DEF Edit, IsEntry

\* sys_close, with the write-back of the slot.
LEMMA CloseKeeps ==
  ASSUME Sound, NEW f \in Fd, sys_close(f)
  PROVE  Sound'
  <1> DEFINE h == files[f]
  <1>1. /\ slots' = Flushed(h) /\ UNCHANGED <<fat, cwd>>
        /\ Sets(files, files', f, Closed)
    BY DEF sys_close, Sets
  <1>2. Good(slots, fat, files)
    BY DEF Sound
  <1>3. CASE h.kind = "file" /\ h.dirty
    <2> DEFINE d == h.dir
               i == h.index
               e == [name |-> h.name, kind |-> "file", cluster |-> h.cluster, size |-> h.size]
    <2>1. slots' = [slots EXCEPT ![d][i] = e]
      BY <1>1, <1>3 DEF Flushed
    <2> HIDE DEF e
    <2>2. h \in OpenFile /\ IsFile(slots, d, i) /\ slots[d][i].name = h.name
      <3>1. h \in OpenFile /\ IsFile(slots, d, i)
        BY <1>2, <1>3, HandleFacts
      <3>2. Handle(slots, fat, files, f)
        BY <1>2 DEF Good, Handles
      <3> QED BY <1>3, <3>1, <3>2 DEF Handle
    <2>3. e \in Slot /\ slots \in SlotsType
      BY <1>2, <2>2 DEF OpenFile, Good, IsTree, Slot, Dirs, e
    <2>4. IsEntry(slots, d, i) /\ IsOn(h, d, i)
      BY <1>3, <2>2 DEF IsFile, IsOn
    <2>5. e.kind = slots[d][i].kind /\ e.name = slots[d][i].name /\ e.cluster = h.cluster
      BY <2>2 DEF IsFile, e
    <2> HIDE DEF d, i
    <2>7. Edit(slots, slots', d, i, e, None)
      BY <2>1, <2>3, <2>4, FlushEdit
    <2>6. Good(slots', fat, files')
      BY <1>1, <1>2, <1>3, <2>4, <2>5, <2>7, GoodFlush
    <2> QED BY <1>1, <2>6 DEF Sound, CwdType
  <1>4. CASE ~(h.kind = "file" /\ h.dirty)
    <2>1. slots' = slots
      BY <1>1, <1>4 DEF Flushed
    <2>2. Good(slots, fat, files')
      BY <1>1, <1>2, <1>4, GoodClose
    <2> QED BY <1>1, <2>1, <2>2 DEF Sound, CwdType
  <1> QED BY <1>3, <1>4

LEMMA SmallestOf ==
  ASSUME NEW a \in Int, NEW b \in Int, NEW c \in Int
  PROVE  Min({a, b, c}) \in {a, b, c}
  <1>1. \E x \in {a, b, c} : \A y \in {a, b, c} : x <= y
    OBVIOUS
  <1> QED BY <1>1 DEF Min

LEMMA SmallerOf ==
  ASSUME NEW a \in Int, NEW b \in Int
  PROVE  Min({a, b}) \in {a, b}
  <1>1. \E x \in {a, b} : \A y \in {a, b} : x <= y
    OBVIOUS
  <1> QED BY <1>1 DEF Min

LEMMA LargerOf ==
  ASSUME NEW a \in Int, NEW b \in Int
  PROVE  Max({a, b}) \in {a, b}
  <1>1. \E x \in {a, b} : \A y \in {a, b} : x >= y
    OBVIOUS
  <1> QED BY <1>1 DEF Max

\* sys_read moves along the chain of its file.
LEMMA ReadKeeps ==
  ASSUME Sound, NEW f \in Fd, NEW len \in Nat, sys_read(f, len)
  PROVE  Sound'
  <1> DEFINE h == files[f]
             n == Min({len, ClusterSize - (h.offset % ClusterSize), h.size - h.offset})
             c == ClusterAt(h)
             v == [h EXCEPT !.offset = h.offset + n, !.current = c]
  <1>1. /\ h.kind = "file" /\ c # None /\ n > 0 /\ UNCHANGED <<slots, fat, cwd>>
        /\ files' = [files EXCEPT ![f].offset = @ + n, ![f].current = c]
    BY DEF sys_read
  <1>2. Good(slots, fat, files) /\ files \in FilesType
    BY DEF Sound, Good
  <1>3. h \in OpenFile
    BY <1>1, <1>2, HandleFacts
  <1>4. n \in Nat
    <2>1. h.offset \in Nat /\ h.size \in Nat /\ ClusterSize \in Nat \ {0}
      BY <1>3, NamesAssumption DEF OpenFile
    <2>2. h.offset % ClusterSize \in Int
      BY <2>1, Modulo
    <2>3. ClusterSize - (h.offset % ClusterSize) \in Int /\ h.size - h.offset \in Int /\ len \in Int
      BY <2>1, <2>2
    <2>4. n \in Int
      BY <2>3, SmallestOf
    <2> HIDE DEF n
    <2> QED BY <1>1, <2>4
  <1>5. c \in Reach(fat, h.cluster) /\ c \in Cluster
    <2>1. c \in Reach(fat, h.cluster)
      BY <1>1, <1>2, PlaceFacts
    <2> QED BY <2>1 DEF Reach
  <1> HIDE DEF n, c
  <1>6. files' = [files EXCEPT ![f] = v]
    BY <1>1, <1>2, <1>3 DEF FilesType, OpenFile
  <1>0. v = [h EXCEPT !.offset = h.offset + n, !.current = c]
    OBVIOUS
  <1> HIDE DEF h, v
  <1>7. /\ v \in OpenFile /\ v.dir = h.dir /\ v.index = h.index /\ v.cluster = h.cluster
        /\ v.dirty = h.dirty /\ v.name = h.name /\ v.current = c
    <2>1. h.offset \in Nat
      BY <1>3 DEF OpenFile
    <2> DEFINE m == h.offset + n
    <2>2. m \in Nat /\ v = [h EXCEPT !.offset = m, !.current = c]
      BY <1>0, <1>4, <2>1
    <2> HIDE DEF m
    <2> QED BY <1>3, <1>5, <2>2 DEF OpenFile
  <1>8. Sets(files, files', f, v)
    BY <1>6 DEF Sets
  <1>9. Good(slots, fat, files')
    BY <1>1, <1>2, <1>5, <1>7, <1>8, GoodRead DEF h
  <1> QED BY <1>1, <1>9 DEF Sound, CwdType

\* What Put does to the open file: its chain begins where it did.
LEMMA PutFacts ==
  ASSUME files \in FilesType, NEW f \in Fd, NEW h \in OpenFile, NEW c \in Cluster,
         NEW buf \in Seq(Nat), Put(f, h, c, buf)
  PROVE  \E v \in OpenFile :
           /\ Sets(files, files', f, v) /\ v.dir = h.dir /\ v.index = h.index
           /\ v.cluster = h.cluster /\ v.name = h.name /\ v.current = c
           /\ h.dirty => v.dirty
  <1> DEFINE at == h.offset % ClusterSize
             n == Min({Len(buf), ClusterSize - at})
             m == h.offset + n
             size == Max({h.size, m})
             dirty == h.dirty \/ m > h.size
             v == [h EXCEPT !.offset = m, !.current = c, !.size = size, !.dirty = dirty]
  <1>1. h.offset \in Nat /\ h.size \in Nat /\ ClusterSize \in Nat \ {0} /\ Len(buf) \in Nat
    <2>1. h.offset \in Nat /\ h.size \in Nat
      BY DEF OpenFile
    <2>2. Len(buf) \in Nat
      OBVIOUS
    <2> QED BY <2>1, <2>2, NamesAssumption
  <1>2. files' = [files EXCEPT ![f] = v]
    BY DEF Put
  <1>3. at \in 0 .. ClusterSize - 1
    BY <1>1, Modulo
  <1> HIDE DEF at
  <1>4. ClusterSize - at \in Nat
    BY <1>1, <1>3
  <1>5. n \in Nat
    BY <1>1, <1>4, SmallerOf, SMTT(40)
  <1> HIDE DEF n
  <1>6. m \in Nat
    BY <1>1, <1>5
  <1> HIDE DEF m
  <1>7. size \in Nat
    BY <1>1, <1>6, LargerOf
  <1>8. dirty \in BOOLEAN /\ (h.dirty => dirty)
    OBVIOUS
  <1>9. v = [h EXCEPT !.offset = m, !.current = c, !.size = size, !.dirty = dirty]
    OBVIOUS
  <1> HIDE DEF size, dirty, v
  <1>10. /\ v \in OpenFile /\ v.dir = h.dir /\ v.index = h.index /\ v.cluster = h.cluster
         /\ v.name = h.name /\ v.current = c /\ v.dirty = dirty
    BY <1>6, <1>7, <1>8, <1>9 DEF OpenFile
  <1>11. Sets(files, files', f, v)
    BY <1>2 DEF Sets
  <1> QED BY <1>8, <1>10, <1>11

\* sys_write and sys_writev, which may take clusters and put them at the end of
\* the chain.
LEMMA WriteKeeps ==
  ASSUME Sound, NEW f \in Fd, NEW buf \in Seq(Nat), files[f].kind = "file", WriteFile(f, buf), Duty'
  PROVE  Sound'
  <1> DEFINE h == files[f]
             c == ClusterAt(h)
  <1>1. h.kind = "file" /\ Met(slots', files')
    BY DutyIs
  <1>2. Good(slots, fat, files) /\ files \in FilesType
    BY DEF Sound, Good
  <1>3. h \in OpenFile
    BY <1>1, <1>2, HandleFacts
  <1>4. CASE c # None
    <2>1. Put(f, h, c, buf) /\ fat' = fat
      BY <1>4 DEF WriteFile
    <2>2. c \in Reach(fat, h.cluster)
      BY <1>1, <1>2, <1>4, PlaceFacts
    <2>3. c \in Cluster /\ slots' = slots /\ cwd' = cwd
      BY <2>1, <2>2 DEF Reach, Put
    <2> HIDE DEF c
    <2>4. PICK v \in OpenFile :
           /\ Sets(files, files', f, v) /\ v.dir = h.dir /\ v.index = h.index
           /\ v.cluster = h.cluster /\ v.name = h.name /\ v.current = c
           /\ h.dirty => v.dirty
      BY <1>2, <1>3, <2>1, <2>3, PutFacts
    <2>5. v.dirty => On(files', v.dir, v.index) = {f}
      <3>1. files'[f] = v /\ v.kind = "file"
        BY <1>2, <2>4, SetsFacts DEF OpenFile
      <3> QED BY <1>1, <3>1 DEF Met
    <2>6. Good(slots, fat, files')
      BY <1>1, <1>2, <2>2, <2>4, <2>5, GoodPut
    <2> QED BY <2>1, <2>3, <2>6 DEF Sound, CwdType
  <1>5. CASE c = None
    <2> DEFINE Own(new) == IF h.cluster = None THEN [h EXCEPT !.cluster = new, !.dirty = TRUE] ELSE h
    <2>1. PICK new \in FreeClusters : fat' = Linked(new, h.current) /\ Put(f, Own(new), new, buf)
      BY <1>5 DEF WriteFile
    <2>2. new \in Cluster /\ slots' = slots /\ cwd' = cwd
      BY <2>1 DEF FreeClusters, Put
    <2> DEFINE k == Own(new)
    <2>3. k = IF h.cluster = None THEN [h EXCEPT !.cluster = new, !.dirty = TRUE] ELSE h
      OBVIOUS
    <2>4. Put(f, k, new, buf)
      BY <2>1
    <2> HIDE DEF k, h, Own
    <2>5. /\ k \in OpenFile /\ k.dir = h.dir /\ k.index = h.index /\ k.name = h.name
          /\ k.cluster = (IF h.cluster = None THEN new ELSE h.cluster)
          /\ h.cluster = None \/ h.dirty => k.dirty
      <3>1. CASE h.cluster = None
        <4>1. k = [h EXCEPT !.cluster = new, !.dirty = TRUE]
          BY <2>3, <3>1
        <4>2. /\ k \in OpenFile /\ k.dir = h.dir /\ k.index = h.index /\ k.name = h.name
              /\ k.cluster = new /\ k.dirty
          BY <1>3, <2>2, <4>1 DEF OpenFile
        <4> QED BY <3>1, <4>2
      <3>2. CASE h.cluster # None
        BY <1>3, <2>3, <3>2
      <3> QED BY <3>1, <3>2
    <2>6. PICK v \in OpenFile :
           /\ Sets(files, files', f, v) /\ v.dir = k.dir /\ v.index = k.index
           /\ v.cluster = k.cluster /\ v.name = k.name /\ v.current = new
           /\ k.dirty => v.dirty
      BY <1>2, <2>2, <2>4, <2>5, PutFacts
    <2>7. /\ v.dir = h.dir /\ v.index = h.index /\ v.name = h.name /\ v.current = new
          /\ v.cluster = IF h.cluster = None THEN new ELSE h.cluster
          /\ h.cluster = None \/ h.dirty => v.dirty
      BY <1>1, <2>5, <2>6
    <2>8. v.dirty => On(files', v.dir, v.index) = {f}
      <3>1. files'[f] = v /\ v.kind = "file"
        BY <1>2, <2>6, SetsFacts DEF OpenFile
      <3> QED BY <1>1, <3>1 DEF Met
    <2>9. Good(slots, Linked(new, h.current), files')
      BY <1>1, <1>2, <1>5, <2>6, <2>7, <2>8, GoodExtend DEF h
    <2> QED BY <2>1, <2>2, <2>9 DEF Sound, CwdType
  <1> QED BY <1>4, <1>5

\* Slot i of directory d is marked deleted; the directory c, if there is one,
\* loses its slots.
LEMMA DeleteEdit ==
  ASSUME NEW sl \in SlotsType, NEW d, NEW i, IsEntry(sl, d, i), NEW c, c # d,
         NEW sm, sm = [b \in Dirs |-> IF b = d THEN [sl[d] EXCEPT ![i] = Deleted]
                                      ELSE IF b = c THEN <<>> ELSE sl[b]],
         c \in Dirs => \A j : ~IsEntry(sl, c, j)
  PROVE  Edit(sl, sm, d, i, Deleted, c) /\ (c \in Dirs => DOMAIN sm[c] = {})
  <1> DEFINE q == sl[d]
             r == [q EXCEPT ![i] = Deleted]
  <1>1. d \in Dirs /\ q \in Seq(Slot) /\ i \in DOMAIN q /\ i \in 1 .. Len(q) /\ i \in Nat
    BY SlotFacts DEF IsEntry
  <1>2. Deleted \in Slot
    BY DEF Deleted, Slot, Piece
  <1>3. /\ r \in Seq(Slot) /\ DOMAIN r = DOMAIN q /\ r[i] = Deleted
        /\ \A j \in DOMAIN q \ {i} : r[j] = q[j]
    BY <1>1, <1>2
  <1> HIDE DEF r
  <1>4. sm = [b \in Dirs |-> IF b = d THEN r ELSE IF b = c THEN <<>> ELSE sl[b]]
    BY DEF r
  <1>5. sm[d] = r /\ (c \in Dirs => sm[c] = <<>>) /\ \A b \in Dirs \ {d, c} : sm[b] = sl[b]
    BY <1>1, <1>4
  <1>6. <<>> \in Seq(Slot) /\ DOMAIN <<>> = {}
    OBVIOUS
  <1>7. sm \in SlotsType
    BY <1>3, <1>4, <1>6 DEF SlotsType
  <1>8. c \in Dirs => DOMAIN sm[c] = {}
    BY <1>5, <1>6
  <1>9. c \in Dirs => \A j : ~IsEntry(sm, c, j)
    BY <1>8 DEF IsEntry, UsedIn
  <1>10. (d = Root \/ i > 2) /\ DOMAIN q \cup {i} = DOMAIN q
    BY <1>1 DEF IsEntry
  <1> HIDE DEF q
  <1>11. DOMAIN sm[d] = DOMAIN sl[d] \cup {i} /\ sm[d][i] = Deleted
    BY <1>3, <1>5, <1>10 DEF q
  <1>12. \A j \in DOMAIN sl[d] \ {i} : sm[d][j] = sl[d][j]
    BY <1>3, <1>5 DEF q
  <1> QED BY <1>1, <1>5, <1>7, <1>8, <1>9, <1>10, <1>11, <1>12 DEF Edit

\* A directory that IsEmpty has no entries.
LEMMA EmptyFacts ==
  ASSUME IsTree(slots), NEW d, NEW i, IsDir(slots, d, i), NEW c, c = slots[d][i].cluster, IsEmpty(c)
  PROVE  c \in Cluster /\ c \in Dirs /\ \A j : ~IsEntry(slots, c, j)
  <1>1. Begins(slots, c, d)
    BY DEF IsTree, Dotted
  <1>2. c \in Cluster /\ c \in Dirs /\ c # Root
    BY <1>1, Symbols DEF Begins, Dirs
  <1>3. 1 \in UsedIn(slots, c) /\ slots[c][1].name = "."
    BY <1>1 DEF Begins, UsedIn, DirSlot
  <1>4. 2 \in UsedIn(slots, c) /\ slots[c][2].name = ".."
    BY <1>1 DEF Begins, UsedIn, DirSlot
  <1>5. ASSUME NEW j, IsEntry(slots, c, j) PROVE FALSE
    <2>1. j \in UsedIn(slots, c) /\ j > 2 /\ j \in Nat
      BY <1>2, <1>5, SlotFacts DEF IsEntry, IsTree
    <2>2. Alike(slots, c, slots[c][j].name) = {j}
      BY <1>5 DEF IsTree, Distinct
    <2>3. slots[c][j].name \in {".", ".."}
      BY <2>1, Views DEF IsEmpty
    <2>4. 1 \in Alike(slots, c, slots[c][j].name) \/ 2 \in Alike(slots, c, slots[c][j].name)
      BY <1>3, <1>4, <2>3 DEF Alike
    <2>5. j = 1 \/ j = 2
      BY <2>2, <2>4
    <2> QED BY <2>1, <2>5
  <1> QED BY <1>2, <1>5

\* Fat32Entry::remove.
LEMMA RemoveKeeps ==
  ASSUME Good(slots, fat, files), NEW name, remove(Root, name), Duty'
  PROVE  Good(slots, fat, files)'
  <1> DEFINE d == Root
  <1>1. PICK i \in IgnoringCase(d, name) :
          LET e == slots[d][i] IN
          /\ e.kind = "dir" => IsEmpty(e.cluster)
          /\ fat' = Freed(e.cluster)
          /\ slots' = IF e.kind = "dir"
                      THEN [slots EXCEPT ![d][i] = Deleted, ![e.cluster] = <<>>]
                      ELSE [slots EXCEPT ![d][i] = Deleted]
          /\ files' = files
    BY DEF remove
  <1> DEFINE e == slots[d][i]
             c == IF e.kind = "dir" THEN e.cluster ELSE None
  <1>2. IsTree(slots) /\ slots \in SlotsType
    BY DEF Good, IsTree
  <1>3. IsEntry(slots, d, i) /\ d \in Dirs
    BY Views DEF IsEntry, Alike, Dirs
  <1>4. IsDir(slots, d, i) <=> e.kind = "dir"
    BY <1>3 DEF IsDir
  <1>5. /\ e.kind = "dir" => c = e.cluster /\ c \in Dirs /\ c # d
        /\ e.kind # "dir" => c = None /\ c \notin Dirs
        /\ c \in Dirs => \A j : ~IsEntry(slots, c, j)
    <2>1. CASE e.kind = "dir"
      <3>1. c = e.cluster /\ IsEmpty(c)
        BY <1>1, <2>1
      <3> HIDE DEF c
      <3>2. c \in Cluster /\ c \in Dirs /\ \A j : ~IsEntry(slots, c, j)
        BY <1>2, <1>4, <2>1, <3>1, EmptyFacts
      <3> QED BY <2>1, <3>1, <3>2, Symbols
    <2>2. CASE e.kind # "dir"
      BY <2>2, Symbols DEF Dirs
    <2> QED BY <2>1, <2>2
  <1>6. slots' = [b \in Dirs |-> IF b = d THEN [slots[d] EXCEPT ![i] = Deleted]
                                 ELSE IF b = c THEN <<>> ELSE slots[b]]
    <2>1. CASE e.kind = "dir"
      <3>1. slots' = [slots EXCEPT ![d][i] = Deleted, ![c] = <<>>]
        BY <1>1, <1>5, <2>1
      <3> HIDE DEF c, e
      <3> QED BY <1>2, <1>3, <1>5, <2>1, <3>1 DEF SlotsType
    <2>2. CASE e.kind # "dir"
      <3>1. slots' = [slots EXCEPT ![d][i] = Deleted]
        BY <1>1, <2>2
      <3> HIDE DEF c, e
      <3> QED BY <1>2, <1>3, <1>5, <2>2, <3>1 DEF SlotsType
    <2> QED BY <2>1, <2>2
  <1>7. c # d
    BY <1>3, <1>5
  <1> HIDE DEF c, d, e
  <1>8. Edit(slots, slots', d, i, Deleted, c) /\ (c \in Dirs => DOMAIN slots'[c] = {})
    BY <1>2, <1>3, <1>5, <1>6, <1>7, DeleteEdit
  <1>9. Frees(fat, fat', slots[d][i].cluster)
    BY <1>1, ChainIsReach DEF Freed, Frees, d
  <1>10. On(files, d, i) = {} /\ files' = files
    <2>1. files' = files /\ Met(slots', files)
      BY <1>1, DutyIs DEF d
    <2>2. slots'[d][i] = Deleted
      BY <1>8 DEF Edit
    <2>3. i \notin UsedIn(slots', d)
      BY <2>2, DirSlotFacts DEF UsedIn
    <2> QED BY <2>1, <2>3 DEF Met, On, IsOn
  <1>11. Emptied(slots, slots', d, i, c)
    BY <1>4, <1>5, <1>8 DEF e, Emptied
  <1>12. Deleted.kind = "deleted"
    BY DirSlotFacts
  <1>13. Good(slots', fat', files)
    BY <1>3, <1>8, <1>9, <1>10, <1>11, <1>12, GoodRemove
  <1> QED BY <1>10, <1>13

\* sys_unlinkat, which finds directories only as "/".
LEMMA UnlinkKeeps ==
  ASSUME Sound, NEW p \in Seq(Piece), p # <<>>, NEW fd \in Fd \cup {AT_FDCWD}, sys_unlinkat(fd, p),
         Duty'
  PROVE  Sound'
  <1> DEFINE path == path_with_fd(fd, p)
             cut  == IF Last(path) = "" THEN Front(path) ELSE path
             q    == Front(cut)
             w    == Walk(Append(q, ""))
  <1>1. w.status = "found" /\ remove(w.dir, Last(cut)) /\ BaseOk(fd, p)
    BY DEF sys_unlinkat
  <1>2. "" \in Piece /\ IsSlash("")
    BY DEF Piece, IsSlash
  <1>3. q \in Seq(Piece)
    <2>1. path \in Seq(Piece)
      BY <1>1, PathType
    <2> HIDE DEF path
    <2>2. Front(path) \in Seq(Piece)
      BY <1>2, <2>1, SeqFacts
    <2>3. cut \in Seq(Piece)
      BY <2>1, <2>2
    <2> HIDE DEF cut
    <2> QED BY <1>2, <2>3, SeqFacts
  <1> HIDE DEF q
  <1>4. IsTree(slots) /\ Good(slots, fat, files)
    BY DEF Sound, Good
  <1>5. w = RootDir
    <2> DEFINE r == Append(q, "")
    <2>1. r = Append(q, "") /\ Walk(r).status = "found"
      BY <1>1
    <2> HIDE DEF r
    <2>2. Walk(r) = RootDir
      BY <1>2, <1>3, <1>4, <2>1, SlashIsRoot
    <2> QED BY <2>2 DEF r
  <1> HIDE DEF w, cut
  <1>6. w.dir = Root
    BY <1>5 DEF RootDir
  <1>7. Good(slots, fat, files)'
    BY <1>1, <1>4, <1>6, RemoveKeeps
  <1>8. cwd' = cwd
    BY <1>1 DEF remove
  <1> QED BY <1>7, <1>8 DEF Sound, CwdType

\* The working directory begins and ends with a slash, s, after chdir.
LEMMA SlashedPath ==
  ASSUME NEW S, NEW s \in S, NEW p \in Seq(S), p # <<>>,
         NEW new, new = IF Len(p) > 1 /\ p[1] = s THEN p ELSE <<s>> \o p,
         NEW cw, cw = IF Last(new) = s THEN new ELSE Append(new, s)
  PROVE  Slashed(S, cw, s)
  <1>1. Len(p) \in Nat /\ Len(p) > 0
    OBVIOUS
  <1>2. new \in Seq(S) /\ Len(new) \in Nat /\ Len(new) > 1 /\ new[1] = s
    <2>1. CASE Len(p) > 1 /\ p[1] = s
      BY <1>1, <2>1
    <2>2. CASE ~(Len(p) > 1 /\ p[1] = s)
      <3> DEFINE q == <<s>> \o p
      <3>1. q \in Seq(S) /\ Len(q) = 1 + Len(p) /\ q[1] = s /\ new = q
        BY <1>1, <2>2
      <3> HIDE DEF q
      <3> QED BY <1>1, <3>1
    <2> QED BY <2>1, <2>2
  <1> HIDE DEF Last
  <1>3. CASE Last(new) = s
    BY <1>2, <1>3 DEF Slashed
  <1>4. CASE Last(new) # s
    <2> DEFINE r == Append(new, s)
               n == Len(new)
    <2>1. r \in Seq(S) /\ Len(r) = n + 1 /\ r[n + 1] = s /\ \A i \in 1 .. n : r[i] = new[i]
      BY <1>2, AppendFacts
    <2>2. cw = r
      BY <1>4
    <2> HIDE DEF r
    <2>3. n \in Nat /\ n > 1 /\ 1 \in 1 .. n
      BY <1>2
    <2> HIDE DEF n
    <2>4. Len(r) > 1 /\ r[1] = new[1] /\ r[Len(r)] = s
      BY <2>1, <2>3
    <2> QED BY <1>2, <2>1, <2>2, <2>4 DEF Slashed, Last
  <1> QED BY <1>3, <1>4

LEMMA SlashedTwo ==
  ASSUME NEW S, NEW s \in S
  PROVE  Slashed(S, <<s, s>>, s)
  <1> DEFINE q == <<s, s>>
  <1>1. q \in Seq(S) /\ Len(q) = 2 /\ q[1] = s /\ q[2] = s
    OBVIOUS
  <1> HIDE DEF q
  <1>2. Slashed(S, q, s)
    BY <1>1 DEF Slashed, Last
  <1> QED BY <1>2 DEF q

\* sys_chdir.
LEMMA ChdirType ==
  ASSUME NEW p \in Seq(Piece), p # <<>>, sys_chdir(p)
  PROVE  CwdType'
  <1>2. "" \in Piece
    BY DEF Piece
  <1> DEFINE new == IF Len(p) > 1 /\ p[1] = "" THEN p ELSE <<"">> \o p
  <1>3. cwd' = IF Last(new) = "" THEN new ELSE Append(new, "")
    BY DEF sys_chdir, IsAbsolute
  <1>4. new = IF Len(p) > 1 /\ p[1] = "" THEN p ELSE <<"">> \o p
    OBVIOUS
  <1> HIDE DEF new
  <1>5. Slashed(Piece, cwd', "")
    BY <1>2, <1>3, <1>4, SlashedPath
  <1> QED BY <1>5 DEF CwdType

LEMMA ChdirKeeps ==
  ASSUME Sound, NEW p \in Seq(Piece), p # <<>>, sys_chdir(p)
  PROVE  Sound'
  <1>1. UNCHANGED <<slots, fat, files>>
    BY DEF sys_chdir
  <1> QED BY <1>1, ChdirType DEF Sound

\* The invariant holds of an empty volume.
LEMMA InitNames ==
  ASSUME Init
  PROVE  Sound
  <1>1. slots \in SlotsType /\ \A d \in Dirs : DOMAIN slots[d] = {}
    <2>1. slots = [d \in Dirs |-> <<>>]
      BY DEF Init, Dirs
    <2>2. <<>> \in Seq(Slot) /\ DOMAIN <<>> = {}
      OBVIOUS
    <2> QED BY <2>1, <2>2 DEF SlotsType
  <1>2. \A d, i : ~IsEntry(slots, d, i)
    BY <1>1 DEF IsEntry, UsedIn
  <1>3. IsTree(slots)
    BY <1>1, <1>2 DEF IsTree, Housed, Dotted, Single, Distinct, IsDir, Dirs
  <1>4. files \in FilesType /\ \A f \in Fd : files[f].kind # "file"
    <2>1. Closed.kind # "file"
      BY DEF Closed
    <2> QED BY <2>1 DEF Init, FilesType
  <1>5. Handles(slots, fat, files)
    BY <1>4 DEF Handles, Handle
  <1>6. Accounts(fat, EntriesOf(slots), Firsts(slots, files))
    <2>1. EntriesOf(slots) = {}
      BY <1>2 DEF EntriesOf
    <2>2. fat = [c \in Cluster |-> Free]
      BY DEF Init
    <2> QED BY <2>1, <2>2 DEF Accounts, FatType
  <1>7. CwdType
    <2>1. cwd = <<"", "">> /\ "" \in Piece
      BY DEF Init, Piece
    <2>2. Slashed(Piece, <<"", "">>, "")
      BY <2>1, SlashedTwo
    <2> QED BY <2>1, <2>2 DEF CwdType
  <1> QED BY <1>3, <1>4, <1>5, <1>6, <1>7 DEF Sound, Good

\* What programs may pass, in the terms of the proofs.
LEMMA CallFacts ==
  /\ \A p \in Given \cup GivenDirs : p \in Seq(Piece) /\ p # <<>>
  /\ \A buf \in Buffer : buf \in Seq(Nat)
  /\ \A len \in Lengths : len \in Nat
  BY CallsAssumption DEF Piece

\* A call leaves Sound as it is if the programs meet their duty after it.
LEMMA CallKeeps ==
  ASSUME Sound, Calls, Duty'
  PROVE  Sound'
  <1>1. ASSUME NEW fd \in Fd \cup {AT_FDCWD}, NEW p \in Given, NEW flags \in Flags,
               sys_openat(fd, p, flags)
        PROVE  Sound'
    BY <1>1, CallFacts, OpenKeeps
  <1>2. ASSUME NEW fd \in Fd \cup {AT_FDCWD}, NEW p \in Given, sys_unlinkat(fd, p)
        PROVE  Sound'
    BY <1>2, CallFacts, UnlinkKeeps
  <1>3. ASSUME NEW p \in GivenDirs, sys_chdir(p) PROVE Sound'
    BY <1>3, CallFacts, ChdirKeeps
  <1>4. ASSUME NEW p \in GivenDirs, NEW fd \in Fd \cup {AT_FDCWD}, sys_mkdirat(fd, p) PROVE Sound'
    BY <1>4, CallFacts, OpenKeeps DEF sys_mkdirat
  <1>5. ASSUME NEW f \in Fd, sys_close(f) PROVE Sound'
    BY <1>5, CloseKeeps
  <1>6. ASSUME NEW f \in Fd, NEW len \in Lengths, sys_read(f, len) PROVE Sound'
    BY <1>6, CallFacts, ReadKeeps
  <1>7. ASSUME NEW f \in Fd, NEW buf \in Buffer, sys_write(f, buf) \/ sys_writev(f, buf) PROVE Sound'
    <2>1. files[f].kind = "file" /\ WriteFile(f, buf)
      BY <1>7 DEF sys_write, sys_writev
    <2> QED BY <2>1, CallFacts, WriteKeeps
  <1> QED BY <1>1, <1>2, <1>3, <1>4, <1>5, <1>6, <1>7 DEF Calls

\* Only sys_chdir changes the working directory.
LEMMA CwdKeeps ==
  ASSUME CwdType, Calls
  PROVE  CwdType'
  <1>1. ASSUME NEW w, NEW path, NEW flags, OpenExisting(w, path, flags) \/ OpenMissing(w, path, flags)
        PROVE  cwd' = cwd
    BY <1>1 DEF OpenExisting, OpenMissing, OpenSimilar, create_dir, create_file
  <1>2. ASSUME NEW fd, NEW p, NEW flags, sys_openat(fd, p, flags) PROVE cwd' = cwd
    BY <1>1, <1>2 DEF sys_openat, open_inode
  <1>3. ASSUME NEW fd, NEW p, sys_unlinkat(fd, p) PROVE cwd' = cwd
    BY <1>3 DEF sys_unlinkat, remove
  <1>4. ASSUME NEW f, NEW buf, WriteFile(f, buf) PROVE cwd' = cwd
    BY <1>4 DEF WriteFile, Put
  <1>5. ASSUME NEW f, sys_close(f) \/ \E len \in Lengths : sys_read(f, len) PROVE cwd' = cwd
    BY <1>5 DEF sys_close, sys_read
  <1>6. ASSUME NEW p \in GivenDirs, sys_chdir(p) PROVE CwdType'
    BY <1>6, CallFacts, ChdirType
  <1>7. cwd' = cwd => CwdType'
    BY DEF CwdType
  <1> QED BY <1>2, <1>3, <1>4, <1>5, <1>6, <1>7 DEF Calls, sys_mkdirat, sys_write, sys_writev

\* The working directory is an absolute path with a final slash; and as long as
\* the programs have met their duty, the tree of directories, the chains of
\* clusters and the copies of slots in open files fit together.
NInv == CwdType /\ (dutiful => Good(slots, fat, files))

\* NInv holds at all times, whatever is opened, shared, written (through
\* read-only descriptors, too), closed, created and removed.
THEOREM Invariant == Spec => []NInv
  <1>1. Init => NInv
    BY InitNames DEF NInv, Sound
  <1>2. NInv /\ [Next]_vars => NInv'
    <2> SUFFICES ASSUME NInv, [Next]_vars PROVE NInv'
      OBVIOUS
    <2>1. CASE UNCHANGED vars
      BY <2>1 DEF vars, volume, NInv, CwdType
    <2>2. CASE Next
      <3>1. Calls /\ (dutiful' => dutiful /\ Duty') /\ CwdType
        BY <2>2 DEF Next, NInv
      <3>2. CwdType'
        BY <3>1, CwdKeeps
      <3>3. ASSUME dutiful' PROVE Good(slots, fat, files)'
        <4>1. Sound /\ Duty'
          BY <3>1, <3>3 DEF NInv, Sound
        <4>2. Sound'
          BY <3>1, <4>1, CallKeeps
        <4> QED BY <4>2 DEF Sound
      <3> QED BY <3>2, <3>3 DEF NInv
    <2> QED BY <2>1, <2>2
  <1> QED BY <1>1, <1>2, PTL DEF Spec

-----------------------------------------------------------------------------
(* What the invariant says.                                                *)

\* Entries of the model, as pairs.
LEMMA EntriesAre ==
  ASSUME slots \in SlotsType
  PROVE  /\ Entries = EntriesOf(slots)
         /\ \A s \in Entries : Effective(s[1], s[2]).cluster = Firsts(slots, files)[s]
  <1>1. \A s \in Entries : s = <<s[1], s[2]>> /\ IsEntry(slots, s[1], s[2])
    BY Views
  <1>2. \A s \in EntriesOf(slots) : s = <<s[1], s[2]>> /\ IsEntry(slots, s[1], s[2])
    BY EntryIn
  <1>3. Entries = EntriesOf(slots)
    BY <1>1, <1>2, Views, EntryIn
  <1>4. ASSUME NEW d, NEW i, IsEntry(slots, d, i)
        PROVE  Effective(d, i).cluster = FirstOf(slots, files, d, i)
    <2> DEFINE W == {f \in OpenOn(d, i) : files[f].dirty}
               h == files[CHOOSE f \in W : TRUE]
               o == slots[d][i]
    <2>1. Effective(d, i) = IF W = {} THEN o ELSE [o EXCEPT !.cluster = h.cluster, !.size = h.size]
      BY DEF Effective
    <2>2. FirstOf(slots, files, d, i) = IF W = {} THEN o.cluster ELSE h.cluster
      <3> DEFINE V == {f \in On(files, d, i) : files[f].dirty}
      <3>1. FirstOf(slots, files, d, i) = IF V = {} THEN o.cluster
                                          ELSE files[CHOOSE f \in V : TRUE].cluster
        BY DEF FirstOf
      <3>2. V = W
        BY OpenOnIs
      <3> HIDE DEF V, W
      <3> QED BY <3>1, <3>2
    <2>3. o \in Slot
      BY <1>4, SlotFacts DEF IsEntry
    <2> HIDE DEF W, h, o
    <2>4. [o EXCEPT !.cluster = h.cluster, !.size = h.size].cluster = h.cluster
      BY <2>3 DEF Slot
    <2> QED BY <2>1, <2>2, <2>4
  <1>5. ASSUME NEW s \in Entries PROVE Effective(s[1], s[2]).cluster = Firsts(slots, files)[s]
    <2>1. s = <<s[1], s[2]>> /\ IsEntry(slots, s[1], s[2])
      BY <1>1
    <2> QED BY <1>4, <2>1, EntryIn
  <1> QED BY <1>3, <1>5

\* ClustersAccounted is Accounts, counted.
LEMMA ClustersAccountedHolds ==
  ASSUME NInv
  PROVE  ClustersAccounted
  <1> SUFFICES ASSUME dutiful PROVE ClustersAccounted
    BY DEF ClustersAccounted
  <1> DEFINE E == EntriesOf(slots)
             g == Firsts(slots, files)
  <1>1. Accounts(fat, E, g) /\ slots \in SlotsType
    BY DEF NInv, Good, IsTree
  <1> SUFFICES ASSUME NEW c \in Cluster
               PROVE  Cardinality({s \in Entries : c \in Chain(Effective(s[1], s[2]).cluster)})
                        = IF fat[c] = Free THEN 0 ELSE 1
    BY DEF ClustersAccounted
  <1>2. {s \in Entries : c \in Chain(Effective(s[1], s[2]).cluster)} = {s \in E : c \in Reach(fat, g[s])}
    BY <1>1, EntriesAre, ChainIsReach
  <1> HIDE DEF E, g
  <1>3. CASE fat[c] = Free
    <2>1. {s \in E : c \in Reach(fat, g[s])} = {}
      BY <1>1, <1>3 DEF Accounts
    <2> QED BY <1>2, <1>3, <2>1, FS_EmptySet
  <1>4. CASE fat[c] # Free
    <2>1. PICK s \in E : c \in Reach(fat, g[s])
      BY <1>1, <1>4 DEF Accounts
    <2>2. {t \in E : c \in Reach(fat, g[t])} = {s}
      BY <1>1, <2>1 DEF Accounts
    <2> QED BY <1>2, <1>4, <2>2, FS_Singleton
  <1> QED BY <1>3, <1>4

\* DirectoriesLinked follows from IsTree.
LEMMA DirectoriesLinkedHolds ==
  ASSUME NInv
  PROVE  DirectoriesLinked
  <1> SUFFICES ASSUME dutiful PROVE DirectoriesLinked
    BY DEF DirectoriesLinked
  <1>1. IsTree(slots)
    BY DEF NInv, Good
  <1> SUFFICES ASSUME NEW s \in Entries
               PROVE  LET e == slots[s[1]][s[2]] IN
                      /\ IgnoringCase(s[1], e.name) = {s[2]}
                      /\ e.kind = "dir" =>
                           /\ slots[e.cluster][1] = DirSlot(".", e.cluster)
                           /\ slots[e.cluster][2] = DirSlot("..", s[1])
                           /\ \A t \in DirEntries \ {s} : slots[t[1]][t[2]].cluster # e.cluster
    BY DEF DirectoriesLinked
  <1> DEFINE d == s[1]
             i == s[2]
             e == slots[d][i]
  <1>2. s = <<d, i>> /\ IsEntry(slots, d, i)
    BY Views
  <1>3. IgnoringCase(d, e.name) = {i}
    BY <1>1, <1>2, Views DEF IsTree, Distinct
  <1>4. ASSUME e.kind = "dir"
        PROVE  slots[e.cluster][1] = DirSlot(".", e.cluster) /\ slots[e.cluster][2] = DirSlot("..", d)
    <2>1. IsDir(slots, d, i)
      BY <1>2, <1>4 DEF IsDir
    <2> QED BY <1>1, <2>1 DEF IsTree, Dotted, Begins
  <1>5. ASSUME e.kind = "dir", NEW t \in DirEntries \ {s} PROVE slots[t[1]][t[2]].cluster # e.cluster
    <2>1. t \in Entries /\ slots[t[1]][t[2]].kind = "dir"
      BY DEF DirEntries
    <2>2. t = <<t[1], t[2]>> /\ IsEntry(slots, t[1], t[2])
      BY <2>1, Views
    <2>3. IsDir(slots, t[1], t[2]) /\ IsDir(slots, d, i)
      BY <1>2, <1>5, <2>1, <2>2 DEF IsDir
    <2>4. ~(t[1] = d /\ t[2] = i)
      BY <1>2, <2>2
    <2> QED BY <1>1, <2>3, <2>4 DEF IsTree, Single
  <1> QED BY <1>3, <1>4, <1>5

\* As long as the programs meet their duty (no file is removed while it is
\* open, none is open elsewhere while its slot is changed), every cluster in
\* use lies on the chain of one file or directory, and no free cluster on any,
\* whatever is created, truncated, written and removed
\* (alloc_cluster, free_cluster_chain, File::drop).
THEOREM ClustersAlwaysAccounted == Spec => []ClustersAccounted
  BY Invariant, ClustersAccountedHolds, PTL

\* As long as the programs meet their duty, every directory is entered in one
\* other, its "." and ".." lead where they should, and no two names of a directory differ only in case (open_inode,
\* create_dir, remove).
THEOREM DirectoriesAlwaysLinked == Spec => []DirectoriesLinked
  BY Invariant, DirectoriesLinkedHolds, PTL

\* A name relative to the working directory is looked up where the pieces of
\* the working directory lead (path_with_fd, sys_chdir).
THEOREM AlwaysRelativeToCwd == Spec => []RelativeToCwd
  <1>1. NInv => RelativeToCwd
    BY RelativeToCwdHolds DEF NInv
  <1> QED BY <1>1, Invariant, PTL
=============================================================================
