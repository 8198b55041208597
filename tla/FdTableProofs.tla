---------------------------- MODULE FdTableProofs ----------------------------
(***************************************************************************)
(* Theorems about FdTable, for any number of processes and files and       *)
(* tables of any length.                                                   *)
(***************************************************************************)
EXTENDS FdTable, WellFoundedInduction, TLAPS

-----------------------------------------------------------------------------
(* Tables as sequences of slots.                                           *)

Slot == File \cup {None}
Kind == Mode \cup {Passwd, ReadEnd, WriteEnd, Gone}

LEMMA TableIsSeq ==
  ASSUME NEW t
  PROVE  t \in Tables <=> t \in Seq(Slot) /\ Len(t) <= MaxFds
  <1>1. ASSUME t \in Tables
        PROVE  t \in Seq(Slot) /\ Len(t) <= MaxFds
    <2>1. PICK n \in 0 .. MaxFds : t \in [1 .. n -> Slot]
      BY <1>1 DEF Tables, Slot
    <2>2. n \in Nat /\ n <= MaxFds
      BY BoundAssumption
    <2> QED BY <2>1, <2>2
  <1>2. ASSUME t \in Seq(Slot), Len(t) <= MaxFds
        PROVE  t \in Tables
    <2>1. Len(t) \in 0 .. MaxFds /\ t \in [1 .. Len(t) -> Slot]
      BY <1>2, BoundAssumption
    <2> QED BY <2>1 DEF Tables, Slot
  <1> QED BY <1>1, <1>2

LEMMA SmallestNumber ==
  ASSUME NEW S \in SUBSET Nat, S # {}
  PROVE  \E n \in S : \A m \in S : n <= m
  <1>1. PICK n \in S : \A m \in S : ~(<<m, n>> \in OpToRel(<, Nat))
    BY NatLessThanWellFounded, WFMin, Zenon
  <1>2. ASSUME NEW m \in S PROVE ~(m < n)
    <2>1. m \in Nat /\ n \in Nat
      OBVIOUS
    <2> QED BY <1>1, <2>1, Zenon DEF OpToRel
  <1> QED BY <1>2

LEMMA ExtendedTable ==
  ASSUME NEW t \in Seq(Slot), NEW n \in Nat
  PROVE  /\ Extended(t, n) \in Seq(Slot)
         /\ Len(Extended(t, n)) = IF n > Len(t) THEN n ELSE Len(t)
         /\ \A i \in DOMAIN Extended(t, n) :
              Extended(t, n)[i] = IF i \in DOMAIN t THEN t[i] ELSE None
  <1>1. CASE n > Len(t)
    <2> DEFINE s == [i \in 1 .. n - Len(t) |-> None]
    <2>1. n - Len(t) \in Nat
      BY <1>1
    <2>2. s \in Seq(Slot) /\ Len(s) = n - Len(t)
      BY <2>1 DEF Slot
    <2>3. Extended(t, n) = t \o s
      BY <1>1 DEF Extended
    <2>4. \A i \in 1 .. n - Len(t) : s[i] = None
      OBVIOUS
    <2> HIDE DEF s
    <2>5. t \o s \in Seq(Slot) /\ Len(t \o s) = n /\ DOMAIN (t \o s) = 1 .. n
      BY <2>1, <2>2
    <2>6. \A i \in 1 .. n : (t \o s)[i] = IF i \in DOMAIN t THEN t[i] ELSE None
      BY <2>1, <2>2, <2>4, <1>1
    <2> QED BY <2>3, <2>5, <2>6, <1>1
  <1>2. CASE ~(n > Len(t))
    BY <1>2 DEF Extended
  <1> QED BY <1>1, <1>2

\* alloc_fd_from(min): the lowest free slot from min on, or the next one.
LEMMA AllocatedFd ==
  ASSUME NEW t \in Seq(Slot), NEW min \in Nat \ {0}, Len(t) >= min - 1
  PROVE  /\ alloc_fd_from(t, min) \in min .. Len(t) + 1
         /\ alloc_fd_from(t, min) \in DOMAIN t => t[alloc_fd_from(t, min)] = None
         /\ \A lower \in min .. alloc_fd_from(t, min) - 1 : Open(t, lower)
  <1> DEFINE free == FreeSlots(t, min)
             fd == alloc_fd_from(t, min)
  <1>1. CASE free = {}
    <2>1. fd = Len(t) + 1
      BY <1>1 DEF alloc_fd_from
    <2> QED BY <1>1, <2>1 DEF FreeSlots, Open
  <1>2. CASE free # {}
    <2>1. free \in SUBSET Nat
      BY DEF FreeSlots
    <2>2. \E n \in free : \A m \in free : n <= m
      <3> HIDE DEF free
      <3> QED BY <1>2, <2>1, SmallestNumber
    <2>3. fd = CHOOSE n \in free : \A m \in free : n <= m
      BY <1>2 DEF alloc_fd_from
    <2>4. fd \in free /\ \A m \in free : fd <= m
      <3> HIDE DEF free, fd
      <3> QED BY <2>2, <2>3
    <2>5. fd \in DOMAIN t /\ fd >= min /\ t[fd] = None
      BY <2>4 DEF FreeSlots
    <2>6. ASSUME NEW lower \in min .. fd - 1
          PROVE  Open(t, lower)
      <3> HIDE DEF fd
      <3>1. lower \in DOMAIN t /\ lower >= min /\ ~(fd <= lower)
        BY <2>5
      <3>2. lower \notin free
        BY <3>1, <2>4
      <3> QED BY <3>1, <3>2 DEF FreeSlots, Open
    <2> HIDE DEF fd
    <2>7. fd \in min .. Len(t) + 1
      BY <2>5
    <2> QED BY <2>5, <2>6, <2>7 DEF fd
  <1> QED BY <1>1, <1>2

\* fd is the slot of table w where Place(t, min, f) has put f.
PlacedAt(t, min, f, w, fd) ==
  /\ fd \in DOMAIN w /\ w[fd] = f
  /\ \A lower \in min .. fd - 1 : Open(t, lower)
  /\ \A i \in DOMAIN t : t[i] # None => i # fd /\ i \in DOMAIN w /\ w[i] = t[i]
  /\ \A i \in DOMAIN w : i # fd => w[i] = None \/ (i \in DOMAIN t /\ w[i] = t[i])

\* Placing a file takes nothing away from a table and adds only that file, at
\* the lowest slot from min on that is not open.
LEMMA PlacedTable ==
  ASSUME NEW t \in Seq(Slot), NEW min \in Nat \ {0}, NEW f \in Slot
  PROVE  /\ Place(t, min, f) \in Seq(Slot)
         /\ \A g : g # None => (g \in Names(Place(t, min, f)) <=> g \in Names(t) \/ g = f)
         /\ \E fd \in Nat \ {0} : PlacedAt(t, min, f, Place(t, min, f), fd)
  <1> DEFINE u == Extended(t, min - 1)
             fd == alloc_fd_from(u, min)
             v == Extended(u, fd)
             w == [v EXCEPT ![fd] = f]
  <1>1. /\ u \in Seq(Slot) /\ Len(u) >= min - 1 /\ Len(u) >= Len(t) /\ Len(u) \in Nat
        /\ \A i \in DOMAIN u : u[i] = IF i \in DOMAIN t THEN t[i] ELSE None
    BY ExtendedTable
  <1>2. /\ fd \in min .. Len(u) + 1 /\ (fd \in DOMAIN u => u[fd] = None)
        /\ \A lower \in min .. fd - 1 : Open(u, lower)
    BY <1>1, AllocatedFd
  <1> HIDE DEF fd, u
  <1>3. fd \in Nat \ {0}
    BY <1>2, <1>1
  <1>4. /\ v \in Seq(Slot) /\ Len(v) >= fd /\ Len(v) >= Len(u)
        /\ \A i \in DOMAIN v : v[i] = IF i \in DOMAIN u THEN u[i] ELSE None
    BY <1>1, <1>3, ExtendedTable
  <1> HIDE DEF v
  <1>5. fd \in DOMAIN v /\ DOMAIN u \subseteq DOMAIN v /\ DOMAIN t \subseteq DOMAIN u
    BY <1>1, <1>3, <1>4
  <1>6. /\ w \in Seq(Slot) /\ DOMAIN w = DOMAIN v /\ w[fd] = f
        /\ \A i \in DOMAIN v : i # fd => w[i] = v[i]
    BY <1>4, <1>5
  <1>7. Place(t, min, f) = w
    BY DEF Place, w, v, fd, u
  <1> HIDE DEF w
  <1>8. \A i \in DOMAIN w : w[i] = f \/ w[i] = None \/ (i \in DOMAIN t /\ w[i] = t[i])
    BY <1>1, <1>4, <1>6
  <1>9. \A i \in DOMAIN t : t[i] # None => i # fd /\ w[i] = t[i] /\ i \in DOMAIN w
    BY <1>1, <1>2, <1>4, <1>5, <1>6
  <1>10. ASSUME NEW g, g # None
         PROVE  g \in Names(w) <=> g \in Names(t) \/ g = f
    BY <1>5, <1>6, <1>8, <1>9, <1>10 DEF Names
  <1>11. \A lower \in min .. fd - 1 : Open(t, lower)
    BY <1>1, <1>2 DEF Open
  <1>12. \A i \in DOMAIN w : i # fd => w[i] = None \/ (i \in DOMAIN t /\ w[i] = t[i])
    BY <1>1, <1>4, <1>6
  <1>13. PlacedAt(t, min, f, w, fd)
    BY <1>5, <1>6, <1>9, <1>11, <1>12 DEF PlacedAt
  <1> QED BY <1>3, <1>6, <1>7, <1>10, <1>13

-----------------------------------------------------------------------------
(* A call that replaces one table.                                         *)

LEMMA TableOfProc ==
  ASSUME TypeOK, NEW p \in Proc
  PROVE  fd_table[p] \in Seq(Slot) /\ Len(fd_table[p]) <= MaxFds
  <1>1. fd_table[p] \in Tables
    BY DEF TypeOK
  <1> QED BY <1>1, TableIsSeq

LEMMA SlotOfFd ==
  ASSUME TypeOK, NEW p \in Proc, NEW fd, Open(fd_table[p], fd)
  PROVE  fd_table[p][fd] \in File /\ fd_table[p][fd] # None
         /\ fd_table[p][fd] \in Names(fd_table[p])
  <1>1. fd_table[p] \in Seq(Slot)
    BY TableOfProc
  <1>2. fd_table[p][fd] \in Slot
    BY <1>1 DEF Open
  <1> QED BY <1>2 DEF Open, Slot, Names

LEMMA ObjectIsFile ==
  ASSUME NEW f \in Object
  PROVE  f \in Slot /\ f # None
  BY NamesAssumption DEF Slot, File

\* SetTables keeps the types, and the other processes keep their tables.
LEMMA SetTablesTypes ==
  ASSUME TypeOK, NEW p \in Proc, NEW t \in Seq(Slot),
         NEW objects \in [Object -> Kind], NEW flags \in [Object -> BOOLEAN],
         SetTables([fd_table EXCEPT ![p] = t], objects, flags)
  PROVE  /\ fd_table' \in [Proc -> Tables]
         /\ object' \in [Object -> Kind] /\ cloexec' \in [Object -> BOOLEAN]
         /\ fd_table'[p] = t
         /\ \A q \in Proc : q # p => fd_table'[q] = fd_table[q]
  <1> DEFINE tables == [fd_table EXCEPT ![p] = t]
  <1>1. fd_table \in [Proc -> Tables]
    BY DEF TypeOK
  <1>2. tables[p] = t /\ \A q \in Proc : q # p => tables[q] = fd_table[q]
    BY <1>1
  <1>3. fd_table' = tables /\ \A q \in Proc : Len(tables[q]) <= MaxFds
    BY DEF SetTables
  <1>4. t \in Tables
    BY <1>2, <1>3, TableIsSeq
  <1>5. fd_table' \in [Proc -> Tables]
    BY <1>1, <1>3, <1>4
  <1>6. object' \in [Object -> Kind]
    BY DEF SetTables, Kind
  <1>7. cloexec' \in [Object -> BOOLEAN]
    BY DEF SetTables
  <1> QED BY <1>2, <1>3, <1>5, <1>6, <1>7

\* The rest of TypeOK when no process comes or goes.
LEMMA TableCallTypes ==
  ASSUME TypeOK, NEW p \in live, NEW t \in Seq(Slot),
         NEW objects \in [Object -> Kind], NEW flags \in [Object -> BOOLEAN],
         SetTables([fd_table EXCEPT ![p] = t], objects, flags),
         UNCHANGED <<live, panic>>
  PROVE  TypeOK'
  <1>1. p \in Proc
    BY DEF TypeOK
  <1>2. /\ fd_table' \in [Proc -> Tables]
        /\ object' \in [Object -> Kind] /\ cloexec' \in [Object -> BOOLEAN]
        /\ \A q \in Proc : q # p => fd_table'[q] = fd_table[q]
    BY <1>1, SetTablesTypes
  <1> QED BY <1>2 DEF TypeOK, Kind

\* Which processes hold a file afterwards.
LEMMA HoldersAfter ==
  ASSUME TypeOK, NEW p \in Proc, NEW t,
         fd_table'[p] = t, \A q \in Proc : q # p => fd_table'[q] = fd_table[q]
  PROVE  \A f \in Object :
           holders'[f] = IF f \in Names(t) THEN holders[f] \cup {p} ELSE holders[f] \ {p}
  <1> SUFFICES ASSUME NEW f \in Object
               PROVE  holders'[f] = IF f \in Names(t) THEN holders[f] \cup {p}
                                    ELSE holders[f] \ {p}
    OBVIOUS
  <1>1. holders'[f] = {q \in Proc : f \in Names(fd_table'[q])}
    BY DEF holders
  <1>2. holders[f] = {q \in Proc : f \in Names(fd_table[q])}
    BY DEF holders
  <1>3. \A q \in Proc : f \in Names(fd_table'[q]) <=>
                          IF q = p THEN f \in Names(t) ELSE f \in Names(fd_table[q])
    OBVIOUS
  <1> QED BY <1>1, <1>2, <1>3

LEMMA HolderFacts ==
  \A f \in Object, p \in Proc : p \in holders[f] <=> f \in Names(fd_table[p])
  BY DEF holders

\* Closing and replacing: the process keeps some of its files.
LEMMA DropImplements ==
  ASSUME TypeOK, NEW p \in live, NEW t,
         fd_table'[p] = t, \A q \in Proc : q # p => fd_table'[q] = fd_table[q],
         \A f \in Object : f \in Names(t) => f \in Names(fd_table[p]),
         live' = live
  PROVE  Held!Next
  <1> DEFINE F == {f \in Object : f \notin Names(t)}
  <1>1. p \in Proc
    BY DEF TypeOK
  <1>2. \A f \in Object :
          holders'[f] = IF f \in Names(t) THEN holders[f] \cup {p} ELSE holders[f] \ {p}
    BY <1>1, HoldersAfter
  <1>3. \A f \in Object : holders'[f] = IF f \in F THEN holders[f] \ {p} ELSE holders[f]
    <2>1. \A f \in Object : f \in Names(t) => p \in holders[f]
      BY <1>1, HolderFacts
    <2> QED BY <1>2, <2>1
  <1>4. holders' = [f \in Object |-> IF f \in F THEN holders[f] \ {p} ELSE holders[f]]
    <2>1. holders' = [f \in Object |-> holders'[f]]
      BY DEF holders
    <2> QED BY <1>3, <2>1
  <1>5. Held!Drop(p, F)
    BY <1>4 DEF Held!Drop
  <1> QED BY <1>1, <1>5 DEF Held!Next

\* Opening: the files of F are nobody's before.
LEMMA CreateImplements ==
  ASSUME TypeOK, NEW p \in live, NEW t, NEW F \in SUBSET Object,
         fd_table'[p] = t, \A q \in Proc : q # p => fd_table'[q] = fd_table[q],
         F \subseteq Unreferenced,
         \A f \in Object : f \in Names(t) <=> f \in Names(fd_table[p]) \/ f \in F,
         live' = live
  PROVE  Held!Next
  <1>1. p \in Proc
    BY DEF TypeOK
  <1>2. \A f \in Object :
          holders'[f] = IF f \in Names(t) THEN holders[f] \cup {p} ELSE holders[f] \ {p}
    BY <1>1, HoldersAfter
  <1>3. \A f \in F : holders[f] = {}
    BY DEF holders, Unreferenced
  <1>4. \A f \in Object : holders'[f] = IF f \in F THEN {p} ELSE holders[f]
    <2>1. \A f \in Object : p \in holders[f] <=> f \in Names(fd_table[p])
      BY <1>1, HolderFacts
    <2> HIDE DEF holders
    <2>2. ASSUME NEW f \in Object, f \in F
          PROVE  holders'[f] = {p}
      <3>1. holders'[f] = holders[f] \cup {p} /\ holders[f] = {}
        BY <2>2, <1>2, <1>3
      <3> QED BY <3>1
    <2>3. ASSUME NEW f \in Object, f \notin F
          PROVE  holders'[f] = holders[f]
      <3>1. f \in Names(t) <=> p \in holders[f]
        BY <2>1, <2>3
      <3>2. holders'[f] = IF f \in Names(t) THEN holders[f] \cup {p} ELSE holders[f] \ {p}
        BY <1>2
      <3> QED BY <3>1, <3>2
    <2> QED BY <2>2, <2>3
  <1>5. holders' = [f \in Object |-> IF f \in F THEN {p} ELSE holders[f]]
    <2>1. holders' = [f \in Object |-> holders'[f]]
      BY DEF holders
    <2> QED BY <1>4, <2>1
  <1>6. Held!Create(p, F)
    BY <1>3, <1>5 DEF Held!Create
  <1> QED BY <1>1, <1>6 DEF Held!Next

-----------------------------------------------------------------------------
(* Every call keeps TypeOK, is a step of Holders and opens at the lowest   *)
(* descriptors.                                                            *)

\* What OpensAtLowest says of process p.
LowestOf(p) ==
  \A f \in Unreferenced, fd \in DOMAIN fd_table'[p] :
    fd_table'[p][fd] = f =>
      /\ \A lower \in 1 .. fd - 1 : Open(fd_table'[p], lower)
      /\ \A other \in DOMAIN fd_table[p] :
           Open(fd_table[p], other) => fd_table'[p][other] = fd_table[p][other]

Lowest == \A p \in Proc : LowestOf(p)

Good == TypeOK' /\ (Held!Next \/ UNCHANGED <<live, holders>>) /\ Lowest

\* A table with no file that nobody held before.
LEMMA NothingNew ==
  ASSUME NEW p \in Proc, NEW q \in Proc,
         \A f \in Object : f \in Names(fd_table'[p]) => f \in Names(fd_table[q])
  PROVE  LowestOf(p)
  <1>1. ASSUME NEW f \in Unreferenced
        PROVE  f \notin Names(fd_table'[p])
    BY <1>1 DEF Unreferenced
  <1>2. \A f \in Unreferenced, fd \in DOMAIN fd_table'[p] : fd_table'[p][fd] # f
    BY <1>1 DEF Names
  <1> QED BY <1>2 DEF LowestOf

LEMMA InodeKinds ==
  /\ Found \subseteq Kind
  /\ [type |-> "dir", readable |-> TRUE, writable |-> FALSE] \in Kind
  /\ {ReadEnd, WriteEnd} \subseteq Kind
  BY FoundAssumption DEF Kind, Mode, Inode

LEMMA OpenatGood ==
  ASSUME TypeOK, NEW p \in Proc, NEW f \in Object, NEW mode \in Kind, sys_openat(p, f, mode)
  PROVE  Good
  <1> DEFINE t == Place(fd_table[p], 1, f)
             objects == [object EXCEPT ![f] = mode]
  <1>1. p \in live /\ f \in Unreferenced /\ UNCHANGED <<live, panic>>
    BY DEF sys_openat, Runs
  <1>2. fd_table[p] \in Seq(Slot) /\ f \in Slot /\ 1 \in Nat \ {0}
    BY TableOfProc, ObjectIsFile
  <1>3. /\ t \in Seq(Slot)
        /\ \A g : g # None => (g \in Names(t) <=> g \in Names(fd_table[p]) \/ g = f)
        /\ \E at \in Nat \ {0} : PlacedAt(fd_table[p], 1, f, t, at)
    BY <1>2, PlacedTable, Zenon
  <1> HIDE DEF t
  <1>4. objects \in [Object -> Kind] /\ cloexec \in [Object -> BOOLEAN]
    BY DEF TypeOK, Kind
  <1>5. SetTables([fd_table EXCEPT ![p] = t], objects, cloexec)
    BY DEF sys_openat, t, TypeOK
  <1> HIDE DEF objects
  <1>6. TypeOK'
    BY <1>1, <1>3, <1>4, <1>5, TableCallTypes
  <1>7. fd_table'[p] = t /\ \A q \in Proc : q # p => fd_table'[q] = fd_table[q]
    BY <1>3, <1>4, <1>5, SetTablesTypes
  <1>8. \A g \in Object : g \in Names(t) <=> g \in Names(fd_table[p]) \/ g \in {f}
    BY <1>3, ObjectIsFile
  <1>9. Held!Next
    <2>1. {f} \in SUBSET Object /\ {f} \subseteq Unreferenced
      BY <1>1
    <2> QED BY <2>1, <1>1, <1>7, <1>8, CreateImplements
  <1>10. LowestOf(p)
    <2>1. PICK at \in Nat \ {0} : PlacedAt(fd_table[p], 1, f, t, at)
      BY <1>3
    <2> SUFFICES ASSUME NEW g \in Unreferenced, NEW fd \in DOMAIN t, t[fd] = g
                 PROVE  /\ \A lower \in 1 .. fd - 1 : Open(t, lower)
                        /\ \A other \in DOMAIN fd_table[p] :
                             Open(fd_table[p], other) => t[other] = fd_table[p][other]
      BY <1>7 DEF LowestOf
    <2>2. g # None /\ g \notin Names(fd_table[p])
      BY NamesAssumption DEF Unreferenced
    <2>3. fd = at
      BY <2>1, <2>2 DEF PlacedAt, Names
    <2> QED BY <2>1, <2>3 DEF PlacedAt, Open
  <1>11. Lowest
    BY <1>7, <1>10, NothingNew DEF Lowest
  <1> QED BY <1>6, <1>9, <1>11 DEF Good

LEMMA Pipe2Good ==
  ASSUME TypeOK, NEW p \in Proc, NEW r \in Object, NEW w \in Object, sys_pipe2(p, r, w)
  PROVE  Good
  <1> DEFINE t == Place(fd_table[p], 1, r)
             u == Place(t, 1, w)
             objects == [object EXCEPT ![r] = ReadEnd, ![w] = WriteEnd]
  <1>1. p \in live /\ {r, w} \subseteq Unreferenced /\ UNCHANGED <<live, panic>>
    BY DEF sys_pipe2, Runs
  <1>2. fd_table[p] \in Seq(Slot) /\ r \in Slot /\ w \in Slot /\ 1 \in Nat \ {0}
    BY TableOfProc, ObjectIsFile
  <1>3. /\ t \in Seq(Slot)
        /\ \A g : g # None => (g \in Names(t) <=> g \in Names(fd_table[p]) \/ g = r)
        /\ \E at \in Nat \ {0} : PlacedAt(fd_table[p], 1, r, t, at)
    BY <1>2, PlacedTable, Zenon
  <1>4. /\ u \in Seq(Slot)
        /\ \A g : g # None => (g \in Names(u) <=> g \in Names(t) \/ g = w)
        /\ \E at \in Nat \ {0} : PlacedAt(t, 1, w, u, at)
    <2> HIDE DEF t
    <2> QED BY <1>2, <1>3, PlacedTable, Zenon
  <1> HIDE DEF t, u
  <1>5. objects \in [Object -> Kind] /\ cloexec \in [Object -> BOOLEAN]
    BY DEF TypeOK, Kind
  <1>6. SetTables([fd_table EXCEPT ![p] = u], objects, cloexec)
    BY DEF sys_pipe2, t, u, TypeOK
  <1> HIDE DEF objects
  <1>7. TypeOK'
    BY <1>1, <1>4, <1>5, <1>6, TableCallTypes
  <1>8. fd_table'[p] = u /\ \A q \in Proc : q # p => fd_table'[q] = fd_table[q]
    BY <1>4, <1>5, <1>6, SetTablesTypes
  <1>9. \A g \in Object : g \in Names(u) <=> g \in Names(fd_table[p]) \/ g \in {r, w}
    BY <1>3, <1>4, ObjectIsFile
  <1>10. Held!Next
    <2>1. {r, w} \in SUBSET Object
      OBVIOUS
    <2> QED BY <2>1, <1>1, <1>8, <1>9, CreateImplements
  <1>11. LowestOf(p)
    <2>1. PICK at \in Nat \ {0} : PlacedAt(fd_table[p], 1, r, t, at)
      BY <1>3
    <2>2. PICK next \in Nat \ {0} : PlacedAt(t, 1, w, u, next)
      BY <1>4
    <2> SUFFICES ASSUME NEW g \in Unreferenced, NEW fd \in DOMAIN u, u[fd] = g
                 PROVE  /\ \A lower \in 1 .. fd - 1 : Open(u, lower)
                        /\ \A other \in DOMAIN fd_table[p] :
                             Open(fd_table[p], other) => u[other] = fd_table[p][other]
      BY <1>8 DEF LowestOf
    <2>3. g # None /\ g \notin Names(fd_table[p])
      BY NamesAssumption DEF Unreferenced
    <2>4. \A i : Open(fd_table[p], i) => Open(t, i) /\ t[i] = fd_table[p][i]
      BY <2>1 DEF PlacedAt, Open
    <2>5. \A i : Open(t, i) => Open(u, i) /\ u[i] = t[i]
      BY <2>2 DEF PlacedAt, Open
    <2>6. fd = next \/ (fd \in DOMAIN t /\ t[fd] = g)
      BY <2>2, <2>3 DEF PlacedAt
    <2>7. fd \in DOMAIN t /\ t[fd] = g => fd = at
      BY <2>1, <2>3 DEF PlacedAt, Names
    <2>8. \A lower \in 1 .. fd - 1 : Open(t, lower)
      BY <2>1, <2>2, <2>4, <2>6, <2>7 DEF PlacedAt
    <2> QED BY <2>4, <2>5, <2>8
  <1>12. Lowest
    BY <1>8, <1>11, NothingNew DEF Lowest
  <1> QED BY <1>7, <1>10, <1>12 DEF Good

\* Calls that leave a process with files it held before.
LEMMA KeepsGood ==
  ASSUME TypeOK, NEW p \in Proc, Runs(p), NEW t \in Seq(Slot),
         NEW flags \in [Object -> BOOLEAN],
         SetTables([fd_table EXCEPT ![p] = t], object, flags),
         \A f \in Object : f \in Names(t) => f \in Names(fd_table[p]),
         UNCHANGED <<live, panic>>
  PROVE  Good
  <1>1. p \in live
    BY DEF Runs
  <1>2. object \in [Object -> Kind]
    BY DEF TypeOK, Kind
  <1>3. TypeOK'
    BY <1>1, <1>2, TableCallTypes
  <1>4. fd_table'[p] = t /\ \A q \in Proc : q # p => fd_table'[q] = fd_table[q]
    BY <1>2, SetTablesTypes
  <1>5. Held!Next
    BY <1>1, <1>4, DropImplements
  <1>6. Lowest
    BY <1>4, NothingNew DEF Lowest
  <1> QED BY <1>3, <1>5, <1>6 DEF Good

\* Calls that place a file which the process holds, or one without a state.
LEMMA PlaceGood ==
  ASSUME TypeOK, NEW p \in Proc, Runs(p), NEW f \in File,
         f \in Names(fd_table[p]) \/ f \notin Object,
         NEW min \in Fd, NEW flags \in [Object -> BOOLEAN],
         SetTables([fd_table EXCEPT ![p] = Place(fd_table[p], min, f)], object, flags),
         UNCHANGED <<live, panic>>
  PROVE  Good
  <1>1. min \in Nat \ {0} /\ f \in Slot /\ fd_table[p] \in Seq(Slot)
    BY TableOfProc, BoundAssumption DEF Fd, Slot
  <1>2. /\ Place(fd_table[p], min, f) \in Seq(Slot)
        /\ \A g : g # None =>
             (g \in Names(Place(fd_table[p], min, f)) <=> g \in Names(fd_table[p]) \/ g = f)
    BY <1>1, PlacedTable
  <1>3. \A g \in Object :
          g \in Names(Place(fd_table[p], min, f)) => g \in Names(fd_table[p])
    BY <1>2, ObjectIsFile
  <1> QED BY <1>2, <1>3, KeepsGood

LEMMA MarkedType ==
  ASSUME TypeOK, NEW f, NEW bit \in BOOLEAN
  PROVE  Marked(f, bit) \in [Object -> BOOLEAN]
  BY DEF TypeOK, Marked

LEMMA TtyGood ==
  ASSUME TypeOK, NEW p \in Proc, OpenTty(p)
  PROVE  Good
  <1>1. Stdout \in File /\ Stdout \notin Object /\ 1 \in Fd
    BY NamesAssumption, BoundAssumption DEF File, Fd
  <1>2. cloexec \in [Object -> BOOLEAN]
    BY DEF TypeOK
  <1> QED BY <1>1, <1>2, PlaceGood DEF OpenTty, SetTable

LEMMA DupGood ==
  ASSUME TypeOK, NEW p \in Proc, NEW fd \in Fd, sys_dup(p, fd)
  PROVE  Good
  <1>1. fd_table[p][fd] \in File /\ fd_table[p][fd] \in Names(fd_table[p])
    BY SlotOfFd DEF sys_dup
  <1>2. cloexec \in [Object -> BOOLEAN]
    BY DEF TypeOK
  <1>3. 1 \in Fd
    BY BoundAssumption DEF Fd
  <1> QED BY <1>1, <1>2, <1>3, PlaceGood DEF sys_dup, SetTable

LEMMA FcntlDupGood ==
  ASSUME TypeOK, NEW p \in Proc, NEW fd \in Fd, NEW min \in Fd, NEW mark \in BOOLEAN,
         FcntlDup(p, fd, min, mark)
  PROVE  Good
  <1> DEFINE f == fd_table[p][fd]
             flags == IF mark THEN Marked(f, TRUE) ELSE cloexec
  <1>1. f \in File /\ f \in Names(fd_table[p])
    BY SlotOfFd DEF FcntlDup
  <1>2. flags \in [Object -> BOOLEAN]
    BY MarkedType DEF TypeOK
  <1>3. SetTables([fd_table EXCEPT ![p] = Place(fd_table[p], min, f)], object, flags)
        /\ Runs(p) /\ UNCHANGED <<live, panic>>
    BY DEF FcntlDup, TypeOK
  <1> HIDE DEF f, flags
  <1> QED BY <1>1, <1>2, <1>3, PlaceGood

LEMMA CloseGood ==
  ASSUME TypeOK, NEW p \in Proc, NEW fd \in Fd, sys_close(p, fd)
  PROVE  Good
  <1> DEFINE t == [fd_table[p] EXCEPT ![fd] = None]
  <1>1. fd_table[p] \in Seq(Slot) /\ fd \in DOMAIN fd_table[p]
    BY TableOfProc DEF sys_close, Open
  <1>2. t \in Seq(Slot)
    BY <1>1 DEF Slot
  <1>3. \A f \in Object : f \in Names(t) => f \in Names(fd_table[p])
    BY <1>1, NamesAssumption DEF Names
  <1>4. cloexec \in [Object -> BOOLEAN] /\ Runs(p) /\ UNCHANGED <<live, panic>>
        /\ SetTables([fd_table EXCEPT ![p] = t], object, cloexec)
    BY DEF TypeOK, sys_close, SetTable
  <1> HIDE DEF t
  <1> QED BY <1>2, <1>3, <1>4, KeepsGood

LEMMA Dup3Good ==
  ASSUME TypeOK, NEW p \in Proc, NEW old \in Fd, NEW new \in Fd, sys_dup3(p, old, new)
  PROVE  Good
  <1> DEFINE t == Extended(fd_table[p], new)
             u == IF t[old] = None THEN t ELSE [t EXCEPT ![new] = t[old]]
  <1>1. fd_table[p] \in Seq(Slot) /\ old \in DOMAIN fd_table[p] /\ new \in Nat \ {0}
    BY TableOfProc, BoundAssumption DEF sys_dup3, Fd
  <1>2. /\ t \in Seq(Slot)
        /\ Len(t) = IF new > Len(fd_table[p]) THEN new ELSE Len(fd_table[p])
        /\ \A i \in DOMAIN t : t[i] = IF i \in DOMAIN fd_table[p] THEN fd_table[p][i] ELSE None
    BY <1>1, ExtendedTable
  <1>3. SetTables([fd_table EXCEPT ![p] = u], object, cloexec)
        /\ cloexec \in [Object -> BOOLEAN] /\ Runs(p) /\ UNCHANGED <<live, panic>>
    BY DEF sys_dup3, SetTable, TypeOK
  <1> HIDE DEF t
  <1>4. new \in DOMAIN t /\ old \in DOMAIN t /\ t[old] = fd_table[p][old] /\ t[old] \in Slot
    BY <1>1, <1>2
  <1>5. u \in Seq(Slot)
    BY <1>2, <1>4
  <1>6. \A i \in DOMAIN u : u[i] = None \/ \E j \in DOMAIN fd_table[p] : u[i] = fd_table[p][j]
    <2>1. \A i \in DOMAIN t : t[i] = None \/ \E j \in DOMAIN fd_table[p] : t[i] = fd_table[p][j]
      BY <1>2
    <2>2. DOMAIN u = DOMAIN t
      OBVIOUS
    <2>3. \A i \in DOMAIN t : u[i] = t[i] \/ u[i] = t[old]
      BY <1>4
    <2> HIDE DEF u
    <2> QED BY <2>1, <2>2, <2>3, <1>4
  <1> HIDE DEF u
  <1>7. \A f \in Object : f \in Names(u) => f \in Names(fd_table[p])
    BY <1>6, NamesAssumption DEF Names
  <1> QED BY <1>3, <1>5, <1>7, KeepsGood

LEMMA ExecGood ==
  ASSUME TypeOK, NEW p \in Proc, exec(p)
  PROVE  Good
  <1> DEFINE t == KeptOnExec(fd_table[p])
  <1>1. fd_table[p] \in Seq(Slot)
    BY TableOfProc
  <1>2. /\ DOMAIN t = DOMAIN fd_table[p]
        /\ \A fd \in DOMAIN t : t[fd] \in {None, fd_table[p][fd]}
    BY DEF KeptOnExec
  <1>3. t \in Seq(Slot)
    <2>1. \A fd \in DOMAIN fd_table[p] : t[fd] \in Slot
      BY <1>1, <1>2 DEF Slot
    <2>2. DOMAIN fd_table[p] = 1 .. Len(fd_table[p]) /\ Len(fd_table[p]) \in Nat
      BY <1>1
    <2>3. t = [fd \in DOMAIN fd_table[p] |-> t[fd]]
      BY DEF KeptOnExec
    <2> QED BY <2>1, <2>2, <2>3
  <1>4. cloexec \in [Object -> BOOLEAN] /\ Runs(p) /\ UNCHANGED <<live, panic>>
        /\ SetTables([fd_table EXCEPT ![p] = t], object, cloexec)
    BY DEF TypeOK, exec, SetTable
  <1> HIDE DEF t
  <1>5. \A f \in Object : f \in Names(t) => f \in Names(fd_table[p])
    BY <1>2, NamesAssumption DEF Names
  <1> QED BY <1>3, <1>4, <1>5, KeepsGood

LEMMA ForkGood ==
  ASSUME TypeOK, NEW p \in Proc, NEW q \in Proc, fork(p, q)
  PROVE  Good
  <1>1. /\ p \in live /\ q \notin live /\ live' = live \cup {q} /\ panic' = panic
        /\ SetTables([fd_table EXCEPT ![q] = fd_table[p]], object, cloexec)
    BY DEF fork, Runs, SetTable, Forked
  <1>2. fd_table[p] \in Seq(Slot) /\ object \in [Object -> Kind]
        /\ cloexec \in [Object -> BOOLEAN]
    BY TableOfProc DEF TypeOK, Kind
  <1>3. /\ fd_table' \in [Proc -> Tables]
        /\ object' \in [Object -> Kind] /\ cloexec' \in [Object -> BOOLEAN]
        /\ fd_table'[q] = fd_table[p]
        /\ \A x \in Proc : x # q => fd_table'[x] = fd_table[x]
    BY <1>1, <1>2, SetTablesTypes
  <1>4. TypeOK'
    BY <1>1, <1>3 DEF TypeOK, Kind
  <1>5. \A f \in Object : holders'[f] = IF f \in Names(fd_table[p]) THEN holders[f] \cup {q}
                                        ELSE holders[f] \ {q}
    BY <1>3, HoldersAfter
  <1>6. \A f \in Object : q \notin holders[f]
    <2>1. fd_table[q] = <<>>
      BY <1>1 DEF TypeOK
    <2>2. Names(fd_table[q]) = {}
      BY <2>1 DEF Names
    <2> QED BY <2>2, HolderFacts
  <1>7. \A f \in Object : p \in holders[f] <=> f \in Names(fd_table[p])
    BY HolderFacts
  <1>8. holders' = [f \in Object |-> holders'[f]]
    BY DEF holders
  <1> HIDE DEF holders
  <1>9. \A f \in Object : holders'[f] = IF p \in holders[f] THEN holders[f] \cup {q}
                                        ELSE holders[f]
    <2> SUFFICES ASSUME NEW f \in Object
                 PROVE  holders'[f] = IF p \in holders[f] THEN holders[f] \cup {q}
                                      ELSE holders[f]
      OBVIOUS
    <2>1. holders[f] \ {q} = holders[f]
      BY <1>6
    <2> QED BY <2>1, <1>5, <1>7
  <1>10. Held!Inherit(p, q)
    BY <1>1, <1>8, <1>9 DEF Held!Inherit
  <1>11. Lowest
    BY <1>3, NothingNew DEF Lowest
  <1> QED BY <1>4, <1>10, <1>11 DEF Good, Held!Next

LEMMA ExitGood ==
  ASSUME TypeOK, NEW p \in Proc, exit(p)
  PROVE  Good
  <1>1. /\ p \in live /\ live' = live \ {p} /\ panic' = panic
        /\ SetTables([fd_table EXCEPT ![p] = <<>>], object, cloexec)
    BY DEF exit, Runs, SetTable
  <1>2. object \in [Object -> Kind] /\ cloexec \in [Object -> BOOLEAN]
    BY DEF TypeOK, Kind
  <1>3. <<>> \in Seq(Slot)
    OBVIOUS
  <1>4. /\ fd_table' \in [Proc -> Tables]
        /\ object' \in [Object -> Kind] /\ cloexec' \in [Object -> BOOLEAN]
        /\ fd_table'[p] = <<>>
        /\ \A x \in Proc : x # p => fd_table'[x] = fd_table[x]
    BY <1>1, <1>2, <1>3, SetTablesTypes
  <1>5. TypeOK'
    BY <1>1, <1>4 DEF TypeOK, Kind
  <1>6. \A f \in Object : holders'[f] = IF f \in Names(<<>>) THEN holders[f] \cup {p}
                                        ELSE holders[f] \ {p}
    BY <1>4, HoldersAfter
  <1>7. Names(<<>>) = {}
    BY DEF Names
  <1>8. holders' = [f \in Object |-> holders'[f]]
    BY DEF holders
  <1>9. holders' = [f \in Object |-> holders[f] \ {p}]
    <2> HIDE DEF holders
    <2> QED BY <1>6, <1>7, <1>8
  <1>10. Held!End(p)
    BY <1>1, <1>9 DEF Held!End
  <1>11. Lowest
    BY <1>4, <1>7, NothingNew DEF Lowest
  <1> QED BY <1>5, <1>10, <1>11 DEF Good, Held!Next

\* Reading, writing and marking change no table.
LEMMA OtherGood ==
  ASSUME TypeOK, NEW p \in Proc, NEW fd \in Fd,
         \/ \E bit \in BOOLEAN : FcntlSetFd(p, fd, bit)
         \/ \E n \in 0 .. 2 : sys_read(p, fd, n)
         \/ \E text \in BOOLEAN : sys_write(p, fd, text) \/ sys_writev(p, fd, text)
  PROVE  Good
  <1>1. UNCHANGED <<fd_table, object, live>>
    BY DEF FcntlSetFd, sys_read, sys_write, sys_writev
  <1>2. cloexec' \in [Object -> BOOLEAN]
    BY MarkedType DEF FcntlSetFd, sys_read, sys_write, sys_writev, TypeOK
  <1>3. panic' \in {"no", "not writable", "stdin length", "not utf8"}
    BY DEF FcntlSetFd, sys_read, sys_write, sys_writev, ReadFile, WriteFile, TypeOK
  <1>4. TypeOK'
    BY <1>1, <1>2, <1>3 DEF TypeOK
  <1>5. UNCHANGED <<live, holders>>
    BY <1>1 DEF holders
  <1>6. Lowest
    BY <1>1, NothingNew DEF Lowest
  <1> QED BY <1>4, <1>5, <1>6 DEF Good

LEMMA StepGood ==
  ASSUME TypeOK, [Next]_vars
  PROVE  Good
  <1>1. CASE UNCHANGED vars
    <2>1. UNCHANGED <<fd_table, object, cloexec, live, panic>>
      BY <1>1 DEF vars
    <2>2. Lowest
      BY <2>1, NothingNew DEF Lowest
    <2> QED BY <2>1, <2>2 DEF Good, TypeOK, holders
  <1>2. ASSUME NEW p \in Proc, Opens(p)
        PROVE  Good
    BY <1>2, OpenatGood, TtyGood, InodeKinds DEF Opens, sys_mkdirat
  <1>3. ASSUME NEW p \in Proc,
               \/ \E r, w \in Object : sys_pipe2(p, r, w)
               \/ \E fd \in Fd : sys_close(p, fd) \/ sys_dup(p, fd)
               \/ \E fd \in Fd, text \in BOOLEAN :
                    sys_write(p, fd, text) \/ sys_writev(p, fd, text)
               \/ \E old, new \in Fd : sys_dup3(p, old, new)
               \/ \E fd, min \in Fd, mark \in BOOLEAN : FcntlDup(p, fd, min, mark)
        PROVE  Good
    BY <1>3, Pipe2Good, CloseGood, DupGood, OtherGood, Dup3Good, FcntlDupGood
  <1>4. ASSUME NEW p \in Proc,
               \/ \E fd \in Fd, bit \in BOOLEAN : FcntlSetFd(p, fd, bit)
               \/ \E fd \in Fd, n \in 0 .. 2 : sys_read(p, fd, n)
               \/ \E q \in Proc : fork(p, q)
               \/ exec(p)
               \/ exit(p)
        PROVE  Good
    BY <1>4, OtherGood, ForkGood, ExecGood, ExitGood
  <1> QED BY <1>1, <1>2, <1>3, <1>4 DEF Next

LEMMA InitTypes ==
  ASSUME Init
  PROVE  TypeOK
  <1> USE ProcAssumption, BoundAssumption
  <1>1. <<>> \in Tables /\ <<Stdin, Stdout, Stdout>> \in Tables
    <2>1. <<>> \in Seq(Slot) /\ Len(<<>>) <= MaxFds
      OBVIOUS
    <2>2. <<Stdin, Stdout, Stdout>> \in Seq(Slot) /\ Len(<<Stdin, Stdout, Stdout>>) <= MaxFds
      BY DEF Slot, File
    <2> QED BY <2>1, <2>2, TableIsSeq
  <1> QED BY <1>1 DEF Init, TypeOK

-----------------------------------------------------------------------------
(* Theorems.                                                               *)

(* The slots of a table hold files or nothing, a process that has ended    *)
(* has an empty table, and every file has one of the known kinds.          *)
THEOREM Typing == Spec => []TypeOK
  <1>1. Init => TypeOK
    BY InitTypes
  <1>2. TypeOK /\ [Next]_vars => TypeOK'
    BY StepGood DEF Good
  <1> QED BY <1>1, <1>2, PTL DEF Spec

(* In tables of any length, with any holes that close, dup3 beyond the end *)
(* and fcntl with a minimum have left: openat, mkdirat and pipe2 put what  *)
(* they open at the lowest descriptors that are not open and take no       *)
(* descriptor away, and no other call brings a file nobody held.           *)
THEOREM LowestDescriptor == Spec => OpensAtLowest
  <1>1. TypeOK /\ [Next]_vars => [Lowest]_vars
    BY StepGood DEF Good
  <1>2. Spec => [][Lowest]_vars
    BY <1>1, Typing, PTL DEF Spec
  <1> QED BY <1>2 DEF OpensAtLowest, Lowest, LowestOf

(* The tables implement Holders: no mixture of calls makes a process hold  *)
(* a file it neither opened nor inherited, and the end of a process gives  *)
(* up all of its files.                                                    *)
THEOREM Lifetimes == Spec => ImplementsHolders
  <1>1. ASSUME Init
        PROVE  Held!Init
    <2>1. live \subseteq Proc
      BY <1>1, InitTypes DEF TypeOK
    <2>2. \A p \in Proc : \A f \in Object : f \notin Names(fd_table[p])
      BY <1>1, NamesAssumption DEF Init, Names
    <2> QED BY <2>1, <2>2 DEF Held!Init, holders
  <1>2. TypeOK /\ [Next]_vars => [Held!Next]_<<live, holders>>
    BY StepGood DEF Good
  <1> QED BY <1>1, <1>2, Typing, PTL DEF Spec, ImplementsHolders, Held!Spec
=============================================================================
