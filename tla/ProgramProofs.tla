---------------------------- MODULE ProgramProofs ----------------------------
(***************************************************************************)
(* Theorems about Task and about Program, which has Task's processes: for  *)
(* every set of programs, arguments, signals and exit codes, any number of *)
(* processes and, as far as Task goes, either build.                       *)
(***************************************************************************)
EXTENDS Program, TLAPS

-----------------------------------------------------------------------------
(* Sequences without repetition: what the operations of the kernel's       *)
(* vectors and queues do to the set of their elements.                     *)

\* A concatenation (check_timer's wake-ups, Reparent) has the elements of
\* both, and none twice when they have none in common.
LEMMA ConcatElements ==
  ASSUME NEW S, NEW s \in Seq(S), NEW t \in Seq(S)
  PROVE  /\ s \o t \in Seq(S)
         /\ Range(s \o t) = Range(s) \cup Range(t)
         /\ IsInjective(s) /\ IsInjective(t) /\ Range(s) \cap Range(t) = {}
              => IsInjective(s \o t)
  <1> DEFINE u == s \o t
  <1>1. /\ u \in Seq(S) /\ Len(u) = Len(s) + Len(t)
        /\ Len(s) \in Nat /\ Len(t) \in Nat
    OBVIOUS
  <1>2. \A i \in 1 .. Len(u) : u[i] = IF i <= Len(s) THEN s[i] ELSE t[i - Len(s)]
    OBVIOUS
  <1>3. DOMAIN u = 1 .. Len(u) /\ DOMAIN s = 1 .. Len(s) /\ DOMAIN t = 1 .. Len(t)
    OBVIOUS
  <1> HIDE DEF u
  <1>4. Range(u) \subseteq Range(s) \cup Range(t)
    <2> SUFFICES ASSUME NEW i \in 1 .. Len(u) PROVE u[i] \in Range(s) \cup Range(t)
      BY <1>3 DEF Range
    <2>1. CASE i <= Len(s)
      BY <2>1, <1>1, <1>2, <1>3, SMTT(40) DEF Range
    <2>2. CASE i > Len(s)
      <3>1. i - Len(s) \in DOMAIN t /\ u[i] = t[i - Len(s)]
        BY <2>2, <1>1, <1>2, <1>3
      <3> QED BY <3>1 DEF Range
    <2> QED BY <2>1, <2>2, <1>1
  <1>5. Range(s) \subseteq Range(u)
    BY <1>1, <1>2, <1>3 DEF Range
  <1>6. Range(t) \subseteq Range(u)
    <2> SUFFICES ASSUME NEW j \in 1 .. Len(t) PROVE t[j] \in Range(u)
      BY <1>3 DEF Range
    <2>1. Len(s) + j \in 1 .. Len(u) /\ u[Len(s) + j] = t[j]
      <3> DEFINE k == Len(s) + j
      <3>1. k \in 1 .. Len(u) /\ ~(k <= Len(s)) /\ k - Len(s) = j
        BY <1>1
      <3> HIDE DEF k
      <3>2. u[k] = t[k - Len(s)]
        BY <3>1, <1>2
      <3> QED BY <3>1, <3>2 DEF k
    <2> QED BY <2>1, <1>3 DEF Range
  <1>7. ASSUME IsInjective(s), IsInjective(t), Range(s) \cap Range(t) = {}
        PROVE  IsInjective(u)
    <2> SUFFICES ASSUME NEW i \in 1 .. Len(u), NEW j \in 1 .. Len(u), u[i] = u[j]
                 PROVE  i = j
      BY <1>3 DEF IsInjective
    <2>1. CASE i <= Len(s) /\ j <= Len(s)
      BY <2>1, <1>1, <1>2, <1>3, <1>7 DEF IsInjective
    <2>2. CASE i > Len(s) /\ j > Len(s)
      <3>1. i - Len(s) \in DOMAIN t /\ j - Len(s) \in DOMAIN t
        BY <2>2, <1>1, <1>3
      <3>2. t[i - Len(s)] = t[j - Len(s)]
        BY <2>2, <1>1, <1>2
      <3>3. i - Len(s) = j - Len(s)
        BY <3>1, <3>2, <1>7 DEF IsInjective
      <3> QED BY <3>3, <1>1
    <2>3. CASE i <= Len(s) /\ j > Len(s)
      <3>1. i \in DOMAIN s /\ u[i] = s[i]
        BY <2>3, <1>1, <1>2, <1>3
      <3>2. j - Len(s) \in DOMAIN t /\ u[j] = t[j - Len(s)]
        BY <2>3, <1>1, <1>2, <1>3
      <3> QED BY <3>1, <3>2, <1>7 DEF Range
    <2>4. CASE i > Len(s) /\ j <= Len(s)
      <3>1. j \in DOMAIN s /\ u[j] = s[j]
        BY <2>4, <1>1, <1>2, <1>3
      <3>2. i - Len(s) \in DOMAIN t /\ u[i] = t[i - Len(s)]
        BY <2>4, <1>1, <1>2, <1>3
      <3> QED BY <3>1, <3>2, <1>7 DEF Range
    <2> QED BY <2>1, <2>2, <2>3, <2>4, <1>1
  <1> QED BY <1>1, <1>4, <1>5, <1>6, <1>7 DEF u

\* A push at the end (fork, suspend, dealloc) adds one element.
LEMMA AppendElements ==
  ASSUME NEW S, NEW s \in Seq(S), NEW e \in S
  PROVE  /\ Append(s, e) \in Seq(S)
         /\ Range(Append(s, e)) = Range(s) \cup {e}
         /\ IsInjective(s) /\ e \notin Range(s) => IsInjective(Append(s, e))
  <1>1. Append(s, e) = s \o <<e>> /\ <<e>> \in Seq(S)
    OBVIOUS
  <1>2. Range(<<e>>) = {e} /\ IsInjective(<<e>>)
    BY DEF Range, IsInjective
  <1>3. /\ s \o <<e>> \in Seq(S)
        /\ Range(s \o <<e>>) = Range(s) \cup Range(<<e>>)
        /\ IsInjective(s) /\ IsInjective(<<e>>) /\ Range(s) \cap Range(<<e>>) = {}
             => IsInjective(s \o <<e>>)
    BY <1>1, ConcatElements
  <1>4. e \notin Range(s) => Range(s) \cap Range(<<e>>) = {}
    BY <1>2
  <1> QED BY <1>1, <1>2, <1>3, <1>4

\* A pop at the front (fetch_task) takes the head away and nothing else.
LEMMA TailElements ==
  ASSUME NEW S, NEW s \in Seq(S), s # <<>>, IsInjective(s)
  PROVE  /\ Head(s) \in Range(s) /\ Tail(s) \in Seq(S)
         /\ Range(Tail(s)) = Range(s) \ {Head(s)}
         /\ IsInjective(Tail(s))
  <1> DEFINE u == Tail(s)
  <1>1. u \in Seq(S) /\ Len(u) = Len(s) - 1 /\ Len(s) \in Nat \ {0}
    OBVIOUS
  <1>2. \A i \in 1 .. Len(u) : u[i] = s[i + 1]
    OBVIOUS
  <1>3. DOMAIN u = 1 .. Len(u) /\ DOMAIN s = 1 .. Len(s) /\ Head(s) = s[1]
    OBVIOUS
  <1> HIDE DEF u
  <1>4. Head(s) \in Range(s)
    BY <1>1, <1>3 DEF Range
  <1>5. \A i \in 1 .. Len(u) : i + 1 \in DOMAIN s /\ i + 1 # 1
    BY <1>1, <1>3
  <1>6. Range(u) \subseteq Range(s) \ {Head(s)}
    <2> SUFFICES ASSUME NEW i \in 1 .. Len(u) PROVE u[i] \in Range(s) \ {Head(s)}
      BY <1>3 DEF Range
    <2>1. u[i] = s[i + 1] /\ i + 1 \in DOMAIN s /\ i + 1 # 1 /\ 1 \in DOMAIN s
      BY <1>1, <1>2, <1>3, <1>5
    <2>2. s[i + 1] # s[1]
      BY <2>1 DEF IsInjective
    <2> QED BY <2>1, <2>2, <1>3 DEF Range
  <1>7. ASSUME NEW k \in 1 .. Len(s), s[k] # Head(s) PROVE s[k] \in Range(u)
    <2>1. k - 1 \in 1 .. Len(u) /\ u[k - 1] = s[k]
      BY <1>7, <1>1, <1>2, <1>3
    <2> QED BY <2>1, <1>3 DEF Range
  <1>8. Range(s) \ {Head(s)} \subseteq Range(u)
    BY <1>7, <1>3 DEF Range
  <1>9. IsInjective(u)
    <2> SUFFICES ASSUME NEW i \in 1 .. Len(u), NEW j \in 1 .. Len(u), u[i] = u[j]
                 PROVE  i = j
      BY <1>3 DEF IsInjective
    <2>1. i + 1 = j + 1
      BY <1>2, <1>5 DEF IsInjective
    <2> QED BY <2>1
  <1> QED BY <1>1, <1>4, <1>6, <1>8, <1>9 DEF u

\* Vec::remove (wait4) takes the element at index i away and nothing else.
LEMMA WithoutElements ==
  ASSUME NEW S, NEW s \in Seq(S), NEW i \in DOMAIN s, IsInjective(s)
  PROVE  /\ Without(s, i) \in Seq(S)
         /\ Range(Without(s, i)) = Range(s) \ {s[i]}
         /\ IsInjective(Without(s, i))
  <1> DEFINE a == SubSeq(s, 1, i - 1)
             b == SubSeq(s, i + 1, Len(s))
  <1>1. i \in 1 .. Len(s) /\ DOMAIN s = 1 .. Len(s) /\ Len(s) \in Nat
    OBVIOUS
  <1>2. a \in Seq(S) /\ DOMAIN a = 1 .. i - 1
        /\ \A k \in 1 .. i - 1 : a[k] = s[k] /\ k \in DOMAIN s /\ k < i
    BY <1>1
  <1>3. b \in Seq(S) /\ DOMAIN b = 1 .. Len(s) - i
        /\ \A k \in 1 .. Len(s) - i : b[k] = s[i + k] /\ i + k \in DOMAIN s /\ i + k > i
    BY <1>1
  <1> HIDE DEF a, b
  <1>4. IsInjective(a)
    BY <1>1, <1>2 DEF IsInjective
  <1>5. IsInjective(b)
    <2> SUFFICES ASSUME NEW k \in 1 .. Len(s) - i, NEW l \in 1 .. Len(s) - i, b[k] = b[l]
                 PROVE  k = l
      BY <1>3 DEF IsInjective
    <2>1. i + k = i + l
      BY <1>3 DEF IsInjective
    <2> QED BY <2>1, <1>1
  <1>6. Range(a) \subseteq Range(s) \ {s[i]} /\ Range(b) \subseteq Range(s) \ {s[i]}
    <2>1. \A k \in DOMAIN a : a[k] \in Range(s) \ {s[i]}
      BY <1>1, <1>2 DEF IsInjective, Range
    <2>2. \A k \in DOMAIN b : b[k] \in Range(s) \ {s[i]}
      BY <1>1, <1>3 DEF IsInjective, Range
    <2> QED BY <2>1, <2>2 DEF Range
  <1>7. Range(a) \cap Range(b) = {}
    <2> SUFFICES ASSUME NEW k \in DOMAIN a, NEW l \in DOMAIN b, a[k] = b[l] PROVE FALSE
      BY DEF Range
    <2>1. k = i + l
      BY <1>2, <1>3 DEF IsInjective
    <2> QED BY <2>1, <1>1, <1>2, <1>3
  <1>8. ASSUME NEW k \in DOMAIN s, s[k] # s[i] PROVE s[k] \in Range(a) \cup Range(b)
    <2>1. CASE k < i
      BY <2>1, <1>1, <1>2 DEF Range
    <2>2. CASE k > i
      <3>1. k - i \in DOMAIN b /\ b[k - i] = s[k]
        BY <2>2, <1>1, <1>3
      <3> QED BY <3>1 DEF Range
    <2> QED BY <2>1, <2>2, <1>8, <1>1
  <1>9. Range(s) \ {s[i]} = Range(a) \cup Range(b)
    BY <1>6, <1>8 DEF Range
  <1>10. Without(s, i) = a \o b
    BY DEF Without, a, b
  <1> QED BY <1>2, <1>3, <1>4, <1>5, <1>7, <1>9, <1>10, ConcatElements

\* Vec::pop (alloc) takes the last element away and nothing else.
LEMMA PopElements ==
  ASSUME NEW S, NEW s \in Seq(S), s # <<>>, IsInjective(s)
  PROVE  LET u == SubSeq(s, 1, Len(s) - 1) IN
         /\ u \in Seq(S) /\ s[Len(s)] \in Range(s)
         /\ Range(u) = Range(s) \ {s[Len(s)]} /\ IsInjective(u)
  <1>1. Len(s) \in DOMAIN s /\ Len(s) \in Nat
    OBVIOUS
  <1>2. Without(s, Len(s)) = SubSeq(s, 1, Len(s) - 1) \o SubSeq(s, Len(s) + 1, Len(s))
    BY DEF Without
  <1>3. SubSeq(s, Len(s) + 1, Len(s)) = <<>>
    BY <1>1
  <1>4. SubSeq(s, 1, Len(s) - 1) \in Seq(S)
    BY <1>1
  <1>5. Without(s, Len(s)) = SubSeq(s, 1, Len(s) - 1)
    BY <1>2, <1>3, <1>4
  <1> QED BY <1>1, <1>4, <1>5, WithoutElements, ZenonT(40) DEF Range

-----------------------------------------------------------------------------
(* Timers.                                                                 *)

\* check_timer() moves the due threads from the heap to the queue: every
\* thread still has exactly one place.
LEMMA CheckTimerPlaced ==
  ASSUME TypeOK, ThreadsPlaced, panic = "none", NEW rq \in CheckTimer
  PROVE  /\ rq \in Seq(Pid)
         /\ PlacedAt(rq, timers \ Popped, current, Runnable)
         /\ Popped \subseteq timers
  <1>1. Popped \subseteq timers /\ timers \subseteq Timer
    BY DEF Popped, TypeOK
  <1>2. Woken = Popped
    <2>1. Asleep \subseteq live
      BY DEF ThreadsPlaced, PlacedAt, Runnable, Threads, Asleep
    <2> QED BY <2>1, <1>1 DEF Woken, Asleep
  <1>3. PICK w \in WakeOrders : rq = ready_queue \o [i \in DOMAIN w |-> w[i].thread]
    BY DEF CheckTimer
  <1> DEFINE a == [i \in DOMAIN w |-> w[i].thread]
             due == {t.thread : t \in Popped}
  <1>4. PICK n \in 0 .. MaxPid : w \in [1 .. n -> Popped]
    BY <1>2 DEF WakeOrders
  <1>5. IsInjective(w) /\ Range(w) = Popped
    BY <1>2 DEF WakeOrders
  <1>6. \A i \in 1 .. n : w[i] \in Popped /\ w[i].thread \in Pid
    BY <1>1, <1>4 DEF Timer
  <1>7. a \in [1 .. n -> Pid] /\ n \in Nat
    BY <1>4, <1>6, BoundsAssumption
  <1>8. a \in Seq(Pid)
    BY <1>7
  <1>9. Range(a) = due
    BY <1>4, <1>5 DEF Range
  <1>10. IsInjective(a)
    <2>1. \A s, t \in timers : s.thread = t.thread => s = t
      BY DEF ThreadsPlaced, PlacedAt
    <2> QED BY <2>1, <1>1, <1>4, <1>5, <1>6 DEF IsInjective
  <1>11. due \subseteq Asleep /\ Range(ready_queue) \cap Asleep = {}
         /\ IsInjective(ready_queue) /\ ready_queue \in Seq(Pid)
    BY <1>1 DEF ThreadsPlaced, PlacedAt, Asleep, TypeOK
  <1> HIDE DEF a
  <1>12. /\ rq \in Seq(Pid) /\ IsInjective(rq)
         /\ Range(rq) = Range(ready_queue) \cup due
    <2>1. rq = ready_queue \o a
      BY <1>3 DEF a
    <2>2. Range(ready_queue) \cap Range(a) = {}
      BY <1>9, <1>11
    <2> QED BY <2>1, <2>2, <1>8, <1>9, <1>10, <1>11, ConcatElements
  <1>13. {t.thread : t \in timers \ Popped} = Asleep \ due
    BY <1>1 DEF ThreadsPlaced, PlacedAt, Asleep
  <1>14. PlacedAt(rq, timers \ Popped, current, Runnable)
    <2>1. PlacedAt(ready_queue, timers, current, Runnable)
      BY DEF ThreadsPlaced
    <2> HIDE DEF due
    <2>2. due \subseteq Asleep
      BY <1>11
    <2> QED BY <2>1, <2>2, <1>1, <1>12, <1>13 DEF PlacedAt, Asleep
  <1> QED BY <1>1, <1>12, <1>14

-----------------------------------------------------------------------------
(* The process table: fork, exit and wait4 keep the tree and the pids.     *)

\* The part of the invariant about PCBs and pids.
TableInv == ParentsOwn /\ Acyclic /\ PidsAccounted /\ INITPROC \in Threads

\* RecycleAllocator never hands out an id that is in use.
LEMMA AllocFresh ==
  ASSUME TypeOK, PidsAccounted, INITPROC \in live
  PROVE  LET id == NextId(pid_allocator)
             a == Alloc(pid_allocator) IN
         /\ id \notin live
         /\ a \in [current : Nat, recycled : Seq(Nat)]
         /\ (live \cup {id}) \cap Range(a.recycled) = {}
         /\ (live \cup {id}) \cup Range(a.recycled) = 1 .. a.current - 1
         /\ IsInjective(a.recycled)
  <1> DEFINE r == pid_allocator.recycled
             n == pid_allocator.current
  <1>1. /\ pid_allocator = [current |-> n, recycled |-> r]
        /\ n \in Nat /\ r \in Seq(Nat)
    BY DEF TypeOK
  <1>2. /\ live \cap Range(r) = {} /\ IsInjective(r)
        /\ live \cup Range(r) = 1 .. n - 1
    BY DEF PidsAccounted
  <1>3. n \in Nat \ {0}
    BY <1>1, <1>2 DEF INITPROC
  <1> HIDE DEF r, n
  <1>4. CASE r = <<>>
    <2>1. NextId(pid_allocator) = n /\ Alloc(pid_allocator) = [current |-> n + 1, recycled |-> r]
      BY <1>1, <1>4 DEF NextId, Alloc
    <2>2. Range(r) = {}
      BY <1>4 DEF Range
    <2>3. 1 .. n = (1 .. n - 1) \cup {n} /\ n \notin 1 .. n - 1
      BY <1>3
    <2> QED BY <2>1, <2>2, <2>3, <1>1, <1>2
  <1>5. CASE r # <<>>
    <2> DEFINE k == r[Len(r)]
               u == SubSeq(r, 1, Len(r) - 1)
    <2>1. NextId(pid_allocator) = k /\ Alloc(pid_allocator) = [current |-> n, recycled |-> u]
      BY <1>1, <1>5 DEF NextId, Alloc
    <2>2. u \in Seq(Nat) /\ k \in Range(r) /\ Range(u) = Range(r) \ {k} /\ IsInjective(u)
      BY <1>1, <1>2, <1>5, PopElements
    <2> HIDE DEF k, u
    <2> QED BY <2>1, <2>2, <1>1, <1>2
  <1> QED BY <1>4, <1>5

\* ParentsOwn, said of one process: it is in the list of its parent, a living
\* thread; and of one list: its members have the owner for a parent.
LEMMA OwnedOnce ==
  ASSUME TypeOK, ParentsOwn
  PROVE  /\ \A p \in live \ {INITPROC} : parent[p] \in Threads /\ parent[p] \in Pid
         /\ \A q \in Pid : \A p \in Range(children[q]) :
              p \in live /\ p # INITPROC /\ p \in Pid /\ parent[p] = q
         /\ \A p \in live \ {INITPROC} : p \in Range(children[parent[p]])
  BY DEF ParentsOwn, Threads, TypeOK

\* fork (sys_clone, SpawnApp) adds one live process, a child of p with a
\* fresh pid, and keeps the invariants of the process table.
LEMMA ForkTable ==
  ASSUME TypeOK, TableInv, NEW p \in Threads, NEW id \in Pid,
         id = NextId(pid_allocator), Forked(p, id)
  PROVE  /\ pid_allocator' \in [current : Nat, recycled : Seq(Nat)]
         /\ live' \subseteq Pid /\ parent' \in [Pid -> Pid \cup {None}]
         /\ children' \in [Pid -> Seq(Pid)] /\ zombie' \in [Pid -> BOOLEAN]
         /\ waiting' \in [Pid -> Pid \cup {AnyChild, NoWait}]
         /\ id \notin live /\ Threads' = Threads \cup {id}
         /\ TableInv'
  <1>1. /\ id \notin live /\ p \in live /\ p \in Pid /\ ~zombie[p] /\ p # id
        /\ INITPROC \in live
    BY AllocFresh DEF TableInv, Threads, TypeOK
  <1>2. /\ pid_allocator' \in [current : Nat, recycled : Seq(Nat)]
        /\ PidsAccounted'
    BY <1>1, AllocFresh DEF PidsAccounted, Forked, TableInv
  <1>3. /\ live' = live \cup {id}
        /\ parent' = [parent EXCEPT ![id] = p]
        /\ zombie' = [zombie EXCEPT ![id] = FALSE]
        /\ children' = [children EXCEPT ![id] = <<>>, ![p] = Append(children[p], id)]
        /\ waiting' = [waiting EXCEPT ![id] = NoWait]
    BY <1>1 DEF Forked, TypeOK
  <1>4. /\ Append(children[p], id) \in Seq(Pid)
        /\ Range(Append(children[p], id)) = Range(children[p]) \cup {id}
        /\ IsInjective(Append(children[p], id))
    <2>1. children[p] \in Seq(Pid) /\ IsInjective(children[p]) /\ id \notin Range(children[p])
      BY <1>1 DEF TypeOK, TableInv, ParentsOwn
    <2> QED BY <2>1, AppendElements
  <1>5. Range(<<>>) = {} /\ IsInjective(<<>>) /\ <<>> \in Seq(Pid)
    BY DEF Range, IsInjective
  <1>6. /\ live' \subseteq Pid /\ parent' \in [Pid -> Pid \cup {None}]
        /\ children' \in [Pid -> Seq(Pid)] /\ zombie' \in [Pid -> BOOLEAN]
        /\ waiting' \in [Pid -> Pid \cup {AnyChild, NoWait}]
    BY <1>1, <1>3, <1>4, <1>5 DEF TypeOK
  <1>7. Threads' = Threads \cup {id}
    BY <1>1, <1>3 DEF Threads, TypeOK
  <1>8. \A q \in Pid : children'[q] = IF q = id THEN <<>>
                        ELSE IF q = p THEN Append(children[p], id) ELSE children[q]
    BY <1>1, <1>3 DEF TypeOK
  <1>9. /\ parent'[id] = p
        /\ \A x \in live : parent'[x] = parent[x]
    BY <1>1, <1>3 DEF TypeOK
  <1>10. ParentsOwn'
    <2>1. ASSUME NEW x \in live' \ {INITPROC}
          PROVE  parent'[x] \in Threads'
      BY <1>1, <1>3, <1>7, <1>9, OwnedOnce DEF TableInv
    <2>2. ASSUME NEW x \in live' \ {INITPROC}, NEW q \in Pid
          PROVE  x \in Range(children'[q]) <=> q = parent'[x]
      <3>1. CASE x = id
        BY <3>1, <1>1, <1>4, <1>5, <1>8, <1>9, OwnedOnce DEF TableInv
      <3>2. CASE x # id
        <4>1. x \in live \ {INITPROC} /\ parent'[x] = parent[x]
          BY <3>2, <1>3, <1>9
        <4>2. x \in Range(children[q]) <=> q = parent[x]
          BY <4>1 DEF TableInv, ParentsOwn
        <4>3. parent[x] # id
          BY <4>1, <1>1, OwnedOnce DEF TableInv, Threads
        <4> QED BY <4>1, <4>2, <4>3, <3>2, <1>4, <1>5, <1>8
      <3> QED BY <3>1, <3>2
    <2>3. ASSUME NEW q \in Pid
          PROVE  IsInjective(children'[q]) /\ Range(children'[q]) \subseteq live' \ {INITPROC}
      <3>1. IsInjective(children[q]) /\ Range(children[q]) \subseteq live \ {INITPROC}
        BY DEF TableInv, ParentsOwn
      <3>2. id # INITPROC
        BY <1>1
      <3> QED BY <3>1, <3>2, <1>1, <1>3, <1>4, <1>5, <1>8
    <2> QED BY <2>1, <2>2, <2>3 DEF ParentsOwn
  <1>11. Acyclic'
    <2> SUFFICES ASSUME NEW S \in SUBSET (live' \ {INITPROC}), S # {}
                 PROVE  \E x \in S : parent'[x] \notin S
      BY DEF Acyclic
    <2>1. CASE S = {id}
      BY <2>1, <1>1, <1>9
    <2>2. CASE S # {id}
      <3>1. S \ {id} # {} /\ S \ {id} \in SUBSET (live \ {INITPROC})
        BY <2>2, <1>3
      <3>2. PICK x \in S \ {id} : parent[x] \notin S \ {id}
        BY <3>1 DEF TableInv, Acyclic
      <3>3. x \in live \ {INITPROC} /\ parent'[x] = parent[x] /\ parent[x] # id
        BY <3>1, <3>2, <1>1, <1>9, OwnedOnce DEF TableInv, Threads
      <3> QED BY <3>2, <3>3
    <2> QED BY <2>1, <2>2
  <1> QED BY <1>1, <1>2, <1>6, <1>7, <1>10, <1>11 DEF TableInv

\* An exit hands the children over to INITPROC, makes p a zombie, and keeps
\* the invariants of the process table.
LEMMA ExitTable ==
  ASSUME TypeOK, TableInv, NEW p \in Threads \ {INITPROC}, Reparent(p),
         zombie' = [zombie EXCEPT ![p] = TRUE], UNCHANGED <<pid_allocator, live>>
  PROVE  /\ parent' \in [Pid -> Pid \cup {None}]
         /\ children' \in [Pid -> Seq(Pid)] /\ zombie' \in [Pid -> BOOLEAN]
         /\ Threads' = Threads \ {p}
         /\ TableInv'
  <1>1. p \in live /\ p \in Pid /\ p # INITPROC /\ INITPROC \in Pid /\ INITPROC \in live
        /\ ~zombie[INITPROC]
    BY DEF TableInv, Threads, TypeOK
  <1> DEFINE own == Range(children[p])
             joined == children[INITPROC] \o children[p]
  <1>2. /\ \A c \in Pid : parent'[c] = IF c \in own THEN INITPROC ELSE parent[c]
        /\ \A q \in Pid : children'[q] = IF q = p THEN <<>>
                            ELSE IF q = INITPROC THEN joined ELSE children[q]
    BY <1>1 DEF Reparent, TypeOK
  <1>3. /\ joined \in Seq(Pid) /\ IsInjective(joined)
        /\ Range(joined) = Range(children[INITPROC]) \cup own
    <2>1. /\ children[p] \in Seq(Pid) /\ children[INITPROC] \in Seq(Pid)
          /\ IsInjective(children[p]) /\ IsInjective(children[INITPROC])
      BY <1>1 DEF TypeOK, TableInv, ParentsOwn
    <2>2. Range(children[INITPROC]) \cap own = {}
      BY <1>1, OwnedOnce DEF TableInv
    <2> QED BY <2>1, <2>2, ConcatElements
  <1>4. Range(<<>>) = {} /\ IsInjective(<<>>) /\ <<>> \in Seq(Pid)
    BY DEF Range, IsInjective
  <1>5. /\ parent' \in [Pid -> Pid \cup {None}]
        /\ children' \in [Pid -> Seq(Pid)] /\ zombie' \in [Pid -> BOOLEAN]
    BY <1>1, <1>3, <1>4 DEF Reparent, TypeOK
  <1>6. Threads' = Threads \ {p} /\ live' = live
    BY <1>1 DEF Threads, TypeOK
  <1> HIDE DEF joined
  <1>7. \A x \in live \ {INITPROC} : x \in own <=> parent[x] = p
    BY <1>1 DEF TableInv, ParentsOwn
  <1>8. ParentsOwn'
    <2>1. ASSUME NEW x \in live \ {INITPROC} PROVE parent'[x] \in Threads'
      BY <1>1, <1>2, <1>6, <1>7, OwnedOnce DEF TableInv, Threads, TypeOK
    <2>2. ASSUME NEW x \in live \ {INITPROC}, NEW q \in Pid
          PROVE  x \in Range(children'[q]) <=> q = parent'[x]
      <3>1. x \in Range(children[q]) <=> q = parent[x]
        BY DEF TableInv, ParentsOwn
      <3>2. x \in Range(children[INITPROC]) <=> INITPROC = parent[x]
        BY <1>1 DEF TableInv, ParentsOwn
      <3>3. x \in Pid
        BY DEF TypeOK
      <3> QED BY <3>1, <3>2, <3>3, <1>1, <1>2, <1>3, <1>4, <1>7
    <2>3. ASSUME NEW q \in Pid
          PROVE  IsInjective(children'[q]) /\ Range(children'[q]) \subseteq live \ {INITPROC}
      <3>1. /\ IsInjective(children[q]) /\ Range(children[q]) \subseteq live \ {INITPROC}
            /\ own \subseteq live \ {INITPROC}
            /\ Range(children[INITPROC]) \subseteq live \ {INITPROC}
        BY <1>1 DEF TableInv, ParentsOwn
      <3> QED BY <3>1, <1>2, <1>3, <1>4
    <2> QED BY <2>1, <2>2, <2>3, <1>6 DEF ParentsOwn
  <1>9. Acyclic'
    <2> SUFFICES ASSUME NEW S \in SUBSET (live \ {INITPROC}), S # {}
                 PROVE  \E x \in S : parent'[x] \notin S
      BY <1>6 DEF Acyclic
    <2>1. PICK x \in S : parent[x] \notin S
      BY DEF TableInv, Acyclic
    <2>2. x \in Pid /\ INITPROC \notin S
      BY DEF TypeOK
    <2> QED BY <2>1, <2>2, <1>2
  <1>10. PidsAccounted'
    BY DEF TableInv, PidsAccounted
  <1> QED BY <1>1, <1>5, <1>6, <1>8, <1>9, <1>10 DEF TableInv

\* One zombie child, and no one else, is destroyed.
LEMMA ReapTable ==
  ASSUME TypeOK, TableInv, current \in Pid, NEW rq, NEW pid, Reap(rq, pid)
  PROVE  /\ pid_allocator' \in [current : Nat, recycled : Seq(Nat)]
         /\ live' \subseteq Pid /\ children' \in [Pid -> Seq(Pid)]
         /\ Threads' = Threads
         /\ TableInv'
         /\ panic' = "none"
         /\ \A p \in live \ live' : zombie[p] /\ current = parent[p]
  <1>1. PICK i \in LastExited(current, pid) :
          LET c == children[current][i] IN
          /\ panic' = IF MayDealloc(pid_allocator, c) THEN "none"
                      ELSE "id has been deallocated"
          /\ pid_allocator' = Dealloc(pid_allocator, c)
          /\ live' = live \ {c}
          /\ children' = [children EXCEPT ![current] = Without(@, i)]
    BY DEF Reap
  <1>2. i \in DOMAIN children[current] /\ zombie[children[current][i]]
    BY DEF LastExited, Exited, Matching
  <1> DEFINE c == children[current][i]
  <1>3. c \in Range(children[current])
    BY <1>2 DEF Range
  <1>4. /\ c \in live \ {INITPROC} /\ c \in Pid /\ parent[c] = current /\ zombie[c]
        /\ UNCHANGED <<parent, zombie>>
    BY <1>2, <1>3, OwnedOnce DEF TableInv, Reap
  <1>5. /\ Without(children[current], i) \in Seq(Pid)
        /\ Range(Without(children[current], i)) = Range(children[current]) \ {c}
        /\ IsInjective(Without(children[current], i))
    <2>1. children[current] \in Seq(Pid) /\ IsInjective(children[current])
      BY DEF TypeOK, TableInv, ParentsOwn
    <2> QED BY <2>1, <1>2, WithoutElements
  <1> HIDE DEF c
  <1>6. /\ live' = live \ {c}
        /\ \A q \in Pid : children'[q] = IF q = current THEN Without(children[current], i)
                            ELSE children[q]
        /\ live' \subseteq Pid /\ children' \in [Pid -> Seq(Pid)]
    BY <1>1, <1>5 DEF TypeOK, c
  <1>7. Threads' = Threads
    BY <1>4, <1>6 DEF Threads
  <1>8. /\ pid_allocator' \in [current : Nat, recycled : Seq(Nat)]
        /\ PidsAccounted' /\ panic' = "none"
    <2> DEFINE r == pid_allocator.recycled
               n == pid_allocator.current
    <2>1. pid_allocator = [current |-> n, recycled |-> r] /\ n \in Nat /\ r \in Seq(Nat)
      BY DEF TypeOK
    <2>2. /\ live \cap Range(r) = {} /\ IsInjective(r)
          /\ live \cup Range(r) = 1 .. n - 1
      BY DEF TableInv, PidsAccounted
    <2>3. c \in Nat /\ c \notin Range(r) /\ c < n
      BY <2>1, <2>2, <1>4, BoundsAssumption DEF Pid
    <2>4. pid_allocator' = [current |-> n, recycled |-> Append(r, c)]
      BY <2>1, <1>1 DEF Dealloc, c
    <2>5. /\ Append(r, c) \in Seq(Nat) /\ IsInjective(Append(r, c))
          /\ Range(Append(r, c)) = Range(r) \cup {c}
      BY <2>1, <2>2, <2>3, AppendElements
    <2>6. panic' = "none"
      BY <2>3, <1>1 DEF MayDealloc, c
    <2> HIDE DEF r, n
    <2> QED BY <2>1, <2>2, <2>4, <2>5, <2>6, <1>4, <1>6 DEF PidsAccounted
  <1>9. ParentsOwn'
    <2>1. ASSUME NEW x \in live' \ {INITPROC} PROVE parent'[x] \in Threads'
      BY <1>4, <1>6, <1>7, OwnedOnce DEF TableInv
    <2>2. ASSUME NEW x \in live' \ {INITPROC}, NEW q \in Pid
          PROVE  x \in Range(children'[q]) <=> q = parent'[x]
      <3>1. x \in live \ {INITPROC} /\ x # c
        BY <1>6
      <3>2. x \in Range(children[q]) <=> q = parent[x]
        BY <3>1 DEF TableInv, ParentsOwn
      <3> QED BY <3>1, <3>2, <1>4, <1>5, <1>6
    <2>3. ASSUME NEW q \in Pid
          PROVE  IsInjective(children'[q]) /\ Range(children'[q]) \subseteq live' \ {INITPROC}
      <3>1. IsInjective(children[q]) /\ Range(children[q]) \subseteq live \ {INITPROC}
        BY DEF TableInv, ParentsOwn
      <3>2. q # current => c \notin Range(children[q])
        BY <1>4, OwnedOnce DEF TableInv
      <3> QED BY <3>1, <3>2, <1>5, <1>6
    <2> QED BY <2>1, <2>2, <2>3 DEF ParentsOwn
  <1>10. Acyclic'
    <2> SUFFICES ASSUME NEW S \in SUBSET (live' \ {INITPROC}), S # {}
                 PROVE  \E x \in S : parent'[x] \notin S
      BY DEF Acyclic
    <2>1. S \in SUBSET (live \ {INITPROC})
      BY <1>6
    <2> QED BY <2>1, <1>4 DEF TableInv, Acyclic
  <1>11. INITPROC \in Threads'
    BY <1>7 DEF TableInv
  <1> QED BY <1>4, <1>6, <1>7, <1>8, <1>9, <1>10, <1>11 DEF TableInv

-----------------------------------------------------------------------------
(* The places of threads: what each kind of step does to PlacedAt.         *)

\* Queue and heap hold pids; None is not one.
LEMMA PidsOnly ==
  ASSUME NEW rq \in Seq(Pid), NEW ts \in SUBSET Timer
  PROVE  None \notin Pid /\ {t.thread : t \in ts} \subseteq Pid /\ Range(rq) \subseteq Pid
  <1>1. None \notin Pid
    BY DEF None, Pid
  <1>2. {t.thread : t \in ts} \subseteq Pid
    BY DEF Timer
  <1>3. \A i \in DOMAIN rq : rq[i] \in Pid
    <2> HIDE DEF Pid
    <2> QED OBVIOUS
  <1> QED BY <1>1, <1>2, <1>3 DEF Range

\* __suspend_curr_and_run_next moves the thread on the processor to the tail
\* of the ready queue and leaves every other one in its place.
LEMMA SuspendPlaced ==
  ASSUME NEW rq \in Seq(Pid), NEW ts \in SUBSET Timer, NEW cur \in Pid, NEW run,
         PlacedAt(rq, ts, cur, run)
  PROVE  Append(rq, cur) \in Seq(Pid) /\ PlacedAt(Append(rq, cur), ts, None, run)
  <1>1. /\ Append(rq, cur) \in Seq(Pid) /\ IsInjective(Append(rq, cur))
        /\ Range(Append(rq, cur)) = Range(rq) \cup {cur}
    BY AppendElements DEF PlacedAt
  <1>2. None \notin Pid /\ {t.thread : t \in ts} \subseteq Pid /\ Range(rq) \subseteq Pid
    BY PidsOnly
  <1> QED BY <1>1, <1>2 DEF PlacedAt

\* sys_sleep moves the thread on the processor to the timer heap and leaves
\* every other one in its place.
LEMMA SleepPlaced ==
  ASSUME NEW rq \in Seq(Pid), NEW ts \in SUBSET Timer, NEW cur \in Pid, NEW run,
         NEW t \in Timer, t.thread = cur, PlacedAt(rq, ts, cur, run)
  PROVE  PlacedAt(rq, ts \cup {t}, None, run)
  <1>1. None \notin Pid /\ {s.thread : s \in ts} \subseteq Pid /\ Range(rq) \subseteq Pid
    BY PidsOnly
  <1>2. {s.thread : s \in ts \cup {t}} = {s.thread : s \in ts} \cup {cur}
    OBVIOUS
  <1>3. \A s \in ts : s.thread # cur
    BY DEF PlacedAt
  <1> QED BY <1>1, <1>2, <1>3 DEF PlacedAt

\* A thread that exits leaves the processor and is in no place any more.
LEMMA ExitPlaced ==
  ASSUME NEW rq \in Seq(Pid), NEW ts \in SUBSET Timer, NEW cur \in Pid, NEW run,
         PlacedAt(rq, ts, cur, run)
  PROVE  PlacedAt(rq, ts, None, run \ {cur})
  <1>1. None \notin Pid /\ {t.thread : t \in ts} \subseteq Pid /\ Range(rq) \subseteq Pid
    BY PidsOnly
  <1> QED BY <1>1 DEF PlacedAt

\* The thread of a new process gets exactly one place, in the ready queue.
LEMMA ForkPlaced ==
  ASSUME NEW rq \in Seq(Pid), NEW ts \in SUBSET Timer, NEW cur \in Pid \cup {None}, NEW run,
         NEW id \in Pid, id \notin run, PlacedAt(rq, ts, cur, run)
  PROVE  Append(rq, id) \in Seq(Pid) /\ PlacedAt(Append(rq, id), ts, cur, run \cup {id})
  <1>1. id \notin Range(rq) /\ cur # id /\ id \notin {t.thread : t \in ts}
    BY DEF PlacedAt, None, Pid
  <1>2. /\ Append(rq, id) \in Seq(Pid) /\ IsInjective(Append(rq, id))
        /\ Range(Append(rq, id)) = Range(rq) \cup {id}
    BY <1>1, AppendElements DEF PlacedAt
  <1> QED BY <1>1, <1>2 DEF PlacedAt

\* run_tasks moves the head of the ready queue to the processor.
LEMMA DispatchPlaced ==
  ASSUME NEW rq \in Seq(Pid), rq # <<>>, NEW ts \in SUBSET Timer, NEW run,
         PlacedAt(rq, ts, None, run)
  PROVE  /\ Tail(rq) \in Seq(Pid) /\ Head(rq) \in Pid
         /\ PlacedAt(Tail(rq), ts, Head(rq), run)
  <1>1. /\ Head(rq) \in Range(rq) /\ Tail(rq) \in Seq(Pid) /\ IsInjective(Tail(rq))
        /\ Range(Tail(rq)) = Range(rq) \ {Head(rq)}
    BY TailElements DEF PlacedAt
  <1>2. Range(rq) \subseteq Pid /\ None \notin Pid
    BY PidsOnly
  <1> QED BY <1>1, <1>2 DEF PlacedAt

-----------------------------------------------------------------------------
(* The inductive step, one lemma per kind of step.                         *)

\* What holds in every step with a process on the processor: the process is
\* a live, runnable thread.
LEMMA CurrentFacts ==
  ASSUME Inv, panic = "none", current # None
  PROVE  /\ current \in Pid /\ current \in Threads /\ current \in Runnable
         /\ current = INITPROC => ~Test
         /\ TableInv /\ TypeOK /\ ThreadsPlaced /\ INITPROC \in Pid
         /\ initpc = "exit" => current = INITPROC
  BY BoundsAssumption
     DEF Inv, ThreadsPlaced, PlacedAt, Runnable, Threads, TypeOK, TableInv,
         InitprocInv, Pid, INITPROC

\* A step that keeps the process table and the pids preserves the invariant
\* if it preserves types and places.
LEMMA SameTable ==
  ASSUME Inv, panic = "none", UNCHANGED <<pid_allocator, table>>,
         ready_queue' \in Seq(Pid), current' \in Pid \cup {None}, timers' \subseteq Timer,
         waiting' \in [Pid -> Pid \cup {AnyChild, NoWait}], now' \in 0 .. MaxTime,
         apps' \in Nat, initpc' \in {"fork", "wait", "yield", "exit", "none"},
         panic' = "none", PlacedAt(ready_queue', timers', current', Runnable),
         waiting'[INITPROC] = NoWait,
         INITPROC \notin {t.thread : t \in timers'},
         initpc' = "exit" => live = {INITPROC},
         Test => initpc' = "none"
  PROVE  Inv'
  <1>1. TypeOK'
    BY DEF Inv, TypeOK, table, Panics
  <1>2. Threads' = Threads /\ Runnable' = Runnable
    BY DEF table, Threads, Runnable
  <1>3. ThreadsPlaced'
    BY <1>2 DEF ThreadsPlaced
  <1>4. ParentsOwn' /\ Acyclic' /\ PidsAccounted'
    BY <1>2 DEF Inv, ParentsOwn, Acyclic, PidsAccounted, table
  <1>5. InitprocInv'
    BY <1>2 DEF Inv, InitprocInv, Asleep, table
  <1>6. PanicInv'
    BY DEF PanicInv
  <1> QED BY <1>1, <1>3, <1>4, <1>5, <1>6 DEF Inv

\* After check_timer() of a trap every thread still has exactly one place.
LEMMA TrapFacts ==
  ASSUME Inv, panic = "none", NEW rq \in CheckTimer
  PROVE  /\ rq \in Seq(Pid) /\ timers \ Popped \subseteq Timer
         /\ PlacedAt(rq, timers \ Popped, current, Runnable)
         /\ INITPROC \notin {t.thread : t \in timers \ Popped}
  BY CheckTimerPlaced DEF Inv, InitprocInv, Asleep, TypeOK

\* A timer interrupt, yield, sleep and a system call that concerns other
\* components preserve the invariant.
LEMMA SchedulingInv ==
  ASSUME Inv, NEW rq \in CheckTimer,
         \/ TimerInterrupt(rq) \/ sys_yield(rq) \/ OtherSyscall(rq)
         \/ \E req \in SleepTimes : sys_sleep(rq, req)
  PROVE  Inv'
  <1>1. panic = "none" /\ current # None
    BY DEF TimerInterrupt, sys_yield, OtherSyscall, sys_sleep, Free, UserMode, Running
  <1>2. /\ current \in Pid /\ TypeOK /\ INITPROC \in Pid
        /\ initpc = "exit" => live = {INITPROC}
        /\ waiting[INITPROC] = NoWait
        /\ Test => initpc = "none"
    BY <1>1, CurrentFacts DEF Inv, InitprocInv
  <1> DEFINE ts == timers \ Popped
  <1>3. /\ rq \in Seq(Pid) /\ ts \in SUBSET Timer /\ PlacedAt(rq, ts, current, Runnable)
        /\ INITPROC \notin {t.thread : t \in ts}
    BY <1>1, TrapFacts
  <1> HIDE DEF ts
  <1>4. CASE TimerInterrupt(rq) \/ sys_yield(rq)
    <2>1. /\ ready_queue' = Append(rq, current) /\ current' = None /\ timers' = ts
          /\ UNCHANGED <<pid_allocator, table, waiting, now, apps, panic>>
      BY <1>4 DEF TimerInterrupt, sys_yield, Suspend, Untouched, ts
    <2>3. initpc' = initpc \/ (~Test /\ initpc' = "wait")
      BY <1>1, <1>4, CurrentFacts DEF TimerInterrupt, sys_yield
    <2>2. Append(rq, current) \in Seq(Pid) /\ PlacedAt(Append(rq, current), ts, None, Runnable)
      BY <1>2, <1>3, SuspendPlaced
    <2> QED BY <2>1, <2>2, <2>3, <1>1, <1>2, <1>3, SameTable DEF TypeOK
  <1>5. CASE OtherSyscall(rq)
    <2>1. /\ ready_queue' = rq /\ current' = current /\ timers' = ts
          /\ UNCHANGED <<pid_allocator, table, waiting, now, apps, initpc, panic>>
      BY <1>5 DEF OtherSyscall, Resume, Untouched, ts
    <2> QED BY <2>1, <1>1, <1>2, <1>3, SameTable DEF TypeOK
  <1>6. ASSUME NEW req \in SleepTimes, sys_sleep(rq, req) PROVE Inv'
    <2> DEFINE t == [expire_ms |-> WrappingAdd(now, req), thread |-> current]
    <2>1. /\ ready_queue' = rq /\ current' = None /\ timers' = ts \cup {t}
          /\ UNCHANGED <<pid_allocator, table, waiting, now, apps, initpc, panic>>
          /\ current # INITPROC
      BY <1>6 DEF sys_sleep, Untouched, ts, Free
    <2>2. WrappingAdd(now, req) \in 0 .. Word - 1
      <3>1. now \in Nat /\ now < Word /\ req \in Nat /\ req < Word /\ Word \in Nat
        BY <1>2, WordAssumption, BoundsAssumption DEF TypeOK
      <3> QED BY <3>1 DEF WrappingAdd
    <2>3. t \in Timer /\ t.thread = current
      BY <2>2, <1>2 DEF Timer
    <2> HIDE DEF t
    <2>4. PlacedAt(rq, ts \cup {t}, None, Runnable)
      BY <2>3, <1>2, <1>3, SleepPlaced
    <2>5. INITPROC \notin {s.thread : s \in ts \cup {t}}
      BY <2>1, <2>3, <1>3
    <2>6. ts \cup {t} \subseteq Timer
      BY <2>3, <1>3
    <2> QED BY <2>1, <2>4, <2>5, <2>6, <1>1, <1>2, <1>3, SameTable DEF TypeOK
  <1> QED BY <1>4, <1>5, <1>6

\* sys_clone preserves the invariant.
LEMMA CloneInv ==
  ASSUME Inv, NEW rq \in CheckTimer, sys_clone(rq)
  PROVE  Inv'
  <1> DEFINE id == NextId(pid_allocator)
             ts == timers \ Popped
  <1>1. panic = "none" /\ current # None
    BY DEF sys_clone, Free, UserMode, Running
  <1>2. /\ current \in Threads /\ current \in Pid /\ TableInv /\ TypeOK /\ INITPROC \in Pid
        /\ initpc # "exit" /\ (Test => initpc = "none" /\ current # INITPROC)
    BY <1>1, CurrentFacts DEF sys_clone, Free, Inv, InitprocInv
  <1>3. /\ rq \in Seq(Pid) /\ ts \in SUBSET Timer /\ PlacedAt(rq, ts, current, Runnable)
        /\ INITPROC \notin {t.thread : t \in ts}
    BY <1>1, TrapFacts
  <1>4. /\ id \in Pid /\ Forked(current, id)
        /\ ready_queue' = Append(rq, id) /\ current' = current /\ timers' = ts
        /\ initpc' = IF current = INITPROC THEN "wait" ELSE initpc
        /\ UNCHANGED <<now, apps, panic>>
    BY DEF sys_clone, Resume, Untouched
  <1> HIDE DEF id, ts
  <1>5. /\ pid_allocator' \in [current : Nat, recycled : Seq(Nat)]
        /\ live' \subseteq Pid /\ parent' \in [Pid -> Pid \cup {None}]
        /\ children' \in [Pid -> Seq(Pid)] /\ zombie' \in [Pid -> BOOLEAN]
        /\ waiting' \in [Pid -> Pid \cup {AnyChild, NoWait}]
        /\ id \notin live /\ Threads' = Threads \cup {id}
        /\ TableInv'
    BY <1>2, <1>4, ForkTable DEF id
  <1>6. Runnable' = Runnable \cup {id} /\ id \notin Runnable /\ id # INITPROC
    BY <1>2, <1>5 DEF Runnable, Threads, TableInv
  <1>7. /\ Append(rq, id) \in Seq(Pid)
        /\ PlacedAt(Append(rq, id), ts, current, Runnable \cup {id})
    BY <1>2, <1>3, <1>4, <1>6, ForkPlaced
  <1>8. TypeOK'
    BY <1>2, <1>3, <1>4, <1>5, <1>7 DEF TypeOK
  <1>9. ThreadsPlaced'
    BY <1>4, <1>6, <1>7 DEF ThreadsPlaced
  <1>10. InitprocInv'
    <2>1. waiting'[INITPROC] = waiting[INITPROC]
      BY <1>2, <1>4, <1>6 DEF Forked, TypeOK
    <2>2. INITPROC \notin Asleep'
      BY <1>3, <1>4 DEF Asleep
    <2> QED BY <2>1, <2>2, <1>2, <1>4, <1>5 DEF InitprocInv, Inv, TableInv
  <1>11. PanicInv'
    BY <1>1, <1>4 DEF PanicInv
  <1> QED BY <1>5, <1>8, <1>9, <1>10, <1>11 DEF Inv, TableInv

\* The exit of a process other than INITPROC preserves the invariant.
LEMMA ExitInv ==
  ASSUME Inv, NEW rq \in CheckTimer, Exit(rq)
  PROVE  Inv'
  <1> DEFINE ts == timers \ Popped
  <1>1. panic = "none" /\ current # None /\ current # INITPROC
    BY DEF Exit, Free, UserMode, Running
  <1>2. /\ current \in Threads \ {INITPROC} /\ current \in Pid /\ TableInv /\ TypeOK
        /\ initpc # "exit"
    BY <1>1, CurrentFacts
  <1>3. /\ rq \in Seq(Pid) /\ ts \in SUBSET Timer /\ PlacedAt(rq, ts, current, Runnable)
        /\ INITPROC \notin {t.thread : t \in ts}
    BY <1>1, TrapFacts
  <1>4. /\ ready_queue' = rq /\ current' = None /\ timers' = ts /\ Reparent(current)
        /\ zombie' = [zombie EXCEPT ![current] = TRUE]
        /\ UNCHANGED <<pid_allocator, live, waiting, now, apps, initpc, panic>>
    BY DEF Exit, Untouched
  <1> HIDE DEF ts
  <1>5. /\ parent' \in [Pid -> Pid \cup {None}]
        /\ children' \in [Pid -> Seq(Pid)] /\ zombie' \in [Pid -> BOOLEAN]
        /\ Threads' = Threads \ {current} /\ TableInv'
    BY <1>2, <1>4, ExitTable
  <1>6. Runnable' = Runnable \ {current}
    BY <1>5 DEF Runnable
  <1>7. PlacedAt(rq, ts, None, Runnable \ {current})
    BY <1>2, <1>3, ExitPlaced
  <1>8. TypeOK'
    BY <1>2, <1>3, <1>4, <1>5 DEF TypeOK
  <1>9. ThreadsPlaced'
    BY <1>4, <1>6, <1>7 DEF ThreadsPlaced
  <1>10. InitprocInv'
    <2>1. INITPROC \notin Asleep'
      BY <1>3, <1>4 DEF Asleep
    <2> QED BY <2>1, <1>2, <1>4, <1>5 DEF InitprocInv, Inv, TableInv
  <1>11. PanicInv'
    BY <1>1, <1>4 DEF PanicInv
  <1> QED BY <1>5, <1>8, <1>9, <1>10, <1>11 DEF Inv, TableInv

\* When INITPROC has no child, there is no other process: the set of all
\* others would have a member whose parent is outside it.
LEMMA NoChildAlone ==
  ASSUME TypeOK, TableInv, Range(children[INITPROC]) = {}
  PROVE  live = {INITPROC}
  <1> SUFFICES ASSUME live \ {INITPROC} # {} PROVE FALSE
    BY DEF TableInv, Threads
  <1>1. PICK p \in live \ {INITPROC} : parent[p] \notin live \ {INITPROC}
    BY DEF TableInv, Acyclic
  <1>2. parent[p] = INITPROC
    BY <1>1, OwnedOnce DEF TableInv, Threads
  <1>3. p \in Range(children[INITPROC])
    BY <1>2, OwnedOnce DEF TableInv
  <1> QED BY <1>3

\* One iteration of the loop of sys_wait4, from a trap or not, preserves the
\* invariant.
LEMMA WaitInv ==
  ASSUME Inv, panic = "none", current # None, NEW rq \in Seq(Pid),
         NEW pid \in Pid \cup {AnyChild}, current = INITPROC => pid = AnyChild,
         timers' \subseteq timers, PlacedAt(rq, timers', current, Runnable),
         \/ Reap(rq, pid) \/ NoChild(rq, pid) \/ NoHang(rq, pid)
         \/ current # INITPROC /\ KeepWaiting(rq, pid),
         Untouched
  PROVE  Inv'
  <1>1. /\ current \in Threads /\ current \in Pid /\ TableInv /\ TypeOK /\ INITPROC \in Pid
        /\ initpc = "exit" => current = INITPROC /\ live = {INITPROC}
        /\ Test => initpc = "none" /\ current # INITPROC
        /\ timers' \subseteq Timer /\ INITPROC \notin {t.thread : t \in timers'}
        /\ waiting[INITPROC] = NoWait
    BY CurrentFacts DEF Inv, InitprocInv, Asleep, TypeOK
  <1>2. waiting' \in [Pid -> Pid \cup {AnyChild, NoWait}] /\ waiting'[INITPROC] = NoWait
    <2>1. \/ waiting' \in {waiting, [waiting EXCEPT ![current] = NoWait]}
          \/ current # INITPROC /\ waiting' = [waiting EXCEPT ![current] = pid]
      BY DEF Reap, NoChild, KeepWaiting, NoHang
    <2> QED BY <2>1, <1>1 DEF TypeOK
  <1>3. now' \in 0 .. MaxTime /\ apps' \in Nat
    BY <1>1 DEF Untouched, TypeOK
  <1>4. CASE Reap(rq, pid)
    <2>1. /\ ready_queue' = rq /\ current' = current /\ UNCHANGED <<parent, zombie, initpc>>
          /\ live' \subseteq live
      BY <1>4 DEF Reap, Resume
    <2>2. /\ pid_allocator' \in [current : Nat, recycled : Seq(Nat)]
          /\ live' \subseteq Pid /\ children' \in [Pid -> Seq(Pid)]
          /\ Threads' = Threads /\ TableInv' /\ panic' = "none"
      BY <1>1, <1>4, ReapTable
    <2>3. TypeOK'
      BY <2>1, <2>2, <1>1, <1>2, <1>3 DEF TypeOK, Panics
    <2>4. ThreadsPlaced'
      BY <2>1, <2>2 DEF ThreadsPlaced, Runnable
    <2>5. InitprocInv'
      <3>1. INITPROC \in live'
        BY <2>2 DEF TableInv, Threads
      <3> QED BY <3>1, <2>1, <2>2, <1>1, <1>2 DEF InitprocInv, Asleep, TableInv
    <2>6. PanicInv'
      BY <2>2 DEF PanicInv
    <2> QED BY <2>2, <2>3, <2>4, <2>5, <2>6 DEF Inv, TableInv
  <1>5. CASE NoChild(rq, pid)
    <2>1. /\ ready_queue' = rq /\ current' = current /\ Matching(current, pid) = {}
          /\ initpc' = IF current = INITPROC THEN "exit" ELSE initpc
          /\ UNCHANGED <<pid_allocator, table, panic>>
      BY <1>5 DEF NoChild, Resume
    <2>2. current = INITPROC => live = {INITPROC}
      <3> SUFFICES ASSUME current = INITPROC PROVE Range(children[INITPROC]) = {}
        BY <1>1, NoChildAlone
      <3>1. DOMAIN children[INITPROC] = {}
        BY <2>1 DEF Matching
      <3> QED BY <3>1 DEF Range
    <2> QED BY <2>1, <2>2, <1>1, <1>2, <1>3, SameTable DEF TypeOK
  <1>6. CASE current # INITPROC /\ KeepWaiting(rq, pid)
    <2>1. /\ ready_queue' = Append(rq, current) /\ current' = None
          /\ UNCHANGED <<pid_allocator, table, initpc, panic>>
      BY <1>6 DEF KeepWaiting, Suspend
    <2>2. /\ Append(rq, current) \in Seq(Pid)
          /\ PlacedAt(Append(rq, current), timers', None, Runnable)
      BY <1>1, SuspendPlaced
    <2> QED BY <2>1, <2>2, <1>1, <1>2, <1>3, SameTable DEF TypeOK
  <1>7. CASE NoHang(rq, pid)
    <2>1. /\ ready_queue' = rq /\ current' = current
          /\ initpc' = IF current = INITPROC THEN "yield" ELSE initpc
          /\ UNCHANGED <<pid_allocator, table, panic>>
      BY <1>7 DEF NoHang, Resume
    <2> QED BY <2>1, <1>1, <1>2, <1>3, SameTable DEF TypeOK
  <1> QED BY <1>4, <1>5, <1>6, <1>7

\* A sys_wait4 that begins with a trap preserves the invariant.
LEMMA Wait4Inv ==
  ASSUME Inv, NEW rq \in CheckTimer, NEW pid \in Pid \cup {AnyChild}, sys_wait4(rq, pid)
  PROVE  Inv'
  <1>1. /\ panic = "none" /\ current # None /\ (current = INITPROC => pid = AnyChild)
        /\ timers' = timers \ Popped /\ Untouched
        /\ \/ Reap(rq, pid) \/ NoChild(rq, pid) \/ NoHang(rq, pid)
           \/ current # INITPROC /\ KeepWaiting(rq, pid)
    BY DEF sys_wait4, Free, UserMode, Running
  <1>2. rq \in Seq(Pid) /\ PlacedAt(rq, timers', current, Runnable)
    BY <1>1, TrapFacts
  <1> QED BY <1>1, <1>2, WaitInv

\* A further iteration of sys_wait4, without a trap, preserves the invariant.
LEMMA Wait4AgainInv ==
  ASSUME Inv, Wait4Again
  PROVE  Inv'
  <1> DEFINE pid == waiting[current]
  <1>1. /\ panic = "none" /\ current # None /\ pid # NoWait /\ timers' = timers /\ Untouched
        /\ \/ Reap(ready_queue, pid) \/ NoChild(ready_queue, pid) \/ KeepWaiting(ready_queue, pid)
    BY DEF Wait4Again, Running
  <1>2. pid \in Pid \cup {AnyChild} /\ current # INITPROC
    BY <1>1, CurrentFacts DEF TypeOK, Inv, InitprocInv
  <1>3. ready_queue \in Seq(Pid) /\ PlacedAt(ready_queue, timers', current, Runnable)
    BY <1>1 DEF Inv, TypeOK, ThreadsPlaced
  <1> QED BY <1>1, <1>2, <1>3, WaitInv

\* fetch_task preserves the invariant; it finds the queue empty only in test
\* mode, since INITPROC never sleeps.
LEMMA FetchInv ==
  ASSUME Inv, FetchTask
  PROVE  Inv'
  <1>1. panic = "none" /\ current = None /\ TypeOK /\ (Test => ready_queue # <<>>)
    BY DEF FetchTask, Idle, Running, Inv
  <1>2. PlacedAt(ready_queue, timers, None, Runnable) /\ Runnable \subseteq live
    BY <1>1 DEF Inv, ThreadsPlaced, Runnable, Threads
  <1>3. ready_queue # <<>>
    <2>1. ~Test => INITPROC \in Range(ready_queue)
      BY <1>2 DEF PlacedAt, Inv, InitprocInv, Asleep, Runnable
    <2> QED BY <2>1, <1>1 DEF Range
  <1>4. /\ Tail(ready_queue) \in Seq(Pid) /\ Head(ready_queue) \in Pid
        /\ PlacedAt(Tail(ready_queue), timers, Head(ready_queue), Runnable)
    BY <1>1, <1>2, <1>3, DispatchPlaced DEF TypeOK
  <1>5. Head(ready_queue) \in live
    <2>1. Head(ready_queue) # None
      BY <1>4 DEF None, Pid
    <2> QED BY <2>1, <1>2, <1>4 DEF PlacedAt
  <1>6. /\ ready_queue' = Tail(ready_queue) /\ current' = Head(ready_queue) /\ panic' = "none"
        /\ UNCHANGED <<pid_allocator, table, timers, waiting, now, apps, initpc>>
    BY <1>3, <1>5 DEF FetchTask, Dispatch, Untouched
  <1>7. /\ waiting[INITPROC] = NoWait /\ INITPROC \notin {t.thread : t \in timers}
        /\ initpc = "exit" => live = {INITPROC}
        /\ Test => initpc = "none"
    BY DEF Inv, InitprocInv, Asleep
  <1> QED BY <1>1, <1>4, <1>6, <1>7, SameTable DEF TypeOK

\* The next app of the batch in test mode preserves the invariant.
LEMMA SpawnInv ==
  ASSUME Inv, NEW rq \in CheckTimer, SpawnApp(rq)
  PROVE  Inv'
  <1> DEFINE id == NextId(pid_allocator)
             q == Append(rq, id)
  <1>1. /\ panic = "none" /\ current = None /\ Test /\ timers \ Popped = {}
        /\ id \in Pid /\ Forked(INITPROC, id) /\ timers' = {}
        /\ current' = Head(q) /\ ready_queue' = Tail(q)
        /\ UNCHANGED <<now, initpc, panic>>
    BY DEF SpawnApp, Idle, Running, Dispatch
  <1>2. apps' \in Nat
    BY DEF SpawnApp, Inv, TypeOK
  <1>3. TypeOK /\ TableInv /\ INITPROC \in Threads /\ INITPROC \in Pid /\ initpc = "none"
    BY <1>1, BoundsAssumption DEF Inv, TableInv, InitprocInv, Pid, INITPROC
  <1>4. rq \in Seq(Pid) /\ PlacedAt(rq, {}, None, Runnable)
    BY <1>1, TrapFacts
  <1> HIDE DEF id
  <1>5. /\ pid_allocator' \in [current : Nat, recycled : Seq(Nat)]
        /\ live' \subseteq Pid /\ parent' \in [Pid -> Pid \cup {None}]
        /\ children' \in [Pid -> Seq(Pid)] /\ zombie' \in [Pid -> BOOLEAN]
        /\ waiting' \in [Pid -> Pid \cup {AnyChild, NoWait}]
        /\ id \notin live /\ Threads' = Threads \cup {id}
        /\ TableInv'
    BY <1>1, <1>3, ForkTable DEF id
  <1>6. Runnable' = Runnable \cup {id} /\ id \notin Runnable /\ id # INITPROC
    BY <1>3, <1>5 DEF Runnable, Threads
  <1>7. q \in Seq(Pid) /\ q # <<>> /\ PlacedAt(q, {}, None, Runnable \cup {id})
    <2>1. q \in Seq(Pid) /\ PlacedAt(q, {}, None, Runnable \cup {id})
      BY <1>1, <1>4, <1>6, ForkPlaced
    <2>2. q # <<>>
      BY <1>1, <1>4
    <2> QED BY <2>1, <2>2
  <1> HIDE DEF q
  <1>8. /\ Tail(q) \in Seq(Pid) /\ Head(q) \in Pid
        /\ PlacedAt(Tail(q), {}, Head(q), Runnable \cup {id})
    BY <1>7, DispatchPlaced
  <1>9. TypeOK'
    BY <1>1, <1>2, <1>3, <1>5, <1>8 DEF TypeOK
  <1>10. ThreadsPlaced'
    BY <1>1, <1>6, <1>8 DEF ThreadsPlaced
  <1>11. InitprocInv'
    <2>1. waiting'[INITPROC] = waiting[INITPROC]
      BY <1>1, <1>3, <1>6 DEF Forked, TypeOK
    <2>2. Asleep' = {}
      BY <1>1 DEF Asleep
    <2> QED BY <2>1, <2>2, <1>1, <1>3, <1>5 DEF InitprocInv, Inv, TableInv
  <1>12. PanicInv'
    BY <1>1 DEF PanicInv
  <1> QED BY <1>5, <1>9, <1>10, <1>11, <1>12 DEF Inv, TableInv

\* The steps that end the run, and those that touch nothing but the clock,
\* preserve the invariant.
LEMMA OtherInv ==
  ASSUME Inv, \/ \E rq \in CheckTimer : NoApp(rq) \/ Unsupported(rq)
              \/ ExitOfInitproc \/ Tick \/ PoweredOff \/ UNCHANGED vars
  PROVE  Inv'
  <1>1. ASSUME NEW rq \in CheckTimer, NoApp(rq) PROVE Inv'
    <2>1. /\ panic = "none" /\ Test /\ ready_queue' = rq /\ timers' = {} /\ apps' = 0
          /\ panic' = "No more tasks available."
          /\ UNCHANGED <<pid_allocator, table, current, waiting, now, initpc>>
      BY <1>1 DEF NoApp, Idle, Running
    <2>2. rq \in Seq(Pid)
      BY <2>1, TrapFacts
    <2>3. TypeOK'
      BY <2>1, <2>2 DEF Inv, TypeOK, table, Panics
    <2>4. ThreadsPlaced' /\ PanicInv'
      BY <2>1 DEF ThreadsPlaced, PanicInv
    <2>5. Threads' = Threads
      BY <2>1 DEF Threads, table
    <2>6. ParentsOwn' /\ Acyclic' /\ PidsAccounted'
      BY <2>1, <2>5 DEF Inv, ParentsOwn, Acyclic, PidsAccounted, table
    <2>7. InitprocInv'
      BY <2>1, <2>5 DEF Inv, InitprocInv, Asleep, table
    <2> QED BY <2>3, <2>4, <2>6, <2>7 DEF Inv
  <1>2. CASE ExitOfInitproc
    <2>1. /\ panic' = "already borrowed" /\ initpc = "exit"
          /\ UNCHANGED <<pid_allocator, table, ready_queue, current, timers, waiting,
                         now, apps, initpc>>
      BY <1>2 DEF ExitOfInitproc, Untouched
    <2>2. TypeOK' /\ ThreadsPlaced' /\ PanicInv'
      BY <2>1 DEF Inv, TypeOK, table, Panics, ThreadsPlaced, PanicInv
    <2>3. Threads' = Threads
      BY <2>1 DEF Threads, table
    <2>4. ParentsOwn' /\ Acyclic' /\ PidsAccounted' /\ InitprocInv'
      BY <2>1, <2>3
         DEF Inv, ParentsOwn, Acyclic, PidsAccounted, InitprocInv, Asleep, table
    <2> QED BY <2>2, <2>4 DEF Inv
  <1>3. CASE Tick
    <2>1. /\ now' \in 0 .. MaxTime
          /\ UNCHANGED <<pid_allocator, table, ready_queue, current, timers, waiting,
                         apps, initpc, panic>>
      BY <1>3, BoundsAssumption DEF Tick, Inv, TypeOK
    <2>2. TypeOK' /\ PanicInv'
      BY <2>1 DEF Inv, TypeOK, table, PanicInv
    <2>3. Threads' = Threads /\ Runnable' = Runnable
      BY <2>1 DEF Threads, Runnable, table
    <2>4. ThreadsPlaced' /\ ParentsOwn' /\ Acyclic' /\ PidsAccounted' /\ InitprocInv'
      BY <2>1, <2>3 DEF Inv, ThreadsPlaced, ParentsOwn, Acyclic, PidsAccounted,
                        InitprocInv, Asleep, table
    <2> QED BY <2>2, <2>4 DEF Inv
  <1>4. CASE PoweredOff \/ UNCHANGED vars
    <2>1. UNCHANGED vars
      BY <1>4 DEF PoweredOff
    <2>2. Threads' = Threads /\ Runnable' = Runnable
      BY <2>1 DEF Threads, Runnable, vars, table
    <2>3. TypeOK' /\ PanicInv'
      BY <2>1 DEF Inv, TypeOK, vars, table, PanicInv
    <2>4. ThreadsPlaced' /\ ParentsOwn' /\ Acyclic' /\ PidsAccounted' /\ InitprocInv'
      BY <2>1, <2>2 DEF Inv, ThreadsPlaced, ParentsOwn, Acyclic, PidsAccounted,
                        InitprocInv, Asleep, vars, table
    <2> QED BY <2>3, <2>4 DEF Inv
  <1>5. ASSUME NEW rq \in CheckTimer, Unsupported(rq) PROVE Inv'
    <2>1. /\ panic = "none" /\ ready_queue' = rq /\ timers' = timers \ Popped
          /\ panic' = "unsupported"
          /\ UNCHANGED <<pid_allocator, table, current, waiting, now, apps, initpc>>
      BY <1>5 DEF Unsupported, Free, UserMode, Running, Resume, Untouched
    <2>2. rq \in Seq(Pid)
      BY <2>1, TrapFacts
    <2>3. TypeOK'
      BY <2>1, <2>2 DEF Inv, TypeOK, table, Panics
    <2>4. ThreadsPlaced' /\ PanicInv'
      BY <2>1 DEF ThreadsPlaced, PanicInv
    <2>5. Threads' = Threads
      BY <2>1 DEF Threads, table
    <2>6. ParentsOwn' /\ Acyclic' /\ PidsAccounted'
      BY <2>1, <2>5 DEF Inv, ParentsOwn, Acyclic, PidsAccounted, table
    <2>7. InitprocInv'
      BY <2>1, <2>5 DEF Inv, InitprocInv, Asleep, table
    <2> QED BY <2>3, <2>4, <2>6, <2>7 DEF Inv
  <1> QED BY <1>1, <1>2, <1>3, <1>4, <1>5

-----------------------------------------------------------------------------
\* The invariant holds when the kernel starts.
LEMMA InitInv == ASSUME Init PROVE Inv
  <1>1. INITPROC \in Pid /\ None \notin Pid
    BY BoundsAssumption DEF INITPROC, Pid, None
  <1>2. TypeOK
    <2>1. pid_allocator \in [current : Nat, recycled : Seq(Nat)]
      BY DEF Init, INITPROC
    <2>2. ready_queue \in Seq(Pid)
      BY <1>1, ModeAssumption DEF Init
    <2>3. apps \in Nat /\ initpc \in {"fork", "wait", "yield", "exit", "none"}
      BY ModeAssumption DEF Init
    <2> QED BY <2>1, <2>2, <2>3, <1>1, BoundsAssumption DEF Init, TypeOK, Panics
  <1>3. Threads = {INITPROC} /\ Asleep = {} /\ live \ {INITPROC} = {}
    BY <1>1 DEF Init, Threads, Asleep
  <1>4. ThreadsPlaced
    <2>1. CASE Test
      BY <2>1, <1>3 DEF Init, ThreadsPlaced, PlacedAt, Runnable, Range, IsInjective, Asleep
    <2>2. CASE ~Test
      <3>1. ready_queue = <<INITPROC>> /\ timers = {} /\ current = None /\ Runnable = {INITPROC}
        BY <2>2, <1>3 DEF Init, Runnable
      <3>2. Range(ready_queue) = {INITPROC} /\ IsInjective(ready_queue)
        BY <3>1 DEF Range, IsInjective
      <3>3. INITPROC # None
        BY <1>1
      <3> QED BY <3>1, <3>2, <3>3 DEF ThreadsPlaced, PlacedAt
    <2> QED BY <2>1, <2>2
  <1>5. ParentsOwn
    <2>1. \A q \in Pid : Range(children[q]) = {} /\ IsInjective(children[q])
      BY DEF Init, Range, IsInjective
    <2> QED BY <2>1, <1>3 DEF ParentsOwn
  <1>6. Acyclic
    BY <1>3 DEF Acyclic
  <1>7. PidsAccounted
    <2>1. /\ pid_allocator.current = 2 /\ pid_allocator.recycled = <<>> /\ live = {1}
      BY DEF Init, INITPROC
    <2>2. Range(pid_allocator.recycled) = {} /\ IsInjective(pid_allocator.recycled)
      BY <2>1 DEF Range, IsInjective
    <2>3. 1 .. 2 - 1 = {1}
      OBVIOUS
    <2> QED BY <2>1, <2>2, <2>3 DEF PidsAccounted
  <1>8. InitprocInv /\ PanicInv
    BY <1>1, <1>3, ModeAssumption DEF Init, InitprocInv, PanicInv
  <1> QED BY <1>2, <1>4, <1>5, <1>6, <1>7, <1>8 DEF Inv

\* Every step preserves the invariant.
LEMMA NextInv == ASSUME Inv, [Next]_vars PROVE Inv'
  BY SchedulingInv, CloneInv, ExitInv, Wait4Inv, Wait4AgainInv, FetchInv,
     SpawnInv, OtherInv
     DEF Next, Trap

(* The inductive invariant holds in every reachable state.                 *)
THEOREM Invariance == Spec => []Inv
  <1>1. Init => Inv
    BY InitInv
  <1>2. Inv /\ [Next]_vars => Inv'
    BY NextInv
  <1> QED BY <1>1, <1>2, PTL DEF Spec

(* Every variable of the scheduler and of the process table keeps its type. *)
THEOREM Typing == Spec => []TypeOK
  <1>1. Inv => TypeOK
    BY DEF Inv
  <1> QED BY <1>1, Invariance, PTL

(* However many processes there are and whatever they call, a thread that  *)
(* has not exited is on the processor, in the ready queue or in the timer  *)
(* heap, in exactly one of them and once, and an exited one in none.       *)
THEOREM Placement == Spec => []ThreadsPlaced
  <1>1. Inv => ThreadsPlaced
    BY DEF Inv
  <1> QED BY <1>1, Invariance, PTL

(* Each process but INITPROC is owned by exactly one living parent, the one *)
(* its Weak reference names, so that sys_getppid cannot fail.              *)
THEOREM ProcessTree == Spec => []ParentsOwn
  <1>1. Inv => ParentsOwn
    BY DEF Inv
  <1> QED BY <1>1, Invariance, PTL

(* Parents form no cycle, also after orphans are handed over and pids are  *)
(* used again: every process leads to INITPROC.                            *)
THEOREM NoCycles == Spec => []Acyclic
  <1>1. Inv => Acyclic
    BY DEF Inv
  <1> QED BY <1>1, Invariance, PTL

(* The pid allocator neither loses an id nor hands one out twice; the      *)
(* assertions of RecycleAllocator::dealloc never fail (see PanicInv).      *)
THEOREM PidAccounting == Spec => []PidsAccounted
  <1>1. Inv => PidsAccounted
    BY DEF Inv
  <1> QED BY <1>1, Invariance, PTL

(* Outside test mode, and unless a program does what the kernel does not   *)
(* support, the kernel never stops while a process other than INITPROC     *)
(* exists: its own bookkeeping (the expect on an empty ready queue, the    *)
(* upgrade of a thread's process, the assertions of the pid allocator)     *)
(* never panics.                                                           *)
THEOREM CleanStop == Spec => []NoPanicOfItsOwn
  <1>1. Inv => NoPanicOfItsOwn
    BY DEF Inv, PanicInv, InitprocInv, NoPanicOfItsOwn
  <1> QED BY <1>1, Invariance, PTL

(* A PCB is dropped only as a zombie and only by its parent's wait4.       *)
THEOREM TwoStageDeath == Spec => DestroyedByParent
  <1>1. ASSUME Inv, [Next]_vars
        PROVE  [\A p \in live \ live' : zombie[p] /\ current = parent[p]]_vars
    <2> SUFFICES ASSUME NEW p \in live \ live' PROVE zombie[p] /\ current = parent[p]
      OBVIOUS
    <2> DEFINE Good == zombie[p] /\ current = parent[p]
    <2>1. ASSUME NEW rq, NEW pid, Running, current # None, Reap(rq, pid)
          PROVE  Good
      <3>1. TypeOK /\ TableInv /\ current \in Pid
        BY <1>1, <2>1, CurrentFacts DEF Running
      <3> QED BY <3>1, <2>1, ReapTable
    <2>2. ASSUME NEW rq \in CheckTimer, NEW pid \in Pid \cup {AnyChild}, sys_wait4(rq, pid)
          PROVE  Good
      BY <2>1, <2>2 DEF sys_wait4, NoChild, KeepWaiting, NoHang, table, Free, UserMode, Running
    <2>3. ASSUME Wait4Again PROVE Good
      <3>1. Running /\ current # None /\ \E pid : \/ Reap(ready_queue, pid)
                      \/ NoChild(ready_queue, pid) \/ KeepWaiting(ready_queue, pid)
        BY <2>3 DEF Wait4Again
      <3>2. live' # live
        OBVIOUS
      <3> QED BY <2>1, <3>1, <3>2 DEF NoChild, KeepWaiting, table
    <2>4. ASSUME NEW rq \in CheckTimer,
                 \/ TimerInterrupt(rq) \/ sys_yield(rq) \/ OtherSyscall(rq)
                 \/ \E req \in SleepTimes : sys_sleep(rq, req)
                 \/ sys_clone(rq) \/ Exit(rq) \/ SpawnApp(rq) \/ NoApp(rq) \/ Unsupported(rq)
          PROVE  FALSE
      BY <2>4 DEF TimerInterrupt, sys_yield, OtherSyscall, sys_sleep, sys_clone, Exit,
                  Unsupported, SpawnApp, NoApp, Forked, table
    <2>5. ASSUME FetchTask \/ ExitOfInitproc \/ Tick \/ PoweredOff \/ UNCHANGED vars
          PROVE  FALSE
      BY <2>5 DEF FetchTask, ExitOfInitproc, Tick, PoweredOff, vars, table
    <2> HIDE DEF Good
    <2>6. ASSUME \E rq \in CheckTimer : Trap(rq) \/ SpawnApp(rq) \/ NoApp(rq)
          PROVE  Good
      <3>1. PICK rq \in CheckTimer : Trap(rq) \/ SpawnApp(rq) \/ NoApp(rq)
        BY <2>6
      <3> QED BY <3>1, <2>2, <2>4 DEF Trap
    <2>7. Good
      BY <1>1, <2>3, <2>5, <2>6 DEF Next
    <2> QED BY <2>7 DEF Good
  <1> QED BY <1>1, Invariance, PTL DEF Spec, DestroyedByParent

-----------------------------------------------------------------------------
(* FIFO scheduling.                                                        *)

\* Where e stands in s.
PlaceIn(s, e) == CHOOSE i \in DOMAIN s : s[i] = e

\* In a sequence without repetition an element stands at one index only.
LEMMA PlaceUnique ==
  ASSUME NEW s, IsInjective(s), NEW i \in DOMAIN s
  PROVE  PlaceIn(s, s[i]) = i
  <1>1. PlaceIn(s, s[i]) \in DOMAIN s /\ s[PlaceIn(s, s[i])] = s[i]
    BY DEF PlaceIn
  <1> QED BY <1>1 DEF IsInjective

\* What is put behind a queue moves no element of it.
LEMMA PlaceInLonger ==
  ASSUME NEW S, NEW s \in Seq(S), NEW t \in Seq(S), IsInjective(s),
         IsInjective(s \o t), NEW e \in Range(s)
  PROVE  PlaceIn(s \o t, e) = PlaceIn(s, e)
  <1>1. PICK i \in DOMAIN s : e = s[i]
    BY DEF Range
  <1>2. i \in DOMAIN (s \o t) /\ (s \o t)[i] = s[i]
    OBVIOUS
  <1>3. PlaceIn(s \o t, (s \o t)[i]) = i
    BY <1>2, PlaceUnique
  <1>4. PlaceIn(s, s[i]) = i
    BY PlaceUnique
  <1> QED BY <1>1, <1>2, <1>3, <1>4

\* When the head leaves, every other element moves up by one.
LEMMA PlaceInTail ==
  ASSUME NEW S, NEW s \in Seq(S), s # <<>>, IsInjective(s), NEW e \in Range(Tail(s))
  PROVE  PlaceIn(Tail(s), e) <= PlaceIn(s, e)
  <1>1. PICK i \in DOMAIN Tail(s) : e = Tail(s)[i]
    BY DEF Range
  <1>2. i \in Nat /\ i + 1 \in DOMAIN s /\ Tail(s)[i] = s[i + 1]
    OBVIOUS
  <1>3. PlaceIn(Tail(s), e) = i
    BY <1>1, PlaceUnique, TailElements
  <1>4. PlaceIn(s, s[i + 1]) = i + 1
    BY <1>2, PlaceUnique
  <1> QED BY <1>1, <1>2, <1>3, <1>4

\* check_timer() wakes threads behind the queue.
LEMMA CheckTimerBehind ==
  ASSUME TypeOK, NEW rq \in CheckTimer
  PROVE  \E u \in Seq(Pid) : rq = ready_queue \o u
  <1>1. Woken \subseteq Timer
    BY DEF Woken, Popped, TypeOK
  <1>2. PICK w \in WakeOrders : rq = ready_queue \o [i \in DOMAIN w |-> w[i].thread]
    BY DEF CheckTimer
  <1>3. PICK n \in 0 .. MaxPid : w \in [1 .. n -> Woken]
    BY DEF WakeOrders
  <1>4. [i \in DOMAIN w |-> w[i].thread] \in [1 .. n -> Pid] /\ n \in Nat
    BY <1>1, <1>3, BoundsAssumption DEF Timer
  <1>5. [i \in DOMAIN w |-> w[i].thread] \in Seq(Pid)
    BY <1>4
  <1> QED BY <1>2, <1>5

\* A step puts threads behind the queue, takes its head or leaves it alone,
\* unless the queue was empty.
Behind ==
  /\ panic = "none" /\ (panic' = "none" \/ IsInjective(ready_queue'))
  /\ \E u \in Seq(Pid) : ready_queue' = ready_queue \o u
Taken == panic = "none" /\ panic' = "none" /\ ready_queue # <<>> /\ ready_queue' = Tail(ready_queue)

\* Resume, Suspend and fork on top of check_timer().
LEMMA TrapBehind ==
  ASSUME TypeOK, NEW rq \in CheckTimer, NEW p \in Pid, panic = "none", panic' = "none",
         ready_queue' \in {rq, Append(rq, p)}
  PROVE  Behind
  <1>1. PICK u \in Seq(Pid) : rq = ready_queue \o u
    BY CheckTimerBehind
  <1>2. ready_queue \in Seq(Pid)
    BY DEF TypeOK
  <1>3. Append(ready_queue \o u, p) = ready_queue \o Append(u, p) /\ Append(u, p) \in Seq(Pid)
    BY <1>2
  <1> QED BY <1>1, <1>3 DEF Behind

LEMMA QueueStep ==
  ASSUME Inv, [Next]_vars
  PROVE  \/ ready_queue' = ready_queue \/ ready_queue = <<>> \/ Behind \/ Taken
  <1>1. TypeOK /\ ready_queue \in Seq(Pid)
    BY DEF Inv, TypeOK
  <1>2. ASSUME NEW rq \in CheckTimer, UserMode, panic' = "none",
               \/ Resume(rq) \/ Suspend(rq) \/ ready_queue' = rq
               \/ NextId(pid_allocator) \in Pid /\ Resume(Append(rq, NextId(pid_allocator)))
        PROVE  Behind
    <2>1. current \in Pid /\ panic = "none"
      BY <1>2, CurrentFacts DEF UserMode, Running
    <2> QED BY <1>1, <1>2, <2>1, TrapBehind DEF Resume, Suspend
  <1>3. ASSUME NEW rq \in CheckTimer,
               \/ TimerInterrupt(rq) \/ sys_yield(rq) \/ OtherSyscall(rq)
               \/ \E req \in SleepTimes : sys_sleep(rq, req)
               \/ sys_clone(rq) \/ Exit(rq)
        PROVE  Behind
    <2>1. /\ UserMode /\ panic' = "none"
          /\ \/ Resume(rq) \/ Suspend(rq) \/ ready_queue' = rq
             \/ NextId(pid_allocator) \in Pid /\ Resume(Append(rq, NextId(pid_allocator)))
      BY <1>3 DEF TimerInterrupt, sys_yield, OtherSyscall, sys_sleep, sys_clone, Exit,
                  Free, UserMode, Running
    <2> QED BY <1>2, <2>1
  <1>4. ASSUME NEW rq, NEW pid, Running, current # None, Reap(rq, pid)
        PROVE  panic' = "none" /\ Resume(rq)
    <2>1. TypeOK /\ TableInv /\ current \in Pid
      BY <1>4, CurrentFacts DEF Running
    <2> QED BY <2>1, <1>4, ReapTable DEF Reap
  <1>5. ASSUME NEW rq \in CheckTimer, NEW pid \in Pid \cup {AnyChild}, sys_wait4(rq, pid)
        PROVE  Behind
    <2>1. UserMode /\ Running /\ current # None
      BY <1>5 DEF sys_wait4, Free, UserMode
    <2>2. panic' = "none" /\ (Resume(rq) \/ Suspend(rq))
      BY <1>4, <1>5, <2>1 DEF sys_wait4, NoChild, KeepWaiting, NoHang, Running
    <2> QED BY <1>2, <2>1, <2>2
  <1>6. ASSUME Wait4Again PROVE Behind \/ ready_queue' = ready_queue
    <2>1. PICK pid : /\ Running /\ current # None
                     /\ \/ Reap(ready_queue, pid) \/ NoChild(ready_queue, pid)
                        \/ KeepWaiting(ready_queue, pid)
      BY <1>6 DEF Wait4Again
    <2>2. CASE Resume(ready_queue)
      BY <2>2 DEF Resume
    <2>3. CASE KeepWaiting(ready_queue, pid)
      <3>1. panic = "none" /\ panic' = "none" /\ ready_queue' = Append(ready_queue, current)
        BY <2>1, <2>3 DEF KeepWaiting, Suspend, Running
      <3>2. current \in Pid
        BY <2>1, CurrentFacts DEF Running
      <3>3. Append(ready_queue, current) = ready_queue \o <<current>> /\ <<current>> \in Seq(Pid)
        BY <1>1, <3>2
      <3> QED BY <3>1, <3>3 DEF Behind
    <2> QED BY <2>1, <2>2, <2>3, <1>4 DEF NoChild
  <1>7. ASSUME NEW rq, SpawnApp(rq) \/ NoApp(rq) PROVE ready_queue = <<>>
    BY <1>7 DEF SpawnApp, NoApp
  <1>8. ASSUME FetchTask PROVE Taken \/ ready_queue' = ready_queue
    BY <1>8 DEF FetchTask, Dispatch, Idle, Running, Taken
  <1>9. ASSUME ExitOfInitproc \/ Tick \/ PoweredOff \/ UNCHANGED vars
        PROVE  ready_queue' = ready_queue
    BY <1>9 DEF ExitOfInitproc, Tick, PoweredOff, vars
  <1>10. ASSUME NEW rq \in CheckTimer, Unsupported(rq)
         PROVE  Behind
    <2>1. panic = "none" /\ ready_queue' = rq
      BY <1>10 DEF Unsupported, Free, UserMode, Running, Resume
    <2>2. IsInjective(rq)
      BY <2>1, TrapFacts DEF PlacedAt
    <2> QED BY <2>1, <2>2, <1>1, CheckTimerBehind DEF Behind
  <1> QED BY <1>3, <1>5, <1>6, <1>7, <1>8, <1>9, <1>10 DEF Next, Trap

(* FIFO scheduling: as long as a thread stays in the ready queue, its      *)
(* position never grows, whichever trap, wake-up, fork or dispatch comes.  *)
THEOREM Fifo == Spec => NoOvertaking
  <1>1. ASSUME Inv, Inv', [Next]_vars
        PROVE  [\A p \in Range(ready_queue) \cap Range(ready_queue') :
                  Position(p)' <= Position(p)]_vars
    <2> SUFFICES ASSUME NEW p \in Range(ready_queue) \cap Range(ready_queue')
                 PROVE  Position(p)' <= Position(p)
      OBVIOUS
    <2>1. Position(p) = PlaceIn(ready_queue, p) /\ Position(p)' = PlaceIn(ready_queue', p)
      BY DEF Position, PlaceIn
    <2>2. ready_queue \in Seq(Pid)
      BY <1>1 DEF Inv, TypeOK
    <2>3. panic = "none" => IsInjective(ready_queue)
      BY <1>1 DEF Inv, ThreadsPlaced, PlacedAt
    <2>4. panic' = "none" => IsInjective(ready_queue')
      BY <1>1 DEF Inv, ThreadsPlaced, PlacedAt
    <2>5. PlaceIn(ready_queue, p) \in Nat
      <3>1. PlaceIn(ready_queue, p) \in DOMAIN ready_queue
        BY DEF PlaceIn, Range
      <3> QED BY <3>1, <2>2
    <2>6. CASE ready_queue' = ready_queue
      BY <2>1, <2>5, <2>6
    <2>7. CASE ready_queue = <<>>
      BY <2>7 DEF Range
    <2>8. CASE Behind
      <3>1. PICK u \in Seq(Pid) : ready_queue' = ready_queue \o u
        BY <2>8 DEF Behind
      <3>2. IsInjective(ready_queue) /\ IsInjective(ready_queue \o u)
        BY <2>3, <2>4, <2>8, <3>1 DEF Behind
      <3>3. PlaceIn(ready_queue \o u, p) = PlaceIn(ready_queue, p)
        BY <2>2, <3>2, PlaceInLonger
      <3> QED BY <2>1, <2>5, <3>1, <3>3
    <2>9. CASE Taken
      <3>1. /\ ready_queue # <<>> /\ ready_queue' = Tail(ready_queue)
            /\ IsInjective(ready_queue) /\ p \in Range(Tail(ready_queue))
        BY <2>3, <2>9 DEF Taken
      <3>2. PlaceIn(Tail(ready_queue), p) <= PlaceIn(ready_queue, p)
        BY <2>2, <3>1, PlaceInTail
      <3> QED BY <2>1, <3>1, <3>2
    <2> QED BY <1>1, <2>6, <2>7, <2>8, <2>9, QueueStep
  <1> QED BY <1>1, Invariance, PTL DEF Spec, NoOvertaking

-----------------------------------------------------------------------------
(* Steps of Program are steps of Task.                                     *)

\* A trap of the batch build.
TaskTrap(rq) ==
  \/ sys_yield(rq) \/ OtherSyscall(rq) \/ Unsupported(rq) \/ NoApp(rq)
  \/ \E req \in SleepTimes : sys_sleep(rq, req)
  \/ \E pid \in Pid \cup {AnyChild} : sys_wait4(rq, pid)

LEMMA TaskStep ==
  ASSUME NEW rq \in CheckTimer,
         TaskTrap(rq) \/ sys_clone(rq) \/ Exit(rq) \/ SpawnApp(rq)
  PROVE  Next
  BY DEF Next, Trap, TaskTrap

\* All steps but the panic of an exec begin and end in states of Task.
LEMMA ProcessesStep ==
  ASSUME ProcessesInv, panic # StackPanic, Next
  PROVE  ProcessesInv'
  <1>1. Inv'
    BY NextInv DEF ProcessesInv
  <1> QED BY <1>1 DEF ProcessesInv, Inv, TypeOK

LEMMA RunningIsTask ==
  ASSUME ProcessesInv, panic = "none"
  PROVE  Inv /\ panic # StackPanic
  BY DEF ProcessesInv, StackPanic

\* The process on the processor has a program.
LEMMA CurrentProgram ==
  ASSUME ProgramInv, UserMode
  PROVE  /\ current \in Pid /\ current \in Threads
         /\ image[current] \in Paths
         /\ \A s \in Signal : handlers[current][s] \in {SIG_DFL, image[current]}
         /\ \A b \in mask[current] : b[2] = image[current]
  <1>1. Inv /\ panic = "none" /\ current # None
    BY RunningIsTask DEF ProgramInv, UserMode, Running
  <1>2. current \in Pid /\ current \in Threads /\ current \in Runnable
    BY <1>1, CurrentFacts
  <1> QED BY <1>2 DEF ProgramInv, Loaded, SignalsBelong

-----------------------------------------------------------------------------
(* Steps that change nothing a process carries.                            *)

LEMMA FewerThreads ==
  ASSUME ProgramInv, ProcessesInv', Threads' \subseteq Threads, UNCHANGED carried
  PROVE  ProgramInv'
  <1>1. ProgramTypeOK' /\ UncatchableStay' /\ StatusKept'
    BY DEF ProgramInv, ProgramTypeOK, UncatchableStay, StatusKept, carried
  <1>2. Runnable' \subseteq Runnable
    BY DEF Runnable
  <1>3. Loaded'
    BY <1>2 DEF ProgramInv, Loaded, carried
  <1>4. SignalsBelong'
    BY DEF ProgramInv, SignalsBelong, carried
  <1> QED BY <1>1, <1>3, <1>4 DEF ProgramInv

LEMMA TrapThreads ==
  ASSUME NEW rq, TaskTrap(rq)
  PROVE  live' \subseteq live /\ zombie' = zombie /\ panic = "none"
  <1>1. CASE sys_yield(rq) \/ OtherSyscall(rq) \/ Unsupported(rq) \/ NoApp(rq)
             \/ \E req \in SleepTimes : sys_sleep(rq, req)
    BY <1>1 DEF sys_yield, OtherSyscall, Unsupported, NoApp, sys_sleep, table, Free, UserMode, Idle, Running
  <1>2. CASE \E pid \in Pid \cup {AnyChild} : sys_wait4(rq, pid)
    BY <1>2 DEF sys_wait4, Reap, NoChild, KeepWaiting, NoHang, table, Free, UserMode, Running
  <1> QED BY <1>1, <1>2 DEF TaskTrap

LEMMA ElsewhereInv ==
  ASSUME ProgramInv, Elsewhere
  PROVE  ProgramInv'
  <1>1. CASE \E rq \in CheckTimer : TaskTrap(rq)
    <2>1. PICK rq \in CheckTimer : TaskTrap(rq)
      BY <1>1
    <2>2. live' \subseteq live /\ zombie' = zombie /\ panic = "none"
      BY <2>1, TrapThreads
    <2>3. ProcessesInv'
      BY <2>1, <2>2, TaskStep, ProcessesStep, RunningIsTask DEF ProgramInv
    <2> QED BY <2>2, <2>3, FewerThreads DEF Threads, Elsewhere
  <1>2. CASE Wait4Again \/ FetchTask \/ Tick
    <2>1. live' \subseteq live /\ zombie' = zombie /\ panic = "none"
      BY <1>2 DEF Wait4Again, Reap, NoChild, KeepWaiting, FetchTask, Tick, Idle, Running, table
    <2>2. ProcessesInv'
      BY <1>2, <2>1, ProcessesStep, RunningIsTask DEF ProgramInv, Next
    <2> QED BY <2>1, <2>2, FewerThreads DEF Threads, Elsewhere
  <1>3. CASE PoweredOff
    <2>1. UNCHANGED vars
      BY <1>3 DEF PoweredOff
    <2>2. ProcessesInv'
      <3>1. CASE panic = StackPanic
        <4>1. UNCHANGED <<panic, pid_allocator, live, parent, children, zombie>>
          BY <2>1 DEF vars, table
        <4>2. Threads' = Threads
          BY <4>1 DEF Threads
        <4> QED BY <3>1, <4>1, <4>2 DEF ProgramInv, ProcessesInv, ThreadsPlaced, ParentsOwn,
                                        Acyclic, PidsAccounted, StackPanic
      <3>2. CASE panic # StackPanic
        BY <3>2, <1>3, ProcessesStep DEF ProgramInv, Next
      <3> QED BY <3>1, <3>2
    <2>3. Threads' = Threads
      BY <2>1 DEF vars, table, Threads
    <2> QED BY <2>2, <2>3, FewerThreads DEF Elsewhere
  <1> QED BY <1>1, <1>2, <1>3 DEF Elsewhere, TaskTrap

\* The panic of an exec leaves everything as it is.
LEMMA TooLongInv ==
  ASSUME ProgramInv, NEW rq, NEW args, ExecveTooLong(rq, args)
  PROVE  ProgramInv'
  <1>1. /\ panic' = StackPanic /\ panic = "none"
        /\ UNCHANGED <<pid_allocator, table, ready_queue, current, timers>>
        /\ UNCHANGED carried
    BY DEF ExecveTooLong, UserMode, Running
  <1>2. Threads' = Threads
    BY <1>1 DEF Threads, table
  <1>3. ProcessesInv'
    BY <1>1, <1>2 DEF ProgramInv, ProcessesInv, ThreadsPlaced, ParentsOwn, Acyclic,
                      PidsAccounted, table, StackPanic
  <1> QED BY <1>1, <1>2, <1>3, FewerThreads

-----------------------------------------------------------------------------
(* Steps that change what one process carries.                             *)

\* It is enough to look at the process p: the others keep what they have,
\* and no other thread appears.
LEMMA OneProcess ==
  ASSUME ProgramInv, ProcessesInv', NEW p \in Pid, Threads' \subseteq Threads \cup {p},
         NEW i \in Paths, NEW h \in [Signal -> Paths \cup {SIG_DFL}],
         NEW m \in SUBSET (Signal \X Paths), NEW c \in Int, NEW s \in Int,
         image' = [image EXCEPT ![p] = i], handlers' = [handlers EXCEPT ![p] = h],
         mask' = [mask EXCEPT ![p] = m], exit_code' = [exit_code EXCEPT ![p] = c],
         said' = [said EXCEPT ![p] = s],
         \A x \in Signal : h[x] \in {SIG_DFL, i},
         \A x \in Signal \cap {SIGKILL, SIGSTOP} : h[x] = SIG_DFL,
         \A b \in m : b[2] = i,
         c % 256 = s % 256
  PROVE  ProgramInv'
  <1>1. ProgramTypeOK
    BY DEF ProgramInv
  <1>2. ProgramTypeOK'
    BY <1>1 DEF ProgramTypeOK
  <1>3. \A q \in Pid : /\ q = p => image'[q] = i /\ handlers'[q] = h /\ mask'[q] = m
                                   /\ exit_code'[q] = c /\ said'[q] = s
                       /\ q # p => image'[q] = image[q] /\ handlers'[q] = handlers[q]
                                   /\ mask'[q] = mask[q] /\ exit_code'[q] = exit_code[q]
                                   /\ said'[q] = said[q]
    BY <1>1 DEF ProgramTypeOK
  <1>4. UncatchableStay'
    BY <1>3 DEF ProgramInv, UncatchableStay
  <1>5. StatusKept'
    BY <1>3 DEF ProgramInv, StatusKept
  <1>6. Runnable' \subseteq Runnable \cup {p}
    BY DEF Runnable
  <1>7. Runnable' \subseteq Pid /\ Threads' \subseteq Pid
    <2>1. live' \subseteq Pid
      BY DEF ProcessesInv
    <2> QED BY <2>1 DEF Runnable, Threads
  <1>8. Loaded'
    BY <1>3, <1>6, <1>7 DEF ProgramInv, Loaded
  <1>9. SignalsBelong'
    BY <1>3, <1>7 DEF ProgramInv, SignalsBelong
  <1> QED BY <1>2, <1>4, <1>5, <1>8, <1>9 DEF ProgramInv

LEMMA OtherThreads ==
  ASSUME NEW rq, OtherSyscall(rq)
  PROVE  Threads' = Threads /\ UserMode /\ panic = "none"
  BY DEF OtherSyscall, table, Threads, UserMode, Running

LEMMA OtherProcesses ==
  ASSUME ProgramInv, NEW rq \in CheckTimer, OtherSyscall(rq)
  PROVE  ProcessesInv'
  BY OtherThreads, TaskStep, ProcessesStep, RunningIsTask DEF ProgramInv, TaskTrap

LEMMA Defaults ==
  /\ DefaultActions \in [Signal -> Paths \cup {SIG_DFL}]
  /\ \A i : \A s \in Signal : DefaultActions[s] \in {SIG_DFL, i}
  /\ \A s \in Signal \cap {SIGKILL, SIGSTOP} : DefaultActions[s] = SIG_DFL
  BY DEF DefaultActions

\* A process that starts with an empty mask.
LEMMA OneNewProcess ==
  ASSUME ProgramInv, ProcessesInv', NEW p \in Pid, Threads' \subseteq Threads \cup {p},
         NEW i \in Paths, NEW h \in [Signal -> Paths \cup {SIG_DFL}],
         NEW c \in Int, NEW s \in Int,
         image' = [image EXCEPT ![p] = i], handlers' = [handlers EXCEPT ![p] = h],
         mask' = [mask EXCEPT ![p] = {}], exit_code' = [exit_code EXCEPT ![p] = c],
         said' = [said EXCEPT ![p] = s],
         \A x \in Signal : h[x] \in {SIG_DFL, i},
         \A x \in Signal \cap {SIGKILL, SIGSTOP} : h[x] = SIG_DFL,
         c % 256 = s % 256
  PROVE  ProgramInv'
  <1> DEFINE m == {}
  <1>1. m \in SUBSET (Signal \X Paths) /\ \A b \in m : b[2] = i
    OBVIOUS
  <1>2. mask' = [mask EXCEPT ![p] = m]
    OBVIOUS
  <1> HIDE DEF m
  <1> QED BY <1>1, <1>2, OneProcess, ZenonT(40)

\* exec resets the actions and the mask together with the image.
LEMMA ExecveInv ==
  ASSUME ProgramInv, NEW rq \in CheckTimer, NEW path \in Paths, NEW args,
         Execve(rq, path, args)
  PROVE  ProgramInv'
  <1>1. OtherSyscall(rq) /\ LoadImage(current, path, args) /\ UNCHANGED <<exit_code, said>>
    BY DEF Execve
  <1>2. UserMode /\ Threads' = Threads /\ ProcessesInv'
    BY <1>1, OtherThreads, OtherProcesses
  <1>3. current \in Pid
    BY <1>2, CurrentProgram
  <1>4. exit_code \in [Pid -> Int] /\ said \in [Pid -> Int]
        /\ exit_code[current] % 256 = said[current] % 256
    BY <1>3 DEF ProgramInv, ProgramTypeOK, StatusKept
  <1>5. /\ exit_code' = [exit_code EXCEPT ![current] = exit_code[current]]
        /\ said' = [said EXCEPT ![current] = said[current]]
        /\ exit_code[current] \in Int /\ said[current] \in Int
    BY <1>1, <1>3, <1>4
  <1>6. /\ image' = [image EXCEPT ![current] = path]
        /\ handlers' = [handlers EXCEPT ![current] = DefaultActions]
        /\ mask' = [mask EXCEPT ![current] = {}]
    BY <1>1 DEF LoadImage
  <1> QED BY <1>2, <1>3, <1>4, <1>5, <1>6, Defaults, OneNewProcess

LEMMA ForkedThreads ==
  ASSUME ProgramInv, NEW p, NEW id \in Pid, Forked(p, id), panic = "none"
  PROVE  Threads' \subseteq Threads \cup {id}
  <1>1. zombie \in [Pid -> BOOLEAN]
    BY RunningIsTask DEF ProgramInv, Inv, TypeOK
  <1> QED BY <1>1 DEF Forked, Threads

LEMMA SpawnProgramInv ==
  ASSUME ProgramInv, NEW rq \in CheckTimer, NEW path \in Paths, NEW args,
         Spawn(rq, path, args)
  PROVE  ProgramInv'
  <1> DEFINE id == NextId(pid_allocator)
  <1>1. /\ SpawnApp(rq) /\ LoadImage(id, path, args)
        /\ exit_code' = [exit_code EXCEPT ![id] = 0]
        /\ said' = [said EXCEPT ![id] = 0]
    BY DEF Spawn
  <1>2. panic = "none" /\ id \in Pid /\ Forked(INITPROC, id)
    BY <1>1 DEF SpawnApp, Idle, Running
  <1>3. ProcessesInv'
    BY <1>1, <1>2, TaskStep, ProcessesStep, RunningIsTask DEF ProgramInv
  <1> HIDE DEF id
  <1>4. Threads' \subseteq Threads \cup {id}
    BY <1>2, ForkedThreads
  <1>5. /\ image' = [image EXCEPT ![id] = path]
        /\ handlers' = [handlers EXCEPT ![id] = DefaultActions]
        /\ mask' = [mask EXCEPT ![id] = {}]
    BY <1>1 DEF LoadImage
  <1> DEFINE code == 0
  <1>6. /\ code \in Int /\ exit_code' = [exit_code EXCEPT ![id] = code]
        /\ said' = [said EXCEPT ![id] = code]
    BY <1>1
  <1> HIDE DEF code
  <1> QED BY <1>2, <1>3, <1>4, <1>5, <1>6, Defaults, OneNewProcess

\* fork copies the image and the actions and empties the mask.
LEMMA ForkInv ==
  ASSUME ProgramInv, NEW rq \in CheckTimer, Fork(rq)
  PROVE  ProgramInv'
  <1> DEFINE id == NextId(pid_allocator)
  <1>1. /\ sys_clone(rq)
        /\ image' = [image EXCEPT ![id] = image[current]]
        /\ handlers' = [handlers EXCEPT ![id] = handlers[current]]
        /\ mask' = [mask EXCEPT ![id] = {}]
        /\ exit_code' = [exit_code EXCEPT ![id] = 0]
        /\ said' = [said EXCEPT ![id] = 0]
    BY DEF Fork
  <1>2. panic = "none" /\ UserMode /\ id \in Pid /\ Forked(current, id)
    BY <1>1 DEF sys_clone, Free, UserMode, Running
  <1>3. ProcessesInv'
    BY <1>1, <1>2, TaskStep, ProcessesStep, RunningIsTask DEF ProgramInv
  <1> HIDE DEF id
  <1>4. Threads' \subseteq Threads \cup {id}
    BY <1>2, ForkedThreads
  <1>5. /\ current \in Pid /\ image[current] \in Paths
        /\ \A s \in Signal : handlers[current][s] \in {SIG_DFL, image[current]}
    BY <1>2, CurrentProgram
  <1>6. /\ handlers[current] \in [Signal -> Paths \cup {SIG_DFL}]
        /\ \A s \in Signal \cap {SIGKILL, SIGSTOP} : handlers[current][s] = SIG_DFL
    BY <1>5 DEF ProgramInv, ProgramTypeOK, UncatchableStay
  <1> DEFINE code == 0
  <1>7. /\ code \in Int /\ exit_code' = [exit_code EXCEPT ![id] = code]
        /\ said' = [said EXCEPT ![id] = code]
    BY <1>1
  <1> HIDE DEF code
  <1>8. /\ image' = [image EXCEPT ![id] = image[current]]
        /\ handlers' = [handlers EXCEPT ![id] = handlers[current]]
        /\ mask' = [mask EXCEPT ![id] = {}]
    BY <1>1
  <1> QED BY <1>2, <1>3, <1>4, <1>5, <1>6, <1>7, <1>8, OneNewProcess

\* The end of a process: what is kept of the status has its low byte.
LEMMA EndInv ==
  ASSUME ProgramInv, NEW rq \in CheckTimer, NEW status \in Int, NEW code \in Int,
         EndWith(rq, status, code), code % 256 = status % 256
  PROVE  ProgramInv'
  <1>1. /\ Exit(rq)
        /\ exit_code' = [exit_code EXCEPT ![current] = code]
        /\ said' = [said EXCEPT ![current] = status]
        /\ UNCHANGED <<image, handlers, mask>>
    BY DEF EndWith
  <1>2. panic = "none" /\ UserMode
    BY <1>1 DEF Exit, Free, UserMode, Running
  <1>3. ProcessesInv'
    BY <1>1, <1>2, TaskStep, ProcessesStep, RunningIsTask DEF ProgramInv
  <1>4. /\ current \in Pid /\ image[current] \in Paths
        /\ \A s \in Signal : handlers[current][s] \in {SIG_DFL, image[current]}
        /\ \A b \in mask[current] : b[2] = image[current]
    BY <1>2, CurrentProgram
  <1>5. Threads' \subseteq Threads
    <2>1. zombie \in [Pid -> BOOLEAN]
      BY <1>2, RunningIsTask DEF ProgramInv, Inv, TypeOK
    <2> QED BY <2>1, <1>1, <1>4 DEF Exit, Threads
  <1>6. /\ handlers[current] \in [Signal -> Paths \cup {SIG_DFL}]
        /\ mask[current] \in SUBSET (Signal \X Paths)
        /\ \A s \in Signal \cap {SIGKILL, SIGSTOP} : handlers[current][s] = SIG_DFL
    BY <1>4 DEF ProgramInv, ProgramTypeOK, UncatchableStay
  <1>7. /\ image' = [image EXCEPT ![current] = image[current]]
        /\ handlers' = [handlers EXCEPT ![current] = handlers[current]]
        /\ mask' = [mask EXCEPT ![current] = mask[current]]
    BY <1>1, <1>4 DEF ProgramInv, ProgramTypeOK
  <1> QED BY <1>1, <1>3, <1>4, <1>5, <1>6, <1>7, OneProcess

\* The calls of a running program that change its signals.
LEMMA SignalsChanged ==
  ASSUME ProgramInv, NEW rq \in CheckTimer, OtherSyscall(rq),
         NEW h \in [Signal -> Paths \cup {SIG_DFL}], NEW m \in SUBSET (Signal \X Paths),
         handlers' = [handlers EXCEPT ![current] = h], mask' = [mask EXCEPT ![current] = m],
         \A x \in Signal : h[x] \in {SIG_DFL, image[current]},
         \A x \in Signal \cap {SIGKILL, SIGSTOP} : h[x] = SIG_DFL,
         \A b \in m : b[2] = image[current],
         UNCHANGED <<image, exit_code, said>>
  PROVE  ProgramInv'
  <1> DEFINE i == image[current]
             c == exit_code[current]
             s == said[current]
  <1>1. UserMode /\ ProcessesInv' /\ Threads' \subseteq Threads \cup {current}
    BY OtherThreads, OtherProcesses
  <1>2. current \in Pid /\ i \in Paths
    BY <1>1, CurrentProgram
  <1>3. /\ image' = [image EXCEPT ![current] = i]
        /\ exit_code' = [exit_code EXCEPT ![current] = c]
        /\ said' = [said EXCEPT ![current] = s]
        /\ c \in Int /\ s \in Int /\ c % 256 = s % 256
    BY <1>2 DEF ProgramInv, ProgramTypeOK, StatusKept
  <1>4. /\ \A x \in Signal : h[x] \in {SIG_DFL, i}
        /\ \A b \in m : b[2] = i
    OBVIOUS
  <1> HIDE DEF i, c, s
  <1> QED BY ONLY ProgramInv, h \in [Signal -> Paths \cup {SIG_DFL}],
                  m \in SUBSET (Signal \X Paths),
                  handlers' = [handlers EXCEPT ![current] = h],
                  mask' = [mask EXCEPT ![current] = m],
                  \A x \in Signal \cap {SIGKILL, SIGSTOP} : h[x] = SIG_DFL,
                  <1>1, <1>2, <1>3, <1>4, OneProcess

\* The cast to u8 comes before the test for SIGKILL and SIGSTOP.
LEMMA SigactionInv ==
  ASSUME ProgramInv, NEW rq \in CheckTimer, NEW signum \in Signums,
         NEW act \in Paths \cup {SIG_DFL}, sys_sigaction(rq, signum, act)
  PROVE  ProgramInv'
  <1> DEFINE s == AsU8(signum)
             h == [handlers[current] EXCEPT ![s] = act]
  <1>1. /\ OtherSyscall(rq) /\ act \in {SIG_DFL, image[current]}
        /\ s \in Signal /\ s \notin {SIGKILL, SIGSTOP}
        /\ handlers' = [handlers EXCEPT ![current][s] = act]
        /\ UNCHANGED <<image, mask, exit_code, said>>
    BY DEF sys_sigaction, MayHandle
  <1> HIDE DEF s
  <1>2. /\ current \in Pid /\ image[current] \in Paths
        /\ \A x \in Signal : handlers[current][x] \in {SIG_DFL, image[current]}
        /\ \A b \in mask[current] : b[2] = image[current]
    BY <1>1, OtherThreads, CurrentProgram
  <1>3. /\ handlers \in [Pid -> [Signal -> Paths \cup {SIG_DFL}]]
        /\ mask \in [Pid -> SUBSET (Signal \X Paths)]
        /\ \A x \in Signal \cap {SIGKILL, SIGSTOP} : handlers[current][x] = SIG_DFL
    BY <1>2 DEF ProgramInv, ProgramTypeOK, UncatchableStay
  <1>4. handlers' = [handlers EXCEPT ![current] = h]
    BY <1>1, <1>2, <1>3
  <1>5. h \in [Signal -> Paths \cup {SIG_DFL}]
    BY <1>1, <1>2, <1>3
  <1>6. \A x \in Signal : h[x] = IF x = s THEN act ELSE handlers[current][x]
    BY <1>2, <1>3
  <1> HIDE DEF h
  <1>7. \A x \in Signal : h[x] \in {SIG_DFL, image[current]}
    BY <1>1, <1>2, <1>6
  <1>8. \A x \in Signal \cap {SIGKILL, SIGSTOP} : h[x] = SIG_DFL
    BY <1>1, <1>3, <1>6
  <1>9. mask[current] \in SUBSET (Signal \X Paths)
        /\ mask' = [mask EXCEPT ![current] = mask[current]]
    BY <1>1, <1>2, <1>3
  <1> QED BY <1>1, <1>2, <1>4, <1>5, <1>7, <1>8, <1>9, SignalsChanged

\* Whatever is blocked is blocked by the program that runs.
LEMMA SigprocmaskInv ==
  ASSUME ProgramInv, NEW rq \in CheckTimer,
         NEW how \in {"SIG_BLOCK", "SIG_UNBLOCK", "SIG_SETMASK"}, NEW set \in Masks,
         NEW same \in BOOLEAN, sys_sigprocmask(rq, how, set, same)
  PROVE  ProgramInv'
  <1> DEFINE passed == Passed(set, same)
             m == Masked(how, mask[current], passed)
  <1>1. /\ OtherSyscall(rq)
        /\ mask' = [mask EXCEPT ![current] = Masked(how, @, passed)]
        /\ UNCHANGED <<image, handlers, exit_code, said>>
    BY DEF sys_sigprocmask
  <1>2. /\ current \in Pid /\ image[current] \in Paths
        /\ \A x \in Signal : handlers[current][x] \in {SIG_DFL, image[current]}
        /\ \A b \in mask[current] : b[2] = image[current]
    BY <1>1, OtherThreads, CurrentProgram
  <1>3. /\ handlers \in [Pid -> [Signal -> Paths \cup {SIG_DFL}]]
        /\ mask \in [Pid -> SUBSET (Signal \X Paths)]
        /\ \A x \in Signal \cap {SIGKILL, SIGSTOP} : handlers[current][x] = SIG_DFL
    BY <1>2 DEF ProgramInv, ProgramTypeOK, UncatchableStay
  <1>4. passed \subseteq Signal
    <2>1. set \subseteq Signal
      BY MaskAssumption
    <2>2. \A b \in mask[current] : b[1] \in Signal
      BY <1>2, <1>3
    <2> QED BY <2>1, <2>2 DEF Passed
  <1> HIDE DEF passed
  <1>5. /\ Named(passed) \in SUBSET (Signal \X Paths)
        /\ \A b \in Named(passed) : b[2] = image[current]
    BY <1>2, <1>4 DEF Named
  <1>6. mask[current] \in SUBSET (Signal \X Paths)
    BY <1>2, <1>3
  <1>7. m \subseteq mask[current] \cup Named(passed)
    BY DEF Masked
  <1>8. m \in SUBSET (Signal \X Paths) /\ \A b \in m : b[2] = image[current]
    BY <1>2, <1>5, <1>6, <1>7
  <1>9. mask' = [mask EXCEPT ![current] = m]
    BY <1>1, <1>2, <1>3
  <1>10. handlers[current] \in [Signal -> Paths \cup {SIG_DFL}]
         /\ handlers' = [handlers EXCEPT ![current] = handlers[current]]
    BY <1>1, <1>2, <1>3
  <1> HIDE DEF m
  <1> QED BY <1>1, <1>2, <1>3, <1>8, <1>9, <1>10, SignalsChanged

LEMMA ProgramInitInv ==
  ASSUME PInit
  PROVE  ProgramInv
  <1>1. Inv
    BY InitInv DEF PInit
  <1>2. ProcessesInv
    BY <1>1 DEF ProcessesInv, Inv, TypeOK
  <1>3. ProgramTypeOK /\ UncatchableStay /\ SignalsBelong /\ StatusKept
    <2>1. \A p \in Pid : /\ image[p] = NoProgram /\ handlers[p] = DefaultActions
                         /\ mask[p] = {} /\ exit_code[p] = 0 /\ said[p] = 0
      BY DEF PInit
    <2>2. ProgramTypeOK
      BY Defaults DEF PInit, ProgramTypeOK
    <2>3. UncatchableStay /\ StatusKept
      BY <2>1, Defaults DEF UncatchableStay, StatusKept
    <2>4. Threads \subseteq Pid
      BY <1>2 DEF ProcessesInv, Threads
    <2>5. SignalsBelong
      BY <2>1, <2>4, Defaults DEF SignalsBelong
    <2> QED BY <2>2, <2>3, <2>5
  <1>4. Loaded
    BY DEF PInit, Init, Loaded, Runnable, Threads
  <1> QED BY <1>2, <1>3, <1>4 DEF ProgramInv

LEMMA ProgramNextInv ==
  ASSUME ProgramInv, [PNext]_pvars
  PROVE  ProgramInv'
  <1>1. CASE Elsewhere
    BY <1>1, ElsewhereInv
  <1>2. ASSUME NEW rq \in CheckTimer,
               \/ \E path \in Paths, args \in ArgLists : Execve(rq, path, args)
               \/ \E args \in ArgLists : ExecveTooLong(rq, args)
               \/ \E path \in Paths, args \in ArgLists : Spawn(rq, path, args)
               \/ Fork(rq)
        PROVE  ProgramInv'
    BY <1>2, ExecveInv, TooLongInv, SpawnProgramInv, ForkInv
  <1>3. ASSUME NEW rq \in CheckTimer, NEW code \in ExitArgs, sys_exit(rq, code)
        PROVE  ProgramInv'
    <2>1. code \in Int /\ ExitByte(code) \in Int /\ ExitByte(code) % 256 = code % 256
      BY ProgramAssumption DEF ExitByte
    <2> QED BY <1>3, <2>1, EndInv DEF sys_exit
  <1>4. ASSUME NEW rq \in CheckTimer, NEW code \in {-2, -3, -10}, Fault(rq, code)
        PROVE  ProgramInv'
    <2>1. code \in Int
      OBVIOUS
    <2>2. EndWith(rq, code, code)
      BY <1>4 DEF Fault
    <2> QED BY <2>1, <2>2, EndInv
  <1>5. ASSUME NEW rq \in CheckTimer,
               \/ \E signum \in Signums, act \in Paths \cup {SIG_DFL} :
                    sys_sigaction(rq, signum, act)
               \/ \E how \in {"SIG_BLOCK", "SIG_UNBLOCK", "SIG_SETMASK"}, set \in Masks,
                     same \in BOOLEAN : sys_sigprocmask(rq, how, set, same)
        PROVE  ProgramInv'
    BY <1>5, SigactionInv, SigprocmaskInv
  <1>6. CASE UNCHANGED pvars
    <2>1. UNCHANGED vars /\ UNCHANGED carried
      BY <1>6 DEF pvars
    <2>2. Threads' = Threads
      BY <2>1 DEF vars, table, Threads
    <2>3. ProcessesInv'
      <3>1. panic # StackPanic => Inv'
        BY <2>1, NextInv DEF ProgramInv, ProcessesInv
      <3>2. UNCHANGED <<panic, pid_allocator, live, parent, children, zombie,
                        ready_queue, timers, current>>
        BY <2>1 DEF vars, table
      <3> QED BY <3>1, <3>2, <2>2 DEF ProgramInv, ProcessesInv, ThreadsPlaced, ParentsOwn,
                                      Acyclic, PidsAccounted, Runnable
    <2> QED BY <2>1, <2>2, <2>3, FewerThreads
  <1>7. CASE PNext
    BY <1>1, <1>2, <1>3, <1>4, <1>5, <1>7 DEF PNext
  <1> QED BY <1>6, <1>7

-----------------------------------------------------------------------------
(* Theorems.                                                               *)

(* Whatever programs are started, forked, replaced and killed in the batch *)
(* build, ProgramInv holds: it is inductive.                               *)
THEOREM ProgramInvariance == ProgramSpec => []ProgramInv
  <1>1. PInit => ProgramInv
    BY ProgramInitInv
  <1>2. ProgramInv /\ [PNext]_pvars => ProgramInv'
    BY ProgramNextInv
  <1> QED BY <1>1, <1>2, PTL DEF ProgramSpec

(* The scheduler's and the process table's invariants hold of processes    *)
(* that exec, exit with a code and handle signals, also when an exec has   *)
(* panicked on arguments that do not fit.                                  *)
THEOREM ProgramProcesses ==
  ProgramSpec => [](ThreadsPlaced /\ ParentsOwn /\ Acyclic /\ PidsAccounted)
  <1>1. ProgramInv => ThreadsPlaced /\ ParentsOwn /\ Acyclic /\ PidsAccounted
    BY DEF ProgramInv, ProcessesInv
  <1> QED BY <1>1, ProgramInvariance, PTL

(* Signal actions and masks never outlive the program that set them: exec  *)
(* resets them, fork copies the actions with the image and not the mask.   *)
THEOREM SignalOwnership == ProgramSpec => []SignalsBelong
  <1>1. ProgramInv => SignalsBelong
    BY DEF ProgramInv
  <1> QED BY <1>1, ProgramInvariance, PTL

(* No number that a program passes to sigaction, also none that the cast   *)
(* to u8 changes, gives SIGKILL or SIGSTOP an action.                      *)
THEOREM Uncatchable == ProgramSpec => []UncatchableStay
  <1>1. ProgramInv => UncatchableStay
    BY DEF ProgramInv
  <1> QED BY <1>1, ProgramInvariance, PTL

(* Whoever reclaims a child decodes the low byte of the status it ended    *)
(* with, for every integer that is passed to exit().                       *)
THEOREM StatusDelivery == ProgramSpec => StatusDelivered
  <1> DEFINE Decoded(c) == LET status == WStatus(exit_code[c]) IN
               /\ WaitpidCode(status) = SignExtend(said[c] % 256)
               /\ InitprocCode(status) % 256 = said[c] % 256
  <1>1. ASSUME ProgramInv, NEW c \in live
        PROVE  Decoded(c)
    <2>1. c \in Pid
      BY <1>1 DEF ProgramInv, ProcessesInv
    <2>2. exit_code[c] \in Int /\ exit_code[c] % 256 = said[c] % 256
      BY <1>1, <2>1 DEF ProgramInv, ProgramTypeOK, StatusKept
    <2>3. WStatus(exit_code[c]) \div 256 = exit_code[c]
      BY <2>2 DEF WStatus
    <2> QED BY <2>2, <2>3 DEF WaitpidCode, InitprocCode
  <1>2. ProgramInv => [\A c \in live \ live' : Decoded(c)]_pvars
    BY <1>1
  <1> QED BY <1>2, ProgramInvariance, PTL DEF StatusDelivered
=============================================================================
