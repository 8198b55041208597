-------------------------------- MODULE Task --------------------------------
(***************************************************************************)
(* Processes and scheduling of the kernel (crate `major`, directories      *)
(* task/ and trap/): the pid allocator, the process tree, the ready queue, *)
(* the timer heap, the processor, and the traps and system calls that move *)
(* a process between them.                                                 *)
(*                                                                         *)
(* The kernel runs on one hart with interrupts off: a trap runs from       *)
(* `__trap_handler` to the return to user mode, or to the point where it   *)
(* gives the processor up, without interference.  One action is one such   *)
(* run.  `run_tasks` is the idle control flow between two of them.         *)
(* Every process has one thread (sys_clone accepts no flag that would      *)
(* create a second one), so a process, its main thread and its pid (held   *)
(* by the PCB as long as it is allocated) are the same value here.         *)
(***************************************************************************)
EXTENDS Integers, Sequences, Functions

CONSTANTS
  MaxPid,      \* bound: fork is not taken when it would need a larger pid
  Test,        \* the cargo feature "test" (batch mode of the contest build)
  NumApps,     \* length of ALL_APPS in test mode
  SleepTimes,  \* durations a program passes to sys_sleep, in clock units
  MaxTime,     \* bound on the clock
  Word         \* 2^w, the modulus of a usize

ASSUME BoundsAssumption == MaxPid \in Nat \ {0} /\ MaxTime \in Nat
ASSUME ModeAssumption == Test \in BOOLEAN /\ NumApps \in Nat
ASSUME WordAssumption ==
  /\ Word \in Nat \ {0} /\ Word % 2 = 0 /\ MaxTime < Word \div 2
  /\ SleepTimes \subseteq 0 .. Word - 1

Pid == 1 .. MaxPid
None == 0              \* Option::None, and an expired Weak
INITPROC == 1          \* PID_ALLOCATOR begins with 1
AnyChild == -1         \* the `pid` argument of sys_wait4 that matches any child
NoWait == -2           \* the thread is not inside sys_wait4

VARIABLES
  pid_allocator,  \* [current, recycled], the fields of RecycleAllocator
  live,           \* pids of the PCBs that have not been dropped
  parent,         \* PCB field: Weak reference to the parent
  children,       \* PCB field: Vec of the children, owned
  zombie,         \* PCB field is_zombie
  ready_queue,    \* TaskManager
  current,        \* Processor
  timers,         \* TIMERS: the heap's elements
  waiting,        \* per thread: the `pid` argument of the wait4 it loops in
  now,            \* get_time_ms()
  apps,           \* test mode: how many names are left in ALL_APPS
  initpc,         \* where the program initproc is
  panic           \* the panic that stopped the kernel, or "none"

table == <<live, parent, children, zombie>>
vars == <<pid_allocator, table, ready_queue, current, timers, waiting, now,
          apps, initpc, panic>>

Timer == [expire_ms : 0 .. Word - 1, thread : Pid]
Panics == {"none", "unsupported", "No more tasks available.", "upgrade of a dead process",
           "already borrowed", "id has been deallocated"}

TypeOK ==
  /\ pid_allocator \in [current : Nat, recycled : Seq(Nat)]
  /\ live \subseteq Pid
  /\ parent \in [Pid -> Pid \cup {None}]
  /\ children \in [Pid -> Seq(Pid)]
  /\ zombie \in [Pid -> BOOLEAN]
  /\ ready_queue \in Seq(Pid)
  /\ current \in Pid \cup {None}
  /\ timers \subseteq Timer
  /\ waiting \in [Pid -> Pid \cup {AnyChild, NoWait}]
  /\ now \in 0 .. MaxTime
  /\ apps \in Nat
  /\ initpc \in {"fork", "wait", "yield", "exit", "none"}
  /\ panic \in Panics

(* Boot: INITPROC is the only process. Without feature "test" its main     *)
(* thread is the first element of the ready queue; with it, INITPROC is an *)
(* empty process that never runs and the apps become its children.         *)
Init ==
  /\ pid_allocator = [current |-> INITPROC + 1, recycled |-> <<>>]
  /\ live = {INITPROC}
  /\ parent = [p \in Pid |-> None]
  /\ children = [p \in Pid |-> <<>>]
  /\ zombie = [p \in Pid |-> FALSE]
  /\ ready_queue = IF Test THEN <<>> ELSE <<INITPROC>>
  /\ current = None
  /\ timers = {}
  /\ waiting = [p \in Pid |-> NoWait]
  /\ now = 0
  /\ apps = IF Test THEN NumApps ELSE 0
  /\ initpc = IF Test THEN "none" ELSE "fork"
  /\ panic = "none"

-----------------------------------------------------------------------------
(* RecycleAllocator: the last id given back is the next one handed out.    *)

NextId(a) == IF a.recycled = <<>> THEN a.current
             ELSE a.recycled[Len(a.recycled)]

Alloc(a) ==
  IF a.recycled = <<>> THEN [a EXCEPT !.current = a.current + 1]
  ELSE [a EXCEPT !.recycled = SubSeq(a.recycled, 1, Len(a.recycled) - 1)]

\* The two assertions of `dealloc`.
MayDealloc(a, id) == id < a.current /\ id \notin Range(a.recycled)

\* Mutant: the id is not given back.
DeallocNothing(a, id) == a

Dealloc(a, id) == [a EXCEPT !.recycled = Append(a.recycled, id)]

-----------------------------------------------------------------------------
(* The timer heap.  BinaryHeap pops the greatest key, and the key of a     *)
(* timer is -(expire_ms as isize): the cast and the negation wrap.         *)

AsIsize(x) == IF x >= Word \div 2 THEN x - Word ELSE x
Key(t) == LET i == AsIsize(t.expire_ms)
          IN  IF i = -(Word \div 2) THEN i ELSE -i

Due(t) == t.expire_ms <= now

(* check_timer() pops as long as the top of the heap is due.  A popped     *)
(* thread whose process still exists goes to the ready queue; timers with  *)
(* equal keys leave the heap in any order.                                 *)
Popped == {t \in timers : \A u \in timers : Key(u) >= Key(t) => Due(u)}

\* Mutant: a timer is popped at its time but the thread is woken only after it.
WokenLate == {t \in Popped : t.thread \in live /\ t.expire_ms < now}

Woken == {t \in Popped : t.thread \in live}

WakeOrders ==
  {w \in UNION {[1 .. n -> Woken] : n \in 0 .. MaxPid} :
     /\ IsInjective(w) /\ Range(w) = Woken
     /\ \A i, j \in DOMAIN w : i < j => Key(w[i]) >= Key(w[j])}

\* The ready queues check_timer() may leave behind.
CheckTimer == {ready_queue \o [i \in DOMAIN w |-> w[i].thread] : w \in WakeOrders}

-----------------------------------------------------------------------------
(* What traps and system calls share.                                      *)

Running == panic = "none"
UserMode == Running /\ current # None /\ waiting[current] = NoWait

\* A program other than initproc may do anything.
Free == UserMode /\ current # INITPROC

\* A trap that comes back to the same program.
Resume(rq) ==
  /\ ready_queue' = rq
  /\ UNCHANGED current

\* Mutant: to the head of the queue.
SuspendFirst(rq) ==
  /\ ready_queue' = <<current>> \o rq
  /\ current' = None

\* __suspend_curr_and_run_next: to the tail of the queue, then to the idle flow.
Suspend(rq) ==
  /\ ready_queue' = Append(rq, current)
  /\ current' = None

\* The clock and the app list change in no trap.
Untouched == UNCHANGED <<now, apps>>

-----------------------------------------------------------------------------
(* Traps.  `rq` is the ready queue as check_timer() leaves it at the start *)
(* of __trap_handler; every trap also removes the timers it popped.        *)

\* SupervisorTimer interrupt; test mode does not enable it.
TimerInterrupt(rq) ==
  /\ ~Test /\ UserMode
  /\ Suspend(rq)
  /\ timers' = timers \ Popped
  /\ Untouched /\ UNCHANGED <<pid_allocator, table, waiting, initpc, panic>>

\* initproc yields each time wait4 has told it that no child has exited yet.
sys_yield(rq) ==
  /\ Free \/ (UserMode /\ initpc = "yield")
  /\ Suspend(rq)
  /\ timers' = timers \ Popped
  /\ initpc' = IF current = INITPROC THEN "wait" ELSE initpc
  /\ Untouched /\ UNCHANGED <<pid_allocator, table, waiting, panic>>

\* Every system call that leaves all of this state alone: getpid, write to
\* the console, brk, sigaction, ..., and every one that returns an error.
\* Those that panic instead are Unsupported.
OtherSyscall(rq) ==
  /\ UserMode
  /\ Resume(rq)
  /\ timers' = timers \ Popped
  /\ Untouched /\ UNCHANGED <<pid_allocator, table, waiting, initpc, panic>>

\* What a program may do and the kernel answers with a panic: a trap it does
\* not handle; wait4 for a process group or with rusage, execve with an
\* environment and other arguments that are asserted; the calls that are
\* todo!(); a pointer or a file that cannot serve the call (modules Program
\* and FdTable have some of these).  initproc does none of it.
Unsupported(rq) ==
  /\ Free
  /\ panic' = "unsupported"
  /\ Resume(rq)
  /\ timers' = timers \ Popped
  /\ Untouched /\ UNCHANGED <<pid_allocator, table, waiting, initpc>>

\* The addition of usize wraps in a release build (both operands are < Word).
WrappingAdd(a, b) == IF a + b < Word THEN a + b ELSE a + b - Word

sys_sleep(rq, req) ==
  LET expire == WrappingAdd(now, req) IN
  /\ Free
  /\ expire <= MaxTime \/ expire >= Word \div 2
  /\ timers' = (timers \ Popped) \cup {[expire_ms |-> expire, thread |-> current]}
  /\ ready_queue' = rq
  /\ current' = None
  /\ Untouched /\ UNCHANGED <<pid_allocator, table, waiting, initpc, panic>>

\* fork(): a new PCB at the end of the parent's children, its thread at the
\* end of the ready queue.  (Its thread starts in user mode.)
Forked(p, id) ==
  /\ pid_allocator' = Alloc(pid_allocator)
  /\ live' = live \cup {id}
  /\ parent' = [parent EXCEPT ![id] = p]
  /\ children' = [children EXCEPT ![id] = <<>>, ![p] = Append(@, id)]
  /\ zombie' = [zombie EXCEPT ![id] = FALSE]
  /\ waiting' = [waiting EXCEPT ![id] = NoWait]

sys_clone(rq) ==
  LET id == NextId(pid_allocator) IN
  /\ Free \/ (UserMode /\ initpc = "fork")
  /\ id \in Pid
  /\ Forked(current, id)
  /\ Resume(Append(rq, id))
  /\ timers' = timers \ Popped
  /\ initpc' = IF current = INITPROC THEN "wait" ELSE initpc
  /\ Untouched /\ UNCHANGED panic

\* Mutant: the children keep their Weak reference to the exiting process.
ReparentNot(p) ==
  /\ UNCHANGED parent
  /\ children' = [children EXCEPT ![p] = <<>>,
                                  ![INITPROC] = @ \o children[p]]

\* The children of an exiting process are handed to INITPROC.
Reparent(p) ==
  /\ parent' = [c \in Pid |-> IF c \in Range(children[p]) THEN INITPROC
                              ELSE parent[c]]
  /\ children' = [children EXCEPT ![p] = <<>>,
                                  ![INITPROC] = @ \o children[p]]

\* __exit_curr_and_run_next of a main thread, from sys_exit, a fault or an
\* unknown system call.  The PCB stays, owned by the parent.
Exit(rq) ==
  /\ Free
  /\ zombie' = [zombie EXCEPT ![current] = TRUE]
  /\ Reparent(current)
  /\ ready_queue' = rq
  /\ current' = None
  /\ timers' = timers \ Popped
  /\ Untouched /\ UNCHANGED <<pid_allocator, live, waiting, initpc, panic>>

\* INITPROC's pid is 1, so its exit passes the test `pid != 0` and borrows
\* the PCB of INITPROC a second time.
ExitOfInitproc ==
  /\ UserMode /\ current = INITPROC /\ initpc = "exit"
  /\ panic' = "already borrowed"
  /\ Untouched
  /\ UNCHANGED <<pid_allocator, table, ready_queue, current, timers, waiting,
                 initpc>>

-----------------------------------------------------------------------------
(* sys_wait4.  One action is one iteration of its loop.                    *)

\* Mutant: has_proper_child is set for zombies only.
MatchingZombies(p, pid) ==
  {i \in DOMAIN children[p] :
     (pid = AnyChild \/ children[p][i] = pid) /\ zombie[children[p][i]]}

Matching(p, pid) ==
  {i \in DOMAIN children[p] : pid = AnyChild \/ children[p][i] = pid}

\* Mutant: is_zombie is not tested.
ExitedOrNot(p, pid) == Matching(p, pid)

Exited(p, pid) == {i \in Matching(p, pid) : zombie[children[p][i]]}

\* Mutant: every child overwrites child_index, the last one decides.
LastIfExited(p, pid) == {i \in Exited(p, pid) : i = Len(children[p])}

\* The scan keeps the last index it meets.
LastExited(p, pid) ==
  {i \in Exited(p, pid) : \A j \in Exited(p, pid) : j <= i}

Without(s, i) == SubSeq(s, 1, i - 1) \o SubSeq(s, i + 1, Len(s))

\* children.remove(index), then the PCB is dropped and its pid given back,
\* which panics if it is not one of the ids in use.
\* The same happens when `wstatus` turns out to be a bad pointer afterwards.
Reap(rq, pid) ==
  \E i \in LastExited(current, pid) : LET c == children[current][i] IN
  /\ panic' = IF MayDealloc(pid_allocator, c) THEN "none"
              ELSE "id has been deallocated"
  /\ pid_allocator' = Dealloc(pid_allocator, c)
  /\ live' = live \ {c}
  /\ children' = [children EXCEPT ![current] = Without(@, i)]
  /\ waiting' = [waiting EXCEPT ![current] = NoWait]
  /\ Resume(rq)
  /\ UNCHANGED <<parent, zombie, initpc>>

\* ECHILD, upon which initproc leaves its loop.
NoChild(rq, pid) ==
  /\ Matching(current, pid) = {}
  /\ waiting' = [waiting EXCEPT ![current] = NoWait]
  /\ initpc' = IF current = INITPROC THEN "exit" ELSE initpc
  /\ Resume(rq)
  /\ UNCHANGED <<pid_allocator, table, panic>>

\* Children, none of them a zombie: give way and look again.
KeepWaiting(rq, pid) ==
  /\ Matching(current, pid) # {} /\ Exited(current, pid) = {}
  /\ waiting' = [waiting EXCEPT ![current] = pid]
  /\ Suspend(rq)
  /\ UNCHANGED <<pid_allocator, table, initpc, panic>>

\* With WNOHANG the call returns 0 instead, upon which initproc yields.
NoHang(rq, pid) ==
  /\ Matching(current, pid) # {} /\ Exited(current, pid) = {}
  /\ initpc' = IF current = INITPROC THEN "yield" ELSE initpc
  /\ Resume(rq)
  /\ UNCHANGED <<pid_allocator, table, waiting, panic>>

\* Mutant: initproc waits without WNOHANG.
Wait4Blocking(rq, pid) ==
  /\ Free \/ (UserMode /\ initpc = "wait" /\ pid = AnyChild)
  /\ Reap(rq, pid) \/ NoChild(rq, pid) \/ KeepWaiting(rq, pid)
  /\ timers' = timers \ Popped
  /\ Untouched

\* The user library, and with it initproc, always passes WNOHANG.  Arguments
\* that the call asserts not to get are Unsupported.
sys_wait4(rq, pid) ==
  /\ Free \/ (UserMode /\ initpc = "wait" /\ pid = AnyChild)
  /\ \/ Reap(rq, pid) \/ NoChild(rq, pid)
     \/ Free /\ KeepWaiting(rq, pid)
     \/ NoHang(rq, pid)
  /\ timers' = timers \ Popped
  /\ Untouched

\* The next iteration: the thread is back on the processor, inside the
\* kernel.  There is no trap, hence no check_timer().
Wait4Again ==
  /\ Running /\ current # None
  /\ LET pid == waiting[current] IN
     /\ pid # NoWait
     /\ \/ Reap(ready_queue, pid) \/ NoChild(ready_queue, pid)
        \/ KeepWaiting(ready_queue, pid)
  /\ UNCHANGED timers /\ Untouched

-----------------------------------------------------------------------------
(* run_tasks, the idle flow.                                               *)

Idle == Running /\ current = None

Dispatch(rq) ==
  /\ current' = Head(rq)
  /\ ready_queue' = Tail(rq)

\* The panics are `expect` on an empty queue (test mode does not get here
\* with one) and `task.process.upgrade().unwrap()`.
FetchTask ==
  /\ Idle /\ (Test => ready_queue # <<>>)
  /\ panic' = IF ready_queue = <<>> THEN "No more tasks available."
              ELSE IF Head(ready_queue) \notin live
              THEN "upgrade of a dead process" ELSE "none"
  /\ IF panic' = "none" THEN Dispatch(ready_queue)
     ELSE UNCHANGED <<current, ready_queue>>
  /\ Untouched /\ UNCHANGED <<pid_allocator, table, timers, waiting, initpc>>

(* Test mode, empty queue: `while !check_timer() {}` spins until the heap  *)
(* is empty (the woken threads are in `rq`), then names are popped from    *)
(* ALL_APPS until one of them loads.  (A spawn that fails gives its pid    *)
(* back at once.)                                                          *)
SpawnApp(rq) ==
  LET id == NextId(pid_allocator) IN
  /\ Idle /\ Test /\ ready_queue = <<>> /\ Popped = timers
  /\ \E failed \in 0 .. apps - 1 : apps' = apps - failed - 1
  /\ id \in Pid
  /\ Forked(INITPROC, id)
  /\ Dispatch(Append(rq, id))
  /\ timers' = {}
  /\ UNCHANGED <<now, initpc, panic>>

\* No name is left, or none of them loads: `expect("No more tasks available.")`.
NoApp(rq) ==
  /\ Idle /\ Test /\ ready_queue = <<>> /\ Popped = timers
  /\ ready_queue' = rq
  /\ timers' = {}
  /\ apps' = 0
  /\ panic' = "No more tasks available."
  /\ UNCHANGED <<pid_allocator, table, current, waiting, now, initpc>>

Tick ==
  /\ Running /\ now < MaxTime
  /\ now' = now + 1
  /\ UNCHANGED <<pid_allocator, table, ready_queue, current, timers, waiting,
                 apps, initpc, panic>>

\* A panic powers the machine off.
PoweredOff == panic # "none" /\ UNCHANGED vars

Trap(rq) ==
  \/ TimerInterrupt(rq)
  \/ sys_yield(rq)
  \/ OtherSyscall(rq)
  \/ Unsupported(rq)
  \/ \E req \in SleepTimes : sys_sleep(rq, req)
  \/ sys_clone(rq)
  \/ Exit(rq)
  \/ \E pid \in Pid \cup {AnyChild} : sys_wait4(rq, pid)

Next ==
  \/ \E rq \in CheckTimer : Trap(rq) \/ SpawnApp(rq) \/ NoApp(rq)
  \/ Wait4Again
  \/ FetchTask
  \/ ExitOfInitproc
  \/ Tick
  \/ PoweredOff

Spec == Init /\ [][Next]_vars

-----------------------------------------------------------------------------
(* Safety.                                                                 *)

Threads == {p \in live : ~zombie[p]}
Asleep == {t.thread : t \in timers}

\* The threads that may run: in test mode INITPROC is an empty process.
Runnable == Threads \ (IF Test THEN {INITPROC} ELSE {})

\* The references to threads held by a queue, a heap and a processor are the
\* threads in `run`, once each.
PlacedAt(rq, ts, cur, run) ==
  LET sleeping == {t.thread : t \in ts} IN
  /\ Range(rq) \cup sleeping \cup ({cur} \ {None}) = run
  /\ IsInjective(rq)
  /\ \A s, t \in ts : s.thread = t.thread => s = t
  /\ Range(rq) \cap sleeping = {}
  /\ cur \notin Range(rq) \cup sleeping

(* A thread that has not exited is referenced by exactly one of            *)
(* Processor.current, TaskManager.ready_queue and TIMERS, once; after exit *)
(* no reference is left (doc: "TaskManager and Processor no longer hold    *)
(* it").  A lost or doubled reference would need a wake-up and a suspension *)
(* that disagree.                                                          *)
ThreadsPlaced ==
  panic = "none" => PlacedAt(ready_queue, timers, current, Runnable)

(* The process tree (doc: "a strict tree"; an orphan is handed to          *)
(* INITPROC): the Weak parent of every process can be upgraded and has not *)
(* exited, so sys_getppid never fails, and exactly that parent owns it,    *)
(* once.                                                                   *)
ParentsOwn ==
  /\ \A p \in live \ {INITPROC} :
       /\ parent[p] \in Threads
       /\ \A q \in Pid : p \in Range(children[q]) <=> q = parent[p]
  /\ \A q \in Pid : IsInjective(children[q]) /\ Range(children[q]) \subseteq live \ {INITPROC}

(* Every set of processes without INITPROC has a member whose parent is    *)
(* outside the set: following parents from any process ends at INITPROC.   *)
Acyclic ==
  \A S \in SUBSET (live \ {INITPROC}) : S # {} => \E p \in S : parent[p] \notin S

(* Pids are neither lost nor in use twice: an id below `current` is either *)
(* held by a PCB or in `recycled`, where it stands once.                   *)
PidsAccounted ==
  /\ live \cap Range(pid_allocator.recycled) = {}
  /\ live \cup Range(pid_allocator.recycled) = 1 .. pid_allocator.current - 1
  /\ IsInjective(pid_allocator.recycled)

(* Outside test mode, unless a program does what the kernel does not       *)
(* support, the kernel stops only when INITPROC exits, and then no other   *)
(* process exists (doc: INITPROC "lives as long as the system"): INITPROC  *)
(* sees ECHILD only when all are gone, the ready queue is never empty, no  *)
(* thread is dispatched without its process, and no pid is given back      *)
(* twice.                                                                  *)
NoPanicOfItsOwn ==
  ~Test /\ panic \notin {"none", "unsupported"} => live = {INITPROC}

(* What the proofs add to the invariants above to make them inductive.     *)
InitprocInv ==
  /\ INITPROC \in Threads \ Asleep
  /\ waiting[INITPROC] = NoWait
  /\ initpc = "exit" => live = {INITPROC}
  /\ Test => initpc = "none"

PanicInv ==
  /\ panic \in {"none", "unsupported", "already borrowed", "No more tasks available."}
  /\ panic = "already borrowed" => initpc = "exit"
  /\ panic = "No more tasks available." => Test

Inv ==
  /\ TypeOK /\ ThreadsPlaced /\ ParentsOwn /\ Acyclic /\ PidsAccounted
  /\ InitprocInv /\ PanicInv

-----------------------------------------------------------------------------
(* Action properties.                                                      *)

Position(p) == CHOOSE i \in DOMAIN ready_queue : ready_queue[i] = p

(* FIFO scheduling: while a thread is in the ready queue, no step, be it a *)
(* wake-up, a fork or a suspension, puts another one in front of it.       *)
NoOvertaking ==
  [][\A p \in Range(ready_queue) \cap Range(ready_queue') :
       Position(p)' <= Position(p)]_vars

(* A process is destroyed only as a zombie, by its parent: the two stages  *)
(* of a process's death.                                                   *)
DestroyedByParent ==
  [][\A p \in live \ live' : zombie[p] /\ current = parent[p]]_vars

-----------------------------------------------------------------------------
(* Liveness.  The kernel keeps going; a program in user mode is interrupted *)
(* by the timer; time passes; initproc, whenever it is scheduled often     *)
(* enough, gets to its next system call (its code between two of them is a *)
(* few instructions, far less than a time slice).                          *)

\* wait() of the user library: wait4, and yield as long as it returns 0.
UserWait(rq) == sys_wait4(rq, AnyChild) \/ sys_yield(rq)

InitprocStep ==
  /\ current = INITPROC
  /\ \E rq \in CheckTimer : sys_clone(rq) \/ UserWait(rq)

Fairness ==
  /\ WF_vars(FetchTask) /\ WF_vars(Wait4Again)
  /\ WF_vars(\E rq \in CheckTimer : TimerInterrupt(rq))
  /\ WF_vars(Tick)
  /\ SF_vars(InitprocStep)

FairSpec == Spec /\ Fairness

(* Test mode has no timer interrupt: a program that computes for ever      *)
(* keeps the processor.  This assumes programs that do not.                *)
BatchSpec ==
  /\ Spec /\ WF_vars(FetchTask) /\ WF_vars(Wait4Again) /\ WF_vars(Tick)
  /\ WF_vars(\E rq \in CheckTimer : Trap(rq) \/ SpawnApp(rq) \/ NoApp(rq))

(* Round robin: a thread in the ready queue gets the processor, whatever   *)
(* the programs do (or the kernel stops).                                  *)
ReadyRuns ==
  \A p \in Pid : p \in Range(ready_queue) ~> (current = p \/ panic # "none")

(* A sleeping thread wakes up (or the kernel stops).  check_timer() is     *)
(* called on traps only, and a thread in the loop of wait4 makes none: it  *)
(* is initproc, which polls, that keeps the traps coming.                  *)
SleepersWake ==
  \A p \in Pid : p \in Asleep ~> (p \notin Asleep \/ panic # "none")

ZombieOfInitproc(p) == p \in live /\ zombie[p] /\ parent[p] = INITPROC

(* INITPROC reclaims every process it is handed (or the kernel stops).     *)
InitprocReaps ==
  \A p \in Pid : ZombieOfInitproc(p) ~> (~ZombieOfInitproc(p) \/ panic # "none")

(* It does once processes cease to exit: until then later zombies may come *)
(* first, as sys_wait4 takes the last one it finds.                        *)
InitprocReapsInTheEnd ==
  <>[][\A p \in Pid : zombie'[p] => zombie[p]]_vars => InitprocReaps

=============================================================================
