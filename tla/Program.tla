------------------------------- MODULE Program -------------------------------
(***************************************************************************)
(* What a process carries from fork to fork and from exec to exec: the     *)
(* program it runs, its signal actions and mask (crate `signal`), and its  *)
(* exit code on the way from exit() in the child to waitpid() in the       *)
(* parent.  The processes are those of module Task, in the batch build     *)
(* (feature "test"), whose idle flow also starts programs by itself; the   *)
(* other build differs in timer interrupts and initproc, see there.        *)
(***************************************************************************)
EXTENDS Task, UserStack

CONSTANTS
  Paths,       \* the files that open_inode() finds and Elf::parse() accepts
  ArgLists,    \* lists of arguments, strings as sequences of characters
  ExitArgs,    \* what programs pass to exit()
  Signums,     \* what programs pass to sigaction() as signal number
  Masks        \* what they pass to sigprocmask(), sets of signals

ASSUME ProgramAssumption ==
  /\ ArgLists \subseteq Seq(Seq(Nat \ {0})) /\ ExitArgs \subseteq Int
  /\ Signums \subseteq Nat

VARIABLES
  image,      \* the program whose sections are loaded
  handlers,   \* sig_handlers: an action is the default one or the address of
              \* a function, which means something in one program only
  mask,       \* sig_receiver.mask, each signal with the program that set it
  exit_code,  \* PCB field
  said,       \* history: the status a process ended with, before any encoding
  started     \* the call of main() that an exec leads to

carried == <<image, handlers, mask, exit_code, said>>
pvars == <<vars, carried, started>>

\* `signum as u8`, which must be the number of a signal.
AsU8(n) == n % 256
Signal == {AsU8(n) : n \in Signums} \cap 0 .. 63
SIGKILL == 9
SIGSTOP == 19
ASSUME MaskAssumption == Masks \subseteq SUBSET Signal

SIG_DFL == "SIG_DFL"
NoProgram == "none"
NotStarted == [asked |-> <<>>, got |-> <<>>]

ProgramTypeOK ==
  /\ image \in [Pid -> Paths \cup {NoProgram}]
  /\ handlers \in [Pid -> [Signal -> Paths \cup {SIG_DFL}]]
  /\ mask \in [Pid -> SUBSET (Signal \X Paths)]
  /\ exit_code \in [Pid -> Int] /\ said \in [Pid -> Int]

DefaultActions == [s \in Signal |-> SIG_DFL]     \* SignalHandlers::new()

PInit ==
  /\ Test /\ Init
  /\ image = [p \in Pid |-> NoProgram]
  /\ handlers = [p \in Pid |-> DefaultActions]
  /\ mask = [p \in Pid |-> {}]
  /\ exit_code = [p \in Pid |-> 0]
  /\ said = [p \in Pid |-> 0]
  /\ started = NotStarted

-----------------------------------------------------------------------------
(* The exit status: encoded by sys_exit and sys_wait4, decoded by the user *)
(* library and by initproc.                                                *)

\* Mutant: exit(code) keeps seven bits.
SevenBits(code) == code % 128

ExitByte(code) == code % 256                              \* code & 0xff

WStatus(code) == code * 256                               \* code << 8

SignExtend(b) == IF b >= 128 THEN b - 256 ELSE b

WaitpidCode(status) == SignExtend((status \div 256) % 256)  \* waitpid()

InitprocCode(status) == status \div 256                   \* status >> 8

-----------------------------------------------------------------------------
(* Loading a program.                                                      *)

Fits == {a \in ArgLists : init_stack(a).ok}
MainArgs == [a \in Fits |-> Start(init_stack(a))]

\* Mutant: the signal actions of the old program stay.
LoadKeepingSignals(p, path, args) ==
  /\ image' = [image EXCEPT ![p] = path]
  /\ started' = [asked |-> args, got |-> MainArgs[args]]
  /\ UNCHANGED <<handlers, mask>>

\* Loader::load() of a file that is a program, in the process p.
LoadImage(p, path, args) ==
  /\ image' = [image EXCEPT ![p] = path]
  /\ handlers' = [handlers EXCEPT ![p] = DefaultActions]
  /\ mask' = [mask EXCEPT ![p] = {}]
  /\ started' = [asked |-> args, got |-> MainArgs[args]]

\* sys_execve.  When the file is missing or no program nothing changes
\* (OtherSyscall).
Execve(rq, path, args) ==
  /\ OtherSyscall(rq) /\ args \in Fits
  /\ LoadImage(current, path, args)
  /\ UNCHANGED <<exit_code, said>>

StackPanic == "unwrap of a missing stack page"

\* Arguments that do not fit on the user stack run into its guard page:
\* `trans_va(..).unwrap()` panics.
ExecveTooLong(rq, args) ==
  /\ UserMode /\ args \in ArgLists \ Fits
  /\ panic' = StackPanic
  /\ UNCHANGED <<pid_allocator, table, ready_queue, current, timers, waiting,
                 now, apps, initpc, carried>>
  /\ started' = NotStarted

\* The next app of the batch: _spawn(name) loads it into an empty process.
Spawn(rq, path, args) ==
  LET id == NextId(pid_allocator) IN
  /\ SpawnApp(rq) /\ args \in Fits /\ Len(args) = 1
  /\ LoadImage(id, path, args)
  /\ exit_code' = [exit_code EXCEPT ![id] = 0]
  /\ said' = [said EXCEPT ![id] = 0]

-----------------------------------------------------------------------------
(* The other calls that touch what a process carries.                      *)

\* fork(): the actions are copied, the mask starts empty.
Fork(rq) ==
  LET id == NextId(pid_allocator) IN
  /\ sys_clone(rq)
  /\ image' = [image EXCEPT ![id] = image[current]]
  /\ handlers' = [handlers EXCEPT ![id] = handlers[current]]
  /\ mask' = [mask EXCEPT ![id] = {}]
  /\ exit_code' = [exit_code EXCEPT ![id] = 0]
  /\ said' = [said EXCEPT ![id] = 0]
  /\ started' = NotStarted

EndWith(rq, status, code) ==
  /\ Exit(rq)
  /\ exit_code' = [exit_code EXCEPT ![current] = code]
  /\ said' = [said EXCEPT ![current] = status]
  /\ UNCHANGED <<image, handlers, mask>>
  /\ started' = NotStarted

sys_exit(rq, code) == EndWith(rq, code, ExitByte(code))

\* A bad access, an illegal instruction, an unknown system call.
Fault(rq, code) == EndWith(rq, code, code)

\* Mutant: SIGKILL and SIGSTOP are refused by the number as it was passed.
MayHandleAsPassed(signum) ==
  AsU8(signum) \in Signal /\ signum \notin {SIGKILL, SIGSTOP}

MayHandle(signum) ==
  AsU8(signum) \in Signal /\ AsU8(signum) \notin {SIGKILL, SIGSTOP}

\* sys_sigaction with a non-null `act`: the default action or a function of
\* the program.  (With act = old_act the old action is put back.)
sys_sigaction(rq, signum, act) ==
  /\ OtherSyscall(rq) /\ MayHandle(signum)
  /\ act \in {SIG_DFL, image[current]}
  /\ handlers' = [handlers EXCEPT ![current][AsU8(signum)] = act]
  /\ UNCHANGED <<image, mask, exit_code, said>>
  /\ started' = NotStarted

Named(set) == {<<s, image[current]>> : s \in set}

\* The set is read after the old mask has been written: a program that passes
\* the same address for both has its set overwritten by the old mask.
Passed(set, same) == IF same THEN {b[1] : b \in mask[current]} ELSE set

\* The three values of `how`; with another one the call fails.
Masked(how, old, set) ==
  CASE how = "SIG_BLOCK"   -> {b \in old : b[1] \notin set} \cup Named(set)
    [] how = "SIG_UNBLOCK" -> {b \in old : b[1] \notin set}
    [] how = "SIG_SETMASK" -> Named(set)

sys_sigprocmask(rq, how, set, same) ==
  /\ OtherSyscall(rq)
  /\ mask' = [mask EXCEPT ![current] = Masked(how, @, Passed(set, same))]
  /\ UNCHANGED <<image, handlers, exit_code, said>>
  /\ started' = NotStarted

\* The steps of Task that leave all of this alone.
Elsewhere ==
  /\ \/ \E rq \in CheckTimer :
          \/ sys_yield(rq) \/ OtherSyscall(rq) \/ Unsupported(rq) \/ NoApp(rq)
          \/ \E req \in SleepTimes : sys_sleep(rq, req)
          \/ \E pid \in Pid \cup {AnyChild} : sys_wait4(rq, pid)
     \/ Wait4Again
     \/ FetchTask
     \/ Tick
     \/ PoweredOff
  /\ UNCHANGED carried
  /\ started' = NotStarted

\* The dispatch of `syscall`, for the calls named above, and the idle flow.
PNext ==
  \/ Elsewhere
  \/ \E rq \in CheckTimer :
       \/ \E path \in Paths, args \in ArgLists : Execve(rq, path, args)
       \/ \E args \in ArgLists : ExecveTooLong(rq, args)
       \/ \E path \in Paths, args \in ArgLists : Spawn(rq, path, args)
       \/ Fork(rq)
       \/ \E code \in ExitArgs : sys_exit(rq, code)
       \/ \E code \in {-2, -3, -10} : Fault(rq, code)
       \/ \E signum \in Signums, act \in Paths \cup {SIG_DFL} :
            sys_sigaction(rq, signum, act)
       \/ \E how \in {"SIG_BLOCK", "SIG_UNBLOCK", "SIG_SETMASK"}, set \in Masks,
             same \in BOOLEAN : sys_sigprocmask(rq, how, set, same)

ProgramSpec == PInit /\ [][PNext]_pvars

-----------------------------------------------------------------------------
(* Properties.                                                             *)

(* main() gets the arguments that exec (or the batch) was given, whatever  *)
(* their lengths and wherever the pages of the stack are: the kernel       *)
(* writes strings and vectors through physical addresses that it moves by  *)
(* hand, and `_start` reads them back through the page table.              *)
ArgvDelivered == started.got = started.asked

(* A signal action is the default one or a function of the program that    *)
(* the process runs now, and a blocked signal was blocked by that program: *)
(* nothing of a program's signals outlives its exec, also not through a    *)
(* fork before it.                                                         *)
SignalsBelong ==
  \A p \in Threads :
    /\ \A s \in Signal : handlers[p][s] \in {SIG_DFL, image[p]}
    /\ \A b \in mask[p] : b[2] = image[p]

(* "signum ... must not be SIGKILL or SIGSTOP": their actions stay the     *)
(* default, also for the numbers beyond 255 that the cast maps to them.    *)
UncatchableStay ==
  \A p \in Pid : \A s \in Signal \cap {SIGKILL, SIGSTOP} : handlers[p][s] = SIG_DFL

\* What the proofs add to the invariants above to make them inductive.
ProcessesInv ==
  /\ panic # StackPanic => Inv
  /\ live \subseteq Pid
  /\ ThreadsPlaced /\ ParentsOwn /\ Acyclic /\ PidsAccounted

Loaded == \A p \in Runnable : image[p] \in Paths

StatusKept == \A p \in Pid : exit_code[p] % 256 = said[p] % 256

ProgramInv ==
  /\ ProgramTypeOK /\ ProcessesInv /\ Loaded
  /\ SignalsBelong /\ UncatchableStay /\ StatusKept

(* The status that waitpid() hands to the parent is the signed byte of the *)
(* one the child ended with, and what initproc prints agrees with it       *)
(* modulo 256: whoever of the two reclaims the child, also when the pid    *)
(* was in use before and when the child was killed by a fault.             *)
StatusDelivered ==
  [][\A c \in live \ live' : LET status == WStatus(exit_code[c]) IN
       /\ WaitpidCode(status) = SignExtend(said[c] % 256)
       /\ InitprocCode(status) % 256 = said[c] % 256]_pvars
=============================================================================
