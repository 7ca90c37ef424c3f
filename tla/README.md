# A verification of the JaeOS16 nucleus

JaeOS16 is a small operating-system nucleus for the uARM emulator: a static
table of processes, weighted semaphores, a round-robin scheduler with a
pseudo-clock, device I/O and exception pass-up. This directory models it in
TLA+, checks the models with TLC and proves the central invariants with TLAPS.
One module takes the nucleus as a whole; the others take one mechanism each in
the detail the first abstracts from, and one runs the repository's phase 2 test.

## 1. The system

| Component | State | Operations | Talks to |
|---|---|---|---|
| `include/clist.h` | ring of `next` links and a pointer to the last element | enqueue, push, dequeue, delete, foreach, foreach_add, foreach_delete | used by pcb.c, asl.c, syscall.c |
| `source/pcb.c` | `pcbFree`; per process `p_list`, `p_parent`, `p_children`, `p_siblings` | allocPcb, freePcb, insert/remove/out/headProcQ, insert/remove/outChild, emptyChild | `p_list` is shared by the free list, the ready queue and the semaphore queues |
| `source/asl.c` | `aslh` in address order, `semdFree`, per descriptor `s_semAdd` and `s_procq` | insertBlocked, removeBlocked, outBlocked, headBlocked | sets `p_cursem` |
| `source/initial.c` | counters, `device_sem`, `flag`, `readyqueue`, `current_process` | main | scheduler |
| `source/syscall.c` | the above | SYS1 to SYS11 | called by syscall_handler; sets `flag` for scheduler |
| `source/exceptions.c` | old and new areas, `tags` | syscall_handler, pgmtrap_handler, tlb_handler | termination or pass-up |
| `source/interrupts.c` | | interrupt_handler: timer, dev, terminal handlers | V on device and clock semaphores |
| `source/scheduler.c` | `flag`, `pseudoclockflag`, `pseudo_start`, `startTOD` | scheduler, loadnext, deadlock_detection | LDST, WAIT, HALT, PANIC |
| `source/p2test.c` | 21 processes' positions, global variables, semaphores | p1 to p8, print, trap handlers | the system calls |
| `source/p0test.c`, `p1test.c` | | sequential test programs of phases 0 and 1 | clist.h, pcb.c, asl.c |

There is one processor. The nucleus runs with interrupts disabled, so most
handlers are atomic. Three things make it hard all the same:

* Two stretches of nucleus code run with interrupts *enabled*: `io_devop` after
  `syscall.c:361`, which includes the P that blocks its caller, and
  `interrupt_handler` between `interrupts.c:81` and the first line of `scheduler`.
* Every handler communicates with the scheduler through two globals, `flag` and
  `current_process`, set on many paths (blocking, three kinds of termination,
  pass-up, interrupts), and five queues share one link field.
* Processes may be terminated, with all descendants, while they are ready, while
  they wait for a semaphore, the clock or a device.

What must be right, per component: *lists*: rings, order, no element on two lists;
*processes*: each living one in exactly one place, no orphans; *semaphores*: no
lost wakeup, no overtaking, no missing descriptor; *counters*: exact, since
HALT, PANIC and WAIT are decided by them; *devices*: every operation is started,
answered once and leaves the semaphore at 0; *clock*: a tick releases everyone;
*scheduler*: never runs NULL, starves nobody, tells deadlock from idling; *pass-up*: a handler
returns to what was interrupted; *CPU times*: everything is charged, once; *pids*: distinct.
`PROJECT.json` lists each hazard at its line.

## 2. Modules

| Module | Contents |
|---|---|
| `Nucleus.tla` | the nucleus above its data structures, with the machine as environment |
| `MCNucleus.tla` | symmetry and weights for TLC |
| `QueueLemmas.tla` | lemmas on queues as sequences: append, tail, split, concatenation, removal and insertion at a position, sums over a queue, least counterexamples, rings of links and walks along them |
| `NucleusProofs.tla` | the inductive invariants of `Nucleus` (control, semaphores, order of service, disciplined clients), its refinement of `ProcTree`, and its theorems |
| `ClistProofs.tla`, `AslProofs.tla`, `PcbProofs.tla` | invariants and refinements of `Clist`, `Asl` and `Pcb`; `PcbProofs` instantiates `ClistProofs` twice |
| `PassUpProofs.tla`, `CpuTimeProofs.tla`, `PseudoClockProofs.tla` | invariants of `PassUp`, `CpuTime` and `PseudoClock` |
| `Clist.tla` | the macros of clist.h pointer by pointer, loops one step per iteration |
| `ListSpec.tla` | the abstract queues that `Clist` is shown to implement |
| `Asl.tla` | asl.c over its descriptor table |
| `AslSpec.tla` | one FIFO per address, which `Asl` is shown to implement |
| `Pcb.tla` | all links of a ProcBlk, and the code that moves it between lists; instantiates `Clist` |
| `ProcTree.tla` | the process tree that `Pcb`, by its links, and `Nucleus` are shown to implement |
| `PseudoClock.tla` | interval timer, TOD, and the flags between timer_handler and loadnext |
| `PassUp.tla` | the processor states in a ProcBlk: p_s, old and new areas, tags |
| `CpuTime.tla` | startTOD, kernel_start, kernel_time, global_time, GETCPUTIME |
| `PidGen.tla` | pid_generator |
| `P2Test.tla` | the processes of p2test.c on the part of the nucleus they use; extends `PidGen` |
| `MCClist`, `MCAsl`, `MCPcb`, `MCPseudoClock`, `MCPassUp`, `MCCpuTime`, `MCP2Test` | instances for TLC, with symmetry where it is sound |

### Nucleus

Variables keep the names of the code. Queues are sequences; a semaphore's
address has its FIFO `s_procq[a]`, empty when it is not in the ASL; the process
tree is `p_parent`. `cpu` says what the processor executes: `user` (the current
process), `wait`, a control point of the nucleus, or a final state (`halt`, one
value per PANIC, `undefined`). One action is one handler from entry to the point
where interrupts are enabled again or the scheduler is called; the scheduler is
an action of its own (`LoadCurrent`, `LoadNext`). Exceptions are: termination,
one step for each ProcBlk freed (`TerminateBegin`, `TerminateChild`, then
`TerminateCurrent` or `TerminateOther`); the V loop of a clock tick, one step
per V; the two handlers a terminal interrupt runs; and the windows in which
interrupts are enabled. These are `int_exit` (`timer_exit` after the timer's own interrupt, which
does not come again there), and in io_devop `io_entry`, the points inside its P that an interrupt can tell
apart (`io_charged` from syscall.c:183, `io_queued` from 192, `io_counted` from 196), `io_command` and
`io_issued`. `IoP` takes the P as one step, or up to one of those points, where the interrupt comes; after it the P never goes on.

| Code | Actions |
|---|---|
| create_process | `CreateProcess` |
| terminate_process, lookfor_progeny, terminate_children | `TerminateProcess`, `TerminateUnknown`, `TerminateChild`, `TerminateCurrent`, `TerminateOther` |
| semaphore_operation | `SemopP`, `SemopV`, `SemopZero`, `SemopNull` over `Passeren`, `Verhogen` |
| specify_sysbp, specify_tlb, specify_pgmtrap | `Specify` |
| exit_trap, get_cputime, getpid | `ExitTrap`, `QuerySyscall` |
| wait_clock | `WaitClock` |
| io_devop | `IoDevop`, `IoP`, `IoCommand`, `IoReturn` |
| syscall_handler (SYSCALL > 11, user mode), pgmtrap_handler, tlb_handler | `Exception` |
| interrupt_handler and its helpers | `TimerInterrupt`, `TimerTick`, `TimerTickEnd`, `DevInterrupt`, `TermInterrupt`, `TermTransm`, `InterruptExit` |
| scheduler, loadnext, deadlock_detection | `LoadCurrent`, `LoadNext`, `Idle` |

Abstractions: register contents, CPU times, device status words and pids are
data no property of this module is about (a pid stands for its ProcBlk). A saved state is
reduced to what resuming it executes: `user`, or the window of the nucleus it was
saved in. Time is the choice `due` in `LoadNext`: whether the tick is to be
announced; `PseudoClock` has what is abstracted. A semaphore of the clients is an address that is not in `device_sem`.

Undefined behaviour. Three things lead to `cpu = "undefined"`, after which nothing is
modelled: `terminate_children` freeing a process that is on the ready queue (its
link is reused for the free list); loadnext requeuing a process that already is in a queue, after an
interrupt between syscall.c:192 and 199 (the queues merge); and resuming a state saved inside `io_devop`, whose stack frame
the handlers have overwritten. (A state saved at interrupts.c:81 only has `scheduler()` left to call.)
When `headBlocked` returns NULL to a device handler, the status is stored through NULL;
the model then chooses between no effect and `undefined`.
The value `io_devop` returns is stored through `current_process` (exceptions.c:155),
which may have become NULL meanwhile; as the stored word is data, the model does
not distinguish where it goes.

Hazards. The constant `Hazards` says which doubtful behaviours are admitted:
`kill_ready` and `kill_io` (termination of ready descendants, or of processes that
wait for a device), `nested` (interrupts at interrupts.c:81), `io_interrupted` (interrupts in io_devop), `io_overlap` (a
device used while it is not idle), `term_error` (a terminal operation that fails).
With `{}` the clients keep the discipline that p2test.c relies on, and no interrupt arrives inside the nucleus. Configurations that need
a hazard name it; section 4 says which hazards each theorem admits. `io_interrupted` is not a client's fault: the code invites it at
syscall.c:361, with a window of some tens of instructions, and the queues, the counters and the device's semaphore do not stand it
(`nested_p`, `nested_command`). All that is said about them is said of behaviours without it.

What `Nucleus` abstracts the links of `Pcb` to is the same tree: both implement `ProcTree` (`ImplementsTree`). `NoOvertaking`
says of each step that in every queue whoever stays keeps its place: nobody gets ahead of it, and nobody who came
later leaves before it, unless terminated.

A definition named `X_Y` before `X` is a faulty variant of `X` that no action
uses. Substituting it for `X` must break the property that guards against the
fault; PROJECT.json pairs them (`mutants`).

### Clist and ListSpec

`Clist` has all lists that use one link field: the free list (a FIFO), other FIFOs, and ordered
lists (the ASL). The nucleus is not reentrant inside list operations, so one operation
runs at a time, but `clist_delete` and `clist_foreach` loops take one step per
iteration, on the ring they are changing. The nucleus links an element only when it is
unlinked; it may ask for the removal of an element that is elsewhere.
`ImplementsQueues` is the refinement: with each list mapped to the sequence read
off its ring, the macros are enqueue, push, dequeue, removal and ordered
insertion of `ListSpec`, and a removal answers rightly whether it found the element.

### Asl and AslSpec

`Asl` has the variables of asl.c: `aslh` and `semdFree` as sequences of descriptors
(justified by `Clist`), `s_semAdd` and `s_procq` of each descriptor, and the `p_cursem` of each
process; `answer` is what the last call returned. One action per function. The nucleus
calls `insertBlocked` only for a process that is on no semaphore queue, and clears `p_cursem` itself
after `outBlocked` in a V (`ClearCursem`) but not after a termination, so stale pointers occur.
`ImplementsAsl` maps the table to one FIFO per address with a bound on the addresses in
use, and says that each call does, and answers, what its abstract namesake does for the same
arguments; this is more than that some step of `AslSpec` is taken. `Nucleus` uses semaphores in the abstract form.

### Pcb and ProcTree

The `p_list` links of all queues, and `p_siblings` and `p_children`, as pointers, moved by the macros of
`Clist` (one instance for each link field; removal by a loop, which `Clist` takes step by step, is one step here).
Actions: `CreateProcess` and `MakeReady`, `Block`, `Release`, `Preempt`, `Dispatch`, and termination with its
recursion: `stack` is the chain of calls of `terminate_children`, each step of which is an action
(`RemoveChild`, `LeaveSemaphore`, `FreeChild`; `LeaveTree` and `FreeTarget` for the target). `hand` is the ProcBlk
in a local variable between leaving one list and joining another. `KillReady` admits the termination
of descendants that are on the ready queue; `QueuesApart` (and with it `ReadyAlive`) is about what the links say without it.
`ImplementsTree` is the refinement of `ProcTree`: what hangs in the lists, together
with the stack of the recursion, is a tree that loses one leaf at a time, and exactly the target's progeny.

### PseudoClock

Time is explicit: `TOD` and `timer` are words modulo `W`, `Elapse` is one unit of time, and each read of the TOD in
`scheduler` and `loadnext` is a step of its own (`Scheduler`, `LoadNext`, `SetInterval`, `StartPeriod`), between which
the nucleus may spend its `latency`. The timer keeps counting down past its interrupt, as on the
machine. Processes are three counters: ready, waiting for the clock, blocked elsewhere. The rigid variable
`setting`, one of `Settings`, says which machine and clients a behaviour has: how much time the nucleus takes, whether
processes also wait for devices and semaphores (`others`), whether interrupts arrive at interrupts.c:81 (`nested`).
So one run covers all of them, and each property says for which it holds. `sinceTick` is a history variable that counts beyond every
bound that `TickOnTime` states (`Horizon`), for any number of processes.

### PassUp

A processor state is reduced to the code it resumes (the program, a handler, the nucleus, nothing), the
process it belongs to and its mode; `regs` is what the processor executes. Actions: `Specify`, `ExitTrap`, `SysBp`, `UserCall`
(a nucleus call in user mode becomes a program trap), `Fault`, `CreateProcess` with reuse of a ProcBlk,
`Terminate`, `Switch` (an interrupt). `trail` is a history variable: the exceptions a process has not
yet returned from. `Misuse` lets handlers cause exceptions of the type they handle or exit from another
type; a single old area per type cannot serve that, and the runs do without it, as p2test.c does.

### CpuTime

Every read of the TOD is a step, and time may pass before each. `cpu` is the position between two
reads (`entry`, `handler`, `half`, `charged` and `queued` in a blocking P, `window` at interrupts.c:81, the three parts of `loadnext`); `why` is
what the handler was entered for, `io` if it is io_devop. Interrupts come wherever the code enables them (`Enabled`): in a process, in `window`,
while the processor waits, and in io_devop in each step of its P. `p_s` is where the saved state of a process resumes it; resuming a
handler, and requeuing a process that is in a queue, are `undefined` as in `Nucleus`. The history variable `twice` holds the processes
that an interrupt found between syscall.c:190 and 199, charged for their slice and still current: loadnext charges them again. `ChargedOnce` and
`UserTimeCharged` except them, `ChargedOnceEver` does not, and the code violates it (`double_charge`). `ran` and `held` are histories: how long a process executed its own
code, and how long it was `current_process`. The order of the ready queue and the interval timer
are left out: any process may be chosen and any interrupt may come at any time.

### PidGen

`pid_generator` in words modulo `W`; the counter and the pids are variables of `P2Test`.
`PidGenAssumption` says that the digits of a stack address and of the counter fit the word: at 32 bits and with the
stack of the nucleus in the first 4 MB, for the first 1000 processes. Beyond, `pow` and the product wrap
and nothing is claimed. The address of the first process, which main allocates at another depth of the stack (initial.c:72), is taken
to be that of the others in `P2Test`; `PidsDiffer` does without this simplification.

### P2Test

A *role* is a process of the test; its *script* is the sequence of system calls, assignments and tests of global variables
in its function, and `at` its position. The nucleus is reduced to the ready queue, weighted
P and V, the terminal, the pseudo-clock, creation with its pid, and termination, which looks the pid up in the caller's
progeny; pids stored in global variables may be out of date. A printed line is `Chars` operations
of the terminal between P and V of `term_mut`; two of the 21 semaphores `s[]` are kept; CPU times and computation
are left out; the result of SYS14 and of bad accesses is what the test expects: the trap. The delays
are WAITCLOCKs until enough time has passed; p5's and p1's rely on it, and `Patient` says that the time
p5 waits is long enough for p4 to be dead. A process that is loaded executes at least one step before it
is interrupted (`fresh`): a step takes microseconds, a slice 5 ms. This leaves out interrupts that come back to back, so the run covers the
interleavings of the test under these two assumptions, not all that the machine could produce. An error message is recorded
in `errors`, a PANIC of the test or of the nucleus in `trouble`.

## 3. Runs

| Run | Instance | Shows |
|---|---|---|
| `nucleus_core` | 3 processes, 1 semaphore, 1 device, 1 exception type, values within ±2, `kill_io`, `nested` | `TypeOK`, `CountsAgree`, `Placement`, `StopsRightly`, `NoOrphans`, `SemaphoreSound`, `DeviceQuiet`, `TickReleasesAll`, `NoOvertaking`, `ImplementsTree` |
| `nucleus_fair` | 3 processes, 1 terminal, fairness | `ReadyRuns`, `DeviceAnswers` |
| `clist` | 4 elements, the free list and an ordered list | `Rings`, `LoopsEnd`, `ImplementsQueues` |
| `asl` | 4 processes, 4 addresses, 3 descriptors | `DescriptorsConserved`, `Ascending`, `CursemPoints`, `ImplementsAsl` |
| `pcb` | 4 ProcBlks, 1 semaphore | `TypeOK`, `QueuesApart`, `TreeConsistent`, `TerminationEnds`, `ImplementsTree` |
| `clock` | 2 processes, latency 0 or 1, with and without devices and nesting, fairness | `TypeOK`, `NoEarlyTick`, `TickArmed`, `TickOnTime`, `TickComes` |
| `pass_up` | 2 ProcBlks, SYS and PGMTP, 2 exceptions nested | `OwnCode`, `InterruptedKept`, `TrapReturns` |
| `cpu_time` | 2 processes, 4-bit words, 3 units of time, interrupts wherever the code enables them | `UserTimeCharged`, `ChargedOnce` |
| `p2test` | the whole test, 4 rounds of p8, 1 character per line, `Patient`, fairness | `NoTrouble`, `TerminalExclusive`, `HandlerStackExclusive`, `PidsIdentify`, `AloneAtEnd`, `TestEnds` |
| `deadlock_idle` | 2 processes, 1 semaphore | violation of `IdleCanEnd` |
| `nested_state` | 2 processes, 1 device, `nested` | violation of `UserStateSaved`: timer and device interrupt one after the other, the second at the end of the first one's handler |
| `tick_starved` | latency 0, devices, fairness | violation of `TickAlwaysComes` |

The violation runs each document a disagreement between a comment of the
repository and the code; `findings` in PROJECT.json quotes both. `TickComes`, which holds without devices, and
`TickAlwaysComes`, which fails with them, belong together. The type invariants of `Clist`, `Asl`, `PassUp`, `CpuTime` and `P2Test` are conjuncts
of `Rings`, `DescriptorsConserved`, `OwnCode`, `ChargedOnce` and `NoTrouble`. `StopsRightly` is about how the machine stops: it halts only when
every process has ended, it idles only when all are blocked, and two of the PANICs of the nucleus are dead code.

Further configurations. These are not in the list of runs; each shows one more disagreement, and TLC reports the property violated.

| Configuration | Module | Violated | What the code does |
|---|---|---|---|
| `nested_p` | `MCNucleus` | `CountsAgree`, `Placement` | an interrupt inside the P of io_devop finds its caller in the semaphore's queue, not yet counted and still current (syscall.c:192-199); loadnext then requeues it |
| `double_charge` | `MCCpuTime` | `ChargedOnceEver` | an interrupt in the same P, behind syscall.c:190: loadnext charges global_time for the same slice again (scheduler.c:73) |
| `nested_command` | `MCNucleus` | `DeviceQuiet` | io_devop runs with interrupts enabled (syscall.c:361) and its P clears current_process: interrupted before the command is written, it is never resumed. p2test.c:150 "This actually starts the operation on the device!" |
| `kill_wakeup` | `MCNucleus` | `SemaphoreSound` | termination returns a waiter's weight (syscall.c:85, 156) without looking whether the next waiter can now be served, as a V does (syscall.c:220) |
| `kill_device` | `MCNucleus` | `HandlerFindsWaiter` | after the termination of the requester the status is stored through headBlocked's NULL (interrupts.c:109, 155, 171) |
| `terminal_error` | `MCNucleus` | `DeviceAnswers` | terminal_handler neither acknowledges nor answers an operation that failed (interrupts.c:147, 164), which p2test.c:158 tests for |
| `kill_ready` | `MCPcb` | `ReadyAlive` | terminate_children frees a ProcBlk that is on the ready queue (syscall.c:164) |
| `stale_areas` | `MCPassUp` | `AllFieldsInitialised` | allocPcb leaves the areas of the earlier owner (pcb.c:15 "inizialize all the fields"); the tags keep them from being loaded |
| `user_time` | `MCCpuTime` | `UserWithinGlobal` | two GETCPUTIMEs in one slice: kernel_time has grown, global_time has not, the user time between them wraps (syscall.c:349; p2test.c:404-405) |
| `p3_pid` | `MCP2Test` | `P3PidKnown` | p3 compares its pid with p3pid before p1 has stored it (p2test.c:293, 435); only a message |
| `short_delay` | `MCP2Test` | `P4Terminated` | the delay of p5 (p2test.c:590) ends while the first p4 still prints; in practice 100 ms are long enough |

Two conditions in the properties of `PseudoClock` stand for disagreements as well. Without `latency = 0`, `TickArmed` fails: the TOD passes the end of the
period between scheduler.c:78 and 80, and the unsigned interval underflows. Without `~nested`, `NoEarlyTick` fails: a second interrupt
overwrites RESET (interrupts.c:127, 42), pseudoclockflag stays up, and the next slice ends as a tick.

Bounds. Three processes give a caller, a child and a grandchild or sibling, and
a queue in which one waiter can overtake or be left behind; MAXPROC is the number of
processes, so the tables run full. `MaxSem` bounds the value of a semaphore up to
which P, V, wait_clock and io_devop are called; it lets every process wait at once.
One plain device stands for the lines before the terminal's (`nucleus_core`), a terminal for a line whose handler serves
two devices (`nucleus_fair`); what is true of any number of devices, and with which hazards, is proved. ProcBlks are interchangeable, so the safety
runs use them as a symmetry set; the liveness runs do not. With weights -1 and 1,
as in `nucleus_core`, `SemaphoreSound` holds; with larger requests it does not
(`kill_wakeup`). In `clist` four elements allow the removal of a head, an inner
element and a tail, and an insertion at each place. In `asl` the table is smaller than the
number of addresses, so it runs full, three descriptors allow an insertion in the middle of the list, and four waiters allow a stale `p_cursem` to meet a descriptor that
serves another address; the view `Table` leaves the last answer, which no step reads, out of the comparison of states. In `pcb` four ProcBlks give a target with a child and a grandchild, or two
children, and a bystander, and the free list runs empty. Time in `PseudoClock` is scaled: a period of four slices of two units,
in a word just over two periods, so that the TOD wraps at different phases of a period; a latency of one unit is half a slice, far more than the
code needs, and one suffices for every interleaving of a tick with two reads. `cpu_time` boots two units before the TOD
wraps, and three units allow a slice, a handler and a second handler that interrupts it to have a length each. `p2test` has the test's own number of rounds and of WAITCLOCKs;
a longer line only adds interrupts at which the same processes are ready; its pids cross the place where the counter gets a second digit.

`CHECK_DEADLOCK FALSE` is set where the system really stops: `CpuTime` at the bound on time, `P2Test` at the end of the test, where the nucleus halts, or at a PANIC.

Fairness (`Nucleus`). `Kernel` (weak): nucleus code runs to its end, and a state in which
the nucleus is to go on is left by its next step. `DeviceDone` (weak): a busy device finishes.
`Interrupt` (strong): while processes run, some interrupt comes, since the interval timer is
not reprogrammed by system calls that return to their caller. `DevInterrupt(d)`,
`TermInterrupt(d)` (strong): a line stays asserted until acknowledged, so if it is the first in
priority again and again it is served. Nothing is assumed of processes: they may
compute for ever or loop through system calls. States in which the machine has stopped stutter by `Stopped`.

Fairness (others). `Pcb`: weak, for the steps of the nucleus once begun; the calls of processes need not come.
`PseudoClock`: weak for nucleus code; strong for time passing outside the nucleus, since system calls, though they may come
one after the other, take time themselves; strong for a pending timer interrupt, which has the highest
priority and stays pending over the moments in which it is disabled. `P2Test`: weak for the steps of processes
(some process runs, or none can), strong for the terminal's and the clock's interrupts, which
are pending until taken. Nothing is assumed of time slices: the test also ends without them.

## 4. Proofs

Every safety property that a run checks is a theorem as well, but for those of `P2Test`, and so is every refinement. A theorem
holds for all values of the constants that the named `ASSUME` of its model allows: any number of processes,
semaphores, devices, descriptors, lists, any word size. Where a theorem
has a hypothesis of its own, on the hazards or the clients, the table names it, and a configuration shows what the code does without it.

| Module | Theorem (property) | Hypothesis |
|---|---|---|
| `NucleusProofs` | `TypeCorrect` (`TypeOK`), `OneTree` (`NoOrphans`), `StopsForAReason` (`StopsRightly`), `TerminationFeasible`, from `InvariantOrTorn` | none: every hazard |
| | `PlacementHolds` (`Placement`), `CountsHold` (`CountsAgree`), `NobodyOvertakes` (`NoOvertaking`), `TickReleases` (`TickReleasesAll`), from `InvariantHolds` | no `io_interrupted`; without it, `nested_p` |
| | `SemaphoresSound` (`SemaphoreSound`) | no `io_interrupted`, and `UnitRequests`: a P asks for one resource; without it, `kill_wakeup` |
| | `DevicesQuiet` (`DeviceQuiet`) | `Disciplined`: neither `io_interrupted` nor `io_overlap`; without it, `nested_command` |
| | `NucleusImplementsTree` (`ImplementsTree`) | no `kill_ready` |
| | `UserStatesSaved` (`UserStateSaved`) | neither `nested` nor `io_interrupted`; without it, `nested_state` |
| | `WaiterAlwaysFound` (`HandlerFindsWaiter`), `BehaviourDefined` | `WellBehaved`: none of `kill_ready`, `kill_io`, `nested`, `io_interrupted`, `io_overlap`; without it, `kill_device` |
| `ClistProofs` | `RingsHold` (`Rings`), `ClistImplements` (`ImplementsQueues`), `LoopsAreBounded`, from `ClistInvariant` | |
| `AslProofs` | `NoDescriptorLost` (`DescriptorsConserved`), `StaysAscending` (`Ascending`), `CursemIsRight` (`CursemPoints`), `AslImplements` (`ImplementsAsl`), `AslRefines`, from `AslInvariant` | |
| `PcbProofs` | `PcbTyped` (`TypeOK`), `QueuesStayApart` (`QueuesApart`), `TreeAgrees` (`TreeConsistent`), `PcbImplements` (`ImplementsTree`), `RecursionBounded`, `TerminationBounded`, from `PcbInvariant` | `~KillReady`; without it, `kill_ready` |
| | `PidsDiffer` | `PidGenAssumption`: the digits fit the word; the two addresses differ by less than a factor of ten |
| `PassUpProofs` | `OwnCodeHolds` (`OwnCode`) | no `foreign_exit`: a handler exits from the exception it handles |
| | `InterruptedIsKept` (`InterruptedKept`) | no `same_type`: a handler does not cause its own type of exception |
| | `TrapsReturn` (`TrapReturns`) | neither |
| `CpuTimeProofs` | `ChargedAtMostOnce` (`ChargedOnce`), `UserTimeIsCharged` (`UserTimeCharged`), `NobodyTwiceRuns`, from `TimesInvariant` | in the properties: not in `twice`; without it, `double_charge` |
| `PseudoClockProofs` | `ClockTyped` (`TypeOK`), `TickNotEarly` (`NoEarlyTick`), `TickIsArmed` (`TickArmed`), `TickIsOnTime` (`TickOnTime`), from `ClockInvariant` | in the properties: `~nested`, `latency = 0`, no `others` |

The hypotheses are those under which the runs check the same properties, and they describe the clients that the repository
has: p2test.c asks each P for one resource, terminates no ready
process, and its handlers neither nest in themselves nor exit from another type.

### Nucleus

Most theorems exclude `io_interrupted`, since with it the code breaks what they say: an interrupt inside the P of
io_devop finds the caller in the semaphore's queue and still current. `InvariantOrTorn` says what is left, with every hazard: either `IInv` holds, or
the state is `Torn`: types and tree are right, the current process is in a queue, the processor executes handlers, and the
next step of the scheduler requeues it, which leaves what C defines. A torn state stays torn, and its tree does not change. `TypeCorrect`,
`OneTree`, `StopsForAReason`, `TerminationFeasible` and `NucleusImplementsTree` follow from this disjunction, the others from `IInv` alone.

`Placement` is not inductive as stated, and `IInv` strengthens it in four ways. `QueueInv` gives membership pointwise: a
process is in the queue of `a` iff it lives and `p_cursem` names `a`, and on the ready queue iff it
lives, waits for nothing and does not run. `CountInv` counts by `p_cursem` instead
of by queue. `TreeInv` says free ProcBlks have no
parent, parents live, and the parent relation has no cycle (every set has a member whose
parent is outside). `TargetInv` says that while a descendant is being terminated the
caller is not below it; this needs the absence of cycles. That the tables suffice is a
counting argument: the heads of the active queues are different processes, and the
caller is in none. The proof has one lemma per group of operations (P, V,
creation, freeing a blocked and an unblocked process, loadnext).

`NoOrphans` needs one more conjunct, that at most one living process has no parent (`RootInv`). The semaphores rest on
one number, `Balance`, the value plus the length of the queue, and on every waiter having asked for one
resource (`WaitersInv`): then the sum that the V loop compares with is a length, a P that blocks leaves the balance as it is, and one that passes
takes one. Four lemmas say what a P, a V, a
termination and everything else do to value and queue, and the properties follow semaphore by semaphore. For
devices, `DeviceInv` says when a device is engaged (busy, or about to be commanded by io_devop)
and that otherwise its semaphore is 0 and nobody waits; a termination of the requester leaves the value at -1, for the interrupt that is
still to come. `TickReleasesAll` holds in spite of terminated waiters because
the V of a tick runs until the clock's value is not negative and termination of a waiter
does not return its weight, which leaves the value too low, never too high (`ClockInv`).

Why the machine stops (`StopInv`): loadnext halts or idles only with an empty ready queue and nobody current, so that everybody
alive waits, and `process_count` says whether there is anybody. It stays so until an interrupt, since only one can leave `wait`.

First come, first served (`NobodyOvertakes`): a queue changes only by a process added behind, a first part taken
off, the running process added and the head taken off in one step, or a process taken out wherever it is. Each of these keeps whoever stays in its place
(`TurnAppend`, `TurnConcat`, `TurnSuffix`, `TurnRotate`, `TurnTail`, `TurnWithout`), the last at the price of a termination, which is why the property excepts
those on `pcbFree`. `QueueSteps` assigns each action to one of them.

The theorems about disciplined clients follow one conjunction, `WellInv`: what is saved for a process is the point where its own
code stopped (`SavedInv`); nobody a termination in progress still has to free is ready or waits for a device (`VictimInv`, `VictimIoInv`); a
device under way has its requester in its queue (`WaiterInv`), to which `DeviceInv` adds that it has no other. Each of the ways into
`undefined` contradicts one of them, or `IInv`. Three of the excluded hazards are the clients' to avoid, and p2test.c relies on
their absence; `nested` and `io_interrupted` are up to the machine, and the theorem says that the two stretches with interrupts enabled are the only
place where the nucleus itself leaves what C defines.

For `ImplementsTree` the tree of `Nucleus` needs no invariant beyond `IInv` but that the victims are not ready, which excludes the one step after
which the ProcBlk is neither alive nor free. The progeny that lookfor_progeny and terminate_children traverse, downwards through children, is the one of
`ProcTree`, upwards through parents (`ProgenyAbove`). `TerminationFeasible` is the safety part of the end of a termination, and needs that the
progeny is finite: if all of it had children, `p_parent` would map it without its root onto the whole of it (`LeafExists`).

### Clist

`CInv` says which sequence each ring stands for (`Shape`, without an element twice or on two lists). For a loop in
progress it says at which positions of the sequence `scan` and `tmp` are, and what the elements that were passed are *not*: not the
one looked for, or not beyond the key. The answer "missing" and the place of an ordered insertion follow from this. `Rings` and the
refinement speak of what a walk along the links collects (`Content`); `WalkExists` and `WalkVisits` of `QueueLemmas` identify
it with the sequence. They are inductions over positions; since the prover cannot use an induction theorem
that takes a predicate, they argue with the least position at which the claim fails (`LeastElement`).

`LoopsAreBounded` is what can be proved of `LoopsEnd`: the position at which a loop stands is unique, every iteration goes to the next one
(`Forward`) while the list does not get longer, so `ToGo` falls with each step and is never more than `N + 1`. Left to fairness is that the steps are taken.

### Asl

`AInv` adds to the three invariants that a descriptor in use has an address and that no queue holds a process twice. `p_cursem` is
right up to descriptors that serve another address meanwhile. `AslImplements` proves for each
function and argument that the table before and after the call, read as one FIFO per address, and the answer, are related by
the namesake in `AslSpec` (`Namesake`); `AslRefines` concludes that the whole behaviour is one of `AslSpec`.

### Pcb

`BInv` reads the queues (`Line`) and the lists of children (`Brood`) as sequences with the `Shape` of `ClistProofs`, once for each link
field; the lemmas about enqueue, dequeue and unlinking are those of `Clist`, cited for both instances. It adds what the
links do not say: who runs is on no queue, and `p_cursem` names the queue of whoever waits (`PlaceInv`, without which outBlocked would
unlink from the wrong ring); free ProcBlks are alone and parents form no cycle (`TreeInv`); and, for the recursion of
terminate_children, that the calls in progress are a chain of different living processes (`StackInv`) with the childless
`hand` at its end (`HandInv`). That a termination frees neither its caller nor a process on
the ready queue is not visible in the links: there must be a set of *doomed* processes, closed under children,
without the caller, the target and the ready ones, that the recursion never leaves (`Doomed`). At the call it is the progeny of the
target; it persists since the links it is closed under only disappear.

For `ImplementsTree` the parent of a process that terminate_children has already unlinked is the one below it on the stack
(`ParentOf`). With it, removing a child and taking a process from a semaphore change nothing (`RemoveChildHidden`), and freeing
is `Die` of a leaf in the target's progeny: along the stack each process is in the progeny of the target, by the least position
that is not (`FreeChildRefines`).

`TerminationBounded` is what can be proved of `TerminationEnds`. `Work` counts three for each process that hangs below another, two for each
call in progress and one if no ProcBlk is in hand; removing a child moves three to two, and all other steps take something away. While
`stack` is not empty only such steps are possible, so a termination makes at most `5 * MAXPROC + 1` of them, and as the calls in progress are for
different processes the recursion is at most `MAXPROC` deep (`RecursionBounded`): this bounds the stack of the nucleus.

`PidsDiffer` is about the ids of ProcBlks, in a parametrised instance of `PidGen`: with the digits in the word, two counters of the same length
give different ids for the same address, and of different length different ids since the address is not 0. Two addresses, that of main's call
of allocPcb and that of create_process's, need about as many digits (`DigitsApart`): as they lie in one stack they differ by far less than a factor of ten.

### PassUp

Three invariants, each proved under exactly the discipline it needs. `CodeInv`: the areas that `tags` declare valid, and
the areas of exceptions in progress, hold code of the process itself; others may hold anything, which is what an earlier owner
left. `KeptInv`: the old areas of the types in `trail` hold what those exceptions interrupted. `NestInv`: the handler that
runs is that of the innermost exception.

### CpuTime

`startTOD` and `kernel_start` are words that have wrapped; `CInv` says that there are points in time `s <= k` they stand for
(`Slice`), and how much of `held` and `ran` lies before each. Differences of words are then true differences because a behaviour
takes no longer than a word can count (`Horizon < W` in `CpuTimeAssumption`; 2^32 microseconds are over an hour) from any time of day
at boot, so that the word wraps at any point; what the code subtracts are times within one slice, far shorter than that.
An interrupt in io_devop before syscall.c:190 restarts `kernel_start` and saves a state that is never resumed, so the invariant keeps its `s` and
takes another `k`; one behind it puts the process into `twice`, of whose times nothing is claimed. `NobodyTwiceRuns` says why
that is as much as can be asked: its saved state is inside the nucleus, so it never runs again (`ControlInv`).

### PseudoClock

Each promise has an invariant of its own over `Period`, the time since `pseudo_start` as the scheduler computes it modulo the
word, and relates it to the time that really passed (`sinceTick`). `EarlyInv`: `Period` is never more than what passed. `ArmedInv`: as
long as the timer has not expired, `Period` and what the timer still counts do not exceed a period. `OnTimeInv` adds up the slices that may go by: one
for each process that is still to go to sleep (`Allowance`).

### Only model-checked

* Liveness (`ReadyRuns`, `DeviceAnswers`, `LoopsEnd`, `TerminationEnds`, `TickComes`, `TestEnds`): it rests on fairness and ENABLED, which
  are out of reach of the prover. The theorems state what holds without: measures that fall with every step (`LoopsAreBounded`,
  `TerminationBounded`), a step that is always possible (`TerminationFeasible`), an order that keeps the last of a queue from being
  overtaken (`NobodyOvertakes`), a bound on the delay of a tick (`TickIsOnTime`).
* `P2Test`: one program with fixed scripts, whose parameters (characters per line, rounds) only lengthen it. The run
  explores all of it, and its scripts are data over which a proof could only enumerate again.

## 5. Plan

Done: the nucleus, the list macros, the descriptor table, the links of ProcBlks, time, pass-up, CPU times and pids, the phase 2
test; all safety properties of the models with parameters, and their refinements, proved, with the bounds that the liveness properties rest on. What is left:

1. The refinement `Asl` to `Nucleus`: that the queues per address of `Nucleus` are those of `AslSpec` under its calls.
2. What `SemaphoreSound` becomes for larger requests without termination of waiters.

## 6. Not modelled

* Registers, memory, address translation, the New Areas, the arguments and status words that calls and devices pass.
* `p0test.c` and `p1test.c`: sequential programs that call the macros and the functions of pcb.c and asl.c in one fixed
  order and print; `ImplementsQueues`, `ImplementsAsl`, `QueuesApart` and `ImplementsTree` say of every order what they test of one.
* Of `p2test.c`: the comparisons of CPU times in p2 and p3 (their subject is `CpuTime`, and the outcome depends on the speed of
  the machine), the characters of messages, the values of traps.
* Pids once the digits of address and counter overflow the word.
* Interrupts inside io_devop other than in `Nucleus` and `CpuTime`: `PassUp`, `Pcb`, `PseudoClock` and `P2Test` take its P as one step.
* `clist_pop`, which no code uses and which expands to an undeclared name; `headProcQ`, which only reads and is part of its callers.
* Build files and documents.
