------------------------------- MODULE Nucleus -------------------------------
(***************************************************************************)
(* The JaeOS nucleus: process creation and termination, weighted            *)
(* semaphores, the round-robin scheduler, exception pass-up, device and     *)
(* pseudo-clock interrupts (source/syscall.c, exceptions.c, interrupts.c,   *)
(* scheduler.c, initial.c over the queues of pcb.c and asl.c).              *)
(*                                                                         *)
(* There is one processor.  `cpu' says what it is executing: a process      *)
(* ("user"), the idle WAIT() ("wait"), a stretch of nucleus code, or a      *)
(* final state.  Nucleus code that runs with interrupts disabled and        *)
(* without a loop is one step.  The two stretches that run with interrupts  *)
(* ENABLED (io_devop after syscall.c:361, and interrupt_handler between     *)
(* interrupts.c:81 and the first line of scheduler) are control points of   *)
(* their own, at which a further interrupt may arrive.                      *)
(***************************************************************************)
EXTENDS Integers, Sequences, FiniteSets, SequencesExt

CONSTANTS
  Proc,      \* the ProcBlks of the static array pcbs (MAXPROC of them)
  Sem,       \* addresses of the semaphores of the processes
  NPlain,    \* number of devices served by dev_handler (disks ... printers)
  NTerm,     \* number of terminals
  ExcType,   \* the exception types with a pass-up handler: SYS, TLB, PGMTP
  Weights,   \* weights the processes pass to SEMOP
  MaxSem,    \* bound: |value| of a semaphore up to which calls are explored
  Hazards,   \* behaviours of clients and hardware that are admitted
  NULL

(***************************************************************************)
(* device_sem is indexed as in the code: plain devices by line and device   *)
(* number, then the transmitters, then the receivers of the terminals, and  *)
(* the pseudo-clock last.  An index doubles as the semaphore's address.     *)
(***************************************************************************)
Plain   == 0 .. NPlain - 1
Transm  == NPlain .. NPlain + NTerm - 1
Recv    == NPlain + NTerm .. NPlain + 2 * NTerm - 1
CLOCK   == NPlain + 2 * NTerm
Dev     == Plain \cup Transm \cup Recv
DevSem  == 0 .. CLOCK
Addr    == Sem \cup DevSem
MAXPROC == Cardinality(Proc)

(***************************************************************************)
(* Hazards.  "kill_ready": a process is terminated while a descendant of    *)
(* it is on the ready queue.  "kill_io": a process is terminated while it   *)
(* or a descendant waits for a device.  "nested" and "io_interrupted": an   *)
(* interrupt arrives at the end of interrupt_handler, or in io_devop, where *)
(* interrupts are enabled.  "io_overlap": a device is used while it is not  *)
(* idle.  "term_error": a terminal ends an operation with an error.         *)
(* Hazards = {} is the discipline that the clients of p2test.c rely on.      *)
(*                                                                         *)
(* A definition X_Y before a definition X is a faulty X: no action uses it. *)
(* It is there to show that a property fails when the code has that fault.  *)
(***************************************************************************)
AllHazards ==
  {"kill_ready", "kill_io", "nested", "io_interrupted", "io_overlap", "term_error"}

ASSUME ProcAssumption   == IsFiniteSet(Proc) /\ Proc # {}
ASSUME NullAssumption   == NULL \notin Proc /\ NULL \notin Addr
ASSUME AddrAssumption   == Sem \cap DevSem = {}
ASSUME DeviceAssumption == NPlain \in Nat /\ NTerm \in Nat
ASSUME BoundAssumption  == Weights \subseteq Int /\ MaxSem \in Nat
ASSUME HazardAssumption == Hazards \subseteq AllHazards

VARIABLES
  pcbFree,          \* the free ProcBlks
  p_parent,         \* [Proc -> Proc or NULL]
  p_cursem,         \* [Proc -> semaphore blocked on, or NULL; stale once freed]
  res_wait,         \* [Proc -> resources a blocked process asked for, <= 0]
  tags,             \* [Proc -> exception types it has a handler for]
  p_s,              \* [Proc -> the code the saved processor state resumes]
  readyqueue,       \* FIFO of ProcBlks
  current_process,  \* the running process, or NULL
  s_procq,          \* [Addr -> FIFO of the ProcBlks blocked there]
  semaphore,        \* [Addr -> value]
  device,           \* [Dev -> state of the device]
  process_count,
  soft_block_count,
  flag,             \* what the next call of scheduler() has to do
  pseudoclockflag,  \* TRUE: the next timer interrupt is a pseudo-clock tick
  cpu,              \* what the processor executes
  arg               \* argument of the nucleus routine in progress, or NULL

tree   == <<pcbFree, p_parent, process_count>>
sems   == <<semaphore, s_procq, p_cursem, res_wait, soft_block_count>>
sched  == <<readyqueue, current_process, pseudoclockflag>>
vars   == <<tree, sems, sched, tags, p_s, device, flag, cpu, arg>>

\* Points inside the P of io_devop: the semaphore is charged (syscall.c:183), the
\* caller is in its queue (192), the caller is counted (196).
InsideP   == {"io_charged", "io_queued", "io_counted"}
IoWindows == {"io_entry", "io_command", "io_issued"} \cup InsideP
\* The end of interrupt_handler (interrupts.c:81), with the timer far from its
\* end if it was the timer's interrupt (131).
Exits     == {"int_exit", "timer_exit"}
Windows   == IoWindows \cup Exits
Panics    == {"panic_pid", "panic_null", "panic_semd", "panic_deadlock"}
Dead      == Panics \cup {"halt", "undefined"}
CpuStates == {"user", "wait", "scheduler", "terminate", "timer", "term_transm"}
             \cup Windows \cup Dead

\* Where an interrupt may arrive.
Interruptible == {"user", "wait"}
  \cup (IF "nested" \in Hazards THEN Exits ELSE {})
  \cup (IF "io_interrupted" \in Hazards THEN IoWindows ELSE {})

Live       == Proc \ pcbFree
Children(p) == {c \in Proc : p_parent[c] = p}
Blocked    == UNION {ToSet(s_procq[a]) : a \in Addr}
ActiveSemds == {a \in Addr : s_procq[a] # <<>>}

\* emptyChild(p): the recursion of terminate_children on p has come to its end.
EmptyChild_Skipped(p) == TRUE
EmptyChild(p) == Children(p) = {}

\* What terminate_children and lookfor_progeny traverse from r: the least
\* set that holds r and, with a process, its children.
Closed(S)  == \A q \in Proc : p_parent[q] \in S => q \in S
Progeny(r) == {q \in Proc : \A S \in SUBSET Proc : r \in S /\ Closed(S) => q \in S}

-----------------------------------------------------------------------------
\* main: one process made by hand, everything else as the init functions
\* leave it, scheduler() called with flag START.
Init ==
  \E first \in Proc, initial \in [Sem -> 0 .. MaxSem] :
    /\ pcbFree = Proc \ {first}
    /\ p_parent = [p \in Proc |-> NULL]
    /\ p_cursem = [p \in Proc |-> NULL]
    /\ res_wait = [p \in Proc |-> 0]
    /\ tags = [p \in Proc |-> {}]
    /\ p_s = [p \in Proc |-> "user"]
    /\ readyqueue = <<first>>
    /\ current_process = NULL
    /\ s_procq = [a \in Addr |-> <<>>]
    /\ semaphore = [a \in Addr |-> IF a \in DevSem THEN 0 ELSE initial[a]]
    /\ device = [d \in Dev |-> "idle"]
    /\ process_count = 1
    /\ soft_block_count = 0
    /\ flag = "START"
    /\ pseudoclockflag = FALSE
    /\ cpu = "scheduler"
    /\ arg = NULL

-----------------------------------------------------------------------------
(* Queues *)

\* Removal of p from a queue that holds it (outBlocked, outProcQ).
Without(q, p) == RemoveAt(q, CHOOSE i \in 1 .. Len(q) : q[i] = p)

\* p off the ready queue, if it is there.
NotReady_outProcQMissing(p) == readyqueue
NotReady(p) == IF p \in ToSet(readyqueue) THEN Without(readyqueue, p) ELSE readyqueue

\* insertBlocked finds no descriptor: none for a in the ASL, none free.
NoSemd_TableTooSmall(a) == s_procq[a] = <<>> /\ Cardinality(ActiveSemds) = MAXPROC - 1
NoSemd(a) == s_procq[a] = <<>> /\ Cardinality(ActiveSemds) = MAXPROC

\* LDST of a saved state: a user state, the interrupt handler's last lines,
\* or a state inside io_devop, whose stack frame other handlers have reused.
Resume(p) == CASE p_s[p] = "user" -> "user"
               [] p_s[p] \in Exits -> "int_exit"
               [] OTHER -> "undefined"

-----------------------------------------------------------------------------
(* Weighted semaphores *)

\* The current process waits in the queue of a.
Block_FlagNotSet(a) ==
  /\ s_procq' = [s_procq EXCEPT ![a] = Append(@, current_process)]
  /\ p_cursem' = [p_cursem EXCEPT ![current_process] = a]
  /\ soft_block_count' = soft_block_count + 1
  /\ current_process' = NULL
  /\ flag' = "LOADCURRENT"

Block_Pushed(a) ==
  /\ s_procq' = [s_procq EXCEPT ![a] = <<current_process>> \o @]
  /\ p_cursem' = [p_cursem EXCEPT ![current_process] = a]
  /\ soft_block_count' = soft_block_count + 1
  /\ current_process' = NULL
  /\ flag' = "LOADNEXT"

Block(a) ==
  /\ s_procq' = [s_procq EXCEPT ![a] = Append(@, current_process)]
  /\ p_cursem' = [p_cursem EXCEPT ![current_process] = a]
  /\ soft_block_count' = soft_block_count + 1
  /\ current_process' = NULL
  /\ flag' = "LOADNEXT"

\* P: take -w > 0 resources from a, or block the current process on a.
Passeren(a, w, next) ==
  /\ semaphore' = [semaphore EXCEPT ![a] = @ + w]
  /\ IF semaphore[a] + w >= 0
     THEN /\ cpu' = next
          /\ flag' = "LOADCURRENT"
          /\ UNCHANGED <<s_procq, p_cursem, res_wait, soft_block_count, current_process>>
     ELSE /\ res_wait' = [res_wait EXCEPT ![current_process] = w]
          /\ IF NoSemd(a)
             THEN /\ cpu' = "panic_semd"
                  /\ flag' = "LOADCURRENT"
                  /\ UNCHANGED <<s_procq, p_cursem, soft_block_count, current_process>>
             ELSE cpu' = next /\ Block(a)

\* Resources the first k processes of queue q wait for.
Demand(q, k) == FoldLeft(LAMBDA acc, p : acc - res_wait[p], 0, SubSeq(q, 1, k))

\* `sum' of the V loop after it has released the first k waiters of a,
\* when the semaphore has reached value.
Left(a, value, k) ==
  value + Demand(s_procq[a], Len(s_procq[a])) - Demand(s_procq[a], k)

\* The loop goes on past the first k waiters of a.
ReleasesNext(a, value, k) ==
  /\ k < Len(s_procq[a])
  /\ res_wait[s_procq[a][k + 1]] >= -Left(a, value, k)
  /\ Left(a, value, k) # 0

\* V: give w > 0 resources to a and release, in FIFO order, every waiter
\* that the resources not yet assigned can serve.
Verhogen(a, w) ==
  LET value == semaphore[a] + w
  IN \E n \in 0 .. Len(s_procq[a]) :
       /\ \A k \in 0 .. n - 1 : ReleasesNext(a, value, k)
       /\ ~ReleasesNext(a, value, n)
       /\ LET out == SubSeq(s_procq[a], 1, n)
          IN /\ s_procq' = [s_procq EXCEPT ![a] = SubSeq(@, n + 1, Len(@))]
             /\ readyqueue' = readyqueue \o out
             /\ p_cursem' = [p \in Proc |-> IF p \in ToSet(out) THEN NULL ELSE p_cursem[p]]
             /\ res_wait' = [p \in Proc |-> IF p \in ToSet(out) THEN 0 ELSE res_wait[p]]
       /\ semaphore' = [semaphore EXCEPT ![a] = value]
       /\ soft_block_count' = soft_block_count - n

-----------------------------------------------------------------------------
(* Clients' discipline *)

MayKill(r) ==
  /\ "kill_ready" \in Hazards \/ ToSet(readyqueue) \cap (Progeny(r) \ {r}) = {}
  /\ "kill_io" \in Hazards
     \/ \A q \in Progeny(r), d \in Dev : q \notin ToSet(s_procq[d])

MayUse(d) ==
  /\ "io_overlap" \in Hazards \/ (device[d] = "idle" /\ s_procq[d] = <<>>)
  /\ semaphore[d] > -MaxSem

-----------------------------------------------------------------------------
(* System calls of the running process (kernel mode) *)

\* syscall_handler up to its switch.
SyscallEntry ==
  /\ cpu = "user"
  /\ p_s' = [p_s EXCEPT ![current_process] = "user"]

\* SYS1: a new child on the ready queue, or -1 when no ProcBlk is free.
CreateProcess ==
  /\ cpu = "user"
  /\ flag' = "LOADCURRENT"
  /\ cpu' = "scheduler"
  /\ pcbFree # {}
  /\ \E child \in pcbFree :
       /\ pcbFree' = pcbFree \ {child}
       /\ p_parent' = [p_parent EXCEPT ![child] = current_process]
       /\ p_cursem' = [p_cursem EXCEPT ![child] = NULL]
       /\ res_wait' = [res_wait EXCEPT ![child] = 0]
       /\ tags' = [tags EXCEPT ![child] = {}]
       /\ p_s' = [p_s EXCEPT ![current_process] = "user", ![child] = "user"]
       /\ readyqueue' = Append(readyqueue, child)
  /\ process_count' = process_count + 1
  /\ UNCHANGED <<semaphore, s_procq, soft_block_count, current_process,
                 pseudoclockflag, device, arg>>

\* The other calls that only read or write data of the caller: GETCPUTIME,
\* GETPID, CREATEPROCESS without a free ProcBlk, EXITTRAP of no known type.
QuerySyscall ==
  /\ SyscallEntry
  /\ flag' = "LOADCURRENT"
  /\ cpu' = "scheduler"
  /\ UNCHANGED <<tree, sems, sched, tags, device, arg>>

\* EXITTRAP loads the old area itself, without a call of scheduler().
ExitTrap ==
  /\ SyscallEntry
  /\ flag' = "LOADCURRENT"
  /\ UNCHANGED <<tree, sems, sched, tags, device, cpu, arg>>

\* terminate_process(t) begins: t the caller, a descendant, or unknown.
TerminateBegin(t) ==
  /\ arg' = t
  /\ cpu' = "terminate"
  /\ UNCHANGED <<tree, sems, sched, tags, device>>

TerminateProcess(t) ==
  /\ SyscallEntry
  /\ flag' = "LOADCURRENT"
  /\ t \in Progeny(current_process)
  /\ MayKill(t)
  /\ TerminateBegin(t)

TerminateUnknown ==
  /\ SyscallEntry
  /\ flag' = "LOADCURRENT"
  /\ cpu' = "panic_pid"
  /\ UNCHANGED <<tree, sems, sched, tags, device, arg>>

\* SYS3 with a weight: P, V, or (weight 0) the end of the caller.
SemopP(a, w) ==
  /\ SyscallEntry
  /\ w < 0
  /\ semaphore[a] + w >= -MaxSem
  /\ Passeren(a, w, "scheduler")
  /\ UNCHANGED <<tree, readyqueue, pseudoclockflag, tags, device, arg>>

SemopV(a, w) ==
  /\ SyscallEntry
  /\ w > 0
  /\ semaphore[a] + w <= MaxSem
  /\ flag' = "LOADCURRENT"
  /\ cpu' = "scheduler"
  /\ Verhogen(a, w)
  /\ UNCHANGED <<tree, current_process, pseudoclockflag, tags, device, arg>>

SemopZero ==
  /\ SyscallEntry
  /\ flag' = "LOADCURRENT"
  /\ MayKill(current_process)
  /\ TerminateBegin(current_process)

SemopNull ==
  /\ SyscallEntry
  /\ flag' = "LOADCURRENT"
  /\ cpu' = "panic_null"
  /\ UNCHANGED <<tree, sems, sched, tags, device, arg>>

\* SYS4-6: a handler for exceptions of type t; a second call is fatal.
Specify(t) ==
  /\ SyscallEntry
  /\ flag' = "LOADCURRENT"
  /\ IF t \in tags[current_process]
     THEN /\ MayKill(current_process)
          /\ TerminateBegin(current_process)
     ELSE /\ tags' = [tags EXCEPT ![current_process] = @ \cup {t}]
          /\ cpu' = "scheduler"
          /\ UNCHANGED <<tree, sems, sched, device, arg>>

\* SYS9.
WaitClock ==
  /\ SyscallEntry
  /\ semaphore[CLOCK] > -MaxSem
  /\ Passeren(CLOCK, -1, "scheduler")
  /\ UNCHANGED <<tree, readyqueue, pseudoclockflag, tags, device, arg>>

\* SYS10 enables the interrupts first.
IoDevop(d) ==
  /\ SyscallEntry
  /\ MayUse(d)
  /\ flag' = "LOADCURRENT"
  /\ cpu' = "io_entry"
  /\ arg' = d
  /\ UNCHANGED <<tree, sems, sched, tags, device>>

\* The P that blocks the current process on a, up to the point stop.
PUpTo(a, stop) ==
  /\ semaphore[a] < 1
  /\ semaphore' = [semaphore EXCEPT ![a] = @ - 1]
  /\ res_wait' = [res_wait EXCEPT ![current_process] = -1]
  /\ IF stop = "io_charged" THEN UNCHANGED <<s_procq, p_cursem>>
     ELSE /\ ~NoSemd(a)
          /\ s_procq' = [s_procq EXCEPT ![a] = Append(@, current_process)]
          /\ p_cursem' = [p_cursem EXCEPT ![current_process] = a]
  /\ soft_block_count' = soft_block_count + (IF stop = "io_counted" THEN 1 ELSE 0)
  /\ cpu' = stop
  /\ UNCHANGED <<current_process, flag>>

\* ... then blocks the caller on the device's semaphore, with the interrupts
\* enabled: either to the end of the P or, with "io_interrupted", to the point
\* inside it where an interrupt comes, after which the P never goes on,
IoP ==
  /\ cpu = "io_entry"
  /\ \/ Passeren(arg, -1, "io_command")
     \/ \E stop \in InsideP \cap Interruptible : PUpTo(arg, stop)
  /\ UNCHANGED <<tree, readyqueue, pseudoclockflag, tags, p_s, device, arg>>

\* ... writes the command register (a busy device ignores it),
IoCommand ==
  /\ cpu = "io_command"
  /\ device' = [device EXCEPT ![arg] = "busy"]
  /\ cpu' = "io_issued"
  /\ UNCHANGED <<tree, sems, sched, tags, p_s, flag, arg>>

\* ... and returns to syscall_handler, which calls scheduler().
IoReturn ==
  /\ cpu = "io_issued"
  /\ cpu' = "scheduler"
  /\ arg' = NULL
  /\ UNCHANGED <<tree, sems, sched, tags, p_s, device, flag>>

\* An exception of type t ends the process, or is passed up to its handler.
\* SYS (a SYSCALL > 11 or a breakpoint) and, for a nucleus SYSCALL in user
\* mode, PGMTP go through syscall_handler, which saves the state and sets flag.
Exception(t) ==
  /\ cpu = "user"
  /\ \/ /\ t \in {"SYS", "PGMTP"}
        /\ flag' = "LOADCURRENT"
        /\ p_s' = [p_s EXCEPT ![current_process] = "user"]
     \/ /\ t \in {"TLB", "PGMTP"}
        /\ UNCHANGED <<flag, p_s>>
  /\ IF t \in tags[current_process]
     THEN UNCHANGED <<tree, sems, sched, tags, device, cpu, arg>>
     ELSE /\ MayKill(current_process)
          /\ TerminateBegin(current_process)

-----------------------------------------------------------------------------
(* Termination (interrupts disabled; one step for each ProcBlk freed) *)

Unblock_CountKept(c) ==
  IF p_cursem[c] = NULL
  THEN UNCHANGED <<semaphore, s_procq, soft_block_count>>
  ELSE LET a == p_cursem[c]
       IN /\ semaphore' = [semaphore EXCEPT ![a] = IF a \in DevSem THEN @ ELSE @ - res_wait[c]]
          /\ s_procq' = [s_procq EXCEPT ![a] = Without(@, c)]
          /\ UNCHANGED soft_block_count

Unblock_ValueKept(c) ==
  IF p_cursem[c] = NULL
  THEN UNCHANGED <<semaphore, s_procq, soft_block_count>>
  ELSE LET a == p_cursem[c]
       IN /\ s_procq' = [s_procq EXCEPT ![a] = Without(@, c)]
          /\ soft_block_count' = soft_block_count - 1
          /\ UNCHANGED semaphore

\* Take c off the semaphore it is blocked on; the value is given back
\* unless the semaphore is a device's.
Unblock(c) ==
  IF p_cursem[c] = NULL
  THEN UNCHANGED <<semaphore, s_procq, soft_block_count>>
  ELSE LET a == p_cursem[c]
       IN /\ semaphore' = [semaphore EXCEPT ![a] = IF a \in DevSem THEN @ ELSE @ - res_wait[c]]
          /\ s_procq' = [s_procq EXCEPT ![a] = Without(@, c)]
          /\ soft_block_count' = soft_block_count - 1

\* c leaves its parent's children and goes to the free list.
Free(c) ==
  /\ p_parent' = [p_parent EXCEPT ![c] = NULL]
  /\ pcbFree' = pcbFree \cup {c}
  /\ process_count' = process_count - 1

\* terminate_children frees a descendant.  It does not take it off the
\* ready queue: freePcb then overwrites the link the ready queue runs through.
TerminateChild(c) ==
  /\ cpu = "terminate"
  /\ c \in Progeny(arg) \ {arg}
  /\ EmptyChild(c)
  /\ IF c \in ToSet(readyqueue)
     THEN cpu' = "undefined" /\ UNCHANGED <<tree, sems>>
     ELSE Unblock(c) /\ Free(c) /\ UNCHANGED <<p_cursem, res_wait, cpu>>
  /\ UNCHANGED <<sched, tags, p_s, device, flag, arg>>

\* terminate_process ends with the caller itself,
TerminateCurrent ==
  /\ cpu = "terminate"
  /\ arg = current_process
  /\ EmptyChild(arg)
  /\ Free(arg)
  /\ current_process' = NULL
  /\ flag' = "LOADNEXT"
  /\ cpu' = "scheduler"
  /\ arg' = NULL
  /\ UNCHANGED <<sems, readyqueue, pseudoclockflag, tags, p_s, device>>

\* ... or lookfor_progeny with the process it found.
TerminateOther ==
  /\ cpu = "terminate"
  /\ arg # current_process
  /\ EmptyChild(arg)
  /\ Unblock(arg)
  /\ Free(arg)
  /\ readyqueue' = NotReady(arg)
  /\ cpu' = "scheduler"
  /\ arg' = NULL
  /\ UNCHANGED <<p_cursem, res_wait, current_process, pseudoclockflag, tags, p_s, device, flag>>

-----------------------------------------------------------------------------
(* Interrupts *)

Pending(d) == device[d] \in {"done", "error"}

\* interrupt_handler up to its chain of tests: what was running is saved
\* into the current process, if there is one.
InterruptEntry ==
  /\ cpu \in Interruptible
  /\ p_s' = IF current_process = NULL THEN p_s
            ELSE [p_s EXCEPT ![current_process] = cpu]
  /\ flag' = "LOADNEXT"

\* The interval timer has the highest priority.
TimerInterrupt ==
  /\ InterruptEntry
  /\ cpu # "timer_exit"
  /\ cpu' = IF pseudoclockflag THEN "timer" ELSE "timer_exit"
  /\ arg' = NULL
  /\ UNCHANGED <<tree, sems, sched, tags, device>>

\* timer_handler at a pseudo-clock tick: V until the value is 0.
TimerTick ==
  /\ cpu = "timer"
  /\ semaphore[CLOCK] < 0
  /\ Verhogen(CLOCK, 1)
  /\ UNCHANGED <<tree, current_process, pseudoclockflag, tags, p_s, device, flag, cpu, arg>>

TimerTickEnd_OneV ==
  /\ cpu = "timer"
  /\ flag' = "RESET"
  /\ cpu' = "timer_exit"
  /\ UNCHANGED <<tree, sems, sched, tags, p_s, device, arg>>

TimerTickEnd ==
  /\ cpu = "timer"
  /\ semaphore[CLOCK] >= 0
  /\ flag' = "RESET"
  /\ cpu' = "timer_exit"
  /\ UNCHANGED <<tree, sems, sched, tags, p_s, device, arg>>

Serve_AckOnly(d) ==
  /\ UNCHANGED <<sems, readyqueue>>
  /\ device' = [device EXCEPT ![d] = "idle"]

Serve_OnlyIfWaiting(d) ==
  /\ IF s_procq[d] # <<>> THEN Verhogen(d, 1) ELSE UNCHANGED <<sems, readyqueue>>
  /\ device' = [device EXCEPT ![d] = "idle"]

\* V on the device's semaphore (a device semaphore is never positive) and
\* acknowledgement.
Serve(d) ==
  /\ IF semaphore[d] < 1 THEN Verhogen(d, 1) ELSE UNCHANGED <<sems, readyqueue>>
  /\ device' = [device EXCEPT ![d] = "idle"]

\* The handler stores the device's status into the process at the head of
\* the queue before the V.  If there is none the store goes through NULL:
\* nothing may come of it, or anything (next: what the handler does then).
HeadMissing(d) == semaphore[d] < 1 /\ s_procq[d] = <<>>
Served(d, next) == {next} \cup (IF HeadMissing(d) THEN {"undefined"} ELSE {})

\* dev_handler for the pending plain device of highest priority.
DevInterrupt(d) ==
  /\ InterruptEntry
  /\ Pending(d)
  /\ \A e \in Plain : e < d => ~Pending(e)
  /\ Serve(d)
  /\ cpu' \in Served(d, "int_exit")
  /\ arg' = NULL
  /\ UNCHANGED <<tree, current_process, pseudoclockflag, tags>>

\* terminal_handler for the terminal of highest priority: its receiver if a
\* character has come (d is the terminal's transmitter),
TermInterrupt(d) ==
  /\ InterruptEntry
  /\ \A e \in Plain : ~Pending(e)
  /\ Pending(d) \/ Pending(d + NTerm)
  /\ \A e \in Transm : e < d => ~Pending(e) /\ ~Pending(e + NTerm)
  /\ IF device[d + NTerm] = "done"
     THEN Serve(d + NTerm) /\ cpu' \in Served(d + NTerm, "term_transm")
     ELSE UNCHANGED <<sems, readyqueue, device>> /\ cpu' = "term_transm"
  /\ arg' = d
  /\ UNCHANGED <<tree, current_process, pseudoclockflag, tags>>

\* ... then its transmitter if a character has gone.
TermTransm ==
  /\ cpu = "term_transm"
  /\ IF device[arg] = "done" THEN Serve(arg) /\ cpu' \in Served(arg, "int_exit")
     ELSE UNCHANGED <<sems, readyqueue, device>> /\ cpu' = "int_exit"
  /\ arg' = NULL
  /\ UNCHANGED <<tree, current_process, pseudoclockflag, tags, p_s, flag>>

\* interrupt_handler enables the interrupts before it calls scheduler().
InterruptExit ==
  /\ cpu \in Exits
  /\ cpu' = "scheduler"
  /\ UNCHANGED <<tree, sems, sched, tags, p_s, device, flag, arg>>

-----------------------------------------------------------------------------
(* The scheduler *)

\* scheduler() with flag LOADCURRENT.
LoadCurrent ==
  /\ cpu = "scheduler"
  /\ flag = "LOADCURRENT"
  /\ cpu' = Resume(current_process)
  /\ UNCHANGED <<tree, sems, sched, tags, p_s, device, flag, arg>>

Idle_OffByOne == CASE process_count = 0 -> "halt"
                   [] process_count > 0 /\ soft_block_count <= 1 -> "panic_deadlock"
                   [] OTHER -> "wait"

\* deadlock_detection.
Idle == CASE process_count = 0 -> "halt"
          [] process_count > 0 /\ soft_block_count = 0 -> "panic_deadlock"
          [] OTHER -> "wait"

\* The ready queue once loadnext has put the preempted process back.
Requeued_AtHead == IF current_process = NULL THEN readyqueue
                   ELSE <<current_process>> \o readyqueue
Requeued == IF current_process = NULL THEN readyqueue
            ELSE Append(readyqueue, current_process)

\* scheduler() with flag START, RESET or LOADNEXT.  Time is abstract: after
\* LOADNEXT 95 ms may have passed since the last tick (due), right after a
\* tick they have not.  A current process that is on a queue already, as an
\* interrupt inside its P leaves it, goes to the ready queue by the link that
\* queue runs through.
LoadNext ==
  /\ cpu = "scheduler"
  /\ flag # "LOADCURRENT"
  /\ \E due \in BOOLEAN :
       /\ due => flag = "LOADNEXT"
       /\ pseudoclockflag' = (due \/ (flag = "LOADNEXT" /\ pseudoclockflag))
  /\ IF current_process \in Blocked \cup ToSet(readyqueue)
     THEN cpu' = "undefined" /\ UNCHANGED <<current_process, readyqueue>>
     ELSE IF Requeued = <<>>
     THEN /\ current_process' = NULL
          /\ readyqueue' = <<>>
          /\ cpu' = Idle
     ELSE /\ current_process' = Head(Requeued)
          /\ readyqueue' = Tail(Requeued)
          /\ cpu' = Resume(Head(Requeued))
  /\ UNCHANGED <<tree, sems, tags, p_s, device, flag, arg>>

-----------------------------------------------------------------------------
(* External: the devices of the machine *)

DeviceDone(d) ==
  /\ device[d] = "busy"
  /\ \E result \in {"done"} \cup
        (IF "term_error" \in Hazards /\ d \notin Plain THEN {"error"} ELSE {}) :
       device' = [device EXCEPT ![d] = result]
  /\ UNCHANGED <<tree, sems, sched, tags, p_s, flag, cpu, arg>>

\* HALT and PANIC stop the machine; what follows "undefined" is not modelled.
Stopped == cpu \in Dead /\ UNCHANGED vars

Syscall ==
  \/ CreateProcess \/ QuerySyscall \/ ExitTrap \/ TerminateUnknown
  \/ SemopZero \/ SemopNull \/ WaitClock
  \/ \E t \in Proc : TerminateProcess(t)
  \/ \E a \in Sem, w \in Weights : SemopP(a, w) \/ SemopV(a, w)
  \/ \E t \in ExcType : Specify(t) \/ Exception(t)
  \/ \E d \in Dev : IoDevop(d)

Interrupt ==
  \/ TimerInterrupt
  \/ \E d \in Plain : DevInterrupt(d)
  \/ \E d \in Transm : TermInterrupt(d)

Kernel ==
  \/ IoP \/ IoCommand \/ IoReturn
  \/ TerminateCurrent \/ TerminateOther \/ (\E c \in Proc : TerminateChild(c))
  \/ TimerTick \/ TimerTickEnd \/ TermTransm \/ InterruptExit
  \/ LoadCurrent \/ LoadNext

Next == Syscall \/ Interrupt \/ Kernel \/ (\E d \in Dev : DeviceDone(d)) \/ Stopped

Spec == Init /\ [][Next]_vars

(***************************************************************************)
(* Fairness: nucleus code runs to its end; a busy device finishes; as the   *)
(* interval timer runs on across the calls of the running process, some     *)
(* interrupt comes; and a device's line, which stays asserted until it is   *)
(* acknowledged, is served if it is the first in priority again and again.  *)
(* Nothing is assumed of the processes.                                     *)
(***************************************************************************)
Fairness ==
  /\ WF_vars(Kernel)
  /\ \A d \in Dev : WF_vars(DeviceDone(d))
  /\ SF_vars(Interrupt)
  /\ \A d \in Plain : SF_vars(DevInterrupt(d))
  /\ \A d \in Transm : SF_vars(TermInterrupt(d))

FairSpec == Spec /\ Fairness

-----------------------------------------------------------------------------
(* Properties *)

\* Types of the nucleus' variables, and that the code never uses a NULL
\* current_process: there is one whenever a process, io_devop or
\* terminate_process runs and whenever scheduler() is told LOADCURRENT.
TypeOK ==
  /\ pcbFree \subseteq Proc
  /\ p_parent \in [Proc -> Proc \cup {NULL}]
  /\ p_cursem \in [Proc -> Addr \cup {NULL}]
  /\ res_wait \in [Proc -> Int]
  /\ tags \in [Proc -> SUBSET ExcType]
  /\ p_s \in [Proc -> {"user"} \cup Windows]
  /\ readyqueue \in Seq(Proc)
  /\ current_process \in Proc \cup {NULL}
  /\ s_procq \in [Addr -> Seq(Proc)]
  /\ semaphore \in [Addr -> Int]
  /\ device \in [Dev -> {"idle", "busy", "done", "error"}]
  /\ process_count \in Int
  /\ soft_block_count \in Int
  /\ flag \in {"START", "RESET", "LOADNEXT", "LOADCURRENT"}
  /\ pseudoclockflag \in BOOLEAN
  /\ cpu \in CpuStates
  /\ arg \in Proc \cup Dev \cup {NULL}
  /\ cpu \in {"user", "io_entry", "terminate"} \cup InsideP => current_process # NULL
  /\ cpu \in {"wait", "halt"} => current_process = NULL
  /\ flag = "LOADCURRENT" => current_process # NULL
  /\ cpu = "terminate" => arg \in Live
  /\ cpu \in {"io_entry", "io_command", "term_transm"} => arg \in Dev

\* process_count and soft_block_count, which decide between HALT, PANIC and
\* WAIT in deadlock_detection, count the living and the blocked processes.
CountsAgree ==
  /\ process_count = Cardinality(Live)
  /\ soft_block_count = Cardinality(Blocked)

\* Every living process is in exactly one place, once: it runs, it is on the
\* ready queue, or it is in the queue of one semaphore, the one p_cursem
\* names (the test `p_cursem != NULL' of the termination code relies on it).
\* Freed ProcBlks are on no queue.
Placement ==
  /\ IsInjective(readyqueue)
  /\ \A a \in Addr : IsInjective(s_procq[a])
  /\ \A p \in Live, a \in Addr : p \in ToSet(s_procq[a]) <=> p_cursem[p] = a
  /\ Live = ToSet(readyqueue) \cup Blocked \cup ({current_process} \ {NULL})
  /\ ToSet(readyqueue) \cap Blocked = {}
  /\ current_process \notin ToSet(readyqueue) \cup Blocked

\* The machine halts only when every process has ended, and idles only when
\* every living process is blocked, also while interrupts keep changing the
\* counters deadlock_detection decides by.  Of the nucleus' PANICs two are never
\* reached: that for want of a semaphore descriptor (syscall.c:193) and that of
\* deadlock_detection (scheduler.c:57), as every blocked process is counted.
StopsRightly ==
  /\ cpu \notin {"panic_semd", "panic_deadlock"}
  /\ cpu = "halt" => Live = {}
  /\ cpu = "wait" => Live # {} /\ Live = Blocked

\* Termination leaves no orphan: the living processes are one tree.
NoOrphans == Live = {} \/ \E root \in Live : Live = Progeny(root)

\* Resources of a semaphore that are not assigned to anyone: its value plus
\* what its waiters have already been charged.
Available(a) == Left(a, semaphore[a], 0)

\* No lost wakeup and no overtaking on a semaphore of the processes: what is
\* available is never negative, never enough for the first waiter, and a
\* non-negative value, which lets a P pass, means that nobody waits.  (It
\* need not hold while terminate_process still works through a subtree.)
SemaphoreSound ==
  cpu # "terminate" => \A a \in Sem :
    /\ Available(a) >= 0
    /\ s_procq[a] # <<>> => /\ Available(a) < -res_wait[Head(s_procq[a])]
                            /\ semaphore[a] < 0

\* An idle device has nobody waiting for it and its semaphore is back at 0:
\* every operation is started and its completion releases its requester,
\* even when the requester was terminated meanwhile.
DeviceQuiet ==
  \A d \in Dev :
    device[d] = "idle" /\ ~(cpu \in InsideP \cup {"io_command"} /\ arg = d)
      => semaphore[d] = 0 /\ s_procq[d] = <<>>

\* A pseudo-clock tick releases every process that waits for it, although
\* terminated waiters leave the semaphore's value too low.
TickReleasesAll == flag = "RESET" => s_procq[CLOCK] = <<>> /\ semaphore[CLOCK] = 0

\* From s to t whoever stays keeps its place: nobody gets ahead of it, and who
\* was behind it does not leave before it, unless it is terminated.
Ahead(s, p, q) == \E i, j \in DOMAIN s : i < j /\ s[i] = p /\ s[j] = q
InTurn(s, t) ==
  \A p \in ToSet(s) \cap ToSet(t), q \in Proc :
    /\ Ahead(t, q, p) => Ahead(s, q, p)
    /\ Ahead(s, p, q) => q \in ToSet(t) \cup pcbFree'

\* First come, first served, on the ready queue and on every semaphore, through
\* time slices, weighted Vs, interrupts and the termination of waiters.
ServedInTurn ==
  /\ InTurn(readyqueue, readyqueue')
  /\ \A a \in Addr : InTurn(s_procq[a], s_procq'[a])
NoOvertaking == [][ServedInTurn]_vars

\* The process tree behaves as ProcTree says, which Pcb shows of the links.
Tree == INSTANCE ProcTree WITH
  live <- Live, parent <- p_parent, caller <- current_process,
  target <- IF cpu = "terminate" THEN arg ELSE NULL
ImplementsTree == Tree!Spec

\* A process on the ready queue gets the processor, unless it is terminated
\* or the machine stops.
ReadyRuns ==
  \A p \in Proc : p \in ToSet(readyqueue)
    ~> current_process = p \/ p \in pcbFree \/ cpu \in Dead

\* A process that waits for a device is released, unless it is terminated
\* or the machine stops.
DeviceAnswers ==
  \A p \in Proc, d \in Dev : p \in ToSet(s_procq[d])
    ~> p \notin ToSet(s_procq[d]) \/ cpu \in Dead

\* What the comment of deadlock_detection promises: the processor idles only
\* if a device or the pseudo-clock can still release somebody.
IdleCanEnd == cpu = "wait" => \E a \in DevSem : s_procq[a] # <<>>

\* The handler of a pending device will find the process that waits for it,
\* to store the status there (headBlocked may return NULL, asl.c:146).
HandlerFindsWaiter ==
  \A d \in Dev : device[d] = "done" => ~HeadMissing(d)

\* What interrupt_handler's comment promises: the state saved for a process
\* is the point where its own code was interrupted.
UserStateSaved == \A p \in Live : p_s[p] = "user"
=============================================================================
