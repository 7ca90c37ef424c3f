------------------------------- MODULE CpuTime -------------------------------
(***************************************************************************)
(* CPU times: the variables startTOD (scheduler.c) and kernel_start         *)
(* (initial.c) and the fields kernel_time and global_time of a ProcBlk, as  *)
(* the handlers, the scheduler and semaphore_operation keep them, and what  *)
(* GETCPUTIME answers.                                                      *)
(*                                                                         *)
(* A step reads the time of day at most once: time may pass between any two *)
(* reads.  cputime_t is unsigned int: the fields wrap modulo W, like the    *)
(* low half of the time of day, which is read while it wraps (BOOT).        *)
(*                                                                         *)
(* io_devop enables the interrupts (syscall.c:361) and then blocks its      *)
(* caller with them enabled: an interrupt may find the process in any step  *)
(* of that P.  All handlers run on one stack, so a process that is resumed  *)
(* inside a handler finds frames that were overwritten ("undefined"),       *)
(* except behind interrupts.c:81, where only scheduler() is left to call.   *)
(* A definition X_Y before a definition X is a faulty X: no action uses it. *)
(***************************************************************************)
EXTENDS Integers, FiniteSets

CONSTANTS Proc, NULL,
          W,        \* 2^w, w the width of unsigned int
          BOOT,     \* the low half of the time of day at boot
          Horizon   \* bound on the time that passes

ASSUME CpuTimeAssumption ==
  /\ NULL \notin Proc
  /\ Horizon \in Nat /\ W \in Nat /\ Horizon < W
  /\ BOOT \in 0 .. W - 1

VARIABLES
  time,             \* history: time passed since boot
  cpu,              \* what the processor executes, see At
  why,              \* what the handler was entered for, see Cause
  current_process,
  ready, blocked,   \* the living processes in the queues
  p_s,              \* [Proc -> where its saved state resumes it, see Point]
  twice,            \* history: those an interrupt found charged and still current
  startTOD, kernel_start,
  kernel_time, global_time,  \* [Proc -> cputime_t]
  first,            \* history: [Proc -> its first answer to GETCPUTIME, or NULL]
  answer,           \* the answer just given, or NULL
  ran,              \* history: [Proc -> time its own code was executed]
  held              \* history: [Proc -> time it was current_process]

At    == {"process", "entry", "handler", "half", "charged", "queued", "window",
          "loadnext", "select", "start", "idle", "undefined"}
Cause == {"call", "cputime", "block", "io", "user_call", "pass_up", "exit_trap", "terminate",
          "interrupt"}
Point == {"process", "window", "handler", "half", "charged", "queued"}

nucleus == <<startTOD, kernel_start>>
times   == <<kernel_time, global_time>>
procs   == <<current_process, ready, blocked, p_s, twice>>
ghosts  == <<time, ran, held>>
vars    == <<ghosts, cpu, why, procs, nucleus, times, first, answer>>

Plus(a, b)  == (a + b) % W
Minus(a, b) == (a - b) % W
TODLO == Plus(BOOT, time)

NoTimes == [p \in Proc |-> 0]

\* main, and the first loadnext up to line 89.
Init ==
  \E p \in Proc :
    /\ current_process = p /\ ready = {} /\ blocked = {}
    /\ p_s = [q \in Proc |-> "process"] /\ twice = {}
    /\ cpu = "start" /\ why = "interrupt"
    /\ startTOD = 0 /\ kernel_start = 0
    /\ kernel_time = NoTimes /\ global_time = NoTimes
    /\ first = [q \in Proc |-> NULL] /\ answer = NULL
    /\ time = 0 /\ ran = NoTimes /\ held = NoTimes

Elapse ==
  /\ time < Horizon /\ cpu # "undefined"
  /\ time' = time + 1
  /\ ran' = IF cpu = "process" THEN [ran EXCEPT ![current_process] = @ + 1] ELSE ran
  /\ held' = IF current_process # NULL
             THEN [held EXCEPT ![current_process] = @ + 1] ELSE held
  /\ UNCHANGED <<cpu, why, procs, nucleus, times, first, answer>>

-----------------------------------------------------------------------------
(* Charging the current process *)

ChargeKernel ==
  kernel_time' = [kernel_time EXCEPT ![current_process] =
                    Plus(@, Minus(TODLO, kernel_start))]
ChargeGlobal ==
  global_time' = [global_time EXCEPT ![current_process] =
                    Plus(@, Minus(TODLO, startTOD))]

-----------------------------------------------------------------------------
(* Handlers *)

\* Where interrupts are enabled: in a process, while the processor waits,
\* between interrupts.c:81 and scheduler.c:17, and from syscall.c:361 on.
Enabled ==
  \/ cpu \in {"process", "window", "idle"}
  \/ why = "io" /\ cpu \in {"handler", "half", "charged", "queued"}

\* An exception of a process.
Enter(cause) ==
  /\ cpu = "process" /\ cause # "interrupt"
  /\ cpu' = "entry" /\ why' = cause
  /\ UNCHANGED <<ghosts, procs, nucleus, times, first, answer>>

\* An interrupt: what it finds is saved in the current process, if there is one.
Interrupt ==
  /\ Enabled
  /\ IF current_process = NULL THEN UNCHANGED <<p_s, twice>>
     ELSE /\ p_s' = [p_s EXCEPT ![current_process] = cpu]
          /\ twice' = IF cpu \in {"charged", "queued"} THEN twice \cup {current_process}
                      ELSE twice
  /\ cpu' = "entry" /\ why' = "interrupt"
  /\ UNCHANGED <<ghosts, current_process, ready, blocked, nucleus, times, first, answer>>

\* Every handler begins with kernel_start = getTODLO().
ReadKernelStart_OnlyFirst ==
  /\ cpu = "entry"
  /\ cpu' = "handler"
  /\ kernel_start' = IF why = "pass_up" THEN kernel_start ELSE TODLO
  /\ UNCHANGED <<ghosts, why, procs, startTOD, times, first, answer>>
ReadKernelStart ==
  /\ cpu = "entry"
  /\ cpu' = "handler"
  /\ kernel_start' = TODLO
  /\ UNCHANGED <<ghosts, why, procs, startTOD, times, first, answer>>

Answer == [global |-> global_time[current_process],
           user   |-> Minus(global_time[current_process], kernel_time[current_process])]

\* get_cputime; the call then ends like any other.
GetCputime ==
  /\ cpu = "handler" /\ why = "cputime"
  /\ answer' = Answer
  /\ first' = IF first[current_process] = NULL
              THEN [first EXCEPT ![current_process] = Answer] ELSE first
  /\ why' = "call"
  /\ UNCHANGED <<ghosts, cpu, procs, nucleus, times>>

\* CREATEPROCESS: the times of a new process are zero.
CreateProcess(p) ==
  /\ cpu = "handler" /\ why = "call"
  /\ p \notin ready \cup blocked \cup {current_process}
  /\ ready' = ready \cup {p}
  /\ p_s' = [p_s EXCEPT ![p] = "process"]
  /\ kernel_time' = [kernel_time EXCEPT ![p] = 0]
  /\ global_time' = [global_time EXCEPT ![p] = 0]
  /\ UNCHANGED <<ghosts, cpu, why, current_process, blocked, twice, nucleus, first, answer>>

\* A V, in a system call or in an interrupt handler.
Release(p) ==
  /\ cpu = "handler" /\ why \in {"call", "interrupt"}
  /\ p \in blocked
  /\ blocked' = blocked \ {p} /\ ready' = ready \cup {p}
  /\ UNCHANGED <<ghosts, cpu, why, current_process, p_s, twice, nucleus, times, first, answer>>

\* The end of a system call that does not block (LOADCURRENT): startTOD stays.
EndCall ==
  /\ cpu = "handler" /\ why = "call"
  /\ ChargeKernel
  /\ cpu' = "process" /\ answer' = NULL
  /\ UNCHANGED <<ghosts, why, procs, nucleus, global_time, first>>

\* EXITTRAP loads the old area at once and charges nothing.
ExitTrap ==
  /\ cpu = "handler" /\ why = "exit_trap"
  /\ cpu' = "process"
  /\ UNCHANGED <<ghosts, why, procs, nucleus, times, first, answer>>

\* A handler of the process is loaded ...
PassUp ==
  /\ cpu = "handler" /\ why = "pass_up"
  /\ ChargeKernel
  /\ cpu' = "process"
  /\ UNCHANGED <<ghosts, why, procs, nucleus, global_time, first, answer>>

\* ... in user mode after syscall_handler has called pgmtrap_handler.
UserCall ==
  /\ cpu = "handler" /\ why = "user_call"
  /\ ChargeKernel
  /\ cpu' = "entry" /\ why' = "pass_up"
  /\ UNCHANGED <<ghosts, procs, nucleus, global_time, first, answer>>

\* semaphore_operation charges both times before it blocks the process: lines
\* 189, 190, 192 and 199.  io_devop calls it with interrupts enabled.
BlockKernel ==
  /\ cpu = "handler" /\ why \in {"block", "io"}
  /\ ChargeKernel
  /\ cpu' = "half"
  /\ UNCHANGED <<ghosts, why, procs, nucleus, global_time, first, answer>>

BlockGlobal ==
  /\ cpu = "half"
  /\ ChargeGlobal
  /\ cpu' = "charged"
  /\ UNCHANGED <<ghosts, why, procs, nucleus, kernel_time, first, answer>>

BlockInsert ==
  /\ cpu = "charged"
  /\ blocked' = blocked \cup {current_process}
  /\ cpu' = "queued"
  /\ UNCHANGED <<ghosts, why, current_process, ready, p_s, twice, nucleus, times, first, answer>>

\* Behind it, io_devop writes the command before the scheduler is called.
BlockLeave ==
  /\ cpu = "queued"
  /\ current_process' = NULL
  /\ cpu' = IF why = "io" THEN "window" ELSE "loadnext"
  /\ UNCHANGED <<ghosts, why, ready, blocked, p_s, twice, nucleus, times, first, answer>>

Terminate ==
  /\ cpu = "handler" /\ why = "terminate"
  /\ current_process' = NULL
  /\ cpu' = "loadnext"
  /\ first' = [first EXCEPT ![current_process] = NULL]
  /\ ran' = [ran EXCEPT ![current_process] = 0]
  /\ held' = [held EXCEPT ![current_process] = 0]
  /\ UNCHANGED <<time, why, ready, blocked, p_s, twice, nucleus, times, answer>>

\* The end of interrupt_handler: lines 73-81.
EndInterrupt_GlobalToo ==
  /\ cpu = "handler" /\ why = "interrupt"
  /\ IF current_process # NULL THEN ChargeKernel /\ ChargeGlobal ELSE UNCHANGED times
  /\ cpu' = "window"
  /\ UNCHANGED <<ghosts, why, procs, nucleus, first, answer>>
EndInterrupt ==
  /\ cpu = "handler" /\ why = "interrupt"
  /\ IF current_process # NULL THEN ChargeKernel ELSE UNCHANGED kernel_time
  /\ cpu' = "window"
  /\ UNCHANGED <<ghosts, why, procs, nucleus, global_time, first, answer>>

CallScheduler ==
  /\ cpu = "window"
  /\ cpu' = "loadnext"
  /\ UNCHANGED <<ghosts, why, procs, nucleus, times, first, answer>>

-----------------------------------------------------------------------------
(* loadnext *)

\* A process that already is in a queue joins another one: undefined.
Preempt ==
  /\ cpu = "loadnext"
  /\ IF current_process = NULL THEN cpu' = "select" /\ UNCHANGED <<procs, global_time>>
     ELSE /\ ChargeGlobal
          /\ IF current_process \in ready \cup blocked THEN cpu' = "undefined" /\ UNCHANGED procs
             ELSE /\ ready' = ready \cup {current_process} /\ current_process' = NULL
                  /\ cpu' = "select"
                  /\ UNCHANGED <<blocked, p_s, twice>>
  /\ UNCHANGED <<ghosts, why, nucleus, kernel_time, first, answer>>

\* The order of the ready queue does not matter here.
Select ==
  /\ cpu = "select"
  /\ IF ready = {} THEN cpu' = "idle" /\ UNCHANGED procs
     ELSE \E p \in ready : /\ current_process' = p /\ ready' = ready \ {p}
                           /\ cpu' = "start"
                           /\ UNCHANGED <<blocked, p_s, twice>>
  /\ UNCHANGED <<ghosts, why, nucleus, times, first, answer>>

Start ==
  /\ cpu = "start"
  /\ startTOD' = TODLO
  /\ cpu' = IF p_s[current_process] \in {"process", "window"} THEN p_s[current_process]
            ELSE "undefined"
  /\ UNCHANGED <<ghosts, why, procs, kernel_start, times, first, answer>>

Next ==
  \/ Elapse
  \/ Interrupt \/ \E cause \in Cause : Enter(cause)
  \/ ReadKernelStart \/ GetCputime \/ EndCall \/ ExitTrap \/ PassUp \/ UserCall
  \/ BlockKernel \/ BlockGlobal \/ BlockInsert \/ BlockLeave
  \/ Terminate \/ EndInterrupt \/ CallScheduler
  \/ \E p \in Proc : CreateProcess(p) \/ Release(p)
  \/ Preempt \/ Select \/ Start

Spec == Init /\ [][Next]_vars

-----------------------------------------------------------------------------
(* Properties *)

Word == 0 .. W - 1

\* Times are words, and a process is in one place, but for a current process
\* that is on its way into a queue or was interrupted there.
TypeOK ==
  /\ cpu \in At /\ why \in Cause
  /\ startTOD \in Word /\ kernel_start \in Word
  /\ kernel_time \in [Proc -> Word] /\ global_time \in [Proc -> Word]
  /\ ready \subseteq Proc /\ blocked \subseteq Proc \ ready
  /\ p_s \in [Proc -> Point] /\ twice \subseteq Proc
  /\ current_process \in {NULL} \cup Proc
  /\ current_process \in ready \cup blocked => cpu = "queued" \/ current_process \in twice
  /\ cpu = "process" => current_process # NULL

\* While a process does not hold the processor its times are settled: what it
\* has executed itself is in global_time and not in kernel_time (user time is
\* global_time - kernel_time, types.h:28), even if the time of day has wrapped
\* or an interrupt came in behind interrupts.c:81 or in io_devop before the
\* process was charged.  (For `twice', see ChargedOnce.)
UserTimeCharged ==
  \A p \in (ready \cup blocked) \ twice : ran[p] + kernel_time[p] <= global_time[p]

\* The slice of the current process has begun and is not charged yet.
InSlice ==
  current_process # NULL /\ cpu \notin {"start", "charged", "queued", "undefined"}

\* No time is charged twice or to two processes: what a process has been
\* charged, and will be for the slice in progress, it held the processor (with
\* the types of the times).  The exception are the processes an interrupt
\* found between syscall.c:190 and 199: they are charged, and are still
\* current_process when loadnext charges it (scheduler.c:73).
ChargedOnce ==
  /\ TypeOK
  /\ \A p \in (ready \cup blocked \cup ({current_process} \ {NULL})) \ twice :
       global_time[p] + (IF p = current_process /\ InSlice THEN Minus(TODLO, startTOD) ELSE 0)
         <= held[p]

\* Without that exception (double_charge.cfg: the code breaks it).
ChargedOnceEver ==
  \A p \in ready \cup blocked : global_time[p] <= held[p]

\* Between two answers of GETCPUTIME the global time grows at least as much
\* as the user time (p2test.c:400, "error: more system time than user time").
UserWithinGlobal ==
  answer # NULL =>
    Minus(answer.user, first[current_process].user)
      <= Minus(answer.global, first[current_process].global)
=============================================================================
