----------------------------- MODULE PseudoClock -----------------------------
(***************************************************************************)
(* Time in the scheduler: the interval timer, which is both the time slice  *)
(* and the pseudo-clock, the time of day (TOD) it is computed from, and the *)
(* flags between timer_handler and loadnext (source/scheduler.c,            *)
(* interrupts.c).  Module Nucleus abstracts all of this to one choice.      *)
(*                                                                         *)
(* The machine counts modulo 2^32; here modulo W.  One step of Elapse is    *)
(* one unit of time.  Nucleus code may take up to `latency' units from its  *)
(* entry until it loads a process, and they may pass between any two reads  *)
(* of TOD.  The processes are reduced to how many are ready, wait for the   *)
(* clock, or are blocked elsewhere (a device or a semaphore).               *)
(* A definition X_Y before a definition X is a faulty X: no action uses it. *)
(***************************************************************************)
EXTENDS Integers

CONSTANTS W,        \* the machine's words hold 0 .. W - 1
          SLICE,    \* SCHED_TIME_SLICE
          PSEUDO,   \* SCHED_PSEUDO_CLOCK
          BOGUS,    \* SCHED_BOGUS_SLICE
          N,        \* number of processes
          Settings  \* the machines and clients considered, see Setting

(***************************************************************************)
(* latency: how long the nucleus may take from an entry to its exit (a      *)
(* bound).  others: processes also block on devices and semaphores.         *)
(* nested: interrupts arrive at interrupts.c:81.                            *)
(***************************************************************************)
Setting == [latency : Nat, others : BOOLEAN, nested : BOOLEAN]

ASSUME ClockAssumption ==
  /\ {W, SLICE, PSEUDO, BOGUS, N} \subseteq Nat
  /\ 0 < SLICE /\ SLICE < PSEUDO /\ PSEUDO < BOGUS /\ BOGUS < W /\ 0 < N
  /\ 2 * PSEUDO < W
  /\ Settings \subseteq Setting

VARIABLES
  setting,          \* one of Settings; never changes
  TOD,              \* the low word of the time of day
  timer,            \* the interval timer, counting down
  expired,          \* the timer's interrupt is pending
  pseudo_start,
  pseudoclockflag,
  flag,
  cpu,              \* what the processor executes
  running,          \* there is a current process
  ready, clock, blocked,  \* processes ready, waiting for the clock, elsewhere
  budget,           \* time the nucleus may still take
  sinceTick         \* time since the last tick or START, up to Horizon

count == <<running, ready, clock, blocked>>
state == <<TOD, timer, expired, pseudo_start, pseudoclockflag, flag, cpu, count,
           budget, sinceTick>>
vars  == <<setting, state>>

Word    == 0 .. W - 1
\* Beyond every bound that TickOnTime states.
Horizon == PSEUDO + (N + 1) * SLICE
Nucleus == {"timer", "int_exit", "scheduler", "loadnext", "interval",
            "announced", "dispatch"}

\* An unsigned difference.
Minus_Signed(x, y) == x - y
Minus(x, y) == (x - y) % W

Init ==
  /\ setting \in Settings
  /\ TOD = 0
  /\ timer = W - 1
  /\ expired = FALSE
  /\ pseudo_start = 0
  /\ pseudoclockflag = FALSE
  /\ flag = "START"
  /\ cpu = "scheduler"
  /\ running = FALSE
  /\ ready = N
  /\ clock = 0
  /\ blocked = 0
  /\ budget = setting.latency
  /\ sinceTick = 0

-----------------------------------------------------------------------------
(* External: the machine *)

InterruptsEnabled == cpu \in {"user", "wait"} \/ (setting.nested /\ cpu = "int_exit")

\* Time passes; the timer interrupts at zero (past it, if it was set to zero)
\* and goes on.  A pending interrupt is taken at once where that is enabled.
Elapse ==
  /\ IF cpu \in Nucleus THEN budget > 0 /\ budget' = budget - 1
     ELSE ~expired /\ UNCHANGED budget
  /\ TOD' = (TOD + 1) % W
  /\ timer' = Minus(timer, 1)
  /\ expired' = (expired \/ timer <= 1)
  /\ sinceTick' = IF sinceTick < Horizon THEN sinceTick + 1 ELSE sinceTick
  /\ UNCHANGED <<pseudo_start, pseudoclockflag, flag, cpu, count>>

\* A store to the timer, which also acknowledges its interrupt.
SetTimer(value) == timer' = value /\ expired' = FALSE

-----------------------------------------------------------------------------
(* The processes *)

Trap == cpu = "user" /\ ~expired /\ budget' = setting.latency

\* A system call that returns to its caller.
Call ==
  /\ Trap
  /\ cpu' = "scheduler"
  /\ flag' = "LOADCURRENT"
  /\ UNCHANGED <<TOD, timer, expired, pseudo_start, pseudoclockflag, count, sinceTick>>

Sleep ==
  /\ Trap
  /\ cpu' = "scheduler"
  /\ flag' = "LOADNEXT"
  /\ running' = FALSE
  /\ UNCHANGED <<TOD, timer, expired, pseudo_start, pseudoclockflag, ready, sinceTick>>

WaitClock == Sleep /\ clock' = clock + 1 /\ UNCHANGED blocked

\* A P or an I/O operation that blocks its caller.
BlockElsewhere == setting.others /\ Sleep /\ blocked' = blocked + 1 /\ UNCHANGED clock

\* A V of the current process.
Release ==
  /\ setting.others
  /\ blocked > 0
  /\ Trap
  /\ cpu' = "scheduler"
  /\ flag' = "LOADCURRENT"
  /\ ready' = ready + 1
  /\ blocked' = blocked - 1
  /\ UNCHANGED <<TOD, timer, expired, pseudo_start, pseudoclockflag, running, clock, sinceTick>>

-----------------------------------------------------------------------------
(* Interrupts *)

\* interrupt_handler up to its chain of tests; the latency of a nested
\* interrupt adds to what its predecessor has left.
InterruptEntry ==
  /\ InterruptsEnabled
  /\ flag' = "LOADNEXT"
  /\ budget' = IF cpu = "int_exit" THEN budget ELSE setting.latency

TimerInterrupt ==
  /\ expired
  /\ InterruptEntry
  /\ cpu' = "timer"
  /\ UNCHANGED <<TOD, timer, expired, pseudo_start, pseudoclockflag, count, sinceTick>>

TimerHandler_NoReset ==
  /\ cpu = "timer"
  /\ IF pseudoclockflag
     THEN /\ ready' = ready + clock
          /\ clock' = 0
          /\ sinceTick' = 0
     ELSE UNCHANGED <<ready, clock, sinceTick>>
  /\ SetTimer(BOGUS)
  /\ cpu' = "int_exit"
  /\ UNCHANGED <<TOD, pseudo_start, pseudoclockflag, flag, running, blocked, budget>>

TimerHandler ==
  /\ cpu = "timer"
  /\ IF pseudoclockflag
     THEN /\ ready' = ready + clock
          /\ clock' = 0
          /\ flag' = "RESET"
          /\ sinceTick' = 0
     ELSE UNCHANGED <<ready, clock, flag, sinceTick>>
  /\ SetTimer(BOGUS)
  /\ cpu' = "int_exit"
  /\ UNCHANGED <<TOD, pseudo_start, pseudoclockflag, running, blocked, budget>>

\* A device releases the process that waits for it.
DeviceInterrupt ==
  /\ setting.others
  /\ blocked > 0
  /\ ~expired
  /\ InterruptEntry
  /\ ready' = ready + 1
  /\ blocked' = blocked - 1
  /\ cpu' = "int_exit"
  /\ UNCHANGED <<TOD, timer, expired, pseudo_start, pseudoclockflag, running, clock, sinceTick>>

InterruptExit ==
  /\ cpu = "int_exit"
  /\ cpu' = "scheduler"
  /\ UNCHANGED <<TOD, timer, expired, pseudo_start, pseudoclockflag, flag, count, budget, sinceTick>>

-----------------------------------------------------------------------------
(* The scheduler *)

\* scheduler: START sets the first slice, START and RESET begin a period.
Scheduler ==
  /\ cpu = "scheduler"
  /\ IF flag = "START" THEN SetTimer(SLICE) ELSE UNCHANGED <<timer, expired>>
  /\ IF flag \in {"START", "RESET"}
     THEN pseudoclockflag' = FALSE /\ pseudo_start' = TOD
     ELSE UNCHANGED <<pseudoclockflag, pseudo_start>>
  /\ cpu' = IF flag = "LOADCURRENT" THEN "user" ELSE "loadnext"
  /\ UNCHANGED <<TOD, flag, count, budget, sinceTick>>

Due_SlicesLate == Minus(TOD, pseudo_start) > PSEUDO
Due == Minus(TOD, pseudo_start) > PSEUDO - SLICE

\* loadnext: the preempted process goes to the ready queue; is the rest of
\* the period shorter than a slice?
LoadNext ==
  /\ cpu = "loadnext"
  /\ ready' = IF running THEN ready + 1 ELSE ready
  /\ running' = FALSE
  /\ IF Due THEN cpu' = "interval" /\ UNCHANGED <<timer, expired>>
     ELSE cpu' = "dispatch" /\ SetTimer(SLICE)
  /\ UNCHANGED <<TOD, pseudo_start, pseudoclockflag, flag, clock, blocked, budget, sinceTick>>

SetInterval_NotAnnounced ==
  /\ cpu = "interval"
  /\ SetTimer(Minus(PSEUDO, Minus(TOD, pseudo_start)))
  /\ cpu' = "announced"
  /\ UNCHANGED <<TOD, pseudo_start, pseudoclockflag, flag, count, budget, sinceTick>>

\* It is: the timer gets the rest, computed from a second read of TOD,
SetInterval ==
  /\ cpu = "interval"
  /\ SetTimer(Minus(PSEUDO, Minus(TOD, pseudo_start)))
  /\ pseudoclockflag' = TRUE
  /\ cpu' = "announced"
  /\ UNCHANGED <<TOD, pseudo_start, flag, count, budget, sinceTick>>

\* ... and the period begins with a third.
StartPeriod ==
  /\ cpu = "announced"
  /\ pseudo_start' = TOD
  /\ cpu' = "dispatch"
  /\ UNCHANGED <<TOD, timer, expired, pseudoclockflag, flag, count, budget, sinceTick>>

\* The next ready process; without one deadlock_detection sets the timer
\* to a slice again and waits (HALT and PANIC need no time: see Nucleus).
Dispatch ==
  /\ cpu = "dispatch"
  /\ IF ready > 0
     THEN /\ running' = TRUE
          /\ ready' = ready - 1
          /\ cpu' = "user"
          /\ UNCHANGED <<timer, expired>>
     ELSE /\ SetTimer(SLICE)
          /\ cpu' = "wait"
          /\ UNCHANGED <<running, ready>>
  /\ UNCHANGED <<TOD, pseudo_start, pseudoclockflag, flag, clock, blocked, budget, sinceTick>>

-----------------------------------------------------------------------------
Process   == Call \/ WaitClock \/ BlockElsewhere \/ Release
Interrupt == TimerInterrupt \/ DeviceInterrupt
Kernel    == TimerHandler \/ InterruptExit \/ Scheduler \/ LoadNext
             \/ SetInterval \/ StartPeriod \/ Dispatch

Next == (Elapse \/ Process \/ Interrupt \/ Kernel) /\ UNCHANGED setting

Spec == Init /\ [][Next]_vars

(***************************************************************************)
(* Fairness: nucleus code runs to its end, a pending timer interrupt is     *)
(* taken where interrupts are enabled, and time passes, however many system *)
(* calls a process makes.                                                   *)
(***************************************************************************)
FairSpec ==
  Spec /\ WF_state(Kernel) /\ SF_state(TimerInterrupt)
       /\ SF_state(Elapse /\ cpu \in {"user", "wait"})

-----------------------------------------------------------------------------
(* Properties *)

\* The words are words, the counters count the processes, and the nucleus
\* loads a process only if there is one.
TypeOK ==
  /\ {TOD, timer, pseudo_start} \subseteq Word
  /\ expired \in BOOLEAN /\ pseudoclockflag \in BOOLEAN
  /\ flag \in {"START", "RESET", "LOADNEXT", "LOADCURRENT"}
  /\ cpu \in Nucleus \cup {"user", "wait"}
  /\ {ready, clock, blocked} \subseteq 0 .. N
  /\ ready + clock + blocked + (IF running THEN 1 ELSE 0) = N
  /\ budget \in 0 .. setting.latency
  /\ sinceTick \in 0 .. Horizon
  /\ cpu = "user" => running
  /\ cpu = "wait" => clock + blocked > 0

\* "100 ms (approx.) are expired" (interrupts.c:119): pseudoclockflag, which
\* makes the next timer interrupt a tick, is up only when all but a slice of
\* a period has passed since the last tick (until the scheduler resets it).
\* A nested interrupt can make the scheduler miss the reset.
NoEarlyTick ==
  pseudoclockflag /\ ~(flag = "RESET" /\ cpu \in {"int_exit", "scheduler"}) /\ ~setting.nested
    => sinceTick > PSEUDO - SLICE

\* "set remaining time to pseudoclock tick" (scheduler.c:79): once the tick is
\* announced, the timer interrupts within a slice, unless the tick has passed
\* between two reads of TOD.
TickArmed ==
  pseudoclockflag /\ cpu \in {"user", "wait"} /\ setting.latency = 0
    => timer <= SLICE \/ expired

\* Two ticks are at most a period apart, and a slice more for each process
\* that goes to sleep meanwhile, as long as no device has one reprogrammed.
TickOnTime ==
  ~setting.others /\ setting.latency = 0 /\ ~setting.nested => sinceTick <= PSEUDO + N * SLICE

\* WAITCLOCK ends: who waits for the clock is released by a tick, even a late
\* one, of the processes' own slices.
TickComes == clock > 0 /\ ~setting.others ~> clock = 0

\* "to be sure the timer handler will treat the next timer interrupt as a
\* pseudoclock tick" (scheduler.c:81): whatever devices do, who waits for the
\* clock is released.
TickAlwaysComes == clock > 0 ~> clock = 0
=============================================================================
