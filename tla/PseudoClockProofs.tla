--------------------------- MODULE PseudoClockProofs ---------------------------
(***************************************************************************)
(* Theorems about PseudoClock: the words, the counters and the loads of the *)
(* scheduler (TypeOK), and the three promises about the pseudo-clock tick:  *)
(* never a slice early (NoEarlyTick), armed once announced (TickArmed), and *)
(* at most a slice late per sleeper (TickOnTime).                           *)
(*                                                                         *)
(* Each promise has its own inductive invariant over `Period', the time the *)
(* scheduler computes from TOD: it is what the nucleus knows of sinceTick,  *)
(* the time that really passed.  They all rest on arithmetic modulo W.      *)
(***************************************************************************)
EXTENDS PseudoClock, TLAPS

\* The time since pseudo_start, as the scheduler computes it.
Period == Minus(TOD, pseudo_start)

\* A tick has come and the scheduler has not yet begun the next period.
TickPending == flag = "RESET" /\ cpu \in {"int_exit", "scheduler"}

\* A process, or the idle nucleus, has the timer as it is: between two slices
\* scheduler may only return to the caller of a system call.
InSlice == cpu \in {"user", "wait"} \/ (cpu = "scheduler" /\ flag = "LOADCURRENT")

-----------------------------------------------------------------------------
(* The inductive invariants *)

\* Where there is a current process, and what flag may be in the handlers.
ControlInv ==
  /\ TypeOK
  /\ setting \in Settings
  /\ cpu \in {"interval", "announced", "dispatch", "wait"} => ~running
  /\ cpu = "scheduler" /\ flag = "LOADCURRENT" => running
  /\ cpu = "timer" => flag = "LOADNEXT"
  /\ cpu = "int_exit" => flag \in {"LOADNEXT", "RESET"}
  /\ ~setting.others => blocked = 0

\* Without nested interrupts the scheduler never counts a period as older
\* than the last tick, so what it finds due is due.
EarlyInv ==
  ~setting.nested =>
    /\ ~TickPending => Period <= sinceTick \/ sinceTick = Horizon
    /\ cpu = "interval" => sinceTick > PSEUDO - SLICE
    /\ pseudoclockflag /\ ~TickPending => sinceTick > PSEUDO - SLICE

\* With an instant nucleus the timer never outlives the period: while it runs
\* there is no more on it than is left, and at most a slice.
ArmedInv ==
  setting.latency = 0 =>
    /\ Period <= PSEUDO
    /\ InSlice /\ ~expired => Period + timer <= PSEUDO /\ (timer = 0 => Period = 0)
    /\ InSlice /\ pseudoclockflag => timer <= SLICE \/ expired
    /\ cpu = "scheduler" /\ flag = "LOADCURRENT" => ~expired
    /\ cpu = "interval" => Period > PSEUDO - SLICE
    /\ cpu = "announced" => ~expired /\ Period > PSEUDO - SLICE /\ timer = PSEUDO - Period
    /\ cpu = "dispatch" =>
         /\ ~expired /\ timer <= SLICE
         /\ Period <= PSEUDO - SLICE /\ Period + timer <= PSEUDO
         /\ timer = 0 => Period = 0
    /\ cpu = "wait" /\ ~expired => timer > 0

\* Before the announcement the tick is as far as the period says; after it,
\* each process that goes to sleep may buy a slice more.
Allowance == PSEUDO + clock * SLICE
Latest    == PSEUDO + N * SLICE

OnTime == ~setting.others /\ setting.latency = 0 /\ ~setting.nested

OnTimeInv ==
  OnTime =>
    /\ ~pseudoclockflag => sinceTick <= Period
    /\ cpu = "scheduler" /\ flag \in {"START", "RESET"} => sinceTick = 0
    /\ cpu = "int_exit" /\ flag = "RESET" => sinceTick = 0
    /\ cpu = "announced" => pseudoclockflag
    /\ pseudoclockflag =>
         /\ cpu = "int_exit" => flag = "RESET"
         /\ cpu = "timer" \/ (InSlice /\ expired) => sinceTick <= Latest
         /\ InSlice /\ ~expired => sinceTick + timer <= Allowance
         /\ cpu \in {"loadnext", "interval"} \/ (cpu = "scheduler" /\ flag = "LOADNEXT")
              => clock > 0 /\ sinceTick + SLICE <= Allowance
         /\ cpu \in {"announced", "dispatch"} =>
              /\ sinceTick + timer <= Allowance
              /\ IF clock > 0 THEN sinceTick + SLICE <= Allowance
                 ELSE sinceTick <= PSEUDO

PInv == ControlInv /\ EarlyInv /\ ArmedInv /\ OnTimeInv

-----------------------------------------------------------------------------
(* Arithmetic *)

LEMMA Constants ==
  /\ W \in Nat /\ SLICE \in Nat /\ PSEUDO \in Nat /\ BOGUS \in Nat /\ N \in Nat
  /\ 0 < SLICE /\ SLICE < PSEUDO /\ PSEUDO < BOGUS /\ BOGUS < W /\ 0 < N /\ 2 * PSEUDO < W
  /\ Horizon \in Nat /\ PSEUDO < Horizon
  /\ SLICE \in Word /\ BOGUS \in Word /\ PSEUDO \in Word /\ 0 \in Word
  <1>1. /\ W \in Nat /\ SLICE \in Nat /\ PSEUDO \in Nat /\ BOGUS \in Nat /\ N \in Nat
        /\ 0 < SLICE /\ SLICE < PSEUDO /\ PSEUDO < BOGUS /\ BOGUS < W /\ 0 < N /\ 2 * PSEUDO < W
    BY ClockAssumption
  <1>2. (N + 1) * SLICE \in Nat /\ (N + 1) * SLICE > 0
    BY <1>1
  <1>3. QED BY <1>1, <1>2 DEF Word, Horizon

\* One unit more or less, and a difference of ordered words.
LEMMA Words ==
  ASSUME NEW x \in Word, NEW y \in Word
  PROVE  /\ Minus(x, y) \in Word
         /\ Minus(x, 1) = IF x = 0 THEN W - 1 ELSE x - 1
         /\ (x + 1) % W = IF x = W - 1 THEN 0 ELSE x + 1
         /\ y <= x => Minus(x, y) = x - y
         /\ x < y => Minus(x, y) = x - y + W
  <1>1. W \in Nat /\ W > 0 /\ x \in 0 .. W - 1 /\ y \in 0 .. W - 1
    BY Constants DEF Word
  <1>2. /\ \A i \in 0 .. W - 1 : i % W = i
        /\ \A i \in W .. 2 * W - 1 : i % W = i - W
        /\ \A i \in -W .. -1 : i % W = i + W
    BY <1>1
  <1>3. (x - y) % W = IF y <= x THEN x - y ELSE x - y + W
    <2>1. CASE y <= x
      <3>1. x - y \in 0 .. W - 1
        BY <2>1, <1>1
      <3>2. QED BY <2>1, <3>1, <1>2
    <2>2. CASE ~(y <= x)
      <3>1. x - y \in -W .. -1
        BY <2>2, <1>1
      <3>2. QED BY <2>2, <3>1, <1>2
    <2>3. QED BY <2>1, <2>2
  <1>4. (x - 1) % W = IF x = 0 THEN W - 1 ELSE x - 1
    <2>1. CASE x = 0
      <3>1. x - 1 \in -W .. -1 /\ (x - 1) + W = W - 1
        BY <2>1, <1>1
      <3>2. QED BY <2>1, <3>1, <1>2
    <2>2. CASE x # 0
      <3>1. x - 1 \in 0 .. W - 1
        BY <2>2, <1>1
      <3>2. QED BY <2>2, <3>1, <1>2
    <2>3. QED BY <2>1, <2>2
  <1>5. (x + 1) % W = IF x = W - 1 THEN 0 ELSE x + 1
    <2>1. CASE x = W - 1
      <3>1. x + 1 \in W .. 2 * W - 1 /\ (x + 1) - W = 0
        BY <2>1, <1>1
      <3>2. QED BY <2>1, <3>1, <1>2
    <2>2. CASE x # W - 1
      <3>1. x + 1 \in 0 .. W - 1
        BY <2>2, <1>1
      <3>2. QED BY <2>2, <3>1, <1>2
    <2>3. QED BY <2>1, <2>2
  <1>6. Minus(x, y) \in Word
    BY <1>1, <1>3 DEF Minus, Word
  <1>7. QED BY <1>1, <1>3, <1>4, <1>5, <1>6 DEF Minus

\* A unit of time is a unit of the period, until the difference wraps.
LEMMA PeriodElapses ==
  ASSUME TypeOK, TOD' = (TOD + 1) % W, pseudo_start' = pseudo_start
  PROVE  TOD' \in Word /\ Period \in Word
         /\ Period' = IF Period = W - 1 THEN 0 ELSE Period + 1
  <1> DEFINE t == TOD
             p == pseudo_start
             u == (t + 1) % W
  <1>1. t \in Word /\ p \in Word /\ W \in Nat /\ W > 0
    BY Constants DEF TypeOK
  <1>2. u = IF t = W - 1 THEN 0 ELSE t + 1
    BY <1>1, Words
  <1>3. TOD' = u /\ Period = Minus(t, p) /\ Period' = Minus(u, p)
    BY DEF Period, Minus
  <1> HIDE DEF t, p, u
  <1>4. u \in Word
    BY <1>1, <1>2 DEF Word
  <1>5. /\ Minus(t, p) \in Word
        /\ Minus(t, p) = IF p <= t THEN t - p ELSE t - p + W
        /\ Minus(u, p) = IF p <= u THEN u - p ELSE u - p + W
    <2>1. /\ Minus(t, p) \in Word
          /\ p <= t => Minus(t, p) = t - p
          /\ t < p => Minus(t, p) = t - p + W
          /\ p <= u => Minus(u, p) = u - p
          /\ u < p => Minus(u, p) = u - p + W
      BY <1>1, <1>4, Words
    <2>2. t \in Nat /\ p \in Nat /\ u \in Nat
      BY <1>1, <1>4 DEF Word
    <2>3. QED BY <2>1, <2>2
  <1>6. Minus(u, p) = IF Minus(t, p) = W - 1 THEN 0 ELSE Minus(t, p) + 1
    BY <1>1, <1>2, <1>5 DEF Word
  <1>7. QED BY <1>3, <1>4, <1>5, <1>6

LEMMA PeriodRestarts ==
  ASSUME TypeOK, TOD' = TOD, pseudo_start' = TOD
  PROVE  Period' = 0
  <1>1. TOD \in Word /\ W \in Nat
    BY Constants DEF TypeOK
  <1>2. TOD - TOD = 0
    BY <1>1 DEF Word
  <1>3. Minus(TOD, TOD) = 0
    BY <1>1, <1>2, Words DEF Word
  <1>4. Period' = Minus(TOD, TOD)
    BY DEF Period, Minus
  <1>5. QED BY <1>3, <1>4

LEMMA PeriodKept ==
  ASSUME TOD' = TOD, pseudo_start' = pseudo_start
  PROVE  Period' = Period
  BY DEF Period, Minus

\* What the sleepers buy.
LEMMA Allowances ==
  ASSUME TypeOK
  PROVE  /\ Allowance \in Nat /\ Latest \in Nat /\ Allowance <= Latest
         /\ clock < N => Allowance + SLICE <= Latest
         /\ clock = 0 => Allowance = PSEUDO
         /\ clock > 0 => PSEUDO + SLICE <= Allowance
         /\ clock' = clock => Allowance' = Allowance
         /\ clock' = clock + 1 => Allowance' = Allowance + SLICE
  <1>1. clock \in 0 .. N /\ N \in Nat /\ SLICE \in Nat /\ PSEUDO \in Nat
    BY Constants DEF TypeOK
  <1>2. \A i, j \in Nat : i <= j => i * SLICE <= j * SLICE
    BY <1>1
  <1>3. \A i \in Nat : (i + 1) * SLICE = i * SLICE + SLICE /\ i * SLICE \in Nat
    BY <1>1
  <1>4. 0 * SLICE = 0 /\ 1 * SLICE = SLICE
    BY <1>1
  <1>5. clock' = clock + 1 => clock' * SLICE = clock * SLICE + SLICE
    BY <1>1, <1>3
  <1>6. clock < N => clock * SLICE + SLICE <= N * SLICE
    BY <1>1, <1>2, <1>3
  <1>7. clock > 0 => SLICE <= clock * SLICE
    BY <1>1, <1>2, <1>4
  <1>8. clock * SLICE <= N * SLICE /\ clock * SLICE \in Nat /\ N * SLICE \in Nat
    BY <1>1, <1>2, <1>3
  <1>9. Allowance' = PSEUDO + clock' * SLICE
    BY DEF Allowance
  <1>10. QED BY <1>1, <1>4, <1>5, <1>6, <1>7, <1>8, <1>9 DEF Allowance, Latest

-----------------------------------------------------------------------------
(* The words, the counters and the control *)

LEMMA Settled ==
  ASSUME ControlInv
  PROVE  /\ setting.latency \in Nat /\ setting.others \in BOOLEAN /\ setting.nested \in BOOLEAN
         /\ {TOD, timer, pseudo_start} \subseteq Word
         /\ ready \in Nat /\ clock \in Nat /\ blocked \in Nat /\ budget \in 0 .. setting.latency
         /\ ready + clock + blocked + (IF running THEN 1 ELSE 0) = N
         /\ sinceTick \in Nat /\ sinceTick <= Horizon
  BY Constants, ClockAssumption DEF ControlInv, TypeOK, Setting

LEMMA ControlInit == Init => ControlInv
  <1> SUFFICES ASSUME Init PROVE ControlInv
    OBVIOUS
  <1>1. /\ setting \in Settings /\ setting.latency \in Nat
    BY ClockAssumption DEF Init, Setting
  <1>2. W - 1 \in Word /\ 0 \in Word /\ 0 \in 0 .. N /\ N \in 0 .. N /\ 0 \in 0 .. Horizon
    BY Constants DEF Word
  <1>3. N + 0 + 0 + 0 = N /\ setting.latency \in 0 .. setting.latency
    BY <1>1, Constants
  <1>4. QED BY <1>1, <1>2, <1>3 DEF Init, ControlInv, TypeOK, Nucleus

LEMMA ControlStep == ControlInv /\ [Next]_vars => ControlInv'
  <1> SUFFICES ASSUME ControlInv, [Next]_vars PROVE ControlInv'
    OBVIOUS
  <1>1. /\ setting.latency \in Nat /\ setting.others \in BOOLEAN
        /\ {TOD, timer, pseudo_start} \subseteq Word
        /\ ready \in Nat /\ clock \in Nat /\ blocked \in Nat /\ budget \in 0 .. setting.latency
        /\ ready + clock + blocked + (IF running THEN 1 ELSE 0) = N
        /\ sinceTick \in Nat /\ sinceTick <= Horizon
    BY Settled
  <1>2. /\ N \in Nat /\ N > 0 /\ Horizon \in Nat /\ SLICE \in Word /\ BOGUS \in Word
        /\ \A x, y \in Word : Minus(x, y) \in Word
    BY Constants, Words
  <1>3. setting' = setting
    BY DEF Next, vars
  <1> USE DEF ControlInv, TypeOK, Nucleus
  <1>4. CASE Elapse
    <2>1. TOD' \in Word
      BY <1>4, PeriodElapses DEF Elapse
    <2>2. 1 \in Word /\ timer' \in Word
      BY <1>1, <1>2, <1>4, Constants DEF Elapse, Word
    <2>3. budget' \in 0 .. setting'.latency /\ sinceTick' \in 0 .. Horizon
      BY <1>1, <1>2, <1>3, <1>4 DEF Elapse
    <2>4. QED BY <1>3, <1>4, <2>1, <2>2, <2>3 DEF Elapse, count
  <1>5. CASE Process
    <2>1. CASE Call
      BY <1>1, <1>3, <2>1 DEF Call, Trap, count
    <2>2. CASE WaitClock
      <3>1. clock' \in 0 .. N /\ ready' + clock' + blocked' + (IF running' THEN 1 ELSE 0) = N
        BY <1>1, <1>2, <2>2 DEF WaitClock, Sleep, Trap
      <3>2. QED BY <1>1, <1>3, <2>2, <3>1 DEF WaitClock, Sleep, Trap
    <2>3. CASE BlockElsewhere
      <3>1. blocked' \in 0 .. N /\ ready' + clock' + blocked' + (IF running' THEN 1 ELSE 0) = N
        BY <1>1, <1>2, <2>3 DEF BlockElsewhere, Sleep, Trap
      <3>2. QED BY <1>1, <1>3, <2>3, <3>1 DEF BlockElsewhere, Sleep, Trap
    <2>4. CASE Release
      <3>1. /\ blocked' \in 0 .. N /\ ready' \in 0 .. N
            /\ ready' + clock' + blocked' + (IF running' THEN 1 ELSE 0) = N
        BY <1>1, <1>2, <2>4 DEF Release, Trap
      <3>2. QED BY <1>1, <1>3, <2>4, <3>1 DEF Release, Trap
    <2>5. QED BY <1>5, <2>1, <2>2, <2>3, <2>4 DEF Process
  <1>6. CASE Interrupt
    <2>1. budget' \in 0 .. setting'.latency
      BY <1>1, <1>3, <1>6 DEF Interrupt, TimerInterrupt, DeviceInterrupt, InterruptEntry
    <2>2. CASE TimerInterrupt
      BY <1>3, <2>1, <2>2 DEF TimerInterrupt, InterruptEntry, count
    <2>3. CASE DeviceInterrupt
      <3>1. /\ blocked' \in 0 .. N /\ ready' \in 0 .. N
            /\ ready' + clock' + blocked' + (IF running' THEN 1 ELSE 0) = N
        BY <1>1, <1>2, <2>3 DEF DeviceInterrupt
      <3>2. QED BY <1>3, <2>1, <2>3, <3>1 DEF DeviceInterrupt, InterruptEntry
    <2>4. QED BY <1>6, <2>2, <2>3 DEF Interrupt
  <1>7. CASE Kernel
    <2>1. CASE TimerHandler
      <3>1. /\ clock' \in 0 .. N /\ ready' \in 0 .. N /\ sinceTick' \in 0 .. Horizon
            /\ ready' + clock' + blocked' + (IF running' THEN 1 ELSE 0) = N
        BY <1>1, <1>2, <2>1 DEF TimerHandler
      <3>2. timer' \in Word /\ expired' \in BOOLEAN
        BY <1>2, <2>1 DEF TimerHandler, SetTimer
      <3>3. QED BY <1>3, <2>1, <3>1, <3>2 DEF TimerHandler
    <2>2. CASE InterruptExit
      BY <1>3, <2>2 DEF InterruptExit, count
    <2>3. CASE Scheduler
      BY <1>2, <1>3, <2>3 DEF Scheduler, SetTimer, count
    <2>4. CASE LoadNext
      <3>1. /\ ready' \in 0 .. N
            /\ ready' + clock' + blocked' + (IF running' THEN 1 ELSE 0) = N
        BY <1>1, <1>2, <2>4 DEF LoadNext
      <3>2. QED BY <1>2, <1>3, <2>4, <3>1 DEF LoadNext, SetTimer
    <2>5. CASE SetInterval
      <3>1. timer' \in Word
        BY <1>1, <1>2, <2>5, Constants DEF SetInterval, SetTimer
      <3>2. QED BY <1>3, <2>5, <3>1 DEF SetInterval, SetTimer, count
    <2>6. CASE StartPeriod
      BY <1>3, <2>6 DEF StartPeriod, count
    <2>7. CASE Dispatch
      <3>1. /\ ready' \in 0 .. N
            /\ ready' + clock' + blocked' + (IF running' THEN 1 ELSE 0) = N
            /\ cpu' = "wait" => clock' + blocked' > 0
        BY <1>1, <1>2, <2>7 DEF Dispatch
      <3>2. QED BY <1>2, <1>3, <2>7, <3>1 DEF Dispatch, SetTimer
    <2>8. QED BY <1>7, <2>1, <2>2, <2>3, <2>4, <2>5, <2>6, <2>7 DEF Kernel
  <1>8. CASE UNCHANGED vars
    BY <1>8 DEF vars, state, count
  <1>9. QED BY <1>4, <1>5, <1>6, <1>7, <1>8 DEF Next

-----------------------------------------------------------------------------
(* Never early *)

\* What every step of EarlyInv and ArmedInv starts from.
LEMMA PeriodFacts ==
  ASSUME ControlInv
  PROVE  /\ Period \in Word /\ Period \in Nat /\ timer \in Nat
         /\ Minus(timer, 1) = IF timer = 0 THEN W - 1 ELSE timer - 1
         /\ 1 \in Nat /\ PSEUDO - SLICE \in Nat
  <1>1. {TOD, timer, pseudo_start} \subseteq Word /\ W \in Nat /\ 1 \in Word
    BY Settled, Constants DEF Word
  <1>2. Period \in Word /\ Minus(timer, 1) = IF timer = 0 THEN W - 1 ELSE timer - 1
    BY <1>1, Words DEF Period
  <1>3. QED BY <1>1, <1>2, Constants DEF Word

LEMMA EarlyStep == ControlInv /\ EarlyInv /\ [Next]_vars => EarlyInv'
  <1> SUFFICES ASSUME ControlInv, EarlyInv, [Next]_vars, ~setting.nested PROVE EarlyInv'
    BY DEF EarlyInv, Next, vars
  <1> DEFINE e == Period
             full == Horizon
             early == PSEUDO - SLICE
  <1>1. /\ e \in Nat /\ sinceTick \in Nat /\ sinceTick <= full
        /\ full \in Nat /\ early \in Nat /\ early < full
    BY PeriodFacts, Settled, Constants
  <1>2. /\ ~TickPending => e <= sinceTick \/ sinceTick = full
        /\ cpu = "interval" => sinceTick > early
        /\ pseudoclockflag /\ ~TickPending => sinceTick > early
    BY DEF EarlyInv
  <1>3. SUFFICES /\ ~TickPending' => e' <= sinceTick' \/ sinceTick' = full
                 /\ cpu' = "interval" => sinceTick' > early
                 /\ pseudoclockflag' /\ ~TickPending' => sinceTick' > early
    BY DEF EarlyInv, Horizon
  <1>4. TOD' = TOD /\ pseudo_start' = pseudo_start => e' = e
    BY PeriodKept
  <1>5. TOD' = TOD /\ pseudo_start' = TOD => e' = 0
    BY PeriodRestarts DEF ControlInv
  <1>6. Due <=> e > early
    BY DEF Due, Period
  <1> HIDE DEF e, full, early
  <1>7. CASE Elapse
    <2>1. e' = e + 1 \/ e' = 0
      BY <1>7, PeriodElapses DEF Elapse, ControlInv, e
    <2>2. sinceTick' = IF sinceTick < full THEN sinceTick + 1 ELSE sinceTick
      BY <1>7 DEF Elapse, full
    <2>3. UNCHANGED <<cpu, flag, pseudoclockflag>> /\ TickPending' = TickPending
      BY <1>7 DEF Elapse, TickPending
    <2>4. QED BY <1>1, <1>2, <2>1, <2>2, <2>3
  <1>8. CASE Process \/ Interrupt
    <2>1. /\ cpu \in {"user", "wait"} /\ cpu' \in {"scheduler", "timer", "int_exit"}
          /\ flag' \in {"LOADCURRENT", "LOADNEXT"}
          /\ UNCHANGED <<TOD, pseudo_start, pseudoclockflag, sinceTick>>
      BY <1>8 DEF Process, Interrupt, Call, WaitClock, BlockElsewhere, Release, Sleep, Trap,
                  TimerInterrupt, DeviceInterrupt, InterruptEntry, InterruptsEnabled
    <2>2. ~TickPending
      BY <2>1 DEF TickPending
    <2>3. QED BY <1>1, <1>2, <1>4, <2>1, <2>2
  <1>9. CASE Kernel
    <2>1. CASE TimerHandler
      <3>1. /\ cpu = "timer" /\ cpu' = "int_exit" /\ UNCHANGED <<TOD, pseudo_start, pseudoclockflag>>
            /\ IF pseudoclockflag THEN flag' = "RESET" ELSE UNCHANGED <<flag, sinceTick>>
        BY <2>1 DEF TimerHandler
      <3>2. pseudoclockflag => TickPending'
        BY <3>1 DEF TickPending
      <3>3. ~TickPending
        BY <3>1 DEF TickPending
      <3>4. QED BY <1>1, <1>2, <1>4, <3>1, <3>2, <3>3
    <2>2. CASE InterruptExit
      <3>1. /\ cpu' = "scheduler" /\ UNCHANGED <<TOD, pseudo_start, pseudoclockflag, sinceTick>>
            /\ TickPending' = TickPending
        BY <2>2 DEF InterruptExit, TickPending
      <3>2. QED BY <1>1, <1>2, <1>4, <3>1
    <2>3. CASE Scheduler
      <3>1. /\ cpu' \in {"user", "loadnext"} /\ ~TickPending' /\ UNCHANGED <<TOD, sinceTick>>
        BY <2>3 DEF Scheduler, TickPending
      <3>2. CASE flag \in {"START", "RESET"}
        <4>1. pseudoclockflag' = FALSE /\ pseudo_start' = TOD
          BY <2>3, <3>2 DEF Scheduler
        <4>2. QED BY <1>1, <1>5, <3>1, <4>1
      <3>3. CASE flag \notin {"START", "RESET"}
        <4>1. UNCHANGED <<pseudoclockflag, pseudo_start>> /\ ~TickPending
          BY <2>3, <3>3 DEF Scheduler, TickPending
        <4>2. QED BY <1>1, <1>2, <1>4, <3>1, <4>1
      <3>4. QED BY <3>2, <3>3
    <2>4. CASE LoadNext
      <3>1. /\ cpu = "loadnext" /\ UNCHANGED <<TOD, pseudo_start, pseudoclockflag, sinceTick>>
            /\ cpu' = "interval" => Due
            /\ cpu' \in {"interval", "dispatch"}
        BY <2>4 DEF LoadNext
      <3>2. ~TickPending /\ ~TickPending'
        BY <3>1 DEF TickPending
      <3>3. QED BY <1>1, <1>2, <1>4, <1>6, <3>1, <3>2
    <2>5. CASE SetInterval
      <3>1. /\ cpu = "interval" /\ cpu' = "announced" /\ UNCHANGED <<TOD, pseudo_start, sinceTick>>
        BY <2>5 DEF SetInterval
      <3>2. ~TickPending
        BY <3>1 DEF TickPending
      <3>3. QED BY <1>1, <1>2, <1>4, <3>1, <3>2
    <2>6. CASE StartPeriod \/ Dispatch
      <3>1. /\ cpu \in {"announced", "dispatch"} /\ cpu' \in {"dispatch", "user", "wait"}
            /\ UNCHANGED <<TOD, pseudoclockflag, sinceTick>> /\ pseudo_start' \in {TOD, pseudo_start}
        BY <2>6 DEF StartPeriod, Dispatch
      <3>2. ~TickPending
        BY <3>1 DEF TickPending
      <3>3. QED BY <1>1, <1>2, <1>4, <1>5, <3>1, <3>2
    <2>7. QED BY <1>9, <2>1, <2>2, <2>3, <2>4, <2>5, <2>6 DEF Kernel
  <1>10. CASE UNCHANGED vars
    <2>1. UNCHANGED <<TOD, pseudo_start, pseudoclockflag, sinceTick, cpu, flag>>
      BY <1>10 DEF vars, state
    <2>2. TickPending' = TickPending
      BY <2>1 DEF TickPending
    <2>3. QED BY <1>2, <1>4, <2>1, <2>2
  <1>11. QED BY <1>7, <1>8, <1>9, <1>10 DEF Next

-----------------------------------------------------------------------------
(* Armed *)

LEMMA ArmedStep == ControlInv /\ ArmedInv /\ [Next]_vars => ArmedInv'
  <1> SUFFICES ASSUME ControlInv, ArmedInv, [Next]_vars, setting.latency = 0 PROVE ArmedInv'
    BY DEF ArmedInv, Next, vars
  <1> DEFINE e == Period
  <1>1. /\ e \in Nat /\ e \in Word /\ timer \in Nat /\ budget = 0
        /\ Minus(timer, 1) = IF timer = 0 THEN W - 1 ELSE timer - 1
    BY PeriodFacts, Settled
  <1>2. /\ W \in Nat /\ SLICE \in Nat /\ PSEUDO \in Nat /\ BOGUS \in Nat /\ 0 < SLICE
        /\ SLICE < PSEUDO /\ 2 * PSEUDO < W
    BY Constants
  <1> DEFINE I(per) ==
        /\ per <= PSEUDO
        /\ InSlice /\ ~expired => per + timer <= PSEUDO /\ (timer = 0 => per = 0)
        /\ InSlice /\ pseudoclockflag => timer <= SLICE \/ expired
        /\ cpu = "scheduler" /\ flag = "LOADCURRENT" => ~expired
        /\ cpu = "interval" => per > PSEUDO - SLICE
        /\ cpu = "announced" => ~expired /\ per > PSEUDO - SLICE /\ timer = PSEUDO - per
        /\ cpu = "dispatch" =>
             /\ ~expired /\ timer <= SLICE
             /\ per <= PSEUDO - SLICE /\ per + timer <= PSEUDO
             /\ timer = 0 => per = 0
        /\ cpu = "wait" /\ ~expired => timer > 0
  <1>3. I(e)
    BY DEF ArmedInv
  <1>4. SUFFICES I(e)'
    BY DEF ArmedInv
  <1>5. TOD' = TOD /\ pseudo_start' = pseudo_start => e' = e
    BY PeriodKept
  <1>6. TOD' = TOD /\ pseudo_start' = TOD => e' = 0
    BY PeriodRestarts DEF ControlInv
  <1>7. Due <=> e > PSEUDO - SLICE
    BY DEF Due, Period
  <1>8. e <= PSEUDO => Minus(PSEUDO, e) = PSEUDO - e
    BY <1>1, Words, Constants
  <1>9. Minus(TOD, pseudo_start) = e
    BY DEF Period
  <1> HIDE DEF e
  <1>10. CASE Elapse
    <2>1. cpu \notin Nucleus /\ ~expired /\ UNCHANGED <<cpu, flag, pseudoclockflag>>
      BY <1>1, <1>10 DEF Elapse
    <2>2. cpu \in {"user", "wait"} /\ InSlice /\ InSlice'
      BY <2>1 DEF ControlInv, TypeOK, InSlice
    <2>3. e' = IF e = W - 1 THEN 0 ELSE e + 1
      BY <1>10, PeriodElapses DEF Elapse, ControlInv, e
    <2>4. timer' = Minus(timer, 1) /\ (~expired' => timer > 1)
      <3>1. timer' = Minus(timer, 1) /\ expired' = (expired \/ timer <= 1)
        BY <1>10 DEF Elapse
      <3>2. timer <= 1 => expired'
        BY <3>1, Zenon
      <3>3. ~(timer <= 1) => timer > 1
        BY <1>1
      <3>4. QED BY <3>1, <3>2, <3>3, Zenon
    <2>5. ~expired' => timer' = timer - 1 /\ timer > 1
      BY <1>1, <2>4
    <2>6. e + timer <= PSEUDO /\ (timer = 0 => e = 0) /\ (pseudoclockflag => timer <= SLICE)
      BY <1>3, <2>1, <2>2
    <2>7. e' = e + 1 /\ e + 1 <= PSEUDO
      BY <1>1, <1>2, <2>3, <2>6
    <2>8. ASSUME ~expired'
          PROVE  /\ (e + 1) + timer' <= PSEUDO
                 /\ timer' > 0 /\ timer' # 0
                 /\ pseudoclockflag => timer' <= SLICE
      BY <1>1, <1>2, <2>5, <2>6, <2>8
    <2>9. cpu' # "scheduler"
      BY <2>1, <2>2
    <2>10. QED BY <2>1, <2>2, <2>7, <2>8, <2>9
  <1>11. CASE Process
    <2>1. /\ cpu = "user" /\ ~expired /\ cpu' = "scheduler" /\ flag' \in {"LOADCURRENT", "LOADNEXT"}
          /\ UNCHANGED <<TOD, timer, expired, pseudo_start, pseudoclockflag>>
      BY <1>11 DEF Process, Call, WaitClock, BlockElsewhere, Release, Sleep, Trap
    <2>2. InSlice
      BY <2>1 DEF InSlice
    <2>3. QED BY <1>3, <1>5, <2>1, <2>2
  <1>12. CASE Interrupt
    <2>1. /\ cpu' \in {"timer", "int_exit"} /\ ~InSlice'
          /\ UNCHANGED <<TOD, pseudo_start>>
      BY <1>12 DEF Interrupt, TimerInterrupt, DeviceInterrupt, InSlice
    <2>2. QED BY <1>3, <1>5, <2>1
  <1>13. CASE Kernel
    <2>1. CASE TimerHandler
      <3>1. cpu' = "int_exit" /\ ~InSlice' /\ UNCHANGED <<TOD, pseudo_start>>
        BY <2>1 DEF TimerHandler, InSlice
      <3>2. QED BY <1>3, <1>5, <3>1
    <2>2. CASE InterruptExit
      <3>1. /\ cpu' = "scheduler" /\ flag' # "LOADCURRENT" /\ ~InSlice'
            /\ UNCHANGED <<TOD, pseudo_start>>
        BY <2>2 DEF InterruptExit, InSlice, ControlInv
      <3>2. QED BY <1>3, <1>5, <3>1
    <2>3. CASE Scheduler
      <3>1. CASE flag = "LOADCURRENT"
        <4>1. /\ cpu = "scheduler" /\ cpu' = "user" /\ InSlice
              /\ UNCHANGED <<TOD, timer, expired, pseudo_start, pseudoclockflag, flag>>
          BY <2>3, <3>1 DEF Scheduler, InSlice
        <4>2. QED BY <1>3, <1>5, <3>1, <4>1
      <3>2. CASE flag # "LOADCURRENT"
        <4>1. /\ cpu' = "loadnext" /\ ~InSlice' /\ TOD' = TOD /\ pseudo_start' \in {TOD, pseudo_start}
          BY <2>3, <3>2 DEF Scheduler, InSlice
        <4>2. QED BY <1>2, <1>3, <1>5, <1>6, <4>1
      <3>3. QED BY <3>1, <3>2
    <2>4. CASE LoadNext
      <3>1. /\ ~InSlice' /\ UNCHANGED <<TOD, pseudo_start>>
            /\ \/ Due /\ cpu' = "interval"
               \/ ~Due /\ cpu' = "dispatch" /\ timer' = SLICE /\ expired' = FALSE
        BY <2>4 DEF LoadNext, SetTimer, InSlice
      <3>2. QED BY <1>1, <1>2, <1>3, <1>5, <1>7, <3>1
    <2>5. CASE SetInterval
      <3>1. /\ ~InSlice' /\ UNCHANGED <<TOD, pseudo_start>> /\ cpu = "interval" /\ cpu' = "announced"
            /\ timer' = Minus(PSEUDO, e) /\ expired' = FALSE
        BY <1>9, <2>5 DEF SetInterval, SetTimer, InSlice
      <3>2. QED BY <1>1, <1>2, <1>3, <1>5, <1>8, <3>1
    <2>6. CASE StartPeriod
      <3>1. /\ ~InSlice' /\ TOD' = TOD /\ pseudo_start' = TOD /\ cpu = "announced" /\ cpu' = "dispatch"
            /\ UNCHANGED <<timer, expired>>
        BY <2>6 DEF StartPeriod, InSlice
      <3>2. ~expired /\ e > PSEUDO - SLICE /\ timer = PSEUDO - e /\ e <= PSEUDO
        BY <1>3, <3>1
      <3>3. timer < SLICE /\ timer <= PSEUDO /\ 0 + timer <= PSEUDO
        BY <1>1, <1>2, <3>2
      <3>4. QED BY <1>2, <1>6, <3>1, <3>2, <3>3
    <2>7. CASE Dispatch
      <3>1. /\ UNCHANGED <<TOD, pseudo_start>> /\ cpu = "dispatch"
            /\ \/ cpu' = "user" /\ UNCHANGED <<timer, expired>>
               \/ cpu' = "wait" /\ timer' = SLICE /\ expired' = FALSE
        BY <2>7 DEF Dispatch, SetTimer
      <3>2. QED BY <1>1, <1>2, <1>3, <1>5, <3>1
    <2>8. QED BY <1>13, <2>1, <2>2, <2>3, <2>4, <2>5, <2>6, <2>7 DEF Kernel
  <1>14. CASE UNCHANGED vars
    <2>1. UNCHANGED <<TOD, timer, expired, pseudo_start, pseudoclockflag, cpu, flag>>
      BY <1>14 DEF vars, state
    <2>2. InSlice' = InSlice
      BY <2>1 DEF InSlice
    <2>3. QED BY <1>3, <1>5, <2>1, <2>2
  <1>15. QED BY <1>10, <1>11, <1>12, <1>13, <1>14 DEF Next

-----------------------------------------------------------------------------
(* On time *)

LEMMA OnTimeStep == ControlInv /\ ArmedInv /\ OnTimeInv /\ [Next]_vars => OnTimeInv'
  <1> SUFFICES ASSUME ControlInv, ArmedInv, OnTimeInv, [Next]_vars, OnTime PROVE OnTimeInv'
    BY DEF OnTimeInv, OnTime, Next, vars
  <1>1. /\ ~setting.others /\ setting.latency = 0 /\ ~setting.nested
    BY DEF OnTime
  <1>2. /\ Period \in Nat /\ timer \in Nat /\ sinceTick \in Nat /\ clock \in Nat /\ ready \in Nat
        /\ budget = 0 /\ Minus(timer, 1) = IF timer = 0 THEN W - 1 ELSE timer - 1
        /\ ready + clock + blocked + (IF running THEN 1 ELSE 0) = N
    BY <1>1, PeriodFacts, Settled
  <1>3. /\ W \in Nat /\ SLICE \in Nat /\ PSEUDO \in Nat /\ N \in Nat /\ 0 < N /\ 0 < SLICE
        /\ SLICE < PSEUDO /\ 2 * PSEUDO < W
    BY Constants
  <1>4. /\ Allowance \in Nat /\ Latest \in Nat /\ Allowance <= Latest
        /\ clock < N => Allowance + SLICE <= Latest
        /\ clock = 0 => Allowance = PSEUDO
        /\ clock > 0 => PSEUDO + SLICE <= Allowance
        /\ clock' = clock => Allowance' = Allowance
        /\ clock' = clock + 1 => Allowance' = Allowance + SLICE
    BY Allowances DEF ControlInv
  <1>5. Latest' = Latest
    BY DEF Latest
  <1>6. /\ Period <= PSEUDO
        /\ InSlice /\ ~expired => Period + timer <= PSEUDO /\ (timer = 0 => Period = 0)
        /\ cpu = "scheduler" /\ flag = "LOADCURRENT" => ~expired
        /\ cpu = "interval" => Period > PSEUDO - SLICE
        /\ cpu = "announced" => ~expired
        /\ cpu = "dispatch" => ~expired /\ timer <= SLICE
        /\ cpu = "wait" /\ ~expired => timer > 0
    BY <1>1 DEF ArmedInv
  <1>7. /\ ~pseudoclockflag => sinceTick <= Period
        /\ cpu = "scheduler" /\ flag \in {"START", "RESET"} => sinceTick = 0
        /\ cpu = "int_exit" /\ flag = "RESET" => sinceTick = 0
        /\ cpu = "announced" => pseudoclockflag
        /\ pseudoclockflag =>
             /\ cpu = "int_exit" => flag = "RESET"
             /\ cpu = "timer" \/ (InSlice /\ expired) => sinceTick <= Latest
             /\ InSlice /\ ~expired => sinceTick + timer <= Allowance
             /\ cpu \in {"loadnext", "interval"} \/ (cpu = "scheduler" /\ flag = "LOADNEXT")
                  => clock > 0 /\ sinceTick + SLICE <= Allowance
             /\ cpu \in {"announced", "dispatch"} =>
                  /\ sinceTick + timer <= Allowance
                  /\ IF clock > 0 THEN sinceTick + SLICE <= Allowance ELSE sinceTick <= PSEUDO
    BY DEF OnTimeInv
  <1>8. SUFFICES
        /\ ~pseudoclockflag' => sinceTick' <= Period'
        /\ cpu' = "scheduler" /\ flag' \in {"START", "RESET"} => sinceTick' = 0
        /\ cpu' = "int_exit" /\ flag' = "RESET" => sinceTick' = 0
        /\ cpu' = "announced" => pseudoclockflag'
        /\ pseudoclockflag' =>
             /\ cpu' = "int_exit" => flag' = "RESET"
             /\ cpu' = "timer" \/ (InSlice' /\ expired') => sinceTick' <= Latest
             /\ InSlice' /\ ~expired' => sinceTick' + timer' <= Allowance'
             /\ cpu' \in {"loadnext", "interval"} \/ (cpu' = "scheduler" /\ flag' = "LOADNEXT")
                  => clock' > 0 /\ sinceTick' + SLICE <= Allowance'
             /\ cpu' \in {"announced", "dispatch"} =>
                  /\ sinceTick' + timer' <= Allowance'
                  /\ IF clock' > 0 THEN sinceTick' + SLICE <= Allowance' ELSE sinceTick' <= PSEUDO
    BY <1>5 DEF OnTimeInv
  <1>9. TOD' = TOD /\ pseudo_start' = pseudo_start => Period' = Period
    BY PeriodKept
  <1>10. TOD' = TOD /\ pseudo_start' = TOD => Period' = 0
    BY PeriodRestarts DEF ControlInv
  <1>11. blocked = 0
    BY <1>1 DEF ControlInv
  <1>12. CASE Elapse
    <2>1. cpu \notin Nucleus /\ ~expired /\ UNCHANGED <<cpu, flag, pseudoclockflag, clock>>
      BY <1>2, <1>12 DEF Elapse, count
    <2>2. cpu \in {"user", "wait"} /\ InSlice /\ (cpu = "user" => running)
      BY <2>1 DEF ControlInv, TypeOK, InSlice
    <2>3. Period' = IF Period = W - 1 THEN 0 ELSE Period + 1
      BY <1>12, PeriodElapses DEF Elapse, ControlInv
    <2>4. Period' = Period + 1
      BY <1>2, <1>3, <1>6, <2>3
    <2>5. timer' = Minus(timer, 1) /\ (~expired' => timer > 1)
      <3>1. timer' = Minus(timer, 1) /\ expired' = (expired \/ timer <= 1)
        BY <1>12 DEF Elapse
      <3>2. timer <= 1 => expired'
        BY <3>1, Zenon
      <3>3. ~(timer <= 1) => timer > 1
        BY <1>2
      <3>4. QED BY <3>1, <3>2, <3>3, Zenon
    <2>6. ~expired' => timer' = timer - 1
      BY <1>2, <2>5
    <2>7. sinceTick' \in Nat /\ sinceTick' <= sinceTick + 1
      BY <1>2, <1>12 DEF Elapse
    <2>8. ~pseudoclockflag => sinceTick' <= Period'
      BY <1>2, <1>7, <2>4, <2>7
    <2>9. ASSUME pseudoclockflag PROVE sinceTick' <= Latest
      <3>1. sinceTick + timer <= Allowance
        BY <1>7, <2>1, <2>2, <2>9
      <3>2. CASE cpu = "user"
        <4>1. clock < N
          BY <1>2, <1>3, <1>11, <2>2, <3>2
        <4>2. QED BY <1>2, <1>3, <1>4, <2>7, <3>1, <4>1
      <3>3. CASE cpu = "wait"
        <4>1. timer > 0
          BY <1>6, <2>1, <3>3
        <4>2. QED BY <1>2, <1>4, <2>7, <3>1, <4>1
      <3>4. QED BY <2>2, <3>2, <3>3
    <2>10. ASSUME pseudoclockflag, ~expired' PROVE sinceTick' + timer' <= Allowance
      <3>1. sinceTick + timer <= Allowance
        BY <1>7, <2>1, <2>2, <2>10
      <3>2. timer' = timer - 1 /\ timer \in Nat /\ sinceTick \in Nat /\ Allowance \in Nat
        BY <1>2, <1>4, <2>6, <2>10
      <3>3. \A t, u, r, a \in Nat : t <= u + 1 /\ u + r <= a => t + (r - 1) <= a
        OBVIOUS
      <3>4. sinceTick' + (timer - 1) <= Allowance
        BY <2>7, <3>1, <3>2, <3>3
      <3>5. QED BY <3>2, <3>4
    <2>11. /\ cpu' = cpu /\ pseudoclockflag' = pseudoclockflag /\ Allowance' = Allowance
      BY <1>4, <2>1
    <2>12. cpu' \in {"user", "wait"}
      BY <2>2, <2>11
    <2>13. QED BY <2>8, <2>9, <2>10, <2>11, <2>12
  <1>13. CASE Process
    <2>1. /\ cpu = "user" /\ ~expired /\ cpu' = "scheduler" /\ running
          /\ UNCHANGED <<TOD, timer, expired, pseudo_start, pseudoclockflag, sinceTick>>
          /\ \/ flag' = "LOADCURRENT" /\ clock' = clock
             \/ flag' = "LOADNEXT" /\ clock' = clock + 1
      BY <1>1, <1>13 DEF Process, Call, WaitClock, BlockElsewhere, Release, Sleep, Trap, count,
                         ControlInv, TypeOK
    <2>2. InSlice /\ Period' = Period
      BY <1>9, <2>1 DEF InSlice
    <2>3. pseudoclockflag => sinceTick + timer <= Allowance
      BY <1>7, <2>1, <2>2
    <2>4. CASE flag' = "LOADCURRENT" /\ clock' = clock
      BY <1>4, <1>7, <2>1, <2>2, <2>3, <2>4
    <2>5. CASE flag' = "LOADNEXT" /\ clock' = clock + 1
      <3>1. clock' > 0 /\ Allowance' = Allowance + SLICE /\ ~InSlice'
        BY <1>2, <1>4, <2>1, <2>5 DEF InSlice
      <3>2. pseudoclockflag => sinceTick + SLICE <= Allowance + SLICE
        BY <1>2, <1>3, <1>4, <2>3
      <3>3. QED BY <1>7, <2>1, <2>2, <2>5, <3>1, <3>2
    <2>6. QED BY <2>1, <2>4, <2>5
  <1>14. CASE Interrupt
    <2>1. /\ cpu \in {"user", "wait"} /\ expired /\ cpu' = "timer" /\ InSlice /\ ~InSlice'
          /\ UNCHANGED <<TOD, timer, expired, pseudo_start, pseudoclockflag, sinceTick>>
      BY <1>1, <1>14 DEF Interrupt, TimerInterrupt, DeviceInterrupt, InterruptEntry,
                         InterruptsEnabled, InSlice
    <2>2. QED BY <1>7, <1>9, <2>1
  <1>15. CASE Kernel
    <2>1. CASE TimerHandler
      <3>1. /\ cpu' = "int_exit" /\ ~InSlice' /\ UNCHANGED <<TOD, pseudo_start, pseudoclockflag>>
            /\ IF pseudoclockflag THEN flag' = "RESET" /\ sinceTick' = 0
               ELSE sinceTick' = sinceTick /\ flag' = "LOADNEXT"
        BY <2>1 DEF TimerHandler, InSlice, ControlInv
      <3>2. QED BY <1>7, <1>9, <3>1
    <2>2. CASE InterruptExit
      <3>1. /\ cpu = "int_exit" /\ cpu' = "scheduler" /\ flag \in {"LOADNEXT", "RESET"}
            /\ UNCHANGED <<TOD, pseudo_start, pseudoclockflag, flag, clock, sinceTick>>
            /\ ~InSlice'
        BY <2>2 DEF InterruptExit, ControlInv, InSlice, count
      <3>2. flag = "RESET" => sinceTick = 0
        BY <1>7, <3>1
      <3>3. QED BY <1>7, <1>9, <3>1, <3>2
    <2>3. CASE Scheduler
      <3>1. cpu = "scheduler" /\ TOD' = TOD /\ UNCHANGED <<flag, clock, sinceTick>> /\ Allowance' = Allowance
        BY <1>4, <2>3 DEF Scheduler, count
      <3>2. CASE flag \in {"START", "RESET"}
        <4>1. pseudoclockflag' = FALSE /\ Period' = 0 /\ sinceTick' = 0 /\ cpu' = "loadnext"
          BY <1>7, <1>10, <2>3, <3>1, <3>2 DEF Scheduler
        <4>2. QED BY <4>1
      <3>3. CASE flag = "LOADNEXT"
        <4>1. cpu' = "loadnext" /\ ~InSlice' /\ UNCHANGED <<pseudoclockflag, pseudo_start>>
          BY <2>3, <3>3 DEF Scheduler, InSlice
        <4>2. QED BY <1>7, <1>9, <3>1, <3>3, <4>1
      <3>4. CASE flag = "LOADCURRENT"
        <4>1. /\ cpu' = "user" /\ InSlice /\ ~expired
              /\ UNCHANGED <<pseudoclockflag, pseudo_start, timer, expired>>
          BY <1>6, <2>3, <3>1, <3>4 DEF Scheduler, InSlice
        <4>2. QED BY <1>7, <1>9, <3>1, <3>4, <4>1
      <3>5. QED BY <3>2, <3>3, <3>4 DEF ControlInv, TypeOK
    <2>4. CASE LoadNext
      <3>1. /\ cpu = "loadnext" /\ ~InSlice' /\ UNCHANGED <<TOD, pseudo_start, pseudoclockflag, clock, sinceTick>>
            /\ \/ cpu' = "interval"
               \/ cpu' = "dispatch" /\ timer' = SLICE
        BY <2>4 DEF LoadNext, SetTimer, InSlice
      <3>2. QED BY <1>4, <1>7, <1>9, <3>1
    <2>5. CASE SetInterval
      <3>1. /\ cpu = "interval" /\ cpu' = "announced" /\ ~InSlice' /\ pseudoclockflag'
            /\ UNCHANGED <<TOD, pseudo_start, clock, sinceTick>> /\ timer' = Minus(PSEUDO, Period)
        BY <2>5 DEF SetInterval, SetTimer, InSlice, count, Period
      <3>2. timer' = PSEUDO - Period /\ timer' < SLICE
        <4>1. Period \in Word
          BY PeriodFacts
        <4>2. timer' = PSEUDO - Period
          BY <1>6, <3>1, <4>1, Words, Constants
        <4>3. QED BY <1>2, <1>3, <1>6, <3>1, <4>2
      <3>3. CASE pseudoclockflag
        <4>1. clock > 0 /\ sinceTick + SLICE <= Allowance
          BY <1>7, <3>1, <3>3
        <4>2. sinceTick + timer' <= Allowance
          BY <1>2, <1>3, <1>4, <1>6, <3>2, <4>1
        <4>3. QED BY <1>4, <3>1, <4>1, <4>2
      <3>4. CASE ~pseudoclockflag
        <4>1. sinceTick <= Period
          BY <1>7, <3>4
        <4>2. sinceTick + timer' <= PSEUDO /\ sinceTick <= PSEUDO
          BY <1>2, <1>3, <1>6, <3>2, <4>1
        <4>3. PSEUDO <= Allowance /\ (clock > 0 => sinceTick + SLICE <= Allowance)
          BY <1>2, <1>3, <1>4, <4>2
        <4>4. sinceTick + timer' <= Allowance
          BY <1>2, <1>3, <1>4, <1>6, <3>2, <4>2, <4>3
        <4>5. QED BY <1>4, <3>1, <4>2, <4>3, <4>4
      <3>5. QED BY <3>3, <3>4
    <2>6. CASE StartPeriod
      <3>1. /\ cpu = "announced" /\ cpu' = "dispatch" /\ ~InSlice' /\ pseudoclockflag' /\ pseudoclockflag
            /\ UNCHANGED <<timer, clock, sinceTick>>
        BY <1>7, <2>6 DEF StartPeriod, InSlice, count
      <3>2. QED BY <1>4, <1>7, <3>1
    <2>7. CASE Dispatch
      <3>1. /\ cpu = "dispatch" /\ UNCHANGED <<TOD, pseudo_start, pseudoclockflag, clock, sinceTick>>
            /\ ~expired /\ ~running /\ Allowance' = Allowance /\ Period' = Period
        BY <1>4, <1>6, <1>9, <2>7 DEF Dispatch, ControlInv
      <3>2. CASE ready > 0
        <4>1. cpu' = "user" /\ UNCHANGED <<timer, expired>>
          BY <2>7, <3>2 DEF Dispatch
        <4>2. QED BY <1>7, <3>1, <4>1
      <3>3. CASE ~(ready > 0)
        <4>1. cpu' = "wait" /\ timer' = SLICE /\ expired' = FALSE
          BY <2>7, <3>3 DEF Dispatch, SetTimer
        <4>2. clock > 0
          BY <1>2, <1>3, <1>11, <3>1, <3>3
        <4>3. QED BY <1>7, <3>1, <4>1, <4>2
      <3>4. QED BY <3>2, <3>3
    <2>8. QED BY <1>15, <2>1, <2>2, <2>3, <2>4, <2>5, <2>6, <2>7 DEF Kernel
  <1>16. CASE UNCHANGED vars
    <2>1. /\ UNCHANGED <<TOD, timer, expired, pseudo_start, pseudoclockflag, cpu, flag, clock, sinceTick>>
      BY <1>16 DEF vars, state, count
    <2>2. InSlice' = InSlice /\ Period' = Period /\ Allowance' = Allowance
      BY <1>4, <1>9, <2>1 DEF InSlice
    <2>3. QED BY <1>7, <2>1, <2>2
  <1>17. QED BY <1>12, <1>13, <1>14, <1>15, <1>16 DEF Next

-----------------------------------------------------------------------------
(* The theorems *)

\* scheduler's START begins a period with no time on it.
LEMMA InitInv == Init => PInv
  <1> SUFFICES ASSUME Init PROVE PInv
    OBVIOUS
  <1>1. ControlInv
    BY ControlInit
  <1>2. 0 \in Word /\ PSEUDO \in Nat /\ PSEUDO > 0 /\ Horizon \in Nat
    BY Constants
  <1>3. Period = 0
    <2>1. Minus(0, 0) = 0 - 0
      BY <1>2, Words
    <2>2. QED BY <2>1 DEF Period, Init
  <1>4. /\ cpu = "scheduler" /\ flag = "START" /\ sinceTick = 0 /\ ~pseudoclockflag
        /\ ~InSlice
    BY DEF Init, InSlice
  <1>5. EarlyInv
    BY <1>2, <1>3, <1>4 DEF EarlyInv
  <1>6. ArmedInv
    BY <1>2, <1>3, <1>4 DEF ArmedInv
  <1>7. OnTimeInv
    BY <1>2, <1>3, <1>4 DEF OnTimeInv
  <1>8. QED BY <1>1, <1>5, <1>6, <1>7 DEF PInv

\* The inductive invariant of the scheduler's clock.
THEOREM ClockInvariant == Spec => []PInv
  <1>1. PInv /\ [Next]_vars => PInv'
    BY ControlStep, EarlyStep, ArmedStep, OnTimeStep DEF PInv
  <1>2. QED BY InitInv, <1>1, PTL DEF Spec

\* The words stay words however often the time of day wraps, no process is
\* lost among the counters, and loadnext loads a process only if there is one.
THEOREM ClockTyped == Spec => []TypeOK
  <1>1. PInv => TypeOK
    BY DEF PInv, ControlInv
  <1>2. QED BY <1>1, ClockInvariant, PTL

\* The clock is at most a slice fast: however slow the nucleus is, and
\* whatever processes and devices do, timer_handler takes an interrupt for a
\* tick only when all but a slice of a period has passed since the last one.
THEOREM TickNotEarly == Spec => []NoEarlyTick
  <1>1. PInv => NoEarlyTick
    BY DEF PInv, EarlyInv, NoEarlyTick, TickPending
  <1>2. QED BY <1>1, ClockInvariant, PTL

\* An announced tick is the next interrupt of the timer, a slice away at
\* most, although loadnext and deadlock_detection load the timer again.
THEOREM TickIsArmed == Spec => []TickArmed
  <1>1. PInv => TickArmed
    BY DEF PInv, ArmedInv, TickArmed, InSlice
  <1>2. QED BY <1>1, ClockInvariant, PTL

\* The clock is at most a slice late per process that goes to sleep between
\* the announcement and the tick, for any number of processes.
THEOREM TickIsOnTime == Spec => []TickOnTime
  <1>1. PInv => TickOnTime
    <2> SUFFICES ASSUME PInv, OnTime PROVE sinceTick <= Latest
      BY DEF TickOnTime, OnTime, Latest
    <2>1. ControlInv /\ Period <= PSEUDO
      BY DEF PInv, ArmedInv, OnTime
    <2>2. /\ Period \in Nat /\ timer \in Nat /\ sinceTick \in Nat /\ clock \in Nat
          /\ SLICE \in Nat /\ PSEUDO \in Nat
      BY <2>1, PeriodFacts, Settled, Constants
    <2>3. Allowance \in Nat /\ Latest \in Nat /\ PSEUDO <= Allowance /\ Allowance <= Latest
      BY <2>1, <2>2, Allowances DEF ControlInv
    <2>4. CASE ~pseudoclockflag
      <3>1. sinceTick <= Period
        BY <2>4 DEF PInv, OnTimeInv
      <3>2. QED BY <2>1, <2>2, <2>3, <3>1
    <2>5. CASE pseudoclockflag
      <3>1. CASE cpu = "int_exit" \/ (cpu = "scheduler" /\ flag \in {"START", "RESET"})
        <4>1. sinceTick = 0
          BY <2>5, <3>1 DEF PInv, OnTimeInv, ControlInv
        <4>2. QED BY <2>3, <4>1
      <3>2. CASE cpu = "timer" \/ (InSlice /\ expired)
        BY <2>5, <3>2 DEF PInv, OnTimeInv
      <3>3. CASE InSlice /\ ~expired
        <4>1. sinceTick + timer <= Allowance
          BY <2>5, <3>3 DEF PInv, OnTimeInv
        <4>2. QED BY <2>2, <2>3, <4>1
      <3>4. CASE cpu \in {"loadnext", "interval"} \/ (cpu = "scheduler" /\ flag = "LOADNEXT")
        <4>1. sinceTick + SLICE <= Allowance
          BY <2>5, <3>4 DEF PInv, OnTimeInv
        <4>2. QED BY <2>2, <2>3, <4>1
      <3>5. CASE cpu \in {"announced", "dispatch"}
        <4>1. sinceTick + timer <= Allowance
          BY <2>5, <3>5 DEF PInv, OnTimeInv
        <4>2. QED BY <2>2, <2>3, <4>1
      <3>6. QED BY <2>1, <3>1, <3>2, <3>3, <3>4, <3>5
                 DEF ControlInv, TypeOK, Nucleus, InSlice
    <2>6. QED BY <2>4, <2>5
  <1>2. QED BY <1>1, ClockInvariant, PTL
=============================================================================
