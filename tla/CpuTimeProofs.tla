----------------------------- MODULE CpuTimeProofs -----------------------------
(***************************************************************************)
(* Proofs about CpuTime, for every number of processes, every word size and *)
(* every time of day at boot: ChargedOnce and UserTimeCharged, as long as   *)
(* less time passes than a word can count (Horizon < W).                    *)
(*                                                                         *)
(* The words startTOD and kernel_start stand for points in time, although   *)
(* the time of day they were read from may have wrapped since.  CInv says   *)
(* for which: `s', when the current process was loaded, and `k', when the   *)
(* handler in progress began.  It says nothing of the times of those in     *)
(* `twice', whom loadnext charges for a slice they were charged for, but it *)
(* says that none of them executes its own code again.                      *)
(***************************************************************************)
EXTENDS CpuTime, TLAPS

\* The processes that exist.
Existing == ready \cup blocked \cup ({current_process} \ {NULL})

\* Where the code needs a current process, and where it has none.
ControlInv ==
  /\ cpu \in {"process", "start", "half", "charged", "queued"} => current_process # NULL
  /\ cpu \in {"entry", "handler"} /\ why # "interrupt" => current_process # NULL
  /\ cpu \in {"select", "idle"} => current_process = NULL
  /\ cpu = "queued" => current_process \in blocked
  /\ current_process \in twice => cpu \notin {"process", "half", "charged", "queued"}
  /\ current_process \in twice /\ cpu \in {"entry", "handler"} => why = "interrupt"

GhostInv ==
  /\ time \in 0 .. Horizon
  /\ ran \in [Proc -> Nat] /\ held \in [Proc -> Nat]
  /\ \A p \in Proc : held[p] <= time
  /\ \A p \in Proc \ Existing : ran[p] = 0
  /\ twice \subseteq Existing /\ \A p \in twice : p_s[p] # "process"

Settled(p) == ran[p] + kernel_time[p] <= global_time[p] /\ global_time[p] <= held[p]

\* The times of all who are not in a slice are settled.
SettledInv == \A p \in Existing \ twice : ~(p = current_process /\ InSlice) => Settled(p)

\* A slice that has not been charged before.
FirstSlice == InSlice /\ current_process \notin twice

\* The current process was loaded at s, the handler in progress began at k, and
\* its times are settled once it is charged for both.
Slice(s, k) ==
  /\ s \in 0 .. time /\ k \in s .. time
  /\ startTOD = Plus(BOOT, s)
  /\ cpu = "handler" => kernel_start = Plus(BOOT, k)
  /\ global_time[current_process] + (time - s) <= held[current_process]
  /\ ran[current_process] + kernel_time[current_process]
       + (IF cpu = "handler" THEN time - k ELSE 0)
       <= global_time[current_process] + (time - s)

SliceInv == FirstSlice => \E s, k \in 0 .. Horizon : Slice(s, k)

CInv == TypeOK /\ ControlInv /\ GhostInv /\ SettledInv /\ SliceInv

-----------------------------------------------------------------------------
(* Words *)

\* Unsigned arithmetic on words, and on numbers that fit one.
LEMMA Words ==
  /\ W \in Nat /\ W > 0 /\ Horizon \in Nat /\ Horizon < W /\ BOOT \in 0 .. W - 1
  /\ \A a, b \in Int : Plus(a, b) \in Word /\ Minus(a, b) \in Word
  /\ \A a, b \in Nat : a + b < W => Plus(a, b) = a + b
  <1>1. W \in Nat /\ W > 0 /\ Horizon \in Nat /\ Horizon < W /\ BOOT \in 0 .. W - 1
    BY CpuTimeAssumption
  <1>2. \A x \in Int : x % W \in 0 .. W - 1
    BY <1>1
  <1>3. \A x \in 0 .. W - 1 : x % W = x
    BY <1>1
  <1>4. QED BY <1>1, <1>2, <1>3 DEF Plus, Minus, Word

\* The difference of two readings of the time of day is the time between
\* them, wherever the time of day has wrapped.
LEMMA Passed ==
  ASSUME NEW t \in 0 .. Horizon, NEW s \in 0 .. t
  PROVE  Minus(Plus(BOOT, t), Plus(BOOT, s)) = t - s
  <1>1. W \in Nat /\ W > 0 /\ Horizon \in Nat /\ Horizon < W /\ BOOT \in 0 .. W - 1
    BY CpuTimeAssumption
  <1>2. /\ \A x \in 0 .. W - 1 : x % W = x
        /\ \A x \in W .. 2 * W - 1 : x % W = x - W
        /\ \A x \in -W .. -1 : x % W = x + W
    BY <1>1
  <1>3. ASSUME NEW u \in 0 .. Horizon
        PROVE  Plus(BOOT, u) = IF BOOT + u < W THEN BOOT + u ELSE BOOT + u - W
    <2>1. CASE BOOT + u < W
      <3>1. BOOT + u \in 0 .. W - 1
        BY <2>1, <1>1
      <3>2. QED BY <2>1, <3>1, <1>2 DEF Plus
    <2>2. CASE ~(BOOT + u < W)
      <3>1. BOOT + u \in W .. 2 * W - 1
        BY <2>2, <1>1
      <3>2. (BOOT + u) % W = (BOOT + u) - W
        BY <3>1, <1>2
      <3>3. QED BY <2>2, <3>2, <1>1 DEF Plus
    <2>3. QED BY <2>1, <2>2
  <1> DEFINE a == Plus(BOOT, t)
             b == Plus(BOOT, s)
  <1>4. /\ a = IF BOOT + t < W THEN BOOT + t ELSE BOOT + t - W
        /\ b = IF BOOT + s < W THEN BOOT + s ELSE BOOT + s - W
    BY <1>1, <1>3
  <1> HIDE DEF a, b
  <1>5. \/ a - b = t - s
        \/ a - b = t - s - W /\ t - s > 0
    BY <1>1, <1>4
  <1>6. (a - b) % W = t - s
    <2>1. CASE a - b = t - s
      <3>1. t - s \in 0 .. W - 1
        BY <1>1
      <3>2. QED BY <2>1, <3>1, <1>2
    <2>2. CASE a - b = t - s - W /\ t - s > 0
      <3>1. t - s - W \in -W .. -1 /\ (t - s - W) + W = t - s
        BY <2>2, <1>1
      <3>2. QED BY <2>2, <3>1, <1>2
    <2>3. QED BY <1>5, <2>1, <2>2
  <1>7. QED BY <1>6 DEF Minus, a, b

-----------------------------------------------------------------------------
(* Charging *)

\* What the invariant says of the current process in a slice.
LEMMA CurrentFacts ==
  ASSUME CInv, FirstSlice
  PROVE  /\ current_process \in Proc /\ current_process \in Existing
         /\ \E s, k \in 0 .. Horizon : Slice(s, k)
  BY DEF CInv, TypeOK, SliceInv, FirstSlice, InSlice, Existing

\* Charging keeps the fields words.
LEMMA WordCharge ==
  ASSUME CInv, current_process # NULL
  PROVE  /\ ChargeKernel => /\ kernel_time' \in [Proc -> Word]
                            /\ \A p \in Proc : p # current_process => kernel_time'[p] = kernel_time[p]
         /\ ChargeGlobal => /\ global_time' \in [Proc -> Word]
                            /\ \A p \in Proc : p # current_process => global_time'[p] = global_time[p]
  <1> DEFINE c == current_process
             k == Plus(kernel_time[c], Minus(TODLO, kernel_start))
             g == Plus(global_time[c], Minus(TODLO, startTOD))
  <1>1. /\ c \in Proc /\ kernel_time \in [Proc -> Word] /\ global_time \in [Proc -> Word]
        /\ kernel_start \in Int /\ startTOD \in Int /\ time \in Int
        /\ kernel_time[c] \in Int /\ global_time[c] \in Int
    BY CpuTimeAssumption DEF CInv, TypeOK, GhostInv, Word
  <1>2. /\ TODLO \in Int
        /\ Minus(TODLO, kernel_start) \in Int /\ Minus(TODLO, startTOD) \in Int
    <2>1. TODLO \in Word
      BY <1>1, Words DEF TODLO
    <2>2. TODLO \in Int
      BY <2>1, CpuTimeAssumption DEF Word
    <2>3. Minus(TODLO, kernel_start) \in Word /\ Minus(TODLO, startTOD) \in Word
      BY <1>1, <2>2, Words
    <2>4. QED BY <2>2, <2>3, CpuTimeAssumption DEF Word
  <1>3. k \in Word /\ g \in Word
    BY <1>1, <1>2, Words
  <1>4. ChargeKernel => kernel_time' = [kernel_time EXCEPT ![c] = k]
    BY DEF ChargeKernel
  <1>5. ChargeGlobal => global_time' = [global_time EXCEPT ![c] = g]
    BY DEF ChargeGlobal
  <1> HIDE DEF k, g
  <1>6. QED BY <1>1, <1>3, <1>4, <1>5

\* ChargeKernel adds the time since the handler began ...
LEMMA KernelCharge ==
  ASSUME CInv, FirstSlice, cpu = "handler", ChargeKernel,
         NEW s \in 0 .. Horizon, NEW k \in 0 .. Horizon, Slice(s, k)
  PROVE  /\ kernel_time' \in [Proc -> Word]
         /\ kernel_time'[current_process] = kernel_time[current_process] + (time - k)
         /\ \A p \in Proc : p # current_process => kernel_time'[p] = kernel_time[p]
  <1> DEFINE c == current_process
             old == kernel_time[c]
  <1>1. /\ c \in Proc /\ kernel_time \in [Proc -> Word] /\ old \in Word
        /\ global_time[c] \in Word /\ held[c] \in Nat /\ held[c] <= time /\ ran[c] \in Nat
        /\ time \in 0 .. Horizon
    BY CurrentFacts DEF CInv, TypeOK, GhostInv
  <1>2. /\ s \in 0 .. time /\ k \in s .. time /\ kernel_start = Plus(BOOT, k)
        /\ global_time[c] + (time - s) <= held[c]
        /\ ran[c] + old + (time - k) <= global_time[c] + (time - s)
    BY DEF Slice
  <1>3. Minus(TODLO, kernel_start) = time - k
    <2>1. k \in 0 .. time
      BY <1>1, <1>2
    <2>2. QED BY <1>1, <1>2, <2>1, Passed DEF TODLO
  <1>4. old \in Nat /\ time - k \in Nat /\ old + (time - k) < W
    <2>1. old + (time - k) <= time
      BY <1>1, <1>2 DEF Word
    <2>2. old \in Nat
      BY <1>1, CpuTimeAssumption DEF Word
    <2>3. QED BY <1>1, <1>2, <2>1, <2>2, CpuTimeAssumption
  <1>5. Plus(old, time - k) = old + (time - k)
    BY <1>4, Words
  <1>6. kernel_time' = [kernel_time EXCEPT ![c] = old + (time - k)]
    BY <1>3, <1>5 DEF ChargeKernel
  <1>7. old + (time - k) \in Word
    BY <1>4, CpuTimeAssumption DEF Word
  <1>8. QED BY <1>1, <1>6, <1>7

\* ... and ChargeGlobal the time since the slice began: its times are settled.
LEMMA GlobalCharge ==
  ASSUME CInv, FirstSlice, cpu # "handler", ChargeGlobal
  PROVE  LET c == current_process
         IN /\ global_time' \in [Proc -> Word]
            /\ ran[c] + kernel_time[c] <= global_time'[c] /\ global_time'[c] <= held[c]
            /\ \A p \in Proc : p # c => global_time'[p] = global_time[p]
  <1> DEFINE c == current_process
             old == global_time[c]
  <1>1. /\ c \in Proc /\ global_time \in [Proc -> Word] /\ old \in Word
        /\ kernel_time[c] \in Word /\ held[c] \in Nat /\ held[c] <= time /\ ran[c] \in Nat
        /\ time \in 0 .. Horizon
    BY CurrentFacts DEF CInv, TypeOK, GhostInv
  <1>2. PICK s, k \in 0 .. Horizon : Slice(s, k)
    BY CurrentFacts
  <1>3. /\ s \in 0 .. time /\ startTOD = Plus(BOOT, s)
        /\ old + (time - s) <= held[c]
        /\ ran[c] + kernel_time[c] <= old + (time - s)
    BY <1>1, <1>2 DEF Slice, Word
  <1>4. Minus(TODLO, startTOD) = time - s
    BY <1>1, <1>3, Passed DEF TODLO
  <1>5. old \in Nat /\ time - s \in Nat /\ old + (time - s) < W
    <2>1. old \in Nat
      BY <1>1, CpuTimeAssumption DEF Word
    <2>2. QED BY <1>1, <1>3, <2>1, CpuTimeAssumption
  <1>6. Plus(old, time - s) = old + (time - s)
    BY <1>5, Words
  <1>7. global_time' = [global_time EXCEPT ![c] = old + (time - s)]
    BY <1>4, <1>6 DEF ChargeGlobal
  <1>8. old + (time - s) \in Word
    BY <1>5, CpuTimeAssumption DEF Word
  <1>9. global_time'[c] = old + (time - s)
    BY <1>1, <1>7
  <1>10. QED BY <1>1, <1>3, <1>7, <1>8, <1>9

-----------------------------------------------------------------------------
(* CInv is inductive *)

LEMMA InitCInv == Init => CInv
  <1>1. SUFFICES ASSUME Init PROVE CInv
    OBVIOUS
  <1>2. PICK p \in Proc :
          /\ current_process = p /\ ready = {} /\ blocked = {}
          /\ p_s = [q \in Proc |-> "process"] /\ twice = {}
          /\ cpu = "start" /\ why = "interrupt"
          /\ startTOD = 0 /\ kernel_start = 0
          /\ kernel_time = NoTimes /\ global_time = NoTimes
          /\ time = 0 /\ ran = NoTimes /\ held = NoTimes
    BY <1>1 DEF Init
  <1>3. 0 \in Word /\ 0 \in 0 .. Horizon
    BY Words DEF Word
  <1>4. TypeOK
    BY <1>2, <1>3 DEF TypeOK, At, Cause, Point, NoTimes
  <1>5. ControlInv
    BY <1>2, CpuTimeAssumption DEF ControlInv
  <1>6. GhostInv
    BY <1>2, <1>3 DEF GhostInv, NoTimes
  <1>7. SettledInv
    BY <1>2 DEF SettledInv, Existing, Settled, NoTimes, InSlice
  <1>8. SliceInv
    BY <1>2 DEF SliceInv, FirstSlice, InSlice
  <1>9. QED BY <1>4, <1>5, <1>6, <1>7, <1>8 DEF CInv

\* Time passes.
LEMMA ElapseStep ==
  ASSUME CInv, Elapse
  PROVE  CInv'
  <1> DEFINE c == current_process
  <1>1. /\ time \in Nat /\ time < Horizon /\ time' = time + 1 /\ Horizon \in Nat
        /\ UNCHANGED <<cpu, why, procs, nucleus, times>>
    BY Words DEF CInv, GhostInv, Elapse
  <1>2. /\ ran \in [Proc -> Nat] /\ held \in [Proc -> Nat]
        /\ \A p \in Proc : held[p] <= time /\ held[p] \in Nat /\ ran[p] \in Nat
                           /\ global_time[p] \in Nat /\ kernel_time[p] \in Nat
        /\ c # NULL => c \in Proc
        /\ cpu = "process" => c # NULL
    BY DEF CInv, TypeOK, GhostInv, Word
  <1>3. /\ ran' \in [Proc -> Nat] /\ held' \in [Proc -> Nat]
        /\ \A p \in Proc : p # c => ran'[p] = ran[p] /\ held'[p] = held[p]
        /\ c # NULL => /\ held'[c] = held[c] + 1
                       /\ ran'[c] = IF cpu = "process" THEN ran[c] + 1 ELSE ran[c]
    <2>1. /\ ran' = IF cpu = "process" THEN [ran EXCEPT ![c] = @ + 1] ELSE ran
          /\ held' = IF c # NULL THEN [held EXCEPT ![c] = @ + 1] ELSE held
      BY DEF Elapse
    <2>2. CASE c = NULL
      BY <2>1, <2>2, <1>2
    <2>3. CASE c # NULL
      BY <2>1, <2>3, <1>2
    <2>4. QED BY <2>2, <2>3
  <1>4. TypeOK'
    BY <1>1 DEF CInv, TypeOK, procs, nucleus, times, Word
  <1>5. ControlInv'
    BY <1>1 DEF CInv, ControlInv, procs
  <1>6. GhostInv'
    <2>1. time' \in 0 .. Horizon
      BY <1>1
    <2>2. ASSUME NEW p \in Proc PROVE held'[p] <= time'
      <3>1. CASE p = c
        <4>1. c # NULL
          BY <3>1, CpuTimeAssumption
        <4>2. QED BY <3>1, <4>1, <1>1, <1>2, <1>3
      <3>2. CASE p # c
        BY <3>2, <1>1, <1>2, <1>3
      <3>3. QED BY <3>1, <3>2
    <2>3. ASSUME NEW p \in Proc \ Existing' PROVE ran'[p] = 0
      <3>1. p \notin Existing /\ p # c
        BY <2>3, <1>1, CpuTimeAssumption DEF Existing, procs
      <3>2. QED BY <3>1, <1>3 DEF CInv, GhostInv
    <2>4. twice' \subseteq Existing' /\ \A p \in twice' : p_s'[p] # "process"
      BY <1>1 DEF CInv, GhostInv, Existing, procs
    <2>5. QED BY <1>3, <2>1, <2>2, <2>3, <2>4 DEF GhostInv
  <1>7. SettledInv'
    <2>1. SUFFICES ASSUME NEW p \in Existing' \ twice', ~(p = current_process' /\ InSlice') PROVE Settled(p)'
      BY DEF SettledInv
    <2>2. p \in Existing \ twice /\ ~(p = c /\ InSlice) /\ p \in Proc
      BY <2>1, <1>1, <1>2 DEF Existing, InSlice, procs, CInv, TypeOK
    <2>3. ran[p] + kernel_time[p] <= global_time[p] /\ global_time[p] <= held[p]
      BY <2>2 DEF CInv, SettledInv, Settled
    <2>4. kernel_time' = kernel_time /\ global_time' = global_time
      BY <1>1 DEF times
    <2>5. ran'[p] = ran[p]
      <3>1. p = c => cpu # "process"
        BY <2>2, CpuTimeAssumption DEF InSlice
      <3>2. QED BY <3>1, <2>2, <1>3, CpuTimeAssumption
    <2>6. held'[p] >= held[p]
      BY <2>2, <1>2, <1>3, CpuTimeAssumption
    <2>7. held'[p] \in Nat
      BY <2>2, <1>3
    <2>8. QED BY <2>2, <2>3, <2>4, <2>5, <2>6, <2>7, <1>2 DEF Settled
  <1>8. SliceInv'
    <2>1. SUFFICES ASSUME FirstSlice' PROVE \E s, k \in 0 .. Horizon : Slice(s, k)'
      BY DEF SliceInv
    <2>2. FirstSlice /\ c # NULL /\ c \in Proc /\ current_process' = c /\ cpu' = cpu
      BY <2>1, <1>1, <1>2 DEF FirstSlice, InSlice, procs
    <2>3. PICK s, k \in 0 .. Horizon : Slice(s, k)
      BY <2>2, CurrentFacts
    <2>4. /\ s \in 0 .. time /\ k \in s .. time
          /\ startTOD = Plus(BOOT, s) /\ (cpu = "handler" => kernel_start = Plus(BOOT, k))
          /\ global_time[c] + (time - s) <= held[c]
          /\ ran[c] + kernel_time[c] + (IF cpu = "handler" THEN time - k ELSE 0)
               <= global_time[c] + (time - s)
      BY <2>3 DEF Slice
    <2>5. s \in 0 .. time' /\ k \in s .. time'
      BY <2>4, <1>1
    <2>6. global_time[c] + (time' - s) <= held'[c]
      BY <2>2, <2>4, <1>1, <1>2, <1>3
    <2>7. ran'[c] + kernel_time[c] + (IF cpu = "handler" THEN time' - k ELSE 0)
            <= global_time[c] + (time' - s)
      BY <2>2, <2>4, <1>1, <1>2, <1>3
    <2>8. /\ startTOD' = startTOD /\ kernel_start' = kernel_start
          /\ kernel_time' = kernel_time /\ global_time' = global_time
      BY <1>1 DEF nucleus, times
    <2>9. Slice(s, k)'
      BY <2>2, <2>4, <2>5, <2>6, <2>7, <2>8 DEF Slice
    <2>10. QED BY <2>9
  <1>9. QED BY <1>4, <1>5, <1>6, <1>7, <1>8 DEF CInv

\* Steps that charge nothing.
LEMMA UnchargedStep ==
  ASSUME CInv, ControlInv', UNCHANGED <<ghosts, procs, times, startTOD>>,
         cpu' \in At, why' \in Cause, cpu' = "process" => current_process # NULL,
         InSlice' <=> InSlice, cpu = "queued" => cpu' = "queued",
         kernel_start' \in Word,
         cpu' = "handler" => (cpu = "handler" /\ UNCHANGED kernel_start)
                             \/ (cpu # "handler" /\ kernel_start' = TODLO)
  PROVE  CInv'
  <1> DEFINE c == current_process
  <1>1. UNCHANGED <<time, ran, held, current_process, ready, blocked, p_s, twice, kernel_time, global_time,
                    startTOD>>
    BY DEF ghosts, procs, times
  <1>2. Existing' = Existing /\ (FirstSlice' <=> FirstSlice)
    BY <1>1 DEF Existing, FirstSlice
  <1>3. TypeOK' /\ GhostInv'
    BY <1>1, <1>2 DEF CInv, TypeOK, GhostInv, Word
  <1>4. SettledInv'
    BY <1>1, <1>2 DEF CInv, SettledInv, Settled
  <1>5. SliceInv'
    <2>1. SUFFICES ASSUME FirstSlice' PROVE \E s, k \in 0 .. Horizon : Slice(s, k)'
      BY DEF SliceInv
    <2>2. PICK s, k \in 0 .. Horizon : Slice(s, k)
      BY <2>1, <1>2, CurrentFacts
    <2>3. /\ time \in 0 .. Horizon /\ Horizon \in Nat /\ c \in Proc
          /\ ran[c] \in Int /\ kernel_time[c] \in Int /\ global_time[c] \in Int
      BY <2>1, <1>2, CurrentFacts, CpuTimeAssumption DEF CInv, TypeOK, GhostInv, Word
    <2>4. /\ s \in 0 .. time /\ k \in s .. time
          /\ startTOD = Plus(BOOT, s) /\ (cpu = "handler" => kernel_start = Plus(BOOT, k))
          /\ global_time[c] + (time - s) <= held[c]
          /\ ran[c] + kernel_time[c] + (IF cpu = "handler" THEN time - k ELSE 0)
               <= global_time[c] + (time - s)
      BY <2>2 DEF Slice
    <2>5. ran[c] + kernel_time[c] <= global_time[c] + (time - s)
      BY <2>3, <2>4
    <2>6. CASE cpu' = "handler" /\ cpu = "handler"
      <3>1. UNCHANGED kernel_start
        BY <2>6
      <3>2. Slice(s, k)'
        BY <2>4, <2>6, <3>1, <1>1 DEF Slice
      <3>3. QED BY <3>2
    <2>7. CASE cpu' = "handler" /\ cpu # "handler"
      <3>1. PICK t \in 0 .. Horizon : t = time
        BY <2>3
      <3>2. kernel_start' = Plus(BOOT, t)
        BY <2>7, <3>1 DEF TODLO
      <3>3. t \in s .. time /\ ran[c] + kernel_time[c] + (time - t) <= global_time[c] + (time - s)
        BY <2>3, <2>4, <2>5, <3>1
      <3>4. Slice(s, t)'
        BY <2>4, <2>7, <3>2, <3>3, <1>1 DEF Slice
      <3>5. QED BY <3>4
    <2>8. CASE cpu' # "handler"
      <3>1. ran[c] + kernel_time[c] + 0 <= global_time[c] + (time - s)
        BY <2>3, <2>5
      <3>2. Slice(s, k)'
        BY <2>4, <2>8, <3>1, <1>1 DEF Slice
      <3>3. QED BY <3>2
    <2>9. QED BY <2>6, <2>7, <2>8
  <1>6. QED BY <1>3, <1>4, <1>5 DEF CInv

\* A handler ends and charges the time since it began.
LEMMA KernelStep ==
  ASSUME CInv, cpu = "handler", current_process # NULL, ChargeKernel,
         UNCHANGED <<ghosts, procs, nucleus, global_time>>, ControlInv',
         cpu' \in {"process", "entry", "half", "window"}, why' \in Cause
  PROVE  CInv'
  <1> DEFINE c == current_process
  <1>1. UNCHANGED <<time, ran, held, current_process, ready, blocked, p_s, twice, global_time, startTOD,
                    kernel_start>>
    BY DEF ghosts, procs, nucleus
  <1>2. InSlice /\ InSlice' /\ Existing' = Existing /\ (FirstSlice' <=> FirstSlice)
    BY <1>1 DEF Existing, InSlice, FirstSlice
  <1>3. /\ kernel_time' \in [Proc -> Word]
        /\ \A p \in Proc : p # c => kernel_time'[p] = kernel_time[p]
    BY WordCharge
  <1>4. TypeOK' /\ GhostInv'
    BY <1>1, <1>2, <1>3 DEF CInv, TypeOK, GhostInv, Word, At
  <1>5. SettledInv'
    <2>1. SUFFICES ASSUME NEW p \in Existing \ twice, p # c PROVE Settled(p)'
      BY <1>1, <1>2 DEF SettledInv
    <2>2. p \in Proc /\ Settled(p)
      BY <2>1 DEF CInv, SettledInv, Existing, TypeOK
    <2>3. QED BY <2>1, <2>2, <1>1, <1>3 DEF Settled
  <1>6. SliceInv'
    <2>1. SUFFICES ASSUME FirstSlice PROVE \E s, k \in 0 .. Horizon : Slice(s, k)'
      BY <1>2 DEF SliceInv
    <2>2. PICK s, k \in 0 .. Horizon : Slice(s, k)
      BY <2>1, CurrentFacts
    <2>3. /\ time \in 0 .. Horizon /\ Horizon \in Nat /\ c \in Proc
          /\ ran[c] \in Int /\ kernel_time[c] \in Int /\ global_time[c] \in Int
      BY <2>1, CurrentFacts, CpuTimeAssumption DEF CInv, TypeOK, GhostInv, Word
    <2>4. /\ s \in 0 .. time /\ k \in s .. time /\ startTOD = Plus(BOOT, s)
          /\ global_time[c] + (time - s) <= held[c]
          /\ ran[c] + kernel_time[c] + (time - k) <= global_time[c] + (time - s)
      BY <2>2 DEF Slice
    <2>5. kernel_time'[c] = kernel_time[c] + (time - k)
      BY <2>1, <2>2, KernelCharge
    <2>6. ran[c] + kernel_time'[c] + 0 <= global_time[c] + (time - s)
      BY <2>3, <2>4, <2>5
    <2>7. Slice(s, k)'
      BY <2>4, <2>6, <1>1 DEF Slice
    <2>8. QED BY <2>7
  <1>7. QED BY <1>4, <1>5, <1>6 DEF CInv

\* The slice ends: the process is charged for it, and stays or joins the ready queue.
LEMMA GlobalStep ==
  ASSUME CInv, InSlice, cpu # "handler", ChargeGlobal, ControlInv',
         UNCHANGED <<ghosts, nucleus, kernel_time, why, blocked, p_s, twice>>,
         \/ UNCHANGED <<current_process, ready>> /\ cpu' \in {"charged", "undefined"}
         \/ /\ current_process \notin ready \cup blocked /\ current_process' = NULL
            /\ ready' = ready \cup {current_process} /\ cpu' = "select"
  PROVE  CInv'
  <1> DEFINE c == current_process
  <1>1. UNCHANGED <<time, ran, held, kernel_time, startTOD, kernel_start>>
    BY DEF ghosts, nucleus
  <1>2. c \in Proc /\ c # NULL /\ cpu # "queued" /\ ~InSlice'
    BY DEF InSlice, CInv, TypeOK
  <1>3. Existing' = Existing
    BY <1>2, CpuTimeAssumption DEF Existing
  <1>4. /\ global_time' \in [Proc -> Word]
        /\ \A p \in Proc : p # c => global_time'[p] = global_time[p]
    BY <1>2, WordCharge
  <1>5. TypeOK'
    <2>1. /\ ready' \subseteq Proc /\ blocked' \subseteq Proc \ ready'
          /\ current_process' \in {NULL} \cup Proc
          /\ current_process' \in ready' \cup blocked' => current_process' \in twice'
      BY <1>2, CpuTimeAssumption DEF CInv, TypeOK
    <2>2. QED BY <1>1, <1>4, <2>1 DEF CInv, TypeOK, At, Word
  <1>6. GhostInv'
    BY <1>1, <1>3 DEF CInv, GhostInv
  <1>7. SettledInv'
    <2>1. SUFFICES ASSUME NEW p \in Existing \ twice PROVE Settled(p)'
      BY <1>3 DEF SettledInv
    <2>2. CASE p = c
      <3>1. FirstSlice
        BY <2>1, <2>2 DEF FirstSlice
      <3>2. ran[c] + kernel_time[c] <= global_time'[c] /\ global_time'[c] <= held[c]
        BY <3>1, GlobalCharge
      <3>3. QED BY <2>2, <3>2, <1>1 DEF Settled
    <2>3. CASE p # c
      <3>1. p \in Proc /\ Settled(p)
        BY <2>1, <2>3 DEF CInv, SettledInv, Existing, TypeOK
      <3>2. QED BY <2>3, <3>1, <1>1, <1>4 DEF Settled
    <2>4. QED BY <2>2, <2>3
  <1>8. SliceInv'
    BY <1>2 DEF SliceInv, FirstSlice
  <1>9. QED BY <1>5, <1>6, <1>7, <1>8 DEF CInv

\* A charged process joins its semaphore's queue and leaves the processor.
LEMMA BlockStep ==
  ASSUME CInv, BlockInsert \/ BlockLeave
  PROVE  CInv'
  <1> DEFINE c == current_process
  <1>1. UNCHANGED <<time, ran, held, why, ready, p_s, twice, kernel_time, global_time, startTOD, kernel_start>>
    BY DEF BlockInsert, BlockLeave, ghosts, nucleus, times
  <1>2. c \in Proc /\ c # NULL /\ c \notin twice /\ ~InSlice
    BY CpuTimeAssumption DEF BlockInsert, BlockLeave, CInv, ControlInv, TypeOK, InSlice
  <1>3. /\ c \notin ready /\ blocked' = blocked \cup {c}
        /\ \/ current_process' = c /\ cpu' = "queued"
           \/ current_process' = NULL /\ cpu' \in {"window", "loadnext"}
    BY <1>2 DEF BlockInsert, BlockLeave, CInv, ControlInv, TypeOK
  <1>4. Existing' = Existing /\ ~InSlice'
    BY <1>2, <1>3, <1>1 DEF Existing, InSlice
  <1>5. TypeOK'
    <2>1. /\ ready' \subseteq Proc /\ blocked' \subseteq Proc \ ready'
          /\ current_process' \in {NULL} \cup Proc
          /\ current_process' \in ready' \cup blocked' => cpu' = "queued"
      BY <1>1, <1>2, <1>3, CpuTimeAssumption DEF CInv, TypeOK
    <2>2. QED BY <1>1, <1>3, <2>1 DEF CInv, TypeOK, At, Word
  <1>6. ControlInv'
    <2>1. NULL \notin twice
      BY CpuTimeAssumption DEF CInv, TypeOK
    <2>2. QED BY <1>1, <1>2, <1>3, <2>1 DEF ControlInv
  <1>7. GhostInv'
    BY <1>1, <1>4 DEF CInv, GhostInv
  <1>8. SettledInv'
    BY <1>1, <1>2, <1>4 DEF CInv, SettledInv, Settled
  <1>9. SliceInv'
    BY <1>4 DEF SliceInv, FirstSlice
  <1>10. QED BY <1>5, <1>6, <1>7, <1>8, <1>9 DEF CInv

\* An interrupt: a process it finds charged is in `twice' from now on.
LEMMA InterruptStep ==
  ASSUME CInv, Interrupt
  PROVE  CInv'
  <1> DEFINE c == current_process
  <1>1. /\ UNCHANGED <<time, ran, held, current_process, ready, blocked, startTOD, kernel_start,
                       kernel_time, global_time>>
        /\ cpu' = "entry" /\ why' = "interrupt" /\ Enabled
    BY DEF Interrupt, ghosts, nucleus, times
  <1>2. CASE c = NULL
    <2>1. UNCHANGED <<p_s, twice>>
      BY <1>2 DEF Interrupt
    <2>2. Existing' = Existing /\ ~InSlice' /\ c \notin ready \cup blocked \cup twice
      BY <1>1, <1>2, CpuTimeAssumption DEF Existing, InSlice, CInv, TypeOK
    <2>3. TypeOK' /\ ControlInv'
      BY <1>1, <1>2, <2>1, <2>2 DEF CInv, TypeOK, ControlInv, At, Cause, Word
    <2>4. GhostInv'
      BY <1>1, <2>1, <2>2 DEF CInv, GhostInv
    <2>5. SettledInv' /\ SliceInv'
      BY <1>1, <1>2, <2>1, <2>2 DEF CInv, SettledInv, Settled, SliceInv, FirstSlice, InSlice
    <2>6. QED BY <2>3, <2>4, <2>5 DEF CInv
  <1>3. CASE c # NULL
    <2>1. /\ p_s' = [p_s EXCEPT ![c] = cpu] /\ c \in Proc /\ c \in Existing
          /\ twice' = IF cpu \in {"charged", "queued"} THEN twice \cup {c} ELSE twice
      BY <1>3 DEF Interrupt, CInv, TypeOK, Existing
    <2>2. cpu \in {"process", "window", "handler", "half", "charged", "queued"}
      BY <1>1, <1>3 DEF Enabled, CInv, ControlInv
    <2>3. Existing' = Existing /\ InSlice'
      BY <1>1, <1>3 DEF Existing, InSlice
    <2>4. TypeOK'
      <3>1. p_s' \in [Proc -> Point] /\ twice' \subseteq Proc
        BY <2>1, <2>2 DEF CInv, TypeOK, Point
      <3>2. current_process' \in ready' \cup blocked' => current_process' \in twice'
        BY <1>1, <2>1 DEF CInv, TypeOK
      <3>3. QED BY <1>1, <3>1, <3>2 DEF CInv, TypeOK, At, Cause, Word
    <2>5. ControlInv'
      BY <1>1, <1>3 DEF ControlInv
    <2>6. GhostInv'
      <3>1. twice' \subseteq Existing'
        BY <2>1, <2>3 DEF CInv, GhostInv
      <3>2. ASSUME NEW p \in twice' PROVE p_s'[p] # "process"
        <4>1. CASE p = c
          <5>1. cpu # "process"
            BY <2>1, <3>2, <4>1 DEF CInv, ControlInv
          <5>2. QED BY <2>1, <4>1, <5>1 DEF CInv, TypeOK
        <4>2. CASE p # c
          <5>1. p \in twice /\ p \in Proc
            BY <2>1, <3>2, <4>2 DEF CInv, TypeOK
          <5>2. p_s'[p] = p_s[p]
            BY <2>1, <4>2, <5>1 DEF CInv, TypeOK
          <5>3. QED BY <5>1, <5>2 DEF CInv, GhostInv
        <4>3. QED BY <4>1, <4>2
      <3>3. QED BY <1>1, <2>3, <3>1, <3>2 DEF CInv, GhostInv
    <2>7. SettledInv'
      <3>1. SUFFICES ASSUME NEW p \in Existing \ twice, p # c PROVE Settled(p)'
        BY <1>1, <2>1, <2>3 DEF SettledInv
      <3>2. Settled(p)
        BY <3>1 DEF CInv, SettledInv
      <3>3. QED BY <3>2, <1>1 DEF Settled
    <2>8. SliceInv'
      <3>1. SUFFICES ASSUME c \notin twice' PROVE \E s, k \in 0 .. Horizon : Slice(s, k)'
        BY <1>1 DEF SliceInv, FirstSlice
      <3>2. FirstSlice
        BY <1>3, <2>1, <2>2, <3>1 DEF FirstSlice, InSlice
      <3>3. PICK s, k \in 0 .. Horizon : Slice(s, k)
        BY <3>2, CurrentFacts
      <3>4. /\ time \in 0 .. Horizon /\ Horizon \in Nat
            /\ ran[c] \in Int /\ kernel_time[c] \in Int /\ global_time[c] \in Int
        BY <2>1, CpuTimeAssumption DEF CInv, TypeOK, GhostInv, Word
      <3>5. /\ s \in 0 .. time /\ k \in s .. time /\ startTOD = Plus(BOOT, s)
            /\ global_time[c] + (time - s) <= held[c]
            /\ ran[c] + kernel_time[c] + (IF cpu = "handler" THEN time - k ELSE 0)
                 <= global_time[c] + (time - s)
        BY <3>3 DEF Slice
      <3>6. ran[c] + kernel_time[c] + 0 <= global_time[c] + (time - s)
        BY <3>4, <3>5
      <3>7. Slice(s, k)'
        BY <3>5, <3>6, <1>1 DEF Slice
      <3>8. QED BY <3>7
    <2>9. QED BY <2>4, <2>5, <2>6, <2>7, <2>8 DEF CInv
  <1>4. QED BY <1>2, <1>3

\* Termination, creation and release.
LEMMA LifeStep ==
  ASSUME CInv, Terminate \/ \E p \in Proc : CreateProcess(p) \/ Release(p)
  PROVE  CInv'
  <1> DEFINE c == current_process
  <1>1. CASE Terminate
    <2>1. /\ cpu' = "loadnext" /\ current_process' = NULL
          /\ ran' = [ran EXCEPT ![c] = 0] /\ held' = [held EXCEPT ![c] = 0]
          /\ UNCHANGED <<time, why, ready, blocked, p_s, twice, startTOD, kernel_start, kernel_time, global_time>>
      BY <1>1 DEF Terminate, nucleus, times
    <2>2. c \in Proc /\ c # NULL /\ c \notin twice /\ c \notin ready \cup blocked /\ NULL \notin twice
      BY <1>1, CpuTimeAssumption DEF CInv, ControlInv, TypeOK, Terminate
    <2>3. /\ Existing' = Existing \ {c} /\ ~InSlice' /\ c \notin Existing'
      BY <2>1, <2>2 DEF Existing, InSlice
    <2>4. TypeOK' /\ ControlInv'
      BY <2>1, <2>2, CpuTimeAssumption DEF CInv, TypeOK, ControlInv, At, Word
    <2>5. GhostInv'
      <3>1. /\ ran \in [Proc -> Nat] /\ held \in [Proc -> Nat] /\ time \in 0 .. Horizon
            /\ \A p \in Proc : held[p] <= time
            /\ \A p \in Proc \ Existing : ran[p] = 0
        BY DEF CInv, GhostInv
      <3>2. /\ ran' \in [Proc -> Nat] /\ held' \in [Proc -> Nat]
            /\ ran'[c] = 0 /\ held'[c] = 0
            /\ \A p \in Proc : p # c => ran'[p] = ran[p] /\ held'[p] = held[p]
        BY <2>1, <2>2, <3>1
      <3>3. \A p \in Proc : held'[p] <= time
        BY <3>1, <3>2, CpuTimeAssumption
      <3>4. \A p \in Proc \ Existing' : ran'[p] = 0
        BY <3>1, <3>2, <2>3
      <3>5. twice' \subseteq Existing' /\ \A p \in twice' : p_s'[p] # "process"
        BY <2>1, <2>2, <2>3 DEF CInv, GhostInv
      <3>6. QED BY <2>1, <3>1, <3>2, <3>3, <3>4, <3>5 DEF GhostInv
    <2>6. SettledInv'
      <3>1. SUFFICES ASSUME NEW p \in Existing' \ twice PROVE Settled(p)'
        BY <2>1 DEF SettledInv
      <3>2. p \in Existing \ twice /\ p # c /\ p \in Proc
        BY <2>3 DEF CInv, TypeOK, Existing
      <3>3. Settled(p)
        BY <3>2 DEF CInv, SettledInv
      <3>4. ran'[p] = ran[p] /\ held'[p] = held[p]
        BY <2>1, <3>2 DEF CInv, GhostInv
      <3>5. QED BY <3>3, <3>4, <2>1 DEF Settled
    <2>7. SliceInv'
      BY <2>3 DEF SliceInv, FirstSlice
    <2>8. QED BY <2>4, <2>5, <2>6, <2>7 DEF CInv
  <1>2. ASSUME NEW p \in Proc, CreateProcess(p) PROVE CInv'
    <2>1. /\ p \notin ready \cup blocked \cup {c} /\ ready' = ready \cup {p}
          /\ kernel_time' = [kernel_time EXCEPT ![p] = 0]
          /\ global_time' = [global_time EXCEPT ![p] = 0]
          /\ p_s' = [p_s EXCEPT ![p] = "process"]
          /\ UNCHANGED <<time, ran, held, cpu, why, current_process, blocked, twice, startTOD, kernel_start>>
      BY <1>2 DEF CreateProcess, ghosts, nucleus
    <2>2. /\ kernel_time' \in [Proc -> Word] /\ global_time' \in [Proc -> Word]
          /\ kernel_time'[p] = 0 /\ global_time'[p] = 0
          /\ \A q \in Proc : q # p => /\ kernel_time'[q] = kernel_time[q]
                                      /\ global_time'[q] = global_time[q]
      <3>1. 0 \in Word
        BY CpuTimeAssumption DEF Word
      <3>2. QED BY <2>1, <3>1 DEF CInv, TypeOK
    <2>3. /\ Existing' = Existing \cup {p} /\ p \notin Existing /\ p \notin twice
          /\ (InSlice' <=> InSlice)
      BY <2>1, CpuTimeAssumption DEF Existing, InSlice, CInv, GhostInv
    <2>4. TypeOK'
      <3>1. p_s' \in [Proc -> Point]
        BY <2>1 DEF CInv, TypeOK, Point
      <3>2. QED BY <2>1, <2>2, <3>1 DEF CInv, TypeOK, Word
    <2>5. ControlInv'
      BY <2>1 DEF CInv, ControlInv
    <2>6. GhostInv'
      <3>1. \A q \in twice : p_s'[q] = p_s[q]
        BY <2>1, <2>3 DEF CInv, TypeOK
      <3>2. QED BY <2>1, <2>3, <3>1 DEF CInv, GhostInv
    <2>7. SettledInv'
      <3>1. SUFFICES ASSUME NEW q \in Existing' \ twice, ~(q = c /\ InSlice) PROVE Settled(q)'
        BY <2>1, <2>3 DEF SettledInv
      <3>2. CASE q = p
        <4>1. ran[p] = 0 /\ held[p] \in Nat
          BY <2>3 DEF CInv, GhostInv
        <4>2. QED BY <3>2, <4>1, <2>1, <2>2 DEF Settled
      <3>3. CASE q # p
        <4>1. q \in Proc /\ Settled(q)
          BY <3>1, <3>3, <2>3 DEF CInv, SettledInv, TypeOK, Existing
        <4>2. QED BY <3>3, <4>1, <2>1, <2>2 DEF Settled
      <3>4. QED BY <3>2, <3>3
    <2>8. SliceInv'
      <3>1. SUFFICES ASSUME FirstSlice PROVE \E s, k \in 0 .. Horizon : Slice(s, k)'
        BY <2>1, <2>3 DEF SliceInv, FirstSlice
      <3>2. PICK s, k \in 0 .. Horizon : Slice(s, k)
        BY <3>1, CurrentFacts
      <3>3. c \in Proc /\ c # p
        BY <3>1, <2>1, CurrentFacts
      <3>4. Slice(s, k)'
        BY <3>2, <3>3, <2>1, <2>2 DEF Slice
      <3>5. QED BY <3>4
    <2>9. QED BY <2>4, <2>5, <2>6, <2>7, <2>8 DEF CInv
  <1>3. ASSUME NEW p \in Proc, Release(p) PROVE CInv'
    <2>1. /\ p \in blocked /\ ready' = ready \cup {p} /\ blocked' = blocked \ {p}
          /\ cpu = "handler"
          /\ UNCHANGED <<time, ran, held, cpu, why, current_process, p_s, twice, startTOD, kernel_start,
                         kernel_time, global_time>>
      BY <1>3 DEF Release, ghosts, nucleus, times
    <2>2. Existing' = Existing /\ (InSlice' <=> InSlice) /\ (FirstSlice' <=> FirstSlice)
      BY <2>1 DEF Existing, InSlice, FirstSlice
    <2>3. TypeOK'
      BY <2>1 DEF CInv, TypeOK, Word
    <2>4. ControlInv' /\ GhostInv' /\ SettledInv'
      BY <2>1, <2>2 DEF CInv, ControlInv, GhostInv, SettledInv, Settled
    <2>5. SliceInv'
      BY <2>1, <2>2 DEF CInv, SliceInv, Slice
    <2>6. QED BY <2>3, <2>4, <2>5 DEF CInv
  <1>4. QED BY <1>1, <1>2, <1>3

\* The next process is chosen, and its slice begins.
LEMMA SelectStep ==
  ASSUME CInv, Select
  PROVE  CInv'
  <1>1. current_process = NULL /\ cpu = "select" /\ ~InSlice
        /\ UNCHANGED <<time, ran, held, why, blocked, p_s, twice, startTOD, kernel_start,
                       kernel_time, global_time>>
    BY DEF Select, CInv, ControlInv, InSlice, ghosts, nucleus, times, procs
  <1>2. \/ cpu' = "idle" /\ UNCHANGED <<current_process, ready>>
        \/ \E p \in ready : current_process' = p /\ ready' = ready \ {p} /\ cpu' = "start"
    BY DEF Select, procs
  <1>3. Existing' = Existing /\ ~InSlice'
    <2>1. NULL \notin ready
      BY CpuTimeAssumption DEF CInv, TypeOK
    <2>2. QED BY <1>1, <1>2, <2>1 DEF Existing, InSlice
  <1>4. TypeOK' /\ ControlInv'
    BY <1>1, <1>2, CpuTimeAssumption DEF CInv, TypeOK, ControlInv, At, Word
  <1>5. GhostInv' /\ SettledInv' /\ SliceInv'
    BY <1>1, <1>3 DEF CInv, GhostInv, SettledInv, Settled, SliceInv, FirstSlice
  <1>6. QED BY <1>4, <1>5 DEF CInv

LEMMA StartStep ==
  ASSUME CInv, Start
  PROVE  CInv'
  <1> DEFINE c == current_process
  <1>1. /\ cpu = "start" /\ startTOD' = Plus(BOOT, time) /\ c # NULL /\ c \in Proc
        /\ cpu' = IF p_s[c] \in {"process", "window"} THEN p_s[c] ELSE "undefined"
        /\ UNCHANGED <<time, ran, held, why, current_process, ready, blocked, p_s, twice, kernel_start,
                       kernel_time, global_time>>
    BY DEF Start, CInv, ControlInv, TypeOK, ghosts, procs, times, TODLO
  <1>2. Existing' = Existing /\ ~InSlice /\ c \in Existing
    BY <1>1 DEF Existing, InSlice
  <1>3. time \in 0 .. Horizon /\ Plus(BOOT, time) \in Word
    BY Words DEF CInv, GhostInv
  <1>4. TypeOK'
    BY <1>1, <1>3 DEF CInv, TypeOK, At, Word
  <1>5. ControlInv'
    <2>1. c \in twice => p_s[c] # "process"
      BY DEF CInv, GhostInv
    <2>2. QED BY <1>1, <2>1 DEF ControlInv
  <1>6. GhostInv' /\ SettledInv'
    BY <1>1, <1>2 DEF CInv, GhostInv, SettledInv, Settled
  <1>7. SliceInv'
    <2>1. SUFFICES ASSUME c \notin twice, cpu' # "undefined" PROVE Slice(time, time)'
      BY <1>1, <1>3 DEF SliceInv, FirstSlice, InSlice
    <2>2. /\ ran[c] + kernel_time[c] <= global_time[c] /\ global_time[c] <= held[c]
          /\ ran[c] \in Int /\ kernel_time[c] \in Int /\ global_time[c] \in Int
      BY <1>1, <1>2, <2>1, CpuTimeAssumption DEF CInv, SettledInv, Settled, GhostInv, TypeOK, Word
    <2>3. /\ time \in 0 .. time /\ time \in time .. time
          /\ global_time[c] + (time - time) <= held[c]
          /\ ran[c] + kernel_time[c] + 0 <= global_time[c] + (time - time)
      BY <2>2, <1>3, CpuTimeAssumption
    <2>4. QED BY <2>3, <1>1 DEF Slice
  <1>8. QED BY <1>4, <1>5, <1>6, <1>7 DEF CInv

LEMMA NextCInv == CInv /\ [Next]_vars => CInv'
  <1>1. SUFFICES ASSUME CInv, [Next]_vars PROVE CInv'
    OBVIOUS
  <1>2. ControlInv /\ TypeOK
    BY <1>1 DEF CInv
  <1> USE DEF ControlInv, At, Cause
  <1>3. ASSUME NEW cause \in Cause, Enter(cause) PROVE CInv'
    <2>1. UNCHANGED <<ghosts, procs, times, startTOD, kernel_start>>
      BY <1>3 DEF Enter, nucleus
    <2>2. /\ ControlInv' /\ cpu' = "entry" /\ cpu = "process" /\ why' \in Cause
          /\ InSlice' <=> InSlice
      BY <1>2, <1>3, <2>1 DEF Enter, procs, InSlice
    <2>3. kernel_start' \in Word
      BY <1>2, <2>1 DEF TypeOK
    <2>4. QED BY <1>1, <2>1, <2>2, <2>3, UnchargedStep
  <1>4. CASE ReadKernelStart
    <2>1. /\ UNCHANGED <<ghosts, procs, times, startTOD, why>> /\ cpu = "entry" /\ cpu' = "handler"
          /\ kernel_start' = TODLO
      BY <1>4 DEF ReadKernelStart
    <2>2. ControlInv' /\ why' \in Cause /\ (InSlice' <=> InSlice)
      BY <1>2, <2>1 DEF TypeOK, procs, InSlice
    <2>3. kernel_start' \in Word
      BY <1>1, <2>1, Words DEF TODLO, CInv, GhostInv
    <2>4. QED BY <1>1, <2>1, <2>2, <2>3, UnchargedStep
  <1>5. CASE GetCputime \/ ExitTrap \/ CallScheduler \/ UNCHANGED vars
    <2>1. /\ UNCHANGED <<ghosts, procs, times, startTOD, kernel_start>>
          /\ cpu' = cpu \/ (cpu = "handler" /\ why = "exit_trap" /\ cpu' = "process")
                        \/ (cpu = "window" /\ cpu' = "loadnext")
          /\ why' = why \/ (cpu = "handler" /\ why = "cputime" /\ why' = "call")
      BY <1>5 DEF GetCputime, ExitTrap, CallScheduler, vars, nucleus
    <2>2. ControlInv' /\ why' \in Cause /\ cpu' \in At /\ (cpu' = "process" => current_process # NULL)
      BY <1>2, <2>1 DEF TypeOK, procs
    <2>3. kernel_start' \in Word
      BY <1>2, <2>1 DEF TypeOK
    <2>4. /\ InSlice' <=> InSlice
          /\ cpu = "queued" => cpu' = "queued"
          /\ cpu' = "handler" => cpu = "handler" /\ UNCHANGED kernel_start
      BY <2>1 DEF InSlice, procs
    <2>5. QED BY <1>1, <2>1, <2>2, <2>3, <2>4, UnchargedStep
  <1>6. CASE EndCall \/ PassUp \/ UserCall \/ BlockKernel
    <2>1. /\ cpu = "handler" /\ why # "interrupt" /\ current_process # NULL /\ ChargeKernel
          /\ UNCHANGED <<ghosts, procs, nucleus, global_time>>
          /\ cpu' \in {"process", "entry", "half"}
          /\ why' = why \/ why' = "pass_up"
      BY <1>2, <1>6 DEF EndCall, PassUp, UserCall, BlockKernel
    <2>2. ControlInv' /\ why' \in Cause
      BY <1>2, <2>1 DEF TypeOK, procs
    <2>3. QED BY <1>1, <2>1, <2>2, KernelStep
  <1>7. CASE EndInterrupt
    <2>1. /\ cpu = "handler" /\ cpu' = "window"
          /\ UNCHANGED <<ghosts, why, procs, nucleus, global_time>>
          /\ IF current_process # NULL THEN ChargeKernel ELSE UNCHANGED kernel_time
      BY <1>7 DEF EndInterrupt
    <2>2. ControlInv' /\ why' \in Cause
      BY <1>2, <2>1 DEF TypeOK, procs
    <2>3. CASE current_process # NULL
      BY <1>1, <2>1, <2>2, <2>3, KernelStep
    <2>4. CASE current_process = NULL
      <3>1. UNCHANGED <<ghosts, procs, times, startTOD>> /\ kernel_start' \in Word
        BY <1>2, <2>1, <2>4 DEF TypeOK, nucleus, times
      <3>2. InSlice' <=> InSlice
        BY <2>1, <2>4 DEF InSlice, procs
      <3>3. QED BY <1>1, <2>1, <2>2, <3>1, <3>2, UnchargedStep
    <2>5. QED BY <2>3, <2>4
  <1>8. CASE BlockGlobal
    <2>1. /\ InSlice /\ cpu = "half" /\ cpu' = "charged" /\ ChargeGlobal
          /\ UNCHANGED <<ghosts, nucleus, kernel_time, why, procs>>
      BY <1>2, <1>8 DEF BlockGlobal, InSlice
    <2>2. ControlInv'
      BY <1>2, <2>1 DEF procs
    <2>3. QED BY <1>1, <2>1, <2>2, GlobalStep DEF procs
  <1>9. CASE Preempt
    <2>1. CASE current_process # NULL
      <3>1. /\ InSlice /\ cpu = "loadnext" /\ ChargeGlobal
            /\ UNCHANGED <<ghosts, nucleus, kernel_time, why, blocked, p_s, twice>>
            /\ \/ UNCHANGED <<current_process, ready>> /\ cpu' = "undefined"
               \/ /\ current_process \notin ready \cup blocked /\ current_process' = NULL
                  /\ ready' = ready \cup {current_process} /\ cpu' = "select"
        BY <1>9, <2>1 DEF Preempt, InSlice, procs
      <3>2. ControlInv'
        BY <1>2, <3>1, CpuTimeAssumption DEF TypeOK
      <3>3. QED BY <1>1, <3>1, <3>2, GlobalStep
    <2>2. CASE current_process = NULL
      <3>1. /\ UNCHANGED <<ghosts, procs, times, startTOD, kernel_start, why>>
            /\ cpu = "loadnext" /\ cpu' = "select"
        BY <1>9, <2>2 DEF Preempt, nucleus, times
      <3>2. ControlInv' /\ why' \in Cause /\ kernel_start' \in Word /\ (InSlice' <=> InSlice)
        BY <1>2, <2>2, <3>1 DEF TypeOK, procs, InSlice
      <3>3. QED BY <1>1, <3>1, <3>2, UnchargedStep
    <2>3. QED BY <2>1, <2>2
  <1>10. CASE Elapse
    BY <1>1, <1>10, ElapseStep
  <1>11. CASE Terminate \/ \E p \in Proc : CreateProcess(p) \/ Release(p)
    BY <1>1, <1>11, LifeStep
  <1>12. CASE Select
    BY <1>1, <1>12, SelectStep
  <1>13. CASE Start
    BY <1>1, <1>13, StartStep
  <1>14. CASE Interrupt
    BY <1>1, <1>14, InterruptStep
  <1>15. CASE BlockInsert \/ BlockLeave
    BY <1>1, <1>15, BlockStep
  <1>16. QED BY <1>1, <1>3, <1>4, <1>5, <1>6, <1>7, <1>8, <1>9, <1>10, <1>11, <1>12, <1>13, <1>14, <1>15
         DEF Next

-----------------------------------------------------------------------------
(* Theorems *)

\* The inductive invariant.
THEOREM TimesInvariant == Spec => []CInv
  BY InitCInv, NextCInv, PTL DEF Spec

\* No time is charged twice, or to two processes, except to those an interrupt
\* found charged and still current in semaphore_operation (syscall.c:190-199).
THEOREM ChargedAtMostOnce == Spec => []ChargedOnce
  <1>1. CInv => ChargedOnce
    <2>1. SUFFICES ASSUME CInv, NEW p \in Existing \ twice
                   PROVE  global_time[p]
                            + (IF p = current_process /\ InSlice THEN Minus(TODLO, startTOD) ELSE 0)
                            <= held[p]
      BY DEF ChargedOnce, Existing, CInv
    <2>2. p \in Proc /\ p # NULL /\ global_time[p] \in Int
      BY <2>1, CpuTimeAssumption DEF CInv, TypeOK, Existing, Word
    <2>3. CASE p = current_process /\ InSlice
      <3>1. FirstSlice
        BY <2>1, <2>3 DEF FirstSlice
      <3>2. PICK s, k \in 0 .. Horizon : Slice(s, k)
        BY <2>1, <3>1, CurrentFacts
      <3>3. Minus(TODLO, startTOD) = time - s
        BY <2>1, <3>2, Passed DEF Slice, TODLO, CInv, GhostInv
      <3>4. QED BY <2>3, <3>2, <3>3 DEF Slice
    <2>4. CASE ~(p = current_process /\ InSlice)
      <3>1. Settled(p)
        BY <2>1, <2>4 DEF CInv, SettledInv
      <3>2. QED BY <2>2, <2>4, <3>1 DEF Settled
    <2>5. QED BY <2>3, <2>4
  <1>2. QED BY <1>1, TimesInvariant, PTL

\* What a process has executed itself is in its global time and not in its
\* kernel time whenever it does not hold the processor: user time is never
\* charged to the kernel, whatever an interrupt in io_devop drops.
THEOREM UserTimeIsCharged == Spec => []UserTimeCharged
  <1>1. CInv => UserTimeCharged
    <2>1. SUFFICES ASSUME CInv, NEW p \in (ready \cup blocked) \ twice
                   PROVE  ran[p] + kernel_time[p] <= global_time[p]
      BY DEF UserTimeCharged
    <2>2. p \in Existing \ twice /\ (p = current_process => ~InSlice)
      BY <2>1, CpuTimeAssumption DEF CInv, TypeOK, Existing, InSlice
    <2>3. QED BY <2>1, <2>2 DEF CInv, SettledInv, Settled
  <1>2. QED BY <1>1, TimesInvariant, PTL

\* Nobody in `twice' executes its own code: who is, is current only in an interrupt
\* handler, behind interrupts.c:81, on its way through loadnext, or undefined.
TwiceIsLost == cpu = "process" => current_process \notin twice

\* Who was found charged and still current inside the P of io_devop never gets
\* back to its own code, so that its times are nobody's any more.
THEOREM NobodyTwiceRuns == Spec => []TwiceIsLost
  <1>1. CInv => TwiceIsLost
    BY DEF CInv, ControlInv, TwiceIsLost
  <1>2. QED BY <1>1, TimesInvariant, PTL
=============================================================================
