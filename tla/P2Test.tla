-------------------------------- MODULE P2Test --------------------------------
(***************************************************************************)
(* The phase 2 test (p2test.c) on the nucleus: the processes p1 to p8 with  *)
(* their children, their semaphores, the terminal and the pseudo-clock.     *)
(*                                                                         *)
(* A process executes a script, the calls its function makes in order and   *)
(* the assignments and tests of global variables between them; `at' is the  *)
(* place in the script.  Computation, GETCPUTIME and the values checked     *)
(* only against the clock are left out; a line printed is Chars operations  *)
(* of the terminal; an error message is recorded instead of printed.           *)
(*                                                                         *)
(* Of the nucleus, the ready queue, the queues of the semaphores, weighted  *)
(* P and V, creation and termination are kept (see Nucleus for the rest).   *)
(* A process that is loaded executes at least one step of its script before *)
(* an interrupt takes the processor away: a step is some microseconds, a    *)
(* slice 5 ms, a character on the terminal longer still.                    *)
(* A definition X_Y before a definition X is a faulty X: no action uses it. *)
(***************************************************************************)
EXTENDS PidGen, Sequences, SequencesExt, FiniteSets, FiniteSetsExt

CONSTANTS NULL,
          Patient,    \* the delay of p5 (p2test.c:590) is long enough
          Chars,      \* bound: the length of a message
          CLOCKLOOP,  \* bound: 10 in the code
          Rounds      \* bound: the incarnations of p8, 4 in the code

ASSUME P2TestAssumption ==
  /\ Patient \in BOOLEAN
  /\ Chars \in Nat \ {0} /\ CLOCKLOOP \in Nat /\ Rounds \in 1 .. 100

-----------------------------------------------------------------------------
(* The scripts *)

Leaves == {"leaf1", "leaf2", "leaf3", "leaf4"}
Roles  == {"p1", "p2", "p3", "p4", "p4b", "p5", "p5a", "p5b", "p5c1", "p5c2", "p6", "p7",
           "p8root", "child1", "child2"} \cup Leaves

\* The processes an ancestor is created above.
Progeny_NotVisited(r) == {}
Progeny(r) ==
  CASE r = "p1"     -> Roles \ {"p1"}
    [] r = "p4"     -> {"p4b"}
    [] r = "p5"     -> {"p5a", "p5b", "p5c1", "p5c2"}
    [] r = "p8root" -> {"child1", "child2"} \cup Leaves
    [] r = "child1" -> {"leaf1", "leaf2"}
    [] r = "child2" -> {"leaf3", "leaf4"}
    [] OTHER        -> {}

s    == <<"s0", "s1">>    \* bound: MAXSEM + 1 = 21 of them in the code
Sem  == {"term_mut", "testsem", "startp2", "endp2", "endp3", "blkp4", "synp4", "endp4",
         "blkp5a", "blkp5b", "blkp5c", "blkp5cint", "endp5", "blkp6", "endp6", "endp8",
         "endcreate", "blkleaves", "blkp8"} \cup ToSet(s)

Op(o, x, n)  == [op |-> o, on |-> x, n |-> n]
V(a, n)      == Op("V", a, n)
P(a, n)      == Op("P", a, n)
Create(r)    == Op("create", r, 0)
Store(r)     == Op("store", r, 0)         \* the pid CREATEPROCESS or GETPID returned
Kill(r)      == Op("kill", r, 0)
Die          == Op("die", NULL, 0)        \* TERMINATEPROCESS(0), or a trap without handler
Expect(a, n) == Op("expect", a, n)        \* error message unless a has the value n
Assign(x)    == Op("assign", x, 0)
Check(x)     == Op("check", x, 0)
Raise        == Op("raise", NULL, 0)      \* an exception the process has a handler for
ExitTrap     == Op("exittrap", NULL, 0)
Clock        == Op("clock", NULL, 0)
Goto(x)      == Op("goto", x, 0)
Panic        == Check("alive")            \* "error: ... not killed", PANIC

print == <<P("term_mut", 1)>> \o [i \in 1 .. Chars |-> Op("io", NULL, 0)]
         \o <<V("term_mut", 1)>>
\* WAITCLOCK until half an interval has passed, which is when x is dead.
Delay(x) == <<Clock, Op("delayed", x, 0)>>

p1 == <<V("testsem", 1), Expect("testsem", 1)>> \o print
      \o <<Create("p2")>> \o print
      \o <<V("startp2", 1), P("endp2", 1), Check("p1p2synch"),
           Create("p3"), Store("p3")>> \o print
      \o <<P("endp3", 1)>> \o print
      \o <<Create("p4"), Create("p5"), Create("p6"), Create("p7"), P("endp5", 1)>>
      \o print \o <<P("blkp4", 1)>> \o print
      \o <<V("blkp6", 1), P("endp6", 1), V("blkp8", 1), Goto("loop")>>
loop == <<P("blkp8", 1), Assign("blkleaves"), Create("p8root"), P("endp8", 1), Kill("p8root")>>
        \o Delay(NULL) \o <<V("blkp8", 1), Goto("again")>>
finish == print \o <<Die>>

p2 == <<P("startp2", 1)>> \o print
      \o FlattenSeq([i \in 1 .. Len(s) |-> <<V(s[i], 1), P(s[i], 1), Expect(s[i], 0)>>])
      \o print \o print
      \o <<Assign("p1p2synch"), V("endp2", 1), Die>>

p3 == <<Check("p3pid")>> \o Delay(NULL) \o print
      \o [i \in 1 .. CLOCKLOOP |-> Clock] \o print
      \o <<V("endp3", 1), Die>>

p4 == print \o <<Assign("p4inc"), V("synp4", 1), P("blkp4", 1), Check("p4inc"), P("synp4", 1)>>
      \o print \o <<Create("p4b"), P("synp4", 1), V("endp4", 1)>> \o print \o <<Die>>

p5 == print \o <<P("endp4", 1)>> \o Delay("p4")
      \o <<V("blkp4", 2), Create("p5a"), P("blkp5a", 1), Create("p5b"), P("blkp5b", 1),
           Create("p5c1"), Create("p5c2"), P("blkp5c", 1)>>
      \o print \o <<V("endp5", 1), Die>>

\* p5prog for the two causes that occur, and p5mm.
p5prog(a) == print \o <<V(a, 1), Die>>
p5mm      == print \o <<V("blkp5b", 1), Die>>
p5a == print \o <<Raise>> \o p5prog("blkp5a")
p5b == print \o <<Raise>> \o p5mm

\* p5sys is called with SYS14; in user mode its answer, SYS11, is a program trap.
p5c_NotRegulated == <<Goto("mode")>>
p5c == <<P("blkp5cint", 1), Goto("mode")>>
p5user   == <<Assign("p5dmode")>> \o print
            \o <<Raise>> \o print \o print \o <<ExitTrap, Raise>> \o p5prog("blkp5cint")
p5kernel == print \o <<Raise>> \o print \o <<ExitTrap>> \o print \o print
            \o <<V("blkp5c", 1), Die>>

p6_OneUnit == print \o <<P("blkp6", 1)>> \o print \o <<V("endp6", 1), Die>>
p6 == print \o <<P("blkp6", 2)>> \o print \o <<V("endp6", 1), Die>>
p7 == print \o print \o <<V("blkp6", 1), Die>>

p8root == <<Store("p8root")>> \o print
          \o <<Create("child1"), Create("child2"), P("endcreate", 4),
               Kill("leaf1"), Kill("leaf2"), Kill("leaf3"), Kill("leaf4"),
               V("blkleaves", 4), V("endp8", 1), P("blkp8", 1), Panic>>
child(a, b) == print \o <<Create(a), Store(a), Create(b), Store(b), P("blkp8", 1), Panic>>
p8leaf == print \o <<V("endcreate", 1), P("blkleaves", 1), Panic>>

Script == [
  p1 |-> p1, loop |-> loop, finish |-> finish, p2 |-> p2, p3 |-> p3, p4 |-> p4, p4b |-> p4,
  p5 |-> p5, p5a |-> p5a, p5b |-> p5b, p5c1 |-> p5c, p5c2 |-> p5c, p5user |-> p5user,
  p5kernel |-> p5kernel, p6 |-> p6, p7 |-> p7, p8root |-> p8root,
  child1 |-> child("leaf1", "leaf2"), child2 |-> child("leaf3", "leaf4"),
  leaf1 |-> p8leaf, leaf2 |-> p8leaf, leaf3 |-> p8leaf, leaf4 |-> p8leaf]

-----------------------------------------------------------------------------
(* The nucleus *)

VARIABLES
  at,        \* [Roles -> where the process is: the script and the next step]
  live, current, ready,
  fresh,     \* current has not executed a step since it was loaded
  value,     \* [Sem -> Int]
  queue,     \* [Sem -> FIFO of the processes blocked]
  need,      \* [Roles -> -res_wait]
  terminal,  \* FIFO of the processes that wait for terminal 0
  clock,     \* FIFO of the processes that wait for the pseudo-clock
  mem,       \* global variables of the test
  counter,   \* initial.c: the processes created so far
  pid,       \* [living processes -> pid]
  handling,  \* history: the processes executing on the stack p5hdlstack
  errors,    \* history: the error messages printed
  trouble    \* "none", "panic", or "ready": a descendant on the ready queue
             \* was terminated, and terminate_children leaves it there

procs == <<live, current, ready, fresh>>
sems  == <<value, queue, need>>
pids  == <<counter, pid>>
test  == <<mem, handling, errors>>
vars  == <<at, procs, pids, sems, terminal, clock, test, trouble>>

Start(r) == [script |-> r, step |-> 1]

Init ==
  /\ at = [r \in Roles |-> Start(r)]
  /\ live = {"p1"} /\ current = "p1" /\ ready = <<>> /\ fresh = TRUE
  /\ value = [a \in Sem |-> IF a \in {"term_mut", "blkp4", "blkp5cint"} THEN 1 ELSE 0]
  /\ queue = [a \in Sem |-> <<>>]
  /\ need = [r \in Roles |-> 0]
  /\ terminal = <<>> /\ clock = <<>>
  /\ mem = [p1p2synch |-> 0, p4inc |-> 1, p5dmode |-> 0, p8inc |-> 0,
            pid |-> [r \in {"p3", "p8root"} \cup Leaves |-> 0]]
  /\ counter = 1 /\ pid = [r \in live |-> pid_generator(Address, 0)]
  /\ handling = {} /\ errors = {} /\ trouble = "none"

Now == Script[at[current].script][at[current].step]

\* The current process executes a step of its script, with the operation o.
Runs(o) ==
  /\ trouble = "none"
  /\ current # NULL
  /\ Now.op = o

Goes == at' = [at EXCEPT ![current].step = @ + 1]
Jumps(script) == at' = [at EXCEPT ![current] = Start(script)]

\* LOADCURRENT: the process goes on.
Stays == fresh' = FALSE /\ UNCHANGED current

\* loadnext: the first of the ready queue q is loaded.
LoadNext_HeadOnly(q) ==
  /\ fresh' = TRUE
  /\ current' = IF q = <<>> THEN NULL ELSE Head(q)
  /\ ready' = q
LoadNext(q) ==
  /\ fresh' = TRUE
  /\ current' = IF q = <<>> THEN NULL ELSE Head(q)
  /\ ready' = IF q = <<>> THEN q ELSE Tail(q)

Passeren_OffByOne ==
  /\ Runs("P")
  /\ Goes
  /\ value' = [value EXCEPT ![Now.on] = @ - Now.n]
  /\ IF value[Now.on] + 1 >= Now.n
     THEN Stays /\ UNCHANGED <<ready, queue, need>>
     ELSE /\ queue' = [queue EXCEPT ![Now.on] = Append(@, current)]
          /\ need' = [need EXCEPT ![current] = Now.n]
          /\ LoadNext(ready)
  /\ UNCHANGED <<live, pids, terminal, clock, test, trouble>>

Passeren ==
  /\ Runs("P")
  /\ Goes
  /\ value' = [value EXCEPT ![Now.on] = @ - Now.n]
  /\ IF value[Now.on] >= Now.n
     THEN Stays /\ UNCHANGED <<ready, queue, need>>
     ELSE /\ queue' = [queue EXCEPT ![Now.on] = Append(@, current)]
          /\ need' = [need EXCEPT ![current] = Now.n]
          /\ LoadNext(ready)
  /\ UNCHANGED <<live, pids, terminal, clock, test, trouble>>

\* What is left of `sum' after the first k of a have been released.
Left(a, k) ==
  value[a] + Now.n + FoldLeft(LAMBDA sum, r : sum + need[r], 0, SubSeq(queue[a], k + 1, Len(queue[a])))

ReleasesNext_Strict(a, k) == k < Len(queue[a]) /\ need[queue[a][k + 1]] < Left(a, k)
ReleasesNext(a, k) ==
  k < Len(queue[a]) /\ need[queue[a][k + 1]] <= Left(a, k) /\ Left(a, k) # 0

Verhogen ==
  /\ Runs("V")
  /\ Goes /\ Stays
  /\ \E n \in 0 .. Len(queue[Now.on]) :
       /\ \A k \in 0 .. n - 1 : ReleasesNext(Now.on, k)
       /\ ~ReleasesNext(Now.on, n)
       /\ ready' = ready \o SubSeq(queue[Now.on], 1, n)
       /\ queue' = [queue EXCEPT ![Now.on] = SubSeq(@, n + 1, Len(@))]
  /\ value' = [value EXCEPT ![Now.on] = @ + Now.n]
  /\ UNCHANGED <<live, pids, need, terminal, clock, test, trouble>>

\* IODEVOP and WAITCLOCK always block.
StartIO ==
  /\ Runs("io")
  /\ Goes
  /\ terminal' = Append(terminal, current)
  /\ LoadNext(ready)
  /\ UNCHANGED <<live, pids, sems, clock, test, trouble>>

WaitClock ==
  /\ Runs("clock")
  /\ Goes
  /\ clock' = Append(clock, current)
  /\ LoadNext(ready)
  /\ UNCHANGED <<live, pids, sems, terminal, test, trouble>>

CreateProcess_ByProcessCount ==
  /\ Runs("create")
  /\ Goes /\ Stays
  /\ live' = live \cup {Now.on}
  /\ ready' = Append(ready, Now.on)
  /\ pid' = [r \in live' |-> IF r = Now.on THEN pid_generator(Address, Cardinality(live)) ELSE pid[r]]
  /\ counter' = counter + 1
  /\ UNCHANGED <<sems, terminal, clock, test, trouble>>
CreateProcess ==
  /\ Runs("create")
  /\ Goes /\ Stays
  /\ live' = live \cup {Now.on}
  /\ ready' = Append(ready, Now.on)
  /\ pid' = [r \in live' |-> IF r = Now.on THEN pid_generator(Address, counter) ELSE pid[r]]
  /\ counter' = counter + 1
  /\ UNCHANGED <<sems, terminal, clock, test, trouble>>

-----------------------------------------------------------------------------
(* Termination *)

Without(q, gone) == SelectSeq(q, LAMBDA r : r \notin gone)

\* What the processes gone had asked semaphore a for.
Freed(a, gone) ==
  FoldLeft(LAMBDA sum, r : sum + need[r], 0, SelectSeq(queue[a], LAMBDA r : r \in gone))

\* r and its progeny end: they leave the queues they are blocked on, and give
\* back to the semaphores of the test what they had asked for.
End(r) ==
  LET gone == live \cap ({r} \cup Progeny(r))
  IN /\ live' = live \ gone
     /\ pid' = [q \in live' |-> pid[q]]
     /\ at' = [q \in Roles |-> IF q \in gone THEN Start(q)
                              ELSE IF q = current THEN [at[q] EXCEPT !.step = @ + 1] ELSE at[q]]
     /\ value' = [a \in Sem |-> value[a] + Freed(a, gone)]
     /\ queue' = [a \in Sem |-> Without(queue[a], gone)]
     /\ terminal' = Without(terminal, gone)
     /\ clock' = Without(clock, gone)
     /\ handling' = handling \ gone
     /\ trouble' = IF ToSet(ready) \cap (gone \ {r}) # {} THEN "ready" ELSE trouble
     /\ UNCHANGED <<counter, need, mem, errors>>

\* TERMINATEPROCESS(0), a trap without a handler, a second SPECPGMT.
TerminateSelf ==
  /\ Runs("die")
  /\ End(current)
  /\ LoadNext(ready)

\* TERMINATEPROCESS of a pid in a global variable, which may be out of date:
\* lookfor_progeny searches the caller's progeny for it.
TerminateProcess ==
  /\ Runs("kill")
  /\ LET wanted == mem.pid[Now.on]
         found == {r \in live \cap Progeny(current) : pid[r] = wanted}
     IN IF wanted \in {0, pid[current]} THEN End(current) /\ LoadNext(ready)
        ELSE IF found # {} THEN \E r \in found : End(r) /\ Stays /\ ready' = Without(ready, {r})
        ELSE trouble' = "panic" /\ UNCHANGED <<at, procs, pids, sems, terminal, clock, test>>

-----------------------------------------------------------------------------
(* The process's own steps *)

StorePid ==
  /\ Runs("store")
  /\ Goes /\ Stays
  /\ mem' = [mem EXCEPT !.pid[Now.on] = pid[Now.on]]
  /\ UNCHANGED <<live, ready, pids, sems, terminal, clock, handling, errors, trouble>>

Assignment ==
  /\ Runs("assign")
  /\ Goes /\ Stays
  /\ IF Now.on = "blkleaves"
     THEN value' = [value EXCEPT !["blkleaves"] = 0] /\ UNCHANGED mem
     ELSE /\ mem' = [mem EXCEPT ![Now.on] = @ + 1]
          /\ UNCHANGED value
  /\ UNCHANGED <<live, ready, pids, queue, need, terminal, clock, handling, errors, trouble>>

Fails == \/ Now.op = "expect" /\ value[Now.on] # Now.n
         \/ Now.op = "check" /\ Now.on = "p1p2synch" /\ mem.p1p2synch = 0
         \/ Now.op = "check" /\ Now.on = "p3pid" /\ mem.pid["p3"] # pid["p3"]
         \/ Now.op = "check" /\ Now.on = "p4inc" /\ mem.p4inc = 3
         \/ Now.op = "check" /\ Now.on = "alive"

\* The errors of p1p2synch, of p2 and of p3 only print a message.
Test ==
  /\ Runs("expect") \/ Runs("check")
  /\ errors' = IF Fails THEN errors \cup {Now.on} ELSE errors
  /\ trouble' = IF Fails /\ Now.on \in {"testsem", "p4inc", "alive"} THEN "panic" ELSE trouble
  /\ Goes /\ Stays
  /\ UNCHANGED <<live, ready, pids, sems, terminal, clock, mem, handling>>

Branch ==
  /\ Runs("goto")
  /\ Stays
  /\ IF Now.on = "again" THEN mem' = [mem EXCEPT !.p8inc = @ + 1] ELSE UNCHANGED mem
  /\ Jumps(CASE Now.on = "loop" -> "loop"
             [] Now.on = "again" -> IF mem.p8inc + 1 < Rounds THEN "loop" ELSE "finish"
             [] Now.on = "mode" -> IF mem.p5dmode = 0 THEN "p5user" ELSE "p5kernel")
  /\ UNCHANGED <<live, ready, pids, sems, terminal, clock, handling, errors, trouble>>

\* The loop of a delay.
Delayed ==
  /\ Runs("delayed")
  /\ Stays
  /\ at' = [at EXCEPT ![current].step =
              IF Patient /\ Now.on \in live THEN @ - 1 ELSE @ + 1]
  /\ UNCHANGED <<live, ready, pids, sems, terminal, clock, test, trouble>>

\* Entering and leaving a handler, which runs on p5hdlstack.
Exception ==
  /\ Runs("raise") \/ Runs("exittrap")
  /\ handling' = IF Now.op = "raise" THEN handling \cup {current} ELSE handling \ {current}
  /\ Goes /\ Stays
  /\ UNCHANGED <<live, ready, pids, sems, terminal, clock, mem, errors, trouble>>

-----------------------------------------------------------------------------
(* Interrupts: the current process goes to the end of the ready queue *)

Interrupted == trouble = "none" /\ (current = NULL \/ ~fresh)

Preempted(q) == IF current = NULL THEN q ELSE Append(q, current)

TimeSlice ==
  /\ Interrupted
  /\ current # NULL /\ ready # <<>>
  /\ LoadNext(Preempted(ready))
  /\ UNCHANGED <<at, live, pids, sems, terminal, clock, test, trouble>>

TerminalInterrupt ==
  /\ Interrupted
  /\ terminal # <<>>
  /\ terminal' = Tail(terminal)
  /\ LoadNext(Preempted(Append(ready, Head(terminal))))
  /\ UNCHANGED <<at, live, pids, sems, clock, test, trouble>>

PseudoClockTick ==
  /\ Interrupted
  /\ clock # <<>>
  /\ clock' = <<>>
  /\ LoadNext(Preempted(ready \o clock))
  /\ UNCHANGED <<at, live, pids, sems, terminal, test, trouble>>

Step ==
  \/ Passeren \/ Verhogen \/ StartIO \/ WaitClock \/ CreateProcess
  \/ TerminateSelf \/ TerminateProcess
  \/ StorePid \/ Assignment \/ Test \/ Branch \/ Delayed \/ Exception

Next == Step \/ TimeSlice \/ TerminalInterrupt \/ PseudoClockTick

Spec == Init /\ [][Next]_vars

\* The processor executes, the terminal completes its operations and the
\* pseudo-clock ticks, and their interrupts are pending until they are taken.
FairSpec == Spec /\ WF_vars(Step) /\ SF_vars(TerminalInterrupt) /\ SF_vars(PseudoClockTick)

-----------------------------------------------------------------------------
(* Properties *)

Places == ToSet(ready) \cup ToSet(terminal) \cup ToSet(clock) \cup ({current} \ {NULL})
          \cup UNION {ToSet(queue[a]) : a \in Sem}

\* A living process, and no other, is on exactly one queue or runs (until a
\* freed one is left on the ready queue).
TypeOK ==
  /\ trouble # "ready" =>
       /\ live = Places
       /\ Cardinality(live) = Len(ready) + Len(terminal) + Len(clock)
                              + (IF current = NULL THEN 0 ELSE 1)
                              + MapThenSumSet(LAMBDA a : Len(queue[a]), Sem)
  /\ value \in [Sem -> Int]
  /\ \A r \in Roles : at[r].script \in DOMAIN Script
                      /\ at[r].step \in 1 .. Len(Script[at[r].script])

\* No process gets past the call that ends it, to the PANICs of the test; no
\* TERMINATEPROCESS names a process that does not exist any more; and a
\* descendant that is terminated with its parent is always blocked, although
\* terminate_children would leave it on the ready queue (syscall.c:164): the
\* children of p4, p5 and p8root reach their last P in time.
NoTrouble == TypeOK /\ trouble = "none"

NextOp(r) == Script[at[r].script][at[r].step]
InPrint == {r \in live : NextOp(r).op = "io" \/ NextOp(r) = V("term_mut", 1)}
           \ ToSet(queue["term_mut"])

\* "for mutual exclusion on terminal" (p2test.c:97): one process at a time is
\* in print, and terminations take nothing from the semaphore's value.
TerminalExclusive ==
  /\ Cardinality(InPrint) <= 1
  /\ value["term_mut"] = 1 - Cardinality(InPrint) - Len(queue["term_mut"])

\* The handlers of p5a, p5b and both p5c share a stack: no two are ever active,
\* although each wakes the next process up before it ends.
HandlerStackExclusive == Cardinality(handling) <= 1

\* TERMINATEPROCESS finds the process it is asked for: no two living
\* processes have the same pid, although the digits of the counter get longer
\* while processes with shorter ones live, and none has the pid 0, which means
\* the caller, or -1, with which CREATEPROCESS reports an error.
PidsIdentify ==
  /\ \A q, r \in live : pid[q] = pid[r] => q = r
  /\ \A r \in live : pid[r] \notin {0, W - 1}

\* When p1 finishes all other processes have ended by themselves, or with their
\* parents, and of every semaphore just what the test does not use up is left:
\* no V was lost, and no termination gave back more or less than was asked for.
Unused == [testsem |-> 1, blkp4 |-> 1, blkp8 |-> 1, blkleaves |-> 4]
AloneAtEnd ==
  at["p1"].script = "finish" =>
    /\ live \subseteq {"p1"}
    /\ \A a \in Sem \ {"term_mut"} : value[a] = IF a \in DOMAIN Unused THEN Unused[a] ELSE 0

\* The test ends: "p1 finishes OK -- TTFN", and the last process dies.
TestEnds == <>(live = {} /\ mem.p8inc = Rounds)

\* p3 finds its pid in p3pid, which p1 assigns (p2test.c:435, "error: p3 pid
\* different from getPid output").
P3PidKnown == "p3pid" \notin errors

\* The second p4 is terminated with the first one (p2test.c:495-498), before p5
\* goes on: nobody gets past P(blkp4) while p4inc = 3.
P4Terminated == "p4inc" \notin errors
=============================================================================
