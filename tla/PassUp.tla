-------------------------------- MODULE PassUp --------------------------------
(***************************************************************************)
(* Passing exceptions up (source/exceptions.c, specify_* and exit_trap of   *)
(* syscall.c): the processor states a ProcBlk holds, p_s and the old and    *)
(* new areas, and what the processor loads from them.                       *)
(*                                                                         *)
(* A processor state is abstracted to the code it resumes: the process's    *)
(* own program ("main"), its handler of a type, a specify_* function of the *)
(* nucleus (whose state STST stores), or nothing ("zero": a static area     *)
(* never written).  `of' records the process it belongs to, NULL once that  *)
(* process is gone.  The handlers run with interrupts disabled and copy the *)
(* machine's old area first, so each is one step.                           *)
(* A definition X_Y before a definition X is a faulty X: no action uses it. *)
(***************************************************************************)
EXTENDS Integers, Sequences, SequencesExt

CONSTANTS Proc,      \* ProcBlks
          ExcType,   \* the types of exceptions: "SYS", "TLB", "PGMTP"
          Misuse,    \* what clients do that p2test.c does not
          MaxNest,   \* bound: exceptions passed up and not yet returned from
          NULL

(***************************************************************************)
(* Misuse.  "same_type": a handler causes an exception of a type that is    *)
(* being handled.  "foreign_exit": EXITTRAP with a type other than the      *)
(* running handler's.                                                       *)
(***************************************************************************)
ASSUME PassUpAssumption ==
  /\ NULL \notin Proc
  /\ ExcType \subseteq {"SYS", "TLB", "PGMTP"}
  /\ Misuse \subseteq {"same_type", "foreign_exit"}
  /\ MaxNest \in Nat

Mode    == {"kernel", "user"}
Code    == {"main", "nucleus", "zero"} \cup ExcType
Context == [of : Proc \cup {NULL}, at : Code, mode : Mode]
Zero    == [of |-> NULL, at |-> "zero", mode |-> "user"]

VARIABLES
  current_process,
  ready,    \* the processes that may be loaded instead of the current one
  regs,     \* what the processor executes
  p_s,      \* [Proc -> Context]
  old, new, \* [Proc -> [ExcType -> Context]]: oldnew_areas
  tags,     \* [Proc -> types with a handler]
  trail     \* history: [Proc -> the passed-up exceptions not returned from,
            \*           each with its type and the code it interrupted]

procs == <<current_process, ready>>
areas == <<old, new, tags>>
vars  == <<procs, regs, p_s, areas, trail>>

Live == ready \cup ({current_process} \ {NULL})
Main(p, mode) == [of |-> p, at |-> "main", mode |-> mode]

\* main makes the first process, in kernel mode.
Init ==
  \E first \in Proc :
    /\ current_process = first
    /\ ready = {}
    /\ regs = Main(first, "kernel")
    /\ p_s = [p \in Proc |-> Zero]
    /\ old = [p \in Proc |-> [t \in ExcType |-> Zero]]
    /\ new = [p \in Proc |-> [t \in ExcType |-> Zero]]
    /\ tags = [p \in Proc |-> {}]
    /\ trail = [p \in Proc |-> <<>>]

-----------------------------------------------------------------------------
(* Loading another process *)

Load(p) == current_process' = p /\ regs' = p_s[p] /\ ready' = ready \ {p}

\* terminate_process(current_process->pid), and the scheduler.
Die ==
  /\ IF ready # {} THEN \E p \in ready : Load(p)
     ELSE current_process' = NULL /\ regs' = Zero /\ UNCHANGED ready
  /\ trail' = [trail EXCEPT ![current_process] = <<>>]
  /\ UNCHANGED areas

\* An interrupt, or a system call that blocks for a while: the state is saved
\* in p_s and another process is loaded.
Switch ==
  /\ current_process # NULL
  /\ \E p \in ready : /\ current_process' = p
                      /\ regs' = p_s[p]
                      /\ ready' = (ready \ {p}) \cup {current_process}
  /\ p_s' = [p_s EXCEPT ![current_process] = regs]
  /\ UNCHANGED <<areas, trail>>

-----------------------------------------------------------------------------
(* System calls, for which the caller must be in kernel mode *)

SystemCall ==
  /\ current_process # NULL
  /\ regs.mode = "kernel"
  /\ p_s' = [p_s EXCEPT ![current_process] = regs]

FreshTags_PgmtpKept(p) == tags[p] \cap {"PGMTP"}
FreshTags(p) == {}

\* What an area of an earlier owner is to a new one.
Left(area) == [area EXCEPT !.of = NULL]

\* create_process: allocPcb clears the tags of the ProcBlk, not its areas.
CreateProcess(p, mode) ==
  /\ current_process # NULL
  /\ regs.mode = "kernel"
  /\ p \notin Live
  /\ ready' = ready \cup {p}
  /\ p_s' = [p_s EXCEPT ![current_process] = regs, ![p] = Main(p, mode)]
  /\ tags' = [tags EXCEPT ![p] = FreshTags(p)]
  /\ old' = [old EXCEPT ![p] = [t \in ExcType |-> Left(@[t])]]
  /\ new' = [new EXCEPT ![p] = [t \in ExcType |-> Left(@[t])]]
  /\ UNCHANGED <<current_process, regs, trail>>

Terminate == SystemCall /\ Die

\* specify_sysbp, specify_tlb, specify_pgmtrap: the handler's state goes to
\* the new area, the state of the nucleus at that moment to the old one.
Specify(t, mode) ==
  /\ SystemCall
  /\ IF t \in tags[current_process] THEN Die
     ELSE /\ tags' = [tags EXCEPT ![current_process] = @ \cup {t}]
          /\ old' = [old EXCEPT ![current_process][t] =
                       [of |-> current_process, at |-> "nucleus", mode |-> "kernel"]]
          /\ new' = [new EXCEPT ![current_process][t] =
                       [of |-> current_process, at |-> t, mode |-> mode]]
          /\ UNCHANGED <<procs, regs, trail>>

ExitTrap_LoadsCurrent(t) ==
  /\ SystemCall
  /\ "foreign_exit" \in Misuse \/ regs.at = t
  /\ regs' = regs
  /\ trail' = [trail EXCEPT ![current_process] =
                 IF @ # <<>> /\ Last(@).type = t THEN Front(@) ELSE @]
  /\ UNCHANGED <<procs, areas>>

\* exit_trap loads the old area of the type it is given.
ExitTrap(t) ==
  /\ SystemCall
  /\ "foreign_exit" \in Misuse \/ regs.at = t
  /\ regs' = old[current_process][t]
  /\ trail' = [trail EXCEPT ![current_process] =
                 IF @ # <<>> /\ Last(@).type = t THEN Front(@) ELSE @]
  /\ UNCHANGED <<procs, areas>>

-----------------------------------------------------------------------------
(* Exceptions of the current process *)

MayRaise(t) ==
  /\ current_process # NULL
  /\ Len(trail[current_process]) < MaxNest
  /\ "same_type" \in Misuse
     \/ \A i \in DOMAIN trail[current_process] : trail[current_process][i].type # t

PassUp_SavesPs(t) ==
  IF t \notin tags[current_process] THEN Die
  ELSE /\ old' = [old EXCEPT ![current_process][t] = p_s[current_process]]
       /\ regs' = new[current_process][t]
       /\ trail' = [trail EXCEPT ![current_process] =
                      Append(@, [type |-> t, interrupted |-> regs])]
       /\ UNCHANGED <<procs, new, tags>>

\* The state at the exception goes to the process's old area, and its handler
\* is loaded; without a handler the process is terminated.
PassUp(t) ==
  IF t \notin tags[current_process] THEN Die
  ELSE /\ old' = [old EXCEPT ![current_process][t] = regs]
       /\ regs' = new[current_process][t]
       /\ trail' = [trail EXCEPT ![current_process] =
                      Append(@, [type |-> t, interrupted |-> regs])]
       /\ UNCHANGED <<procs, new, tags>>

\* syscall_handler, for a breakpoint or a number above 11,
SysBp ==
  /\ MayRaise("SYS")
  /\ p_s' = [p_s EXCEPT ![current_process] = regs]
  /\ PassUp("SYS")

\* ... and for a nucleus call in user mode, which becomes a program trap.
UserCall ==
  /\ MayRaise("PGMTP")
  /\ regs.mode = "user"
  /\ p_s' = [p_s EXCEPT ![current_process] = regs]
  /\ PassUp("PGMTP")

\* tlb_handler, pgmtrap_handler.
Fault(t) ==
  /\ MayRaise(t)
  /\ PassUp(t)
  /\ UNCHANGED p_s

\* A process computes, or the machine has halted.
Compute == UNCHANGED vars

Next ==
  \/ Switch \/ Terminate \/ SysBp \/ UserCall \/ Compute
  \/ \E p \in Proc, mode \in Mode : CreateProcess(p, mode)
  \/ \E t \in ExcType : (\E mode \in Mode : Specify(t, mode)) \/ ExitTrap(t)
  \/ \E t \in ExcType \ {"SYS"} : Fault(t)

Spec == Init /\ [][Next]_vars

-----------------------------------------------------------------------------
(* Properties *)

\* The areas hold processor states, and only processes that live have
\* exceptions to return from.
TypeOK ==
  /\ current_process \in Proc \cup {NULL} /\ ready \subseteq Proc \ {current_process}
  /\ regs \in Context
  /\ p_s \in [Proc -> Context]
  /\ old \in [Proc -> [ExcType -> Context]] /\ new \in [Proc -> [ExcType -> Context]]
  /\ tags \in [Proc -> SUBSET ExcType]
  /\ \A p \in Proc \ Live : trail[p] = <<>>

\* A process only ever executes its own program and its own handlers: never
\* another process's state, a state inside the nucleus, or what an earlier
\* owner of its ProcBlk has left in an area (with the types of the areas).
OwnCode ==
  /\ TypeOK
  /\ current_process # NULL => regs.of = current_process /\ regs.at # "nucleus"

\* What an exception has interrupted stays in the old area until the handler
\* returns, whatever interrupts, other processes and other exceptions (of the
\* handler, too) come in between.
InterruptedKept ==
  \A p \in Live : \A i \in DOMAIN trail[p] :
    old[p][trail[p][i].type] = trail[p][i].interrupted

\* EXITTRAP resumes what the last exception not yet returned from interrupted,
\* in the mode it was in.
TrapReturns ==
  [][\A t \in ExcType : ExitTrap(t) =>
       /\ trail[current_process] # <<>>
       /\ Last(trail[current_process]) = [type |-> t, interrupted |-> regs']]_vars

\* "remove an element from the pcbFree list and inizialize all the fields"
\* (pcb.c:15): a new process finds nothing of an earlier one in its ProcBlk.
AllFieldsInitialised ==
  \A p \in Live, t \in ExcType : t \notin tags[p] => old[p][t] = Zero /\ new[p][t] = Zero
=============================================================================
