----------------------------- MODULE PassUpProofs -----------------------------
(***************************************************************************)
(* Proofs about PassUp, for every number of processes and any depth of      *)
(* nesting.  Each of the three properties is proved from exactly the        *)
(* discipline of the clients it needs:                                      *)
(*   OwnCode          no handler exits another's trap (foreign_exit);       *)
(*   InterruptedKept  no type of exception is nested in itself (same_type); *)
(*   TrapReturns      both.                                                 *)
(***************************************************************************)
EXTENDS PassUp, QueueLemmas

Types ==
  /\ current_process \in Proc \cup {NULL} /\ ready \subseteq Proc \ {current_process}
  /\ regs \in Context
  /\ p_s \in [Proc -> Context]
  /\ old \in [Proc -> [ExcType -> Context]] /\ new \in [Proc -> [ExcType -> Context]]
  /\ tags \in [Proc -> SUBSET ExcType]

Exception == [type : ExcType, interrupted : Context]

TrailTypes ==
  /\ trail \in [Proc -> Seq(Exception)]
  /\ \A p \in Proc \ Live : trail[p] = <<>>

\* The code p may be in the middle of: its program, and the handlers that have
\* been entered since they were specified.
Entered(p) == {"main"} \cup {t \in tags[p] : old[p][t].at # "nucleus"}

Own(p, c) == c.of = p /\ c.at \in Entered(p)

\* What may be loaded is the process's own: from an area, or from p_s.
CodeInv ==
  /\ \A p \in Proc : \A t \in tags[p] :
       /\ new[p][t].of = p /\ new[p][t].at = t
       /\ old[p][t].at # "nucleus" => Own(p, old[p][t])
  /\ \A p \in ready : Own(p, p_s[p])
  /\ current_process # NULL => Own(current_process, regs)

\* The exceptions of a process not yet returned from are of different types,
\* all with a handler, and the old areas hold what they interrupted.
KeptInv ==
  \A p \in Proc : \A i \in DOMAIN trail[p] :
    /\ trail[p][i].type \in tags[p]
    /\ old[p][trail[p][i].type] = trail[p][i].interrupted
    /\ \A j \in DOMAIN trail[p] : trail[p][j].type = trail[p][i].type => j = i

\* The code a process executes after exceptions s: the handler of the last.
Innermost(s) == IF s = <<>> THEN "main" ELSE Last(s).type

\* Exceptions nest: each interrupted the handler of the one before it, and the
\* process is executing the handler of the last one.
NestInv ==
  /\ \A p \in Proc : \A i \in DOMAIN trail[p] :
       trail[p][i].interrupted.at = IF i = 1 THEN "main" ELSE trail[p][i - 1].type
  /\ \A p \in ready : p_s[p].at = Innermost(trail[p])
  /\ current_process # NULL => regs.at = Innermost(trail[current_process])

-----------------------------------------------------------------------------
(* What a step can be *)

Saved == p_s' = p_s \/ p_s' = [p_s EXCEPT ![current_process] = regs]

Dies == current_process # NULL /\ Saved /\ Die

PassedUp(t) ==
  /\ t \in tags[current_process]
  /\ MayRaise(t) /\ Saved
  /\ old' = [old EXCEPT ![current_process][t] = regs]
  /\ regs' = new[current_process][t]
  /\ trail' = [trail EXCEPT ![current_process] =
                 Append(@, [type |-> t, interrupted |-> regs])]
  /\ UNCHANGED <<procs, new, tags>>

Specified(t, mode) ==
  /\ t \notin tags[current_process]
  /\ current_process # NULL /\ Saved
  /\ tags' = [tags EXCEPT ![current_process] = @ \cup {t}]
  /\ old' = [old EXCEPT ![current_process][t] =
               [of |-> current_process, at |-> "nucleus", mode |-> "kernel"]]
  /\ new' = [new EXCEPT ![current_process][t] =
               [of |-> current_process, at |-> t, mode |-> mode]]
  /\ UNCHANGED <<procs, regs, trail>>

\* A step switches, makes or ends a process, specifies a handler, enters one
\* or leaves one.
LEMMA NextCases ==
  ASSUME Types, [Next]_vars
  PROVE  \/ Switch \/ Dies \/ UNCHANGED vars
         \/ \E p \in Proc, mode \in Mode : CreateProcess(p, mode)
         \/ \E t \in ExcType, mode \in Mode : Specified(t, mode)
         \/ \E t \in ExcType : PassedUp(t)
         \/ \E t \in ExcType : ExitTrap(t)
  <1>1. CASE Terminate
    BY <1>1 DEF Terminate, SystemCall, Dies, Saved
  <1>2. CASE SysBp
    BY <1>2 DEF SysBp, PassUp, PassedUp, MayRaise, Dies, Saved, Types
  <1>3. CASE UserCall
    BY <1>3 DEF UserCall, PassUp, PassedUp, MayRaise, Dies, Saved, Types
  <1>4. ASSUME NEW t \in ExcType, NEW mode \in Mode, Specify(t, mode)
        PROVE  Dies \/ Specified(t, mode)
    BY <1>4 DEF Specify, SystemCall, Specified, Dies, Saved
  <1>5. ASSUME NEW t \in ExcType, Fault(t) PROVE Dies \/ PassedUp(t)
    BY <1>5 DEF Fault, PassUp, PassedUp, MayRaise, Dies, Saved
  <1>6. QED
    BY <1>1, <1>2, <1>3, <1>4, <1>5 DEF Next, Compute

LEMMA CodesDiffer ==
  /\ ExcType \cap {"main", "nucleus", "zero"} = {}
  /\ ExcType \subseteq Code /\ {"main", "nucleus", "zero"} \subseteq Code
  /\ NULL \notin Proc
  BY PassUpAssumption DEF Code

-----------------------------------------------------------------------------
(* Types *)

LEMMA TypesStep ==
  ASSUME Types, TrailTypes, [Next]_vars
  PROVE  Types' /\ TrailTypes'
  <1> USE CodesDiffer
  <1>1. CASE Switch
    <2>1. Types'
      BY <1>1 DEF Switch, areas, Types
    <2>2. Live' = Live /\ trail' = trail
      BY <1>1 DEF Switch, Live, Types
    <2>3. QED BY <2>1, <2>2 DEF TrailTypes
  <1>2. CASE Dies
    <2>1. p_s' \in [Proc -> Context] /\ \A p \in ready : p_s'[p] = p_s[p]
      BY <1>2 DEF Dies, Saved, Types
    <2>2. Types'
      BY <1>2, <2>1 DEF Dies, Die, Load, areas, Types, Context, Zero, Code, Mode
    <2>3. Live' = Live \ {current_process}
      BY <1>2 DEF Dies, Die, Load, Live, Types
    <2>4. trail' \in [Proc -> Seq(Exception)] /\ trail'[current_process] = <<>>
          /\ \A p \in Proc \ {current_process} : trail'[p] = trail[p]
      BY <1>2 DEF Dies, Die, Types, TrailTypes
    <2>5. QED BY <2>2, <2>3, <2>4 DEF TrailTypes
  <1>3. ASSUME NEW p \in Proc, NEW mode \in Mode, CreateProcess(p, mode)
        PROVE  Types' /\ TrailTypes'
    <2>1. /\ current_process' = current_process /\ regs' = regs /\ trail' = trail
          /\ ready' = ready \cup {p} /\ p \notin Live /\ current_process # NULL
      BY <1>3 DEF CreateProcess
    <2>2. Main(p, mode) \in Context
      BY <1>3 DEF Main, Context, Code
    <2>3. p_s' \in [Proc -> Context] /\ tags' \in [Proc -> SUBSET ExcType]
      BY <1>3, <2>2 DEF CreateProcess, Types, FreshTags
    <2>4. \A c \in Context : Left(c) \in Context
      BY DEF Left, Context
    <2>5. /\ old' \in [Proc -> [ExcType -> Context]]
          /\ new' \in [Proc -> [ExcType -> Context]]
      BY <1>3, <2>4 DEF CreateProcess, Types
    <2>6. Types'
      BY <2>1, <2>3, <2>5 DEF Types, Live
    <2>7. Live' = Live \cup {p}
      BY <2>1 DEF Live
    <2>8. QED BY <2>1, <2>6, <2>7 DEF TrailTypes
  <1>4. ASSUME NEW t \in ExcType, NEW mode \in Mode, Specified(t, mode)
        PROVE  Types' /\ TrailTypes'
    <2>1. p_s' \in [Proc -> Context]
      BY <1>4 DEF Specified, Saved, Types
    <2>2. /\ [of |-> current_process, at |-> "nucleus", mode |-> "kernel"] \in Context
          /\ [of |-> current_process, at |-> t, mode |-> mode] \in Context
      BY <1>4 DEF Specified, Context, Mode, Types
    <2>3. Types'
      BY <1>4, <2>1, <2>2 DEF Specified, procs, Types
    <2>4. Live' = Live /\ trail' = trail
      BY <1>4 DEF Specified, procs, Live
    <2>5. QED BY <2>3, <2>4 DEF TrailTypes
  <1>5. ASSUME NEW t \in ExcType, PassedUp(t)
        PROVE  Types' /\ TrailTypes'
    <2>1. p_s' \in [Proc -> Context]
      BY <1>5 DEF PassedUp, Saved, Types
    <2>2. Types'
      <3>1. current_process \in Proc
        BY <1>5 DEF PassedUp, MayRaise, Types
      <3>2. regs' \in Context /\ old' \in [Proc -> [ExcType -> Context]]
        BY <1>5, <3>1 DEF PassedUp, Types
      <3>3. QED BY <1>5, <2>1, <3>2 DEF PassedUp, procs, Types
    <2>3. [type |-> t, interrupted |-> regs] \in Exception
      BY DEF Exception, Types
    <2>4. current_process \in Proc /\ current_process \in Live
      BY <1>5 DEF PassedUp, MayRaise, Types, Live
    <2>5. Append(trail[current_process], [type |-> t, interrupted |-> regs]) \in Seq(Exception)
      BY <2>3, <2>4, PushOf DEF TrailTypes
    <2>6. trail' = [trail EXCEPT ![current_process] =
                     Append(trail[current_process], [type |-> t, interrupted |-> regs])]
          /\ Live' = Live
      BY <1>5 DEF PassedUp, procs, Live
    <2>7. QED BY <2>2, <2>4, <2>5, <2>6 DEF TrailTypes
  <1>6. ASSUME NEW t \in ExcType, ExitTrap(t)
        PROVE  Types' /\ TrailTypes'
    <2>1. current_process \in Proc /\ current_process \in Live
      BY <1>6 DEF ExitTrap, SystemCall, Types, Live
    <2>2. Types'
      BY <1>6, <2>1 DEF ExitTrap, SystemCall, procs, areas, Types
    <2>3. /\ trail[current_process] \in Seq(Exception)
          /\ trail[current_process] # <<>> => Front(trail[current_process]) \in Seq(Exception)
      BY <2>1, FrontOf DEF TrailTypes
    <2>4. /\ Live' = Live
          /\ \/ trail' = [trail EXCEPT ![current_process] = trail[current_process]]
             \/ /\ trail[current_process] # <<>>
                /\ trail' = [trail EXCEPT ![current_process] = Front(trail[current_process])]
      BY <1>6 DEF ExitTrap, procs, Live
    <2>5. QED BY <2>1, <2>2, <2>3, <2>4 DEF TrailTypes
  <1>7. CASE UNCHANGED vars
    BY <1>7 DEF vars, procs, areas, Types, TrailTypes, Live
  <1>8. QED
    BY NextCases, <1>1, <1>2, <1>3, <1>4, <1>5, <1>6, <1>7

-----------------------------------------------------------------------------
(* The three invariants *)

\* A process that dies, or never was, is not loaded; a new one starts with its
\* own program and no handler.
LEMMA CodeStep ==
  ASSUME Types, CodeInv, "foreign_exit" \notin Misuse, [Next]_vars
  PROVE  CodeInv'
  <1> USE CodesDiffer
  <1>0. \A p \in Proc : "main" \in Entered(p) /\ "nucleus" \notin Entered(p)
    BY DEF Entered, Types
  <1>1. CASE Switch
    <2>1. UNCHANGED <<old, new, tags>>
      BY <1>1 DEF Switch, areas
    <2>2. \A p : Entered(p)' = Entered(p)
      BY <2>1 DEF Entered
    <2>3. PICK n \in ready :
            /\ current_process' = n /\ regs' = p_s[n]
            /\ ready' = (ready \ {n}) \cup {current_process}
      BY <1>1 DEF Switch
    <2>4. /\ p_s'[current_process] = regs /\ current_process # NULL
          /\ \A p \in ready : p_s'[p] = p_s[p]
      BY <1>1 DEF Switch, Types
    <2>5. \A p \in ready' : Own(p, p_s[p])'
      BY <2>2, <2>3, <2>4 DEF CodeInv, Own
    <2>6. Own(current_process, regs)'
      BY <2>2, <2>3 DEF CodeInv, Own
    <2>7. QED BY <2>1, <2>2, <2>5, <2>6 DEF CodeInv, Own
  <1>2. CASE Dies
    <2>1. UNCHANGED <<old, new, tags>>
      BY <1>2 DEF Dies, Die, areas
    <2>2. \A p : Entered(p)' = Entered(p)
      BY <2>1 DEF Entered
    <2>3. \A p \in ready : p_s'[p] = p_s[p]
      BY <1>2 DEF Dies, Saved, Types
    <2>4. /\ ready' \subseteq ready
          /\ current_process' # NULL => current_process' \in ready /\ regs' = p_s[current_process']
      BY <1>2 DEF Dies, Die, Load
    <2>5. QED BY <2>1, <2>2, <2>3, <2>4 DEF CodeInv, Own
  <1>3. ASSUME NEW p \in Proc, NEW mode \in Mode, CreateProcess(p, mode)
        PROVE  CodeInv'
    <2>1. /\ tags'[p] = {} /\ p_s'[p].of = p /\ p_s'[p].at = "main"
          /\ p # current_process /\ p \notin ready /\ ready' = ready \cup {p}
          /\ UNCHANGED <<current_process, regs>>
      BY <1>3 DEF CreateProcess, FreshTags, Main, Live, Types
    <2>2. \A q \in Proc \ {p} :
            /\ tags'[q] = tags[q] /\ old'[q] = old[q] /\ new'[q] = new[q]
            /\ q \in ready => p_s'[q] = p_s[q]
      BY <1>3 DEF CreateProcess, Types
    <2>3. "main" \in Entered(p)' /\ \A q \in Proc \ {p} : Entered(q)' = Entered(q)
      <3>1. ASSUME NEW q \in Proc \ {p} PROVE Entered(q)' = Entered(q)
        BY <2>2 DEF Entered
      <3>2. QED BY <3>1 DEF Entered
    <2>4. ASSUME NEW q \in ready' PROVE Own(q, p_s[q])'
      <3>1. CASE q = p
        BY <3>1, <2>1, <2>3 DEF Own
      <3>2. CASE q # p
        <4>1. q \in ready /\ q \in Proc \ {p}
          BY <3>2, <2>1 DEF Types
        <4>2. QED BY <4>1, <2>2, <2>3 DEF CodeInv, Own
      <3>3. QED BY <3>1, <3>2
    <2>5. (current_process # NULL => Own(current_process, regs))'
      BY <2>1, <2>3 DEF CodeInv, Own, Types
    <2>6. ASSUME NEW q \in Proc, NEW u \in tags'[q]
          PROVE  /\ new'[q][u].of = q /\ new'[q][u].at = u
                 /\ old'[q][u].at # "nucleus" => Own(q, old[q][u])'
      <3>1. q \in Proc \ {p}
        BY <2>1
      <3>2. QED BY <3>1, <2>2, <2>3 DEF CodeInv, Own
    <2>7. QED BY <2>4, <2>5, <2>6 DEF CodeInv
  <1>4. ASSUME NEW t \in ExcType, NEW mode \in Mode, Specified(t, mode)
        PROVE  CodeInv'
    <2>0. PICK c \in Proc : c = current_process
      BY <1>4 DEF Specified, Types
    <2>1. c \notin ready /\ t \notin tags[c] /\ UNCHANGED <<procs, regs>>
      BY <2>0, <1>4 DEF Specified, Types
    <2>2. /\ tags'[c] = tags[c] \cup {t}
          /\ old'[c][t].at = "nucleus" /\ new'[c][t].at = t /\ new'[c][t].of = c
          /\ \A u \in ExcType \ {t} : old'[c][u] = old[c][u] /\ new'[c][u] = new[c][u]
      BY <1>4, <2>0, <2>1 DEF Specified, Types
    <2>3. \A q \in Proc \ {c} : tags'[q] = tags[q] /\ old'[q] = old[q] /\ new'[q] = new[q]
      BY <1>4, <2>0, <2>1 DEF Specified, Types
    <2>4. \A q \in ready : p_s'[q] = p_s[q]
      BY <1>4 DEF Specified, Saved, Types
    <2>5. \A q \in Proc : Entered(q)' = Entered(q)
      <3>1. tags[c] \subseteq ExcType
        BY <2>1 DEF Types
      <3>2. Entered(c)' = Entered(c)
        BY <2>1, <2>2, <3>1 DEF Entered
      <3>3. ASSUME NEW q \in Proc \ {c} PROVE Entered(q)' = Entered(q)
        BY <2>3 DEF Entered
      <3>4. QED BY <3>2, <3>3
    <2>6. \A q \in ready' : Own(q, p_s[q])'
      BY <2>1, <2>4, <2>5 DEF CodeInv, Own, procs, Types
    <2>7. Own(current_process, regs)'
      BY <2>0, <2>1, <2>5, <1>4 DEF CodeInv, Own, procs, Specified
    <2>8. ASSUME NEW q \in Proc, NEW u \in tags'[q]
          PROVE  /\ new'[q][u].of = q /\ new'[q][u].at = u
                 /\ old'[q][u].at # "nucleus" => Own(q, old[q][u])'
      <3>1. CASE q = c /\ u = t
        BY <3>1, <2>2
      <3>2. CASE ~(q = c /\ u = t)
        <4>1. u \in tags[q] /\ u \in ExcType
          BY <3>2, <2>2, <2>3, <2>8, <2>1 DEF Types
        <4>2. old'[q][u] = old[q][u] /\ new'[q][u] = new[q][u]
          BY <3>2, <4>1, <2>2, <2>3
        <4>3. QED BY <4>1, <4>2, <2>5 DEF CodeInv, Own
      <3>3. QED BY <3>1, <3>2
    <2>9. QED BY <2>6, <2>7, <2>8 DEF CodeInv
  <1>5. ASSUME NEW t \in ExcType, PassedUp(t)
        PROVE  CodeInv'
    <2>0. PICK c \in Proc : c = current_process
      BY <1>5 DEF PassedUp, MayRaise, Types
    <2>1. c \notin ready /\ t \in tags[c] /\ c # NULL
      BY <2>0, <1>5 DEF PassedUp, MayRaise, Types
    <2>2. UNCHANGED <<current_process, ready, new, tags>>
      BY <1>5 DEF PassedUp, procs
    <2>3. /\ regs' = new[c][t] /\ old'[c][t] = regs
          /\ \A u \in ExcType \ {t} : old'[c][u] = old[c][u]
          /\ \A q \in Proc \ {c} : old'[q] = old[q]
      BY <1>5, <2>0, <2>1 DEF PassedUp, Types
    <2>4. regs.of = c /\ regs.at \in Entered(c) /\ regs.at # "nucleus"
      BY <2>0, <2>1, <1>0 DEF CodeInv, Own
    <2>5. t \in Entered(c)' /\ \A q \in Proc : Entered(q) \subseteq Entered(q)'
      <3>1. t \in Entered(c)'
        BY <2>1, <2>2, <2>3, <2>4 DEF Entered
      <3>2. ASSUME NEW q \in Proc, NEW u \in Entered(q) PROVE u \in Entered(q)'
        BY <2>2, <2>3, <2>4, <3>1 DEF Entered, Types
      <3>3. QED BY <3>1, <3>2
    <2>6. \A q \in ready : p_s'[q] = p_s[q]
      BY <1>5 DEF PassedUp, Saved, Types
    <2>7. \A q \in ready' : Own(q, p_s[q])'
      BY <2>2, <2>5, <2>6 DEF CodeInv, Own, Types
    <2>8. Own(current_process, regs)'
      BY <2>0, <2>1, <2>2, <2>3, <2>5 DEF CodeInv, Own
    <2>9. ASSUME NEW q \in Proc, NEW u \in tags[q], old'[q][u].at # "nucleus"
          PROVE  Own(q, old[q][u])'
      <3>1. CASE q = c /\ u = t
        BY <3>1, <2>3, <2>4, <2>5 DEF Own
      <3>2. CASE ~(q = c /\ u = t)
        <4>1. old'[q][u] = old[q][u]
          BY <3>2, <2>3 DEF Types
        <4>2. QED BY <4>1, <2>9, <2>5 DEF CodeInv, Own
      <3>3. QED BY <3>1, <3>2
    <2>10. QED BY <2>2, <2>7, <2>8, <2>9 DEF CodeInv
  <1>6. ASSUME NEW t \in ExcType, ExitTrap(t)
        PROVE  CodeInv'
    <2>0. PICK c \in Proc : c = current_process
      BY <1>6 DEF ExitTrap, SystemCall, Types
    <2>1. c # NULL /\ c \notin ready /\ regs.at = t /\ regs' = old[c][t]
      BY <2>0, <1>6 DEF ExitTrap, SystemCall, Types
    <2>2. UNCHANGED <<current_process, ready, old, new, tags>>
      BY <1>6 DEF ExitTrap, procs, areas
    <2>3. t \in tags[c] /\ old[c][t].at # "nucleus"
      BY <2>0, <2>1 DEF CodeInv, Own, Entered
    <2>4. Own(c, old[c][t])
      BY <2>1, <2>3 DEF CodeInv
    <2>5. \A q : Entered(q)' = Entered(q)
      BY <2>2 DEF Entered
    <2>6. \A q \in ready : p_s'[q] = p_s[q]
      BY <1>6 DEF ExitTrap, SystemCall, Types
    <2>7. QED BY <2>0, <2>1, <2>2, <2>4, <2>5, <2>6 DEF CodeInv, Own
  <1>7. CASE UNCHANGED vars
    BY <1>7 DEF vars, procs, areas, CodeInv, Own, Entered
  <1>8. QED
    BY NextCases, <1>1, <1>2, <1>3, <1>4, <1>5, <1>6, <1>7

\* What a step does to the exceptions of a process, as far as KeptInv and
\* NestInv are concerned, when it enters or leaves no handler.
Untouched ==
  \A p \in Proc :
    \/ trail'[p] = <<>>
    \/ /\ trail'[p] = trail[p]
       /\ \A t \in tags[p] : t \in tags'[p] /\ old'[p][t] = old[p][t]

LEMMA UntouchedSteps ==
  ASSUME Types, TrailTypes,
         \/ Switch \/ Dies \/ UNCHANGED vars
         \/ \E p \in Proc, mode \in Mode : CreateProcess(p, mode)
         \/ \E t \in ExcType, mode \in Mode : Specified(t, mode)
  PROVE  Untouched
  <1>1. CASE Switch \/ UNCHANGED vars
    BY <1>1 DEF Switch, vars, areas, Untouched
  <1>2. CASE Dies
    BY <1>2 DEF Dies, Die, areas, Untouched, TrailTypes
  <1>3. ASSUME NEW p \in Proc, NEW mode \in Mode, CreateProcess(p, mode)
        PROVE  Untouched
    <2>1. trail' = trail /\ trail[p] = <<>>
      BY <1>3 DEF CreateProcess, TrailTypes
    <2>2. \A q \in Proc \ {p} : tags'[q] = tags[q] /\ old'[q] = old[q]
      BY <1>3 DEF CreateProcess, Types
    <2>3. QED BY <2>1, <2>2 DEF Untouched
  <1>4. ASSUME NEW t \in ExcType, NEW mode \in Mode, Specified(t, mode)
        PROVE  Untouched
    <2>1. PICK c \in Proc : c = current_process
      BY <1>4 DEF Specified, Types
    <2>2. trail' = trail /\ t \notin tags[c] /\ tags'[c] = tags[c] \cup {t}
      BY <1>4, <2>1 DEF Specified, Types
    <2>3. \A u \in tags[c] : old'[c][u] = old[c][u]
      BY <1>4, <2>1, <2>2 DEF Specified, Types
    <2>4. \A q \in Proc \ {c} : tags'[q] = tags[q] /\ old'[q] = old[q]
      BY <1>4, <2>1 DEF Specified, Types
    <2>5. QED BY <2>2, <2>3, <2>4 DEF Untouched
  <1>5. QED BY <1>1, <1>2, <1>3, <1>4

LEMMA KeptStep ==
  ASSUME Types, TrailTypes, KeptInv, "same_type" \notin Misuse, [Next]_vars
  PROVE  KeptInv'
  <1>1. ASSUME Untouched PROVE KeptInv'
    <2>1. SUFFICES ASSUME NEW p \in Proc, NEW i \in DOMAIN trail'[p]
                   PROVE  /\ trail'[p][i].type \in tags'[p]
                          /\ old'[p][trail'[p][i].type] = trail'[p][i].interrupted
                          /\ \A j \in DOMAIN trail'[p] :
                               trail'[p][j].type = trail'[p][i].type => j = i
      BY DEF KeptInv
    <2>2. trail'[p] # <<>>
      BY LastOf, <2>1
    <2>3. /\ trail'[p] = trail[p]
          /\ \A t \in tags[p] : t \in tags'[p] /\ old'[p][t] = old[p][t]
      BY <1>1, <2>2 DEF Untouched
    <2>4. QED BY <2>3 DEF KeptInv
  <1>2. ASSUME NEW t \in ExcType, PassedUp(t)
        PROVE  KeptInv'
    <2>1. PICK c \in Proc : c = current_process
      BY <1>2 DEF PassedUp, MayRaise, Types
    <2> DEFINE e == [type |-> t, interrupted |-> regs]
               s == trail[c]
    <2>2. e \in Exception /\ e.type = t /\ e.interrupted = regs /\ s \in Seq(Exception)
      BY DEF Exception, Types, TrailTypes
    <2>3. /\ t \in tags[c] /\ tags' = tags
          /\ trail'[c] = Append(s, e)
          /\ old'[c][t] = regs /\ \A u \in tags[c] \ {t} : old'[c][u] = old[c][u]
          /\ \A q \in Proc \ {c} : trail'[q] = trail[q] /\ old'[q] = old[q]
      BY <1>2, <2>1 DEF PassedUp, Types, TrailTypes
    <2>4. \A i \in DOMAIN s : s[i].type # t
      BY <1>2, <2>1 DEF PassedUp, MayRaise
    <2>5. /\ DOMAIN s = 1 .. Len(s) /\ Len(s) \in Nat
          /\ DOMAIN trail'[c] = 1 .. Len(s) + 1
          /\ \A i \in DOMAIN s : trail'[c][i] = s[i]
          /\ trail'[c][Len(s) + 1] = e
      BY <2>2, <2>3, LastOf, PushOf
    <2> HIDE DEF e, s
    <2>6. ASSUME NEW i \in DOMAIN trail'[c]
          PROVE  /\ trail'[c][i].type \in tags[c]
                 /\ old'[c][trail'[c][i].type] = trail'[c][i].interrupted
                 /\ \A j \in DOMAIN trail'[c] :
                      trail'[c][j].type = trail'[c][i].type => j = i
      <3>1. \A k \in DOMAIN s :
              /\ s[k].type \in tags[c] \ {t}
              /\ old[c][s[k].type] = s[k].interrupted
              /\ \A j \in DOMAIN s : s[j].type = s[k].type => j = k
        BY <2>4 DEF KeptInv, s
      <3>2. CASE i \in DOMAIN s
        BY <3>1, <3>2, <2>2, <2>3, <2>5
      <3>3. CASE i = Len(s) + 1
        BY <3>1, <3>3, <2>2, <2>3, <2>5
      <3>4. QED BY <2>5, <3>2, <3>3
    <2>7. QED BY <2>3, <2>6 DEF KeptInv
  <1>3. ASSUME NEW t \in ExcType, ExitTrap(t)
        PROVE  KeptInv'
    <2>1. PICK c \in Proc : c = current_process
      BY <1>3 DEF ExitTrap, SystemCall, Types
    <2>2. /\ UNCHANGED <<old, tags>>
          /\ \/ trail'[c] = trail[c]
             \/ trail[c] # <<>> /\ trail'[c] = Front(trail[c])
          /\ \A q \in Proc \ {c} : trail'[q] = trail[q]
      BY <1>3, <2>1 DEF ExitTrap, areas, TrailTypes
    <2>3. /\ DOMAIN trail'[c] \subseteq DOMAIN trail[c]
          /\ \A i \in DOMAIN trail'[c] : trail'[c][i] = trail[c][i]
      <3>1. trail[c] \in Seq(Exception)
        BY DEF TrailTypes
      <3>2. QED BY <3>1, <2>2, LastOf, FrontOf
    <2>4. QED BY <2>2, <2>3 DEF KeptInv
  <1>4. QED
    BY NextCases, UntouchedSteps, <1>1, <1>2, <1>3

LEMMA NestStep ==
  ASSUME Types, TrailTypes, CodeInv, KeptInv, NestInv, "foreign_exit" \notin Misuse, [Next]_vars
  PROVE  NestInv'
  <1> DEFINE Nested(s) ==
        \A i \in DOMAIN s : s[i].interrupted.at = IF i = 1 THEN "main" ELSE s[i - 1].type
  <1>0. \A p \in Proc :
          /\ trail[p] \in Seq(Exception) /\ Nested(trail[p])
          /\ p \in ready => p_s[p].at = Innermost(trail[p])
          /\ p = current_process => regs.at = Innermost(trail[p])
    BY CodesDiffer DEF TrailTypes, NestInv
  <1>1. Nested(<<>>) /\ Innermost(<<>>) = "main"
    BY DEF Innermost
  <1> HIDE DEF Nested
  <1>2. SUFFICES /\ \A p \in Proc : Nested(trail'[p])
                 /\ \A p \in ready' : p_s'[p].at = Innermost(trail'[p])
                 /\ current_process' # NULL => regs'.at = Innermost(trail'[current_process'])
    BY DEF NestInv, Nested, Innermost
  <1>3. CASE Switch
    <2>1. trail' = trail
      BY <1>3 DEF Switch
    <2>2. PICK c \in Proc, n \in ready :
            /\ c = current_process /\ n # c /\ current_process' = n /\ regs' = p_s[n]
            /\ ready' = (ready \ {n}) \cup {c}
      BY <1>3 DEF Switch, Types
    <2>3. p_s'[c] = regs /\ \A p \in ready : p_s'[p] = p_s[p]
      BY <1>3, <2>2 DEF Switch, Types
    <2>4. regs.at = Innermost(trail[c])
      BY <2>2, CodesDiffer DEF NestInv
    <2>5. QED BY <1>0, <2>1, <2>2, <2>3, <2>4 DEF Types
  <1>4. CASE Dies
    <2>1. PICK c \in Proc : c = current_process
      BY <1>4 DEF Dies, Types
    <2>2. trail'[c] = <<>> /\ \A p \in Proc \ {c} : trail'[p] = trail[p]
      BY <1>4, <2>1 DEF Dies, Die, TrailTypes
    <2>3. \A p \in ready : p_s'[p] = p_s[p] /\ p # c
      BY <1>4, <2>1 DEF Dies, Saved, Types
    <2>4. /\ ready' \subseteq ready
          /\ current_process' # NULL => current_process' \in ready /\ regs' = p_s[current_process']
      BY <1>4 DEF Dies, Die, Load
    <2>5. QED BY <1>0, <1>1, <2>2, <2>3, <2>4 DEF Types
  <1>5. ASSUME NEW p \in Proc, NEW mode \in Mode, CreateProcess(p, mode)
        PROVE  /\ \A q \in Proc : Nested(trail'[q])
               /\ \A q \in ready' : p_s'[q].at = Innermost(trail'[q])
               /\ current_process' # NULL => regs'.at = Innermost(trail'[current_process'])
    <2>1. /\ trail' = trail /\ trail[p] = <<>> /\ ready' = ready \cup {p}
          /\ UNCHANGED <<current_process, regs>>
      BY <1>5 DEF CreateProcess, TrailTypes
    <2>2. p_s'[p].at = "main" /\ \A q \in ready : p_s'[q] = p_s[q]
      BY <1>5 DEF CreateProcess, Main, Live, Types
    <2>3. regs'.at = Innermost(trail'[current_process']) \/ current_process' = NULL
      BY <2>1 DEF NestInv
    <2>4. QED BY <1>0, <1>1, <2>1, <2>2, <2>3 DEF Types
  <1>6. ASSUME NEW t \in ExcType, NEW mode \in Mode, Specified(t, mode)
        PROVE  /\ \A q \in Proc : Nested(trail'[q])
               /\ \A q \in ready' : p_s'[q].at = Innermost(trail'[q])
               /\ current_process' # NULL => regs'.at = Innermost(trail'[current_process'])
    <2>1. UNCHANGED <<trail, ready, current_process, regs>>
      BY <1>6 DEF Specified, procs
    <2>2. \A q \in ready : p_s'[q] = p_s[q]
      BY <1>6 DEF Specified, Saved, Types
    <2>3. regs'.at = Innermost(trail'[current_process']) \/ current_process' = NULL
      BY <2>1 DEF NestInv
    <2>4. QED BY <1>0, <2>1, <2>2, <2>3 DEF Types
  <1>7. ASSUME NEW t \in ExcType, PassedUp(t)
        PROVE  /\ \A q \in Proc : Nested(trail'[q])
               /\ \A q \in ready' : p_s'[q].at = Innermost(trail'[q])
               /\ current_process' # NULL => regs'.at = Innermost(trail'[current_process'])
    <2>1. PICK c \in Proc : c = current_process
      BY <1>7 DEF PassedUp, MayRaise, Types
    <2> DEFINE e == [type |-> t, interrupted |-> regs]
               s == trail[c]
    <2>2. e \in Exception /\ e.type = t /\ e.interrupted = regs /\ s \in Seq(Exception)
      BY DEF Exception, Types, TrailTypes
    <2>3. /\ UNCHANGED <<ready, current_process>>
          /\ regs' = new[c][t] /\ new[c][t].at = t
          /\ trail'[c] = Append(s, e) /\ \A q \in Proc \ {c} : trail'[q] = trail[q]
      BY <1>7, <2>1 DEF PassedUp, procs, TrailTypes, CodeInv
    <2>4. \A q \in ready : p_s'[q] = p_s[q] /\ q # c
      BY <1>7, <2>1 DEF PassedUp, Saved, Types
    <2>5. regs.at = Innermost(s) /\ Nested(s)
      BY <1>0, <2>1
    <2>6. /\ DOMAIN s = 1 .. Len(s) /\ Len(s) \in Nat
          /\ s # <<>> => Len(s) > 0 /\ Last(s) = s[Len(s)]
          /\ trail'[c] # <<>> /\ Last(trail'[c]) = e
          /\ DOMAIN trail'[c] = 1 .. Len(s) + 1
          /\ \A i \in DOMAIN s : trail'[c][i] = s[i]
          /\ trail'[c][Len(s) + 1] = e
      <3> HIDE DEF e, s
      <3>1. /\ DOMAIN s = 1 .. Len(s) /\ Len(s) \in Nat
            /\ s # <<>> => Len(s) > 0 /\ Last(s) = s[Len(s)]
        BY <2>2, LastOf
      <3>2. /\ Append(s, e) # <<>> /\ Last(Append(s, e)) = e
            /\ DOMAIN Append(s, e) = 1 .. Len(s) + 1
            /\ \A i \in DOMAIN s : Append(s, e)[i] = s[i]
            /\ Append(s, e)[Len(s) + 1] = e
        BY <2>2, PushOf
      <3>3. QED BY <3>1, <3>2, <2>3
    <2> HIDE DEF e, s
    <2>7. Innermost(trail'[c]) = t
      BY <2>2, <2>6 DEF Innermost
    <2>8. Nested(trail'[c])
      <3>1. SUFFICES ASSUME NEW i \in DOMAIN trail'[c]
                     PROVE  trail'[c][i].interrupted.at =
                              IF i = 1 THEN "main" ELSE trail'[c][i - 1].type
        BY DEF Nested
      <3>2. CASE i \in DOMAIN s
        <4>1. i # 1 => i - 1 \in DOMAIN s
          BY <3>2, <2>6
        <4>2. QED BY <3>2, <4>1, <2>5, <2>6 DEF Nested
      <3>3. CASE i = Len(s) + 1
        <4>1. s = <<>> <=> i = 1
          BY <3>3, <2>2, <2>6, EmptySeq
        <4>2. i # 1 => i - 1 = Len(s) /\ i - 1 \in DOMAIN s
          BY <3>3, <2>6
        <4>3. QED BY <3>3, <4>1, <4>2, <2>2, <2>5, <2>6 DEF Innermost
      <3>4. QED BY <2>6, <3>2, <3>3
    <2>9. QED BY <1>0, <2>1, <2>3, <2>4, <2>7, <2>8 DEF Types
  <1>8. ASSUME NEW t \in ExcType, ExitTrap(t)
        PROVE  /\ \A q \in Proc : Nested(trail'[q])
               /\ \A q \in ready' : p_s'[q].at = Innermost(trail'[q])
               /\ current_process' # NULL => regs'.at = Innermost(trail'[current_process'])
    <2>1. PICK c \in Proc : c = current_process
      BY <1>8 DEF ExitTrap, SystemCall, Types
    <2> DEFINE s == trail[c]
    <2>2. s \in Seq(Exception) /\ Nested(s) /\ regs.at = Innermost(s) /\ regs.at = t
      BY <1>0, <1>8, <2>1 DEF ExitTrap
    <2>3. s # <<>> /\ Last(s).type = t
      BY <2>2, CodesDiffer DEF Innermost
    <2>4. /\ UNCHANGED <<ready, current_process, old>> /\ regs' = old[c][t]
          /\ trail'[c] = Front(s) /\ \A q \in Proc \ {c} : trail'[q] = trail[q]
      BY <1>8, <2>1, <2>3 DEF ExitTrap, procs, areas, TrailTypes
    <2>5. \A q \in ready : p_s'[q] = p_s[q] /\ q # c
      BY <1>8, <2>1 DEF ExitTrap, SystemCall, Types
    <2>6. /\ DOMAIN s = 1 .. Len(s) /\ Len(s) \in Nat /\ Len(s) > 0 /\ Last(s) = s[Len(s)]
          /\ Front(s) \in Seq(Exception)
          /\ DOMAIN Front(s) = 1 .. Len(s) - 1 /\ Len(Front(s)) = Len(s) - 1
          /\ \A i \in 1 .. Len(s) - 1 : Front(s)[i] = s[i]
          /\ Front(s) = <<>> <=> Len(s) = 1
      BY <2>2, <2>3, LastOf, FrontOf
    <2>7. Front(s) # <<>> => Last(Front(s)) = s[Len(s) - 1]
      <3>1. Front(s) # <<>> => Last(Front(s)) = Front(s)[Len(s) - 1] /\ Len(s) - 1 > 0
        BY <2>6 DEF Last
      <3>2. QED BY <3>1, <2>6
    <2>8. regs' = s[Len(s)].interrupted
      <3>1. Len(s) \in DOMAIN s
        BY <2>6
      <3>2. QED BY <3>1, <2>3, <2>4, <2>6 DEF KeptInv
    <2> HIDE DEF s
    <2>9. regs'.at = Innermost(trail'[c])
      <3>1. Len(s) \in DOMAIN s
        BY <2>6
      <3>2. regs'.at = IF Len(s) = 1 THEN "main" ELSE s[Len(s) - 1].type
        BY <3>1, <2>2, <2>8 DEF Nested
      <3>3. QED BY <3>2, <2>4, <2>6, <2>7 DEF Innermost
    <2>10. Nested(trail'[c])
      <3>1. SUFFICES ASSUME NEW i \in DOMAIN Front(s)
                     PROVE  Front(s)[i].interrupted.at =
                              IF i = 1 THEN "main" ELSE Front(s)[i - 1].type
        BY <2>4 DEF Nested
      <3>2. i \in DOMAIN s /\ Front(s)[i] = s[i] /\ (i # 1 => Front(s)[i - 1] = s[i - 1])
        BY <2>6
      <3>3. QED BY <3>2, <2>2 DEF Nested
    <2>11. QED BY <1>0, <2>1, <2>4, <2>5, <2>9, <2>10 DEF Types
  <1>9. CASE UNCHANGED vars
    BY <1>0, <1>9 DEF vars, procs, Types
  <1>10. QED
    BY NextCases, <1>3, <1>4, <1>5, <1>6, <1>7, <1>8, <1>9

-----------------------------------------------------------------------------
(* Theorems *)

LEMMA InitTypes ==
  ASSUME Init
  PROVE  Types /\ TrailTypes /\ CodeInv /\ KeptInv /\ NestInv
  <1> USE CodesDiffer
  <1>1. PICK f \in Proc : /\ current_process = f /\ regs = Main(f, "kernel")
      /\ ready = {} /\ p_s = [p \in Proc |-> Zero]
      /\ old = [p \in Proc |-> [t \in ExcType |-> Zero]]
      /\ new = [p \in Proc |-> [t \in ExcType |-> Zero]]
      /\ tags = [p \in Proc |-> {}] /\ trail = [p \in Proc |-> <<>>]
    BY DEF Init
  <1>2. Zero \in Context /\ Main(f, "kernel") \in Context
    BY DEF Zero, Main, Context, Code, Mode
  <1>3. Types
    BY <1>1, <1>2 DEF Types
  <1>4. TrailTypes
    BY <1>1, EmptySeq DEF TrailTypes
  <1>5. CodeInv
    BY <1>1 DEF CodeInv, Own, Entered, Main
  <1>6. KeptInv /\ NestInv
    BY <1>1 DEF KeptInv, NestInv, Innermost, Main
  <1>7. QED BY <1>3, <1>4, <1>5, <1>6

\* Whatever handlers nest in themselves: as long as none returns from another's
\* exception, a process executes only its own program and its own handlers.
THEOREM OwnCodeHolds ==
  ASSUME "foreign_exit" \notin Misuse
  PROVE  Spec => []OwnCode
  <1> DEFINE Inv == Types /\ TrailTypes /\ CodeInv
  <1>1. Init => Inv
    BY InitTypes
  <1>2. Inv /\ [Next]_vars => Inv'
    BY TypesStep, CodeStep
  <1>3. Inv => OwnCode
    BY CodesDiffer DEF Types, TrailTypes, CodeInv, Own, Entered, OwnCode, TypeOK
  <1>4. QED BY <1>1, <1>2, <1>3, PTL DEF Spec

\* Whatever type EXITTRAP is given: as long as no type of exception nests in
\* itself, the old areas keep what the exceptions have interrupted.
THEOREM InterruptedIsKept ==
  ASSUME "same_type" \notin Misuse
  PROVE  Spec => []InterruptedKept
  <1> DEFINE Inv == Types /\ TrailTypes /\ KeptInv
  <1>1. Init => Inv
    BY InitTypes
  <1>2. Inv /\ [Next]_vars => Inv'
    BY TypesStep, KeptStep
  <1>3. Inv => InterruptedKept
    BY DEF KeptInv, InterruptedKept, Live, Types
  <1>4. QED BY <1>1, <1>2, <1>3, PTL DEF Spec

\* With both disciplines, handlers return like procedures: EXITTRAP always
\* resumes what the innermost exception interrupted.
THEOREM TrapsReturn ==
  ASSUME Misuse = {}
  PROVE  Spec => TrapReturns
  <1> DEFINE Inv == Types /\ TrailTypes /\ CodeInv /\ KeptInv /\ NestInv
             Returns == \A t \in ExcType : ExitTrap(t) =>
                          /\ trail[current_process] # <<>>
                          /\ Last(trail[current_process]) = [type |-> t, interrupted |-> regs']
  <1>1. Init => Inv
    BY InitTypes
  <1>2. Inv /\ [Next]_vars => Inv'
    BY TypesStep, CodeStep, KeptStep, NestStep
  <1>3. Inv => Returns
    <2>1. SUFFICES ASSUME Inv, NEW t \in ExcType, ExitTrap(t)
                   PROVE  /\ trail[current_process] # <<>>
                          /\ Last(trail[current_process]) = [type |-> t, interrupted |-> regs']
      OBVIOUS
    <2>2. PICK c \in Proc : c = current_process
      BY <2>1 DEF ExitTrap, SystemCall, Types
    <2>3. /\ regs.at = t /\ regs' = old[c][t] /\ trail[c] \in Seq(Exception)
          /\ regs.at = Innermost(trail[c])
      BY <2>1, <2>2, CodesDiffer DEF ExitTrap, NestInv, TrailTypes
    <2>4. trail[c] # <<>> /\ Last(trail[c]).type = t
      BY <2>3, CodesDiffer DEF Innermost
    <2>5. /\ Last(trail[c]) \in Exception
          /\ \E i \in DOMAIN trail[c] : Last(trail[c]) = trail[c][i]
      BY <2>3, <2>4, LastOf
    <2>6. Last(trail[c]).interrupted = old[c][t]
      BY <2>1, <2>4, <2>5 DEF KeptInv
    <2>7. QED BY <2>2, <2>3, <2>4, <2>5, <2>6 DEF Exception
  <1>4. Inv /\ [Next]_vars => [Returns]_vars
    BY <1>3
  <1>5. QED BY <1>1, <1>2, <1>4, PTL DEF Spec, TrapReturns
=============================================================================
