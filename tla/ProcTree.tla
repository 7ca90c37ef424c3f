------------------------------ MODULE ProcTree ------------------------------
(***************************************************************************)
(* The process tree as its clients see it: a process creates children, and  *)
(* terminates itself or a descendant with all that hangs below.  The        *)
(* processes that are terminated disappear one by one, leaves first.        *)
(***************************************************************************)
CONSTANTS Proc, NULL

VARIABLES live,    \* the living processes
          parent,  \* [Proc -> Proc or NULL]
          caller,  \* the running process, or NULL
          target   \* the process being terminated, or NULL

vars == <<live, parent, caller, target>>

Below(S)   == {p \in live : parent[p] \in S}
Closed(S)  == Below(S) \subseteq S
Progeny(r) == {p \in live : \A S \in SUBSET live : r \in S /\ Closed(S) => p \in S}

Init == \E first \in Proc :
  /\ live = {first}
  /\ parent = [p \in Proc |-> NULL]
  /\ caller \in {first, NULL}
  /\ target = NULL

Create ==
  /\ caller # NULL /\ target = NULL
  /\ \E p \in Proc \ live : /\ live' = live \cup {p}
                            /\ parent' = [parent EXCEPT ![p] = caller]
  /\ UNCHANGED <<caller, target>>

Switch ==
  /\ target = NULL
  /\ caller' \in live \cup {NULL}
  /\ UNCHANGED <<live, parent, target>>

Terminate ==
  /\ caller # NULL /\ target = NULL
  /\ target' \in Progeny(caller)
  /\ UNCHANGED <<live, parent, caller>>

\* The target, when it is the last, leaves its parent before it goes.
Leave ==
  /\ target # NULL
  /\ Below({target}) = {}
  /\ parent' = [parent EXCEPT ![target] = NULL]
  /\ UNCHANGED <<live, caller, target>>

\* A process without children goes.
Die ==
  /\ target # NULL
  /\ \E p \in Progeny(target) :
       /\ Below({p}) = {}
       /\ live' = live \ {p}
       /\ parent' = [parent EXCEPT ![p] = NULL]
       /\ target' = IF p = target THEN NULL ELSE target
       /\ caller' = IF p = caller THEN NULL ELSE caller

Next == Create \/ Switch \/ Terminate \/ Leave \/ Die

Spec == Init /\ [][Next]_vars
=============================================================================
