-------------------------- MODULE GroupElimination --------------------------
(***************************************************************************)
(* What a backward round promises (Algorithm 1 of the paper backward.cpp   *)
(* refers to), without its vectors, flags and assumptions: the variables   *)
(* of interest are split into units - a group, or a variable in no group - *)
(* and every unit is decided once, in any order.  A unit may be dropped    *)
(* only when the units still there determine it.                           *)
(***************************************************************************)
EXTENDS Independence

CONSTANT Vars    \* the variables of the input formula

VARIABLES
    mayTimeOut,  \* a solver call may run out of conflicts (backw_max_confl); never changes
    models,      \* the satisfying assignments; never changes
    original,    \* the variables that have to stay determined; never changes
    pending,     \* the units not decided yet (Q in the paper, `unknown` in the code)
    kept         \* the units decided to be needed (I in the paper, `indep`)

vars == <<mayTimeOut, models, original, pending, kept>>

Support == UNION (kept \cup pending)

\* What is left when a unit is put aside: the C of the paper.
Rest(u) == UNION ((kept \cup pending) \ {u})

TypeOK ==
    /\ mayTimeOut \in BOOLEAN
    /\ models \subseteq SUBSET Vars
    /\ original \subseteq Vars
    /\ pending \subseteq SUBSET Vars
    /\ kept \subseteq SUBSET Vars
    /\ pending \cap kept = {}

Init ==
    /\ mayTimeOut \in BOOLEAN
    /\ models \in SUBSET (SUBSET Vars)
    /\ pending \in SUBSET (SUBSET Vars)
    /\ \A u, w \in pending : u # w => u \cap w = {}
    /\ original \in SUBSET (UNION pending)
    /\ kept = {}

\* Every variable of the unit is determined by the rest: the unit is dropped.
Drop(u) ==
    /\ Defines(models, Rest(u), u)
    /\ pending' = pending \ {u}
    /\ UNCHANGED <<mayTimeOut, models, original, kept>>

\* Some variable of the unit is not determined, or the solver gave up on it.
Keep(u) ==
    /\ mayTimeOut \/ ~ Defines(models, Rest(u), u)
    /\ pending' = pending \ {u}
    /\ kept' = kept \cup {u}
    /\ UNCHANGED <<mayTimeOut, models, original>>

Next == \E u \in pending : Drop(u) \/ Keep(u)

Safe == Init /\ [][Next]_vars

\* Every unit is decided in the end.
Progress == WF_vars(Next)
Spec == Safe /\ Progress

-----------------------------------------------------------------------------

\* At every moment the units not dropped determine the variables of interest: the
\* result of a round, and every intermediate set it publishes, is an independent
\* support of what it was given.
Supports == Defines(models, Support, original)

\* Without time-outs no decided unit can be left out: "minimal" in the name of the
\* tool.  Strengthened to hold during the round, for the units kept so far.
KeptNeeded == ~ mayTimeOut => \A u \in kept : ~ Defines(models, Rest(u), u)

=============================================================================
