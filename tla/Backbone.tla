------------------------------ MODULE Backbone ------------------------------
(***************************************************************************)
(* Common::backbone_simpl (simplify.cpp): literals that are true in every  *)
(* model are found by solving under their negations, and added as unit     *)
(* clauses.  One model found first says which literal of a variable to     *)
(* try; a variable that has both values in two models is not tried.        *)
(***************************************************************************)
EXTENDS Integers, FiniteSets, Sequences, Functions

CONSTANTS
    Vars,          \* the solver's variables
    Formulas,      \* the formulas looked at, each as its set of models
    MaxConfl,      \* conf.backbone_simpl_max_confl
    Overhead,      \* 100 in the code: what a call costs beside its conflicts
    CallCost       \* bound: conflicts of one solver call

ASSUME BackboneAssumption ==
    /\ IsFiniteSet(Vars) /\ Formulas \subseteq SUBSET (SUBSET Vars)
    /\ MaxConfl \in Int /\ Overhead \in Nat /\ CallCost \in Nat

VARIABLES
    models,        \* the formula
    units,         \* the literals set at level zero: <<variable, value>>
    varOrder, at,  \* the shuffled variables, and the loop's position in them
    model, modelEnabled,
    confl,         \* max_confl: the conflicts that are left, negative when used up
    uncounted,     \* solver->get_sum_conflicts() - last_sum_conflicts
    finished, returned, pc

vars == <<models, units, varOrder, at, model, modelEnabled, confl, uncounted, finished,
          returned, pc>>

Holds(l, a) == (l[1] \in a) = l[2]
Negation(l) == <<l[1], ~ l[2]>>
BackboneOf(m) == { l \in Vars \X BOOLEAN : \A a \in m : Holds(l, a) }

\* The models the solver may answer with: those of the formula, under an assumption.
Found(assumps) == { a \in models : \A l \in assumps : Holds(l, a) }

-----------------------------------------------------------------------------
\* Some literals may be set before; some conflicts have been counted.
Init ==
    /\ models \in Formulas
    /\ units \in SUBSET BackboneOf(models)
    /\ \A l \in units : Negation(l) \notin units
    /\ varOrder = <<>> /\ at = 1 /\ model = {} /\ modelEnabled = {}
    /\ confl = MaxConfl /\ uncounted = 0
    /\ finished = FALSE /\ returned = FALSE
    /\ pc = "order"

\* Variables that are set already are left out; without others there is nothing to do.
Order ==
    /\ pc = "order"
    /\ LET free == Vars \ { l[1] : l \in units }
       IN  /\ varOrder' \in { s \in [1 .. Cardinality(free) -> free] : Range(s) = free }
           /\ IF free = {}
              THEN returned' = TRUE /\ pc' = "returned"
              ELSE returned' = returned /\ pc' = "first"
    /\ UNCHANGED <<models, units, at, model, modelEnabled, confl, uncounted, finished>>

\* The first call; what the solver has used so far is taken off the budget before it.
FirstModel ==
    /\ pc = "first"
    /\ \E before, cost \in 0 .. CallCost :
           /\ confl' = confl - before
           /\ uncounted' = cost
           /\ \/ \E a \in Found({}) :
                     IF confl' < 0
                     THEN pc' = "end" /\ UNCHANGED <<model, modelEnabled>>
                     ELSE pc' = "loop" /\ model' = a /\ modelEnabled' = Vars
              \/ /\ pc' = "end"              \* a time-out
                 /\ UNCHANGED <<model, modelEnabled>>
    /\ UNCHANGED <<models, units, varOrder, at, finished, returned>>

FirstUnsat ==
    /\ pc = "first" /\ Found({}) = {}
    /\ pc' = "returned"
    /\ UNCHANGED <<models, units, varOrder, at, model, modelEnabled, confl, uncounted,
                   finished, returned>>

Looping == pc = "loop" /\ at <= Len(varOrder)
LitOf(v) == <<v, v \in model>>
Lit == LitOf(varOrder[at])

\* Mutated: the position moves on twice.
SkipVarTwice ==
    /\ Looping /\ varOrder[at] \notin modelEnabled
    /\ at' = at + 2
    /\ UNCHANGED <<models, units, varOrder, model, modelEnabled, confl, uncounted, finished,
                   returned, pc>>

SkipVar ==
    /\ Looping /\ varOrder[at] \notin modelEnabled
    /\ at' = at + 1
    /\ UNCHANGED <<models, units, varOrder, model, modelEnabled, confl, uncounted, finished,
                   returned, pc>>

\* Mutated: a time-out counts as a proof.
TestVarTrustsTimeOut ==
    /\ Looping /\ varOrder[at] \in modelEnabled
    /\ \E cost \in 0 .. CallCost :
           /\ confl' = confl - uncounted - cost - Overhead
           /\ uncounted' = 0
    /\ \/ \E a \in Found({Negation(Lit)}) :
              /\ modelEnabled' = { v \in modelEnabled : v \in a <=> v \in model }
              /\ UNCHANGED units
              /\ pc' = IF confl' < 0 THEN "end" ELSE "loop"
       \/ /\ units' = units \cup {Lit}
          /\ UNCHANGED modelEnabled
          /\ pc' = IF confl' < 0 THEN "end" ELSE "loop"
    /\ at' = at + 1
    /\ UNCHANGED <<models, varOrder, model, finished, returned>>

\* Mutated: the variables on which the two models agree are not tried any more.
TestVarDisablesEqual ==
    /\ Looping /\ varOrder[at] \in modelEnabled
    /\ \E cost \in 0 .. CallCost :
           /\ confl' = confl - uncounted - cost - Overhead
           /\ uncounted' = 0
    /\ \/ \E a \in Found({Negation(Lit)}) :
              /\ modelEnabled' = { v \in modelEnabled : ~ (v \in a <=> v \in model) }
              /\ UNCHANGED units
              /\ pc' = IF confl' < 0 THEN "end" ELSE "loop"
       \/ /\ Found({Negation(Lit)}) = {}
          /\ units' = units \cup {Lit}
          /\ UNCHANGED modelEnabled
          /\ pc' = IF confl' < 0 THEN "end" ELSE "loop"
       \/ /\ UNCHANGED <<units, modelEnabled>>
          /\ pc' = "end"
    /\ at' = at + 1
    /\ UNCHANGED <<models, varOrder, model, finished, returned>>

\* Is there a model with the other value?  A model found tells about other variables
\* too; no model makes the literal a unit clause; a time-out, or the budget, ends it all.
TestVar ==
    /\ Looping /\ varOrder[at] \in modelEnabled
    /\ \E cost \in 0 .. CallCost :
           /\ confl' = confl - uncounted - cost - Overhead
           /\ uncounted' = 0
    /\ \/ \E a \in Found({Negation(Lit)}) :
              /\ modelEnabled' = { v \in modelEnabled : v \in a <=> v \in model }
              /\ UNCHANGED units
              /\ pc' = IF confl' < 0 THEN "end" ELSE "loop"
       \/ /\ Found({Negation(Lit)}) = {}
          /\ units' = units \cup {Lit}
          /\ UNCHANGED modelEnabled
          /\ pc' = IF confl' < 0 THEN "end" ELSE "loop"
       \/ /\ UNCHANGED <<units, modelEnabled>>
          /\ pc' = "end"
    /\ at' = at + 1
    /\ UNCHANGED <<models, varOrder, model, finished, returned>>

Finish ==
    /\ pc = "loop" /\ at > Len(varOrder)
    /\ finished' = TRUE
    /\ pc' = "end"
    /\ UNCHANGED <<models, units, varOrder, at, model, modelEnabled, confl, uncounted,
                   returned>>

Return ==
    /\ pc = "end"
    /\ returned' = TRUE
    /\ pc' = "returned"
    /\ UNCHANGED <<models, units, varOrder, at, model, modelEnabled, confl, uncounted,
                   finished>>

Stopped == pc = "returned" /\ UNCHANGED vars

Step == Order \/ FirstModel \/ FirstUnsat \/ SkipVar \/ TestVar \/ Finish \/ Return
Next == Step \/ Stopped

Spec == Init /\ [][Next]_vars

-----------------------------------------------------------------------------
TypeOK ==
    /\ models \in Formulas /\ units \subseteq Vars \X BOOLEAN
    /\ varOrder \in Seq(Vars) /\ at \in Nat \ {0} /\ at <= Len(varOrder) + 1
    /\ model \subseteq Vars /\ modelEnabled \subseteq Vars
    /\ confl \in Int /\ uncounted \in Nat
    /\ finished \in BOOLEAN /\ returned \in BOOLEAN
    /\ pc \in {"order", "first", "loop", "end", "returned"}

\* The unit clauses change the formula for nobody: whenever the loop is cut off, they
\* hold in every model (preprocessing then removes their variables as determined).
UnitsAreImplied == units \subseteq BackboneOf(models)

\* A run that is not cut off finds all of them: skipping the variables that differ
\* between models misses none.
FindsAll == finished => units = BackboneOf(models)

\* Why it misses none.  While the loop runs, a variable that is not enabled any more has
\* the other value in some model; every variable is set or in the loop's order; and those
\* the loop has passed are decided.
NotBackbone(v) == \E a \in models : (v \in a) # (v \in model)

LoopInv ==
    /\ model \in models
    /\ \A v \in Vars \ modelEnabled : NotBackbone(v)
    /\ \A k \in 1 .. (at - 1) : LitOf(varOrder[k]) \in units \/ NotBackbone(varOrder[k])

BackboneInv ==
    /\ UnitsAreImplied
    /\ pc = "order" => at = 1
    /\ pc = "first" => at = 1
    /\ pc \in {"first", "loop"} =>
           \A v \in Vars : (\E l \in units : l[1] = v) \/ v \in Range(varOrder)
    /\ pc = "loop" => LoopInv
    /\ finished => pc \in {"end", "returned"}
    /\ FindsAll
=============================================================================
