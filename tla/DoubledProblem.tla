--------------------------- MODULE DoubledProblem ---------------------------
(***************************************************************************)
(* Common::duplicate_problem and Common::add_fixed_clauses (common.cpp):   *)
(* the solver gets a second copy of every clause and BNN constraint over   *)
(* fresh variables, and for each variable of the sampling set an indicator *)
(* that is true iff the variable's two copies differ.  The rounds are      *)
(* modelled by what this formula means (RoundInput!Satisfiable); here it   *)
(* is built clause by clause.                                              *)
(*                                                                         *)
(* A literal is a variable's number, negated for a negative literal.  What *)
(* CMS::simplify does in between keeps the models, on the variables it is  *)
(* told not to eliminate.                                                  *)
(***************************************************************************)
EXTENDS Independence, Integers, FiniteSets, Sequences, Functions

CONSTANTS
    N,             \* orig_num_vars
    Inputs,        \* records [cnf, bnns, sampling], see InputType
    Simp           \* conf.simp

\* A BNN constraint says: at least `cutoff` of its literals are true, iff `out` is; out = 0
\* stands for lit_Undef: they are.
InputType(x) ==
    /\ \A cl \in x.cnf : \A l \in cl : l \in (-N .. N) \ {0}
    /\ x.bnns \in Seq(Range(x.bnns))
    /\ \A b \in Range(x.bnns) : /\ \A k \in DOMAIN b.lits : b.lits[k] \in (-N .. N) \ {0}
                                /\ b.out \in -N .. N
    /\ x.sampling \in Seq(1 .. N)

ASSUME InputsAssumption == N \in Nat /\ Simp \in BOOLEAN /\ \A x \in Inputs : InputType(x)

VARIABLES
    input,
    nVars, clauses, bnns,       \* the solver
    varToIndic, indicToVar,     \* var_to_indic and indic_to_var, where they are not var_Undef
    dontElim,                   \* the literals the solver must not eliminate
    eliminable,                 \* variables the solver may have eliminated
    at, pc

vars == <<input, nVars, clauses, bnns, varToIndic, indicToVar, dontElim, eliminable, at, pc>>

-----------------------------------------------------------------------------
\* The second copy of a literal.
Copy(l) == IF l > 0 THEN l + N ELSE l - N

Init ==
    /\ input \in Inputs
    /\ nVars = N /\ clauses = input.cnf /\ bnns = input.bnns
    /\ varToIndic = <<>> /\ indicToVar = <<>>
    /\ dontElim = {} /\ eliminable = {}
    /\ at = 1
    /\ pc = "duplicate"

\* Mutated: the output literal of a BNN constraint is that of the first copy.
DuplicateKeepsOutput ==
    /\ pc = "duplicate"
    /\ nVars' = nVars + N
    /\ clauses' = clauses \cup { { Copy(l) : l \in cl } : cl \in clauses }
    /\ bnns' = bnns \o [k \in DOMAIN bnns |->
                   [bnns[k] EXCEPT !.lits = [m \in DOMAIN bnns[k].lits |-> Copy(bnns[k].lits[m])]]]
    /\ pc' = "bve"
    /\ UNCHANGED <<input, varToIndic, indicToVar, dontElim, eliminable, at>>

\* duplicate_problem
Duplicate ==
    /\ pc = "duplicate"
    /\ nVars' = nVars + N
    /\ clauses' = clauses \cup { { Copy(l) : l \in cl } : cl \in clauses }
    /\ bnns' = bnns \o [k \in DOMAIN bnns |->
                   [lits |-> [m \in DOMAIN bnns[k].lits |-> Copy(bnns[k].lits[m])],
                    cutoff |-> bnns[k].cutoff,
                    out |-> IF bnns[k].out = 0 THEN 0 ELSE Copy(bnns[k].out)]]
    /\ pc' = "bve"
    /\ UNCHANGED <<input, varToIndic, indicToVar, dontElim, eliminable, at>>

Protected == { IF l > 0 THEN l ELSE -l : l \in dontElim }

\* Mutated: only the first copy of the sampling set is protected.
EliminateCopies ==
    /\ pc = "bve"
    /\ dontElim' = dontElim \cup Range(input.sampling)
    /\ eliminable' = IF Simp THEN (1 .. nVars) \ Protected' ELSE {}
    /\ pc' = "fixed"
    /\ UNCHANGED <<input, nVars, clauses, bnns, varToIndic, indicToVar, at>>

\* simplify_bve_only: without conf.simp the list is filled, but nothing eliminated.
Eliminate ==
    /\ pc = "bve"
    /\ dontElim' = dontElim \cup Range(input.sampling) \cup { Copy(v) : v \in Range(input.sampling) }
    /\ eliminable' = IF Simp THEN (1 .. nVars) \ Protected' ELSE {}
    /\ pc' = "fixed"
    /\ UNCHANGED <<input, nVars, clauses, bnns, varToIndic, indicToVar, at>>

\* add_fixed_clauses starts the list and the maps anew.
StartFixed ==
    /\ pc = "fixed"
    /\ dontElim' = {} /\ varToIndic' = <<>> /\ indicToVar' = <<>>
    /\ pc' = "indicators"
    /\ UNCHANGED <<input, nVars, clauses, bnns, eliminable, at>>

\* f is true iff v and its copy differ.
Connect(v, f) ==
    { {v, -Copy(v), f}, {-v, Copy(v), f}, {v, Copy(v), -f}, {-v, -Copy(v), -f} }

\* A map after an assignment to one entry.
Assigned(map, key, value) ==
    [k \in DOMAIN map \cup {key} |-> IF k = key THEN value ELSE map[k]]

\* One turn of the loop of add_fixed_clauses.  A variable that is listed twice gets two
\* indicators, of which the second counts.
AddIndicator ==
    /\ pc = "indicators" /\ at <= Len(input.sampling)
    /\ LET v == input.sampling[at]
           f == nVars + 1
       IN  /\ nVars' = f
           /\ varToIndic' = Assigned(varToIndic, v, f)
           /\ indicToVar' = Assigned(indicToVar, f, v)
           /\ dontElim' = dontElim \cup {f}
           /\ clauses' = clauses \cup Connect(v, f)
    /\ at' = at + 1
    /\ UNCHANGED <<input, bnns, eliminable, pc>>

\* The last loop of add_fixed_clauses.
ProtectSampling ==
    /\ pc = "indicators" /\ at > Len(input.sampling)
    /\ dontElim' = dontElim \cup Range(input.sampling) \cup { Copy(v) : v \in Range(input.sampling) }
    /\ pc' = "done"
    /\ UNCHANGED <<input, nVars, clauses, bnns, varToIndic, indicToVar, eliminable, at>>

Stopped == pc = "done" /\ UNCHANGED vars

Step == Duplicate \/ Eliminate \/ StartFixed \/ AddIndicator \/ ProtectSampling
Next == Step \/ Stopped

Spec == Init /\ [][Next]_vars

-----------------------------------------------------------------------------
(* What a formula means *)

True(l, a) == IF l > 0 THEN l \in a ELSE -l \notin a

AtLeast(b, a) == Cardinality({ k \in DOMAIN b.lits : True(b.lits[k], a) }) >= b.cutoff

Meets(a, cnf, bs) ==
    /\ \A cl \in cnf : \E l \in cl : True(l, a)
    /\ \A b \in Range(bs) : AtLeast(b, a) <=> (b.out = 0 \/ True(b.out, a))

ModelsOf(cnf, bs, n) == { a \in SUBSET (1 .. n) : Meets(a, cnf, bs) }

OriginalModels == ModelsOf(input.cnf, input.bnns, N)
Tested == Range(input.sampling)

\* The call a round makes (the indicators of A false, v true in the first copy and false
\* in the second) has a model iff two models of the input that agree on A differ on v that
\* way: the meaning the rounds are modelled by.
CallsDecideSeparation ==
    pc = "done" =>
        LET doubled == ModelsOf(clauses, bnns, nVars)
        IN  \A A \in SUBSET Tested, v \in Tested :
                (\E d \in doubled : /\ \A w \in A : varToIndic[w] \notin d
                                    /\ v \in d /\ (v + N) \notin d)
                <=> \E a, b \in OriginalModels : Agree(a, b, A) /\ v \in a /\ v \notin b

\* No clause added after the elimination, and no assumption, uses a variable that may be
\* gone by then, and none may go later: the list of literals to be kept is built twice.
EliminatedUnused ==
    pc = "done" =>
        \A v \in Tested : {v, v + N, varToIndic[v]} \cap eliminable = {}
                          /\ {v, v + N, varToIndic[v]} \subseteq Protected
=============================================================================
