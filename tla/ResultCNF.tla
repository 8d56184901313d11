------------------------------ MODULE ResultCNF ------------------------------
(***************************************************************************)
(* Arjun::get_fully_simplified_renumbered_cnf (arjun.cpp) and elim_to_file *)
(* (main.cpp): after get_indep_set the clauses of the first copy are taken *)
(* back out of the doubled problem and put into a new solver, without the  *)
(* empty variables of the sampling set, of which the result only says by   *)
(* how much the number of its models must be multiplied.                   *)
(*                                                                         *)
(* The rounds leave the clauses alone.  What the solver does to them in    *)
(* the meantime keeps the models; what shows is which variables it has     *)
(* replaced by equal literals.  Renumbering and simplifying the new        *)
(* solver's clauses keeps the models over the variables to be kept.  There *)
(* are no BNN constraints, which get_simplified_cnf leaves out.            *)
(***************************************************************************)
EXTENDS DoubledProblem

VARIABLES
    equals,        \* the pairs of a variable and a literal that are equal in all models
    repl,          \* the literal each replaced variable stands for (CryptoMiniSat)
    samplSet, emptyVars,        \* the arguments
    exported,      \* get_simplified_cnf
    filled,        \* the clauses of the new solver
    kept,          \* dont_elim, the new sampling set
    multiply       \* the third part of the result: how many empty variables

doubled == <<input, nVars, clauses, bnns, varToIndic, indicToVar, dontElim, eliminable, at>>
call == <<samplSet, emptyVars>>
allVars == <<vars, equals, repl, call, exported, filled, kept, multiply>>

ResultInit ==
    /\ Init
    /\ equals = {} /\ repl = <<>> /\ samplSet = {} /\ emptyVars = {}
    /\ exported = {} /\ filled = {} /\ kept = {} /\ multiply = 0

-----------------------------------------------------------------------------
Var(l) == IF l > 0 THEN l ELSE -l

\* v and the literal r are equal in all models, and not the same in all.
AreEqual(models, v, r) ==
    /\ r # 0 /\ Var(r) # v
    /\ \A a \in models : v \in a <=> True(r, a)
    /\ \E a, b \in models : v \in a /\ v \notin b

\* get_indep_set ends with some part of the sampling set; the caller says which of it is to
\* be left out.
Support ==
    /\ pc = "done" /\ bnns = <<>>
    /\ samplSet' \in SUBSET Tested /\ emptyVars' \in SUBSET samplSet'
    /\ LET models == ModelsOf(clauses, bnns, nVars)
       IN  equals' = { e \in (1 .. nVars) \X (-nVars .. nVars) : AreEqual(models, e[1], e[2]) }
    /\ pc' = "export"
    /\ UNCHANGED <<doubled, repl, exported, filled, kept, multiply>>

\* The literal l with v replaced by the literal r.
Instead(l, v, r) == IF l = v THEN r ELSE IF l = -v THEN -r ELSE l

\* CryptoMiniSat replaces v by r, while it solves and simplifies for the rounds, or in
\* varreplace.
Replace(v, r) ==
    /\ pc \in {"export", "filled"}
    /\ <<v, r>> \in equals /\ {v, Var(r)} \cap DOMAIN repl = {}
    /\ repl' = Assigned([w \in DOMAIN repl |-> Instead(repl[w], v, r)], v, r)
    /\ UNCHANGED <<vars, equals, call, exported, filled, kept, multiply>>

\* The solver's clauses, the replaced variables gone.
Replaced(l) ==
    IF Var(l) \notin DOMAIN repl THEN l ELSE IF l > 0 THEN repl[l] ELSE -repl[-l]
Tautology(cl) == \E l \in cl : -l \in cl
ClausesLeft ==
    { cl \in { { Replaced(l) : l \in c } : c \in clauses } : ~ Tautology(cl) }

\* get_all_binary_xors: pairs within the first copy.
BinaryXors == { v \in DOMAIN repl : v <= N /\ Var(repl[v]) <= N }
Equal(a, b) == { {-a, b}, {a, -b} }

\* get_simplified_cnf: clauses within the first copy, those that say which variables are
\* replaced included.
Export ==
    /\ pc = "export"
    /\ exported' = { cl \in ClausesLeft : \A l \in cl : Var(l) <= N }
                       \cup UNION { Equal(v, repl[v]) : v \in BinaryXors }
    /\ pc' = "fill"
    /\ UNCHANGED <<doubled, equals, repl, call, filled, kept, multiply>>

\* mymap: the variables that stay are numbered anew.
NewVar(v) == Cardinality({ w \in 1 .. v : w \notin emptyVars })
NewLit(l) == IF l > 0 THEN NewVar(l) ELSE -NewVar(-l)
Seen(l) == Var(l) \in emptyVars

\* The first loop of fill_solver_no_empty.  A clause that is left out must have two literals.
Fill ==
    /\ pc = "fill"
    /\ filled' = { { NewLit(l) : l \in cl } : cl \in { c \in exported : \A l \in c : ~ Seen(l) } }
    /\ pc' = IF \A cl \in exported : (\E l \in cl : Seen(l)) => Cardinality(cl) = 2
                THEN "filled" ELSE "abort"
    /\ UNCHANGED <<doubled, equals, repl, call, exported, kept, multiply>>

\* Mutated: the variables to be kept are not renumbered.
FinishOldNumbers ==
    /\ pc = "filled"
    /\ filled' = filled \cup UNION { Equal(NewVar(v), NewLit(repl[v])) :
                                       v \in { w \in BinaryXors : ~ Seen(w) /\ ~ Seen(repl[w]) } }
    /\ kept' = samplSet \ emptyVars
    /\ pc' = "renumber"
    /\ UNCHANGED <<doubled, equals, repl, call, exported, multiply>>

\* The rest of it.
Finish ==
    /\ pc = "filled"
    /\ filled' = filled \cup UNION { Equal(NewVar(v), NewLit(repl[v])) :
                                       v \in { w \in BinaryXors : ~ Seen(w) /\ ~ Seen(repl[w]) } }
    /\ kept' = { NewVar(v) : v \in samplSet \ emptyVars }
    /\ pc' = "renumber"
    /\ UNCHANGED <<doubled, equals, repl, call, exported, multiply>>

\* get_fully_simplified_renumbered_cnf: simplifies, under the variables to be kept, what
\* the new solver holds.
Return ==
    /\ pc = "renumber"
    /\ multiply' = Cardinality(emptyVars)
    /\ pc' = "cnf"
    /\ UNCHANGED <<doubled, equals, repl, call, exported, filled, kept>>

ResultStep ==
    \/ Step /\ UNCHANGED <<equals, repl, call, exported, filled, kept, multiply>>
    \/ \E e \in equals : Replace(e[1], e[2])
    \/ Support \/ Export \/ Fill \/ Finish \/ Return

ResultStopped == pc \in {"done", "cnf", "abort"} /\ UNCHANGED allVars

ResultNext == ResultStep \/ ResultStopped

ResultSpec == ResultInit /\ [][ResultNext]_allVars

-----------------------------------------------------------------------------
\* The caller's empty variables matter to no other: they belong to an independent set, none
\* of which the others determine, and what the clauses say of them is only which variables
\* they stand for, variables that are in no other clause ("var x (in sampling set) was
\* replaced by var y, which became empty", arjun.cpp 549-550).
Empty ==
    /\ \A v \in samplSet : ~ Defines(OriginalModels, samplSet \ {v}, {v})
    /\ \A cl \in exported : (\E l \in cl : Seen(l)) =>
           \E v \in (1 .. N) \ emptyVars, l \in (-N .. N) \ {0} :
               /\ cl \in Equal(v, l)
               /\ Equal(v, l) = { d \in exported : \E k \in d : Var(k) = v }

Projected(models, set) == { a \cap set : a \in models }

\* main.cpp 290, "MUST MUTIPLY BY 2**": with the factor the result counts what the input
\* does, projected on the sampling set, and fill_solver_no_empty's assertion holds; for
\* empty variables the solver may have replaced any others by.
CountIsKept ==
    pc \in {"cnf", "abort"} /\ Empty =>
        /\ pc = "cnf"
        /\ Cardinality(Projected(OriginalModels, samplSet)) =
               2^multiply * Cardinality(Projected(
                   ModelsOf(filled, <<>>, N - Cardinality(emptyVars)), kept))
=============================================================================
