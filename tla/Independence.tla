---------------------------- MODULE Independence ----------------------------
(***************************************************************************)
(* What an independent support is, over the models of the input formula.   *)
(*                                                                         *)
(* An assignment is the set of variables it makes true; a formula is the   *)
(* set of its satisfying assignments.  Projections, clauses and the SAT    *)
(* solver's internals are abstracted away: every question gismo asks its   *)
(* solver on the doubled problem is a question about a pair of models.     *)
(***************************************************************************)

\* Two assignments give the same value to every variable of C.  In the doubled
\* problem: every indicator of C is assumed false (common.cpp, add_fixed_clauses).
Agree(a, b, C) == a \cap C = b \cap C

\* C determines T: models that agree on C agree on T.  "C is an independent
\* support of T" in the paper the code follows.
Defines(models, C, T) ==
    \A a, b \in models : Agree(a, b, C) => Agree(a, b, T)

\* The satisfiability question the rounds ask: some two models agree on C, the
\* first makes v true and the second (the copy, v + orig_num_vars) makes it false.
Separable(models, C, v) ==
    \E a, b \in models : Agree(a, b, C) /\ v \in a /\ v \notin b
=============================================================================
