---------------------------- MODULE MCResultCNF ----------------------------
(***************************************************************************)
(* Every CNF over two variables and some over three, with and without a    *)
(* free variable and equal ones, and some with BNN constraints.            *)
(***************************************************************************)
EXTENDS ResultCNF

Clauses2 == { cl \in SUBSET {-2, -1, 1, 2} : cl # {} /\ ~ Tautology(cl) }

Bnn(lits, cutoff, out) == [lits |-> lits, cutoff |-> cutoff, out |-> out]

SmallInputs ==
    { [cnf |-> f, bnns |-> <<>>, sampling |-> s] :
        f \in SUBSET Clauses2, s \in { <<1, 2>>, <<2>>, <<>> } }
    \cup
    { [cnf |-> f, bnns |-> <<>>, sampling |-> <<3, 1, 2>>] :
        f \in { {}, Equal(1, 3), {{1, 2}, {-1, 3}}, Equal(1, 2) \cup {{1, 3}} } }
    \cup
    { [cnf |-> Equal(1, 2) \cup Equal(2, -3), bnns |-> <<>>, sampling |-> s] :
        s \in { <<1>>, <<3, 2>> } }
    \cup
    { [cnf |-> f, bnns |-> b, sampling |-> s] :
        f \in { {}, {{1, 2}}, {{-1}} },
        s \in { <<2, 1>>, <<1, 1>> },
        b \in { <<Bnn(<<1, 2>>, 2, 0)>>, <<Bnn(<<1, -2>>, 1, 0)>>, <<Bnn(<<1>>, 1, 2)>>,
                <<Bnn(<<1, 2>>, 1, -2), Bnn(<<-1, -2>>, 1, 0)>> } }

=============================================================================
