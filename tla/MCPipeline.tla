----------------------------- MODULE MCPipeline -----------------------------
(***************************************************************************)
(* Small inputs for Pipeline.                                              *)
(***************************************************************************)
EXTENDS Pipeline, SmallProblems

\* With and without the preprocessing.
TwoConfs == { [simp |-> s, pre_simplify |-> FALSE, backbone_simpl |-> FALSE,
               probe_based |-> s] : s \in BOOLEAN }

AllSettings == [guess : BOOLEAN, forward : BOOLEAN, backward : BOOLEAN]

\* Negating a variable everywhere changes nothing the phases see, so the empty assignment
\* may be taken to be a model, if there is one.
Formulas ==
    { {} } \cup { m \in AllFormulas3 :
        /\ {} \in m
        /\ \/ Cardinality(m) = 2
           \/ Cardinality(m) = 3 /\ {1} \in m
           \/ Cardinality(m) = 4 /\ \A a, b \in m : Xor(a, b) \in m }

WithGroup(m) == Input(m, <<1, 3, 2>>, << <<2, 1>> >>, 3)
GoodInputs == { Input(m, <<1, 3, 2>>, <<>>, 3) : m \in Formulas }
              \cup { WithGroup(m) : m \in Formulas }

\* Calls that time out, with a group.
TimedInputs ==
    { [WithGroup(m) EXCEPT !.mayTimeOut = TRUE] : m \in { n \in Formulas : Cardinality(n) = 2 } }

\* Inputs the parser lets through and the rounds are not written for: no group is declared,
\* so that var2var_group is empty; groups overlap (the last one wins), or reach beyond the
\* sampling set.
Both == {{}, {1}}
Malformed ==
    { [Input(Both, <<1, 2>>, <<>>, 2) EXCEPT !.groupOf = <<>>],
      Input(Both, <<1, 3>>, << <<1, 2>> >>, 3),
      Input(Both, <<3, 1>>, << <<2, 1>> >>, 3),
      Input(Both, <<1, 2, 3>>, << <<1, 2>>, <<2, 3>> >>, 3),
      Input(Both, <<3, 2, 1>>, << <<1, 2>>, <<2, 3>> >>, 3) }

SmallInputs == GoodInputs \cup TimedInputs \cup Malformed
=============================================================================
