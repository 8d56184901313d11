-------------------------- MODULE MCBackwardRound --------------------------
(***************************************************************************)
(* Small inputs for BackwardRound.                                         *)
(***************************************************************************)
EXTENDS BackwardRound, SmallProblems

Inputs3 ==
    { Input(m, s, grps, 3) : m \in Normal3,
        s \in { <<1, 2, 3>>, <<3, 1, 2>>, <<2, 1>> },
        grps \in { <<>>, << <<1, 2>> >>, << <<2, 1>> >> } }
    \cup
    { Input(m, <<1, 2, 3>>, grps, 3) : m \in Normal3,
        grps \in { << <<3, 1>> >>, << <<1, 3, 2>> >>, << <<1>>, <<2, 3>> >> } }
    \cup
    \* an earlier round has taken 1 out of the sampling set: its indicator is there
    { [Input(m, <<2, 3>>, << <<1, 2>> >>, 3) EXCEPT !.indicated = 1 .. 3] :
        m \in Normal3 }
    \cup { Ungrouped(m, <<1, 2>>, 2) : m \in SUBSET (SUBSET (1 .. 2)) }

Inputs4 ==
    { Input(m, s, grps, 4) : m \in Spans,
        s \in { <<1, 2, 3, 4>>, <<4, 2, 1, 3>> },
        grps \in { << <<1, 2>>, <<3, 4>> >>, << <<1, 3>>, <<4, 2>> >>, << <<4, 1>> >>,
                   << <<2, 3, 1>> >> } }

\* example/example.gcnf, with its groups listed in the order of the file; and the same
\* formula with the variables of interest listed in other orders.
ExampleClauses ==
    { {-5, -4}, {-5, -11}, {-4, -11}, {-3, -2}, {-3, -1}, {-3, 11}, {-2, -1}, {-2, 11},
      {-1, 11}, {-6, 1, 2, 4}, {6, -1}, {6, -2}, {6, -4}, {-7, 1, 2, 3, 5}, {7, -1},
      {7, -2}, {7, -3}, {7, -5}, {-9, 1, 4, 5}, {9, -1}, {9, -4}, {9, -5},
      {-8, 2, 3, 5}, {8, -2}, {8, -3}, {8, -5}, {-10, 2, 4, 3, 5}, {10, -2}, {10, -4},
      {10, -3}, {10, -5} }
Satisfies(a, cl) == \E l \in cl : IF l > 0 THEN l \in a ELSE -l \notin a
ExampleModels == { a \in SUBSET (1 .. 11) : \A cl \in ExampleClauses : Satisfies(a, cl) }
ExampleGroups == << <<1, 6>>, <<2, 7>>, <<3, 8>>, <<4, 9>>, <<5, 10>> >>
Rotated(s, n) == SubSeq(s, n + 1, Len(s)) \o SubSeq(s, 1, n)
ExampleInputs ==
    { Input(ExampleModels, Rotated([k \in 1 .. 10 |-> k], n), ExampleGroups, 11) :
        n \in 0 .. 4 }

\* Inputs the parser lets through and the round is not written for: no group declared; a
\* variable of interest listed twice; a group that reaches beyond the sampling set, with
\* and without an indicator left by an earlier round; groups that overlap.
Both == {{}, {1}}
MalformedInputs ==
    { [Input(Both, <<1, 2>>, <<>>, 2) EXCEPT !.groupOf = <<>>],
      [Ungrouped(Both, <<1, 2>>, 2) EXCEPT !.groupOf = <<>>],
      Input(Both, <<1, 1, 2>>, <<>>, 2),
      Input(Both, <<1, 3>>, << <<1, 2>> >>, 3),
      Input(Both, <<3, 1>>, << <<1, 2>> >>, 3),
      Input({{}, {3}}, <<3, 2>>, << <<3, 1>> >>, 3),
      Input({{}, {3}}, <<3, 2>>, << <<1, 3>> >>, 3),
      Input({{}, {3}}, <<2, 3>>, << <<3, 1>> >>, 3),
      Input(Both, <<1, 2, 3>>, << <<1, 2>>, <<2, 3>> >>, 3),
      Input(Both, <<3, 2, 1>>, << <<1, 2>>, <<2, 3>> >>, 3),
      \* sorted although grouped, and 3 beyond the end of var2var_group
      [Input(Both, <<1, 2, 3>>, << <<1, 2>> >>, 3) EXCEPT
          !.groupIndep = FALSE, !.groupOf = <<1, 1>>] }

\* With time-outs: all formulas of three variables, up to negation.  Without: formulas in
\* which definability needs pairs of variables, and the example.
Timed3 == { [p EXCEPT !.mayTimeOut = TRUE] : p \in Inputs3 }
SmallInputs == Timed3 \cup Inputs4 \cup ExampleInputs \cup MalformedInputs
=============================================================================
