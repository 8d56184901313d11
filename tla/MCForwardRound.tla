--------------------------- MODULE MCForwardRound ---------------------------
(***************************************************************************)
(* Small inputs for ForwardRound.                                          *)
(***************************************************************************)
EXTENDS ForwardRound, SmallProblems

Four == { m \in Spans : Cardinality(m) \in {2, 4, 8} }

\* Every candidate's group is in the sampling set.  With a window of two, some groups
\* lie in it, some outside, some across its edge.
GroupedInputs ==
    { Input(m, s, grps, 4) : m \in Four,
        s \in { <<1, 2, 3, 4>>, <<4, 2, 1, 3>> },
        grps \in { << <<1, 2>>, <<4, 3>> >>, << <<4, 1>> >>, << <<2, 3, 1>> >> } }
    \cup { Input(m, <<2, 1, 3>>, <<>>, 3) : m \in SUBSET (SUBSET (1 .. 3)) }
    \* an earlier round has taken 1 out of the sampling set: its indicator is there
    \cup { [Input(m, <<2, 3>>, << <<1, 2>> >>, 3) EXCEPT !.indicated = 1 .. 3] :
              m \in SUBSET (SUBSET (1 .. 3)) }
    \cup { Ungrouped(m, <<1, 2>>, 2) : m \in SUBSET (SUBSET (1 .. 2)) }

\* Inputs the round is not written for: no group declared; a variable of interest listed
\* twice; a group that reaches beyond the sampling set, in the window and outside it.
Both == {{}, {1}}
MalformedInputs ==
    { [Input(Both, <<1, 2>>, <<>>, 2) EXCEPT !.groupOf = <<>>],
      Input(Both, <<1, 1, 2>>, <<>>, 2),
      Input(Both, <<3, 1>>, << <<1, 2>> >>, 3),
      Input(Both, <<1, 3, 4>>, << <<2, 1>> >>, 4),
      \* an ungrouped variable that the last `c grp` line has taken from a guessed group
      [Input(Both, <<1, 2, 3>>, << <<1, 2>>, <<2, 3>> >>, 3) EXCEPT !.indicated = 1 .. 3] }

\* Three variables outside the window, more than the iterations of the run; the last test
\* made leaves some variable, or some member of a group, untested.
LongInputs ==
    { Input({{}} \cup m, <<1, 2, 3, 4, 5>>, grps, 5) :
        m \in { {{1}}, {{1, 4}, {2}}, {{1, 2, 5}, {3}} },
        grps \in { <<>>, << <<2, 1, 3>> >>, << <<1, 3>> >>, << <<3, 4>> >> } }

\* With calls that time out.
AllInputs ==
    { [p EXCEPT !.mayTimeOut = TRUE] : p \in GroupedInputs \cup MalformedInputs \cup LongInputs }

\* A group of three across the edge of a window of two.
StraddlingInputs ==
    { Input(m, s, grps, 4) : m \in { n \in Four : Cardinality(n) = 4 },
        s \in { <<1, 2, 3, 4>> }, grps \in { << <<2, 3, 1>> >> } }
=============================================================================
