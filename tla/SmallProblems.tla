--------------------------- MODULE SmallProblems ---------------------------
(***************************************************************************)
(* Small inputs of the rounds, for model checking.                         *)
(***************************************************************************)
EXTENDS Integers, FiniteSets, FiniteSetsExt, SequencesExt

\* var2var_group and var_groups as the parser builds them from `c grp` lines over n
\* variables: the last line that lists a variable wins.
Map(n, grps) ==
    [v \in 1 .. n |-> Max({0} \cup { g \in DOMAIN grps : v \in Range(grps[g]) })]

Input(m, s, grps, n) ==
    [models |-> m, sampling |-> s, varGroups |-> grps, groupOf |-> Map(n, grps),
     indicated |-> Range(s), groupIndep |-> TRUE, mayTimeOut |-> FALSE]

Ungrouped(m, s, n) == [Input(m, s, <<>>, n) EXCEPT !.groupIndep = FALSE]

\* All formulas over three variables; those over four whose models are closed under
\* symmetric difference: in these a variable is often determined by a pair of others
\* and by nothing less.
AllFormulas3 == SUBSET (SUBSET (1 .. 3))
\* Negating a variable in every model changes nothing a round sees: the empty assignment
\* may be taken to be a model, if there is one.
Normal3 == { m \in AllFormulas3 : m = {} \/ {} \in m }
Xor(a, b) == (a \ b) \cup (b \ a)
Spans == { {{}} \cup { Xor(a, b) : a, b \in g } \cup { Xor(a, Xor(b, c)) : a, b, c \in g } :
             g \in { h \in SUBSET (SUBSET (1 .. 4)) : Cardinality(h) <= 3 } }
=============================================================================
