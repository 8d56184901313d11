---------------------------- MODULE MCGuessRound ----------------------------
(***************************************************************************)
(* Small inputs for GuessRound; preprocessing may leave an empty sampling  *)
(* set.                                                                    *)
(***************************************************************************)
EXTENDS GuessRound, SmallProblems

Four == { m \in Spans : Cardinality(m) = 4 }

SmallInputs ==
    { Input(m, <<1, 2, 3, 4>>, <<>>, 4) : m \in Four }
    \cup { Input(m, s, <<>>, 3) : m \in AllFormulas3, s \in { <<1, 2, 3>>, <<3, 1>>, <<2>>, <<>> } }
=============================================================================
