-------------------------- MODULE MCPreprocessing --------------------------
(***************************************************************************)
(* Small inputs for Preprocessing.                                         *)
(***************************************************************************)
EXTENDS Preprocessing, SmallProblems

\* All settings that differ in what they do.
AllConfs ==
    { c \in [simp : BOOLEAN, pre_simplify : BOOLEAN, backbone_simpl : BOOLEAN,
             probe_based : BOOLEAN] :
        c.simp \/ ~ (c.pre_simplify \/ c.backbone_simpl \/ c.probe_based) }

\* Formulas over three variables, the ones with few models having many equivalences; a
\* sampling set that leaves a variable out, and one that lists a variable twice.
SmallInputs ==
    { Input(m, s, <<>>, 3) : m \in { n \in AllFormulas3 : Cardinality(n) <= 3 },
        s \in { <<3, 1, 2>>, <<2, 3>> } }
    \cup { Input({{}, {1, 2}}, <<1, 2, 1>>, <<>>, 3) }
=============================================================================
