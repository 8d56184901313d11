---------------------------- MODULE MCDimacsGIS ----------------------------
(***************************************************************************)
(* Small files for DimacsGIS.                                              *)
(***************************************************************************)
EXTENDS DimacsGIS

Header(n) == [kind |-> "header", vars |-> n]
Line(kind, lits) == [kind |-> kind, lits |-> lits]

\* A header, a group, a clause.
FewLines ==
    { Header(3), Line("grp", <<1, 2>>), Line("clause", <<1>>), Line("clause", <<2, 4>>) }

AllOptions == BOOLEAN \X BOOLEAN
=============================================================================
