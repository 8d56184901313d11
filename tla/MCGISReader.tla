---------------------------- MODULE MCGISReader ----------------------------
(***************************************************************************)
(* Small files for GISReader, and the lines DimacsGIS may have of them.    *)
(***************************************************************************)
EXTENDS GISReader

FewNumbers == {0, -1, 2}

AllLines ==
    { [kind |-> "header", vars |-> n] : n \in Numbers }
    \cup [kind : {"ind", "grp", "clause", "xor"}, lits : LitLists]
    \cup { [kind |-> "other"] }

\* Each value of each option; main's own strict_header with --groupind 1.
SomeOptions == { <<FALSE, TRUE>>, <<TRUE, FALSE>> }
=============================================================================
