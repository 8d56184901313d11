--------------------------- MODULE MCNumberReader ---------------------------
(***************************************************************************)
(* Small files for NumberReader.                                           *)
(***************************************************************************)
EXTENDS NumberReader, SequencesExt

\* All files of up to five characters over a few digits and the signs.
SmallFiles == BoundedSeq({0, 1, 4, 9, Minus, Blank}, 5) \cup
              { <<Plus, 1, Newline>>, <<1, EOF, 1>>, <<Blank, Blank, Plus, 9>> }
=============================================================================
