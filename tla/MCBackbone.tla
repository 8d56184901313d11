----------------------------- MODULE MCBackbone -----------------------------
(***************************************************************************)
(* All formulas over three variables, for Backbone.                        *)
(***************************************************************************)
EXTENDS Backbone

AllFormulas == SUBSET (SUBSET Vars)
=============================================================================
