------------------------- MODULE MCStatementPipeline -------------------------
(***************************************************************************)
(* Instances of StatementPipeline for TLC.  Calls and approvals are        *)
(* interchangeable; the runs that check safety only use that symmetry.     *)
(***************************************************************************)
EXTENDS StatementPipeline, TLC

Symmetry == Permutations(Calls) \cup Permutations(Approvals)
=============================================================================
