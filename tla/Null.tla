-------------------------------- MODULE Null ---------------------------------
(* What a column or a variable without a value holds.                         *)

CONSTANT None
=============================================================================
