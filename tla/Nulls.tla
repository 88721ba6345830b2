-------------------------------- MODULE Nulls --------------------------------
(* Two values outside every set of ids, names and data. *)
CONSTANTS
  None,   \* null: no row, no value, no locals
  Keep    \* undefined: a column that a request leaves alone
=============================================================================
