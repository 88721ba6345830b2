--------------------------- MODULE MCFormFieldDate ---------------------------
\* A month of three days, which lacks the fourth, and one of a single day, which lacks
\* the second too.
EXTENDS FormFieldDateProps, TLC
CONSTANTS p, q
MCStart == (0 :> 0) @@ (1 :> 3) @@ (2 :> 4)
Alike == Permutations(Replicas)
=============================================================================
