------------------------------ MODULE MCMalloc -------------------------------
(* Instances of Malloc, in units of four bytes: see the MCMalloc*.cfg.     *)
EXTENDS Malloc

OneSize == {2}
TwoSizes == {2, 3}
==============================================================================
