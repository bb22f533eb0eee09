-------------------------------- MODULE MCSignIn --------------------------------
(***************************************************************************)
(* Small instance of SignIn.                                               *)
(***************************************************************************)
EXTENDS SignIn, TLC

CONSTANTS t1, t2

Symmetry == Permutations(Tabs)
================================================================================
