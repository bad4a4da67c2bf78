------------------------------ MODULE MCPayment ------------------------------
(***************************************************************************)
(* Values for the constants of Payment that a configuration file cannot    *)
(* write.                                                                  *)
(***************************************************************************)
EXTENDS Payment, TLC

Symmetry == Permutations(User) \cup Permutations(Thread)
=============================================================================
