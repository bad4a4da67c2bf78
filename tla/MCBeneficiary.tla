---------------------------- MODULE MCBeneficiary ----------------------------
(***************************************************************************)
(* Values for the constants of Beneficiary that a configuration file       *)
(* cannot write.                                                           *)
(***************************************************************************)
EXTENDS Beneficiary, TLC

CONSTANTS r1, r2, b1, b2, i1, i2, i3, d1, d2

Setups == {
  [configured |-> {NIUM, MONEX}, enabled |-> {MONEX}, outside |-> {}],
  [configured |-> {MONEX}, enabled |-> {MONEX}, outside |-> {i1}],
  [configured |-> {CORPAY}, enabled |-> {CORPAY}, outside |-> {i1}],
  [configured |-> {}, enabled |-> {MONEX}, outside |-> {}] }

Alike == Permutations(Request) \cup Permutations(Row)
=============================================================================
