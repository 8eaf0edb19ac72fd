----------------------------- MODULE MCGasService -----------------------------
(***************************************************************************)
(* Instance of GasService for TLC: the owner and the operators are any of  *)
(* the accounts, and the count overflows when every account is one.        *)
(***************************************************************************)
EXTENDS GasService, TLC

Symmetry == Permutations(Accounts)
=============================================================================
