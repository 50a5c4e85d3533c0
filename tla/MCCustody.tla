----------------------------- MODULE MCCustody -----------------------------
(***************************************************************************)
(* Two wallets, which no definition tells apart.                           *)
(***************************************************************************)
EXTENDS Custody, TLC

Symmetry == Permutations(Wallets)

=============================================================================
