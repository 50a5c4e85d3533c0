----------------------------- MODULE MCSigning -----------------------------
(***************************************************************************)
(* Signing with the loop bounds of the code, and inputs owned by keys on   *)
(* both sides of each boundary of the search.                              *)
(***************************************************************************)
EXTENDS Signing

CONSTANT Owners

MCInputLists == {<< >>} \cup [{1} -> Owners] \cup [{1, 2} -> Owners]

=============================================================================
