------------------------------- MODULE Bip44 -------------------------------
(***************************************************************************)
(* Path items of bip_44.go: uint32 numbers, hardened from HardenedKeyStart *)
(* on, and the key that follows another one in a derivation.               *)
(***************************************************************************)
EXTENDS Integers

CONSTANT HardenedKeyStart   (* 2^31; a uint32 is below twice that          *)

ASSUME HardenedAssumption == HardenedKeyStart \in Nat \ {0}

Uint32 == 0 .. 2 * HardenedKeyStart - 1
Wrapped(n) == n % (2 * HardenedKeyStart)

isHardened(path) == path >= HardenedKeyStart

(* A normal path item folds a hardened number back, silently.              *)
Path(path) == IF isHardened(path) THEN path - HardenedKeyStart ELSE path
PathHardened(path) == IF isHardened(path) THEN path ELSE path + HardenedKeyStart

(* DeriveNextSibling: the path item of the next key.                       *)
NextSibling(path) ==
  IF isHardened(path) THEN PathHardened(Wrapped(path + 1)) ELSE Path(Wrapped(path + 1))

=============================================================================
