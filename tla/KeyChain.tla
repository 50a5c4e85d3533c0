------------------------------ MODULE KeyChain ------------------------------
(***************************************************************************)
(* The BIP-44 keys of bip_44.go: derivation from a master key, the         *)
(* descriptor that carries the public half of a change key, the key made   *)
(* of a descriptor, and siblings.                                          *)
(*                                                                         *)
(* The chain code of an extended key goes with its point and is left out;  *)
(* so is the fingerprint, which only a descriptor's text carries.          *)
(***************************************************************************)
EXTENDS Bip44, TaprootKeys

CONSTANTS
  NoSecret,               (* what a neutered key holds for a private key   *)
  ChildTweak(_, _),       (* BIP-32: of the parent's point and a path      *)
  HardenedTweak(_, _),    (* of the parent's private key and a path        *)
  BadChild                (* <<point, path>> of the children that          *)
                          (* hdkeychain refuses to derive                  *)

ASSUME ChainAssumption ==
  /\ NoSecret \notin Scalar
  /\ \A P \in Point, path \in Uint32 : ChildTweak(P, path) \in Scalar
  /\ \A k \in Scalar, path \in Uint32 : HardenedTweak(k, path) \in Scalar
  /\ 44 < HardenedKeyStart

NewMaster(seed) == [secret |-> seed, point |-> Pub(seed)]
Neuter(key) == [secret |-> NoSecret, point |-> key.point]
IsPrivate(key) == key.secret # NoSecret

CanDerive(key, path) ==
  /\ <<key.point, path>> \notin BadChild
  /\ isHardened(path) => IsPrivate(key)

(* ExtendedKey.Derive, where CanDerive.                                    *)
Derive(key, path) ==
  LET secret == Add(key.secret, IF isHardened(path) THEN HardenedTweak(key.secret, path)
                                                    ELSE ChildTweak(key.point, path))
  IN  IF IsPrivate(key)
      THEN [secret |-> secret, point |-> Pub(secret)]
      ELSE [secret |-> NoSecret, point |-> AddPoint(key.point, Pub(ChildTweak(key.point, path)))]

-----------------------------------------------------------------------------
(* A Bip44Key is its change key, its index key, the four path items above  *)
(* the index, and the index.                                               *)
ParentPath == <<PathHardened(44), PathHardened(0), PathHardened(0), Path(0)>>
Purpose(seed) == Derive(NewMaster(seed), ParentPath[1])
Coin(seed) == Derive(Purpose(seed), ParentPath[2])
Account(seed) == Derive(Coin(seed), ParentPath[3])
ChangeKey(seed) == Derive(Account(seed), ParentPath[4])

CanCreateBip44Key(seed, index) ==
  /\ CanDerive(NewMaster(seed), ParentPath[1])
  /\ CanDerive(Purpose(seed), ParentPath[2])
  /\ CanDerive(Coin(seed), ParentPath[3])
  /\ CanDerive(Account(seed), ParentPath[4])
  /\ CanDerive(ChangeKey(seed), index)

getBip44Key(seed, startIndex) ==
  [ changeKey |-> ChangeKey(seed),
    indexKey  |-> Derive(ChangeKey(seed), Path(startIndex)),
    parents   |-> ParentPath,
    index     |-> Path(startIndex) ]

(* A path item as it is written, 44' or 0, and as it is read back.         *)
getDerivationValue(path) ==
  [ value    |-> IF isHardened(path) THEN path - HardenedKeyStart ELSE path,
    hardened |-> isHardened(path) ]
parsePath(item) == IF item.hardened THEN PathHardened(item.value) ELSE Path(item.value)

GetDescriptor(seed) ==
  [ derivation |-> [level \in 1 .. 4 |-> getDerivationValue(ParentPath[level])],
    key        |-> Neuter(ChangeKey(seed)) ]

(* ImportFromTaprootDescriptorForParentWithoutChecksum.                    *)
ImportDescriptor(descriptor, startIndex) ==
  [ changeKey |-> descriptor.key,
    indexKey  |-> Derive(descriptor.key, Path(startIndex)),
    parents   |-> [level \in 1 .. 4 |-> parsePath(descriptor.derivation[level])],
    index     |-> Path(startIndex) ]

(* Mutant: the sibling is derived from the index key.                      *)
Mutant_DeriveNextSibling(key) ==
  [ changeKey |-> key.changeKey,
    indexKey  |-> Derive(key.indexKey, NextSibling(key.index)),
    parents   |-> key.parents,
    index     |-> NextSibling(key.index) ]

DeriveNextSibling(key) ==
  [ changeKey |-> key.changeKey,
    indexKey  |-> Derive(key.changeKey, NextSibling(key.index)),
    parents   |-> key.parents,
    index     |-> NextSibling(key.index) ]
CanDeriveNextSibling(key) == CanDerive(key.changeKey, NextSibling(key.index))

=============================================================================
