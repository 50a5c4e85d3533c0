---------------------------- MODULE TaprootKeys ----------------------------
(***************************************************************************)
(* The keys of a Leafy address: leafy.go's createTweakedAddress and        *)
(* createTweakedAddressFromPublicKey, the tapscript of script.go and the   *)
(* tweaks of signer.go.                                                    *)
(*                                                                         *)
(* Private keys are the scalars of any group, public keys the points of    *)
(* its image under Pub, hashes are arbitrary.  A signature is the public   *)
(* key of the private key that made it; the message that is signed is the  *)
(* business of Signing.                                                    *)
(***************************************************************************)
EXTENDS Integers

CONSTANTS
  Scalar, Point,          (* private keys, public keys                     *)
  Add(_, _), Minus(_),    (* of scalars                                    *)
  AddPoint(_, _), MinusPoint(_),
  Pub(_),                 (* the public key of a private key               *)
  EvenY(_),               (* of a point and its opposite one is even       *)
  Digest,                 (* results of the hashes                         *)
  NoScriptRoot,           (* []byte{}: the root of no script               *)
  Sha256(_),              (* computeHashRaw of a serialized private key    *)
  TapLeafHash(_),         (* of a leaf script, and so of a tree of one leaf*)
  TapTweak(_, _),         (* of an x-only key and a root, as a scalar      *)
  Timelock                (* 52560 blocks                                  *)

ASSUME GroupAssumption ==
  /\ \A k \in Scalar : Minus(k) \in Scalar /\ Pub(k) \in Point
  /\ \A k, l \in Scalar : Add(k, l) \in Scalar
  /\ \A P \in Point : MinusPoint(P) \in Point /\ EvenY(P) \in BOOLEAN
  /\ \A P, Q \in Point : AddPoint(P, Q) \in Point
  /\ \A k \in Scalar : Pub(Minus(k)) = MinusPoint(Pub(k))
  /\ \A k, l \in Scalar : Pub(Add(k, l)) = AddPoint(Pub(k), Pub(l))
  /\ \A P \in Point : EvenY(P) \/ EvenY(MinusPoint(P))

ASSUME HashAssumption ==
  /\ NoScriptRoot \in Digest
  /\ \A k \in Scalar : Sha256(k) \in Digest
  /\ \A P \in Point : TapLeafHash([key |-> P, older |-> Timelock]) \in Digest
  /\ \A P \in Point, root \in Digest : TapTweak(P, root) \in Scalar

(* An x-only public key stands for its even point.                         *)
XOnly(P) == IF EvenY(P) THEN P ELSE MinusPoint(P)

(* The private side of a tweak.                                            *)
TweakTaprootPrivKey(k, root) ==
  Add(IF EvenY(Pub(k)) THEN k ELSE Minus(k), TapTweak(XOnly(Pub(k)), root))

(* Its public side.                                                        *)
ComputeTaprootOutputKey(P, root) ==
  AddPoint(XOnly(P), Pub(TapTweak(XOnly(P), root)))

-----------------------------------------------------------------------------
(* script.go: the output of a key without a script, and the leaf           *)
(* and_v(v:pk(key),older(timelock)).                                       *)
GetTaprootAddress(P) == XOnly(ComputeTaprootOutputKey(P, NoScriptRoot))

TimelockLeaf(P) == [key |-> GetTaprootAddress(P), older |-> Timelock]

(* The builder with that one leaf: its root, its address, and what ToSign  *)
(* gives to spend the leaf.                                                *)
GetMerkleRoot(P) == TapLeafHash(TimelockLeaf(P))
OutputKey(internal, P) == ComputeTaprootOutputKey(internal, GetMerkleRoot(P))
BuilderAddress(internal, P) == XOnly(OutputKey(internal, P))
ToSign(internal, P) == [ leaf      |-> TimelockLeaf(P),
                         internal  |-> XOnly(internal),
                         oddOutput |-> ~EvenY(OutputKey(internal, P)) ]

-----------------------------------------------------------------------------
(* leafy.go: the second key is tweaked by a hash of the first private key. *)
(* With the second mnemonic, from its private key.                         *)
TweakedPrivateKey(second, first) == TweakTaprootPrivKey(second, Sha256(first))
createTweakedAddress(second, first) ==
  BuilderAddress(Pub(TweakedPrivateKey(second, first)), Pub(first))

(* With the descriptor of the second mnemonic, from its public key.        *)
(* Mutant: the key is not lifted before it is tweaked.                     *)
Mutant_TweakedPublicKey(P, first) == AddPoint(P, Pub(TapTweak(XOnly(P), Sha256(first))))
TweakedPublicKey(P, first) == ComputeTaprootOutputKey(P, Sha256(first))
createTweakedAddressFromPublicKey(P, first) ==
  BuilderAddress(TweakedPublicKey(P, first), Pub(first))

-----------------------------------------------------------------------------
(* signer.go: TaprootSign with the merkle root of a signing key, and       *)
(* TapscriptSign with the private key of a recovery.                       *)
TaprootSign(k, root) == Pub(TweakTaprootPrivKey(k, root))
(* Mutant: a tapscript is signed with the bare key.                        *)
Mutant_TapscriptSignature(k) == Pub(k)
TapscriptSignature(k) == Pub(TweakTaprootPrivKey(k, NoScriptRoot))
TapscriptSign(k, signingData) == [signer |-> TapscriptSignature(k), data |-> signingData]

(* What a node checks of an input that spends an address.                  *)
KeyPathValid(address, signer) == XOnly(signer) = address
ScriptPathValid(address, witness) ==
  LET output == ComputeTaprootOutputKey(witness.data.internal, TapLeafHash(witness.data.leaf))
  IN  /\ XOnly(output) = address
      /\ witness.data.oddOutput = ~EvenY(output)
      /\ XOnly(witness.signer) = witness.data.leaf.key

=============================================================================
