-------------------------- MODULE Addresses_proofs --------------------------
(***************************************************************************)
(* Proofs about Addresses, for every group, every hash, every pair of      *)
(* seeds and every width of the indices: both ways to an address agree,    *)
(* what signs for an address is accepted, and a page of addresses is made  *)
(* of consecutive normal indices, each once, in a bounded number of steps. *)
(***************************************************************************)
EXTENDS Addresses, TLAPS

-----------------------------------------------------------------------------
(* Tweaks.                                                                 *)
LEMMA XOnlyPoint ==
  ASSUME NEW P \in Point
  PROVE  XOnly(P) \in Point /\ XOnly(XOnly(P)) = XOnly(P)
BY GroupAssumption DEF XOnly

(* The tweaked private key is that of the tweaked public key.              *)
THEOREM TweakCommutes ==
  ASSUME NEW k \in Scalar, NEW root \in Digest
  PROVE  /\ TweakTaprootPrivKey(k, root) \in Scalar
         /\ Pub(TweakTaprootPrivKey(k, root)) = ComputeTaprootOutputKey(Pub(k), root)
<1> DEFINE even == IF EvenY(Pub(k)) THEN k ELSE Minus(k)
           tweak == TapTweak(XOnly(Pub(k)), root)
<1>1. Pub(k) \in Point /\ even \in Scalar /\ Pub(even) = XOnly(Pub(k))
  BY GroupAssumption DEF XOnly
<1>2. tweak \in Scalar
  BY <1>1, XOnlyPoint, HashAssumption
<1>3. Add(even, tweak) \in Scalar /\ Pub(Add(even, tweak)) = AddPoint(Pub(even), Pub(tweak))
  BY <1>1, <1>2, GroupAssumption
<1> QED
  BY <1>1, <1>3 DEF TweakTaprootPrivKey, ComputeTaprootOutputKey

(* An output key is a point.                                               *)
LEMMA OutputKeyPoint ==
  ASSUME NEW P \in Point, NEW root \in Digest
  PROVE  ComputeTaprootOutputKey(P, root) \in Point
BY XOnlyPoint, GroupAssumption, HashAssumption DEF ComputeTaprootOutputKey

(* The output key depends on the x coordinate of the internal key alone.   *)
LEMMA OutputKeyOfXOnly ==
  ASSUME NEW P \in Point, NEW root \in Digest
  PROVE  ComputeTaprootOutputKey(XOnly(P), root) = ComputeTaprootOutputKey(P, root)
BY XOnlyPoint DEF ComputeTaprootOutputKey

(* The leaf holds the key of the plain address, and its hash is a digest.  *)
LEMMA LeafDigest ==
  ASSUME NEW P \in Point
  PROVE  /\ TimelockLeaf(P).key = XOnly(ComputeTaprootOutputKey(P, NoScriptRoot))
         /\ GetMerkleRoot(P) \in Digest
<1>1. GetTaprootAddress(P) \in Point
  BY OutputKeyPoint, XOnlyPoint, HashAssumption DEF GetTaprootAddress
<1> QED
  BY <1>1, HashAssumption DEF TimelockLeaf, GetMerkleRoot, GetTaprootAddress

(* leafy.go 692-716: an address made of the descriptor of the second       *)
(* mnemonic is the address made of the mnemonic itself.                    *)
THEOREM SameAddress ==
  ASSUME NEW first \in Scalar, NEW second \in Scalar
  PROVE  /\ Pub(TweakedPrivateKey(second, first)) = TweakedPublicKey(Pub(second), first)
         /\ createTweakedAddress(second, first)
              = createTweakedAddressFromPublicKey(Pub(second), first)
<1>1. Sha256(first) \in Digest
  BY HashAssumption
<1>2. Pub(TweakedPrivateKey(second, first)) = TweakedPublicKey(Pub(second), first)
  BY <1>1, TweakCommutes DEF TweakedPrivateKey, TweakedPublicKey
<1> QED
  BY <1>2 DEF createTweakedAddress, createTweakedAddressFromPublicKey

(* The coins of an address move with both mnemonics, and after the         *)
(* timelock with the first one and the second's descriptor.                *)
THEOREM AddressSpendable ==
  ASSUME NEW first \in Scalar, NEW second \in Scalar
  PROVE  LET address == createTweakedAddressFromPublicKey(Pub(second), first) IN
         /\ KeyPathValid(address,
              TaprootSign(TweakedPrivateKey(second, first), GetMerkleRoot(Pub(first))))
         /\ ScriptPathValid(address,
              TapscriptSign(first, ToSign(TweakedPublicKey(Pub(second), first), Pub(first))))
<1> DEFINE internal == TweakedPublicKey(Pub(second), first)
           root == GetMerkleRoot(Pub(first))
           address == createTweakedAddressFromPublicKey(Pub(second), first)
           data == ToSign(internal, Pub(first))
           witness == TapscriptSign(first, data)
<1>1. Pub(first) \in Point /\ Pub(second) \in Point /\ Sha256(first) \in Digest
  BY GroupAssumption, HashAssumption
<1>2. root \in Digest
  BY <1>1, LeafDigest
<1>3. internal \in Point
  BY <1>1, OutputKeyPoint DEF TweakedPublicKey
<1>4. address = XOnly(ComputeTaprootOutputKey(internal, root))
  BY DEF createTweakedAddressFromPublicKey, BuilderAddress, OutputKey
<1>5. KeyPathValid(address, TaprootSign(TweakedPrivateKey(second, first), root))
  <2>1. TweakedPrivateKey(second, first) \in Scalar
    BY <1>1, TweakCommutes DEF TweakedPrivateKey
  <2>2. Pub(TweakedPrivateKey(second, first)) = internal
    BY SameAddress
  <2>3. TaprootSign(TweakedPrivateKey(second, first), root)
          = ComputeTaprootOutputKey(internal, root)
    BY <1>2, <2>1, <2>2, TweakCommutes DEF TaprootSign
  <2> QED
    BY <1>4, <2>3 DEF KeyPathValid
<1>6. ScriptPathValid(address, witness)
  <2>1. /\ witness.data = data
        /\ witness.signer = TapscriptSignature(first)
    BY DEF TapscriptSign
  <2>2. /\ data.leaf = TimelockLeaf(Pub(first))
        /\ data.internal = XOnly(internal)
        /\ data.oddOutput = ~EvenY(ComputeTaprootOutputKey(internal, root))
    BY DEF ToSign, OutputKey
  <2>3. TapLeafHash(data.leaf) = root
    BY <2>2 DEF GetMerkleRoot
  <2>4. ComputeTaprootOutputKey(data.internal, TapLeafHash(data.leaf))
          = ComputeTaprootOutputKey(internal, root)
    BY <1>2, <1>3, <2>2, <2>3, OutputKeyOfXOnly
  <2>5. TapscriptSignature(first) = ComputeTaprootOutputKey(Pub(first), NoScriptRoot)
    BY TweakCommutes, HashAssumption DEF TapscriptSignature
  <2>6. XOnly(witness.signer) = data.leaf.key
    BY <1>1, <2>1, <2>2, <2>5, LeafDigest
  <2> HIDE DEF data, witness
  <2> QED
    BY <1>4, <2>1, <2>2, <2>4, <2>6 DEF ScriptPathValid
<1> QED
  BY <1>5, <1>6

-----------------------------------------------------------------------------
(* Derivation.                                                             *)
PrivateKeyOf(key) == key.secret \in Scalar /\ key = NewMaster(key.secret)

(* Paths stay uint32, and a path made normal stays what it is.             *)
LEMMA PathsInRange ==
  /\ HardenedKeyStart \in Nat \ {0}
  /\ \A path \in Uint32 : /\ Path(path) \in 0 .. HardenedKeyStart - 1
                           /\ PathHardened(path) \in Uint32
                           /\ Path(Path(path)) = Path(path)
  /\ 0 \in Uint32 /\ 44 \in Uint32
BY HardenedAssumption, ChainAssumption DEF Uint32, Path, PathHardened, isHardened

(* A child of a private key is a private key.                              *)
LEMMA DerivePrivate ==
  ASSUME NEW key, PrivateKeyOf(key), NEW path \in Uint32
  PROVE  PrivateKeyOf(Derive(key, path))
<1> DEFINE tweak == IF isHardened(path) THEN HardenedTweak(key.secret, path)
                                        ELSE ChildTweak(key.point, path)
           secret == Add(key.secret, tweak)
<1>1. key.secret \in Scalar /\ key.secret # NoSecret /\ key.point = Pub(key.secret)
  BY ChainAssumption DEF PrivateKeyOf, NewMaster
<1>2. tweak \in Scalar
  BY <1>1, ChainAssumption, GroupAssumption
<1>3. secret \in Scalar
  BY <1>1, <1>2, GroupAssumption
<1>4. Derive(key, path) = [secret |-> secret, point |-> Pub(secret)]
  BY <1>1 DEF Derive, IsPrivate
<1> QED
  BY <1>3, <1>4 DEF PrivateKeyOf, NewMaster

(* BIP-32: a normal child of the public half of a key is the public half   *)
(* of its child.                                                           *)
LEMMA DeriveNeutered ==
  ASSUME NEW key, PrivateKeyOf(key), NEW path \in Uint32, ~isHardened(path)
  PROVE  Derive(Neuter(key), path) = Neuter(Derive(key, path))
<1> DEFINE tweak == ChildTweak(key.point, path)
           secret == Add(key.secret, tweak)
<1>1. /\ key.secret \in Scalar /\ key.secret # NoSecret /\ key.point = Pub(key.secret)
      /\ key = [secret |-> key.secret, point |-> key.point]
  BY ChainAssumption DEF PrivateKeyOf, NewMaster
<1>2. tweak \in Scalar
  BY <1>1, ChainAssumption, GroupAssumption
<1>3. Pub(secret) = AddPoint(key.point, Pub(tweak))
  BY <1>1, <1>2, GroupAssumption
<1>4. Neuter(key) = [secret |-> NoSecret, point |-> key.point]
  BY <1>1 DEF Neuter
<1>5. Derive(Neuter(key), path) = [secret |-> NoSecret, point |-> AddPoint(key.point, Pub(tweak))]
  BY <1>4 DEF Derive, IsPrivate
<1>6. Derive(key, path) = [secret |-> secret, point |-> Pub(secret)]
  BY <1>1 DEF Derive, IsPrivate
<1> QED
  BY <1>3, <1>5, <1>6 DEF Neuter

(* The parent of a wallet's index keys is a private key.                   *)
LEMMA ChangeKeyPrivate ==
  ASSUME NEW seed \in Scalar
  PROVE  PrivateKeyOf(ChangeKey(seed))
<1>1. \A level \in 1 .. 4 : ParentPath[level] \in Uint32
  <2>1. ParentPath[1] \in Uint32 /\ ParentPath[2] \in Uint32
    BY PathsInRange DEF ParentPath
  <2>2. ParentPath[3] \in Uint32 /\ ParentPath[4] \in Uint32
    BY PathsInRange DEF ParentPath, Uint32
  <2> QED
    BY <2>1, <2>2
<1>2. PrivateKeyOf(NewMaster(seed))
  BY DEF PrivateKeyOf, NewMaster
<1>3. PrivateKeyOf(Purpose(seed))
  BY <1>1, <1>2, DerivePrivate DEF Purpose
<1>4. PrivateKeyOf(Coin(seed))
  BY <1>1, <1>3, DerivePrivate DEF Coin
<1>5. PrivateKeyOf(Account(seed))
  BY <1>1, <1>4, DerivePrivate DEF Account
<1> QED
  BY <1>1, <1>5, DerivePrivate DEF ChangeKey

(* A path item is read back from its text as what it was.                  *)
LEMMA ParsedPath ==
  ASSUME NEW path \in Uint32
  PROVE  parsePath(getDerivationValue(path)) = path
<1> DEFINE item == getDerivationValue(path)
<1>1. path \in Int /\ HardenedKeyStart \in Int /\ path < 2 * HardenedKeyStart /\ path >= 0
  BY HardenedAssumption DEF Uint32
<1>2. CASE isHardened(path)
  <2>1. item.hardened /\ item.value = path - HardenedKeyStart
    BY <1>2 DEF getDerivationValue
  <2>2. parsePath(item) = PathHardened(path - HardenedKeyStart)
    BY <2>1 DEF parsePath
  <2> QED
    BY <1>1, <1>2, <2>2 DEF PathHardened, isHardened
<1>3. CASE ~isHardened(path)
  <2>1. ~item.hardened /\ item.value = path
    BY <1>3 DEF getDerivationValue
  <2>2. parsePath(item) = Path(path)
    BY <2>1 DEF parsePath
  <2> QED
    BY <1>3, <2>2 DEF Path
<1> QED
  BY <1>2, <1>3

(* bip_44.go 188-277: the key made of a descriptor is the public half of   *)
(* the key the descriptor was made of, at any index, with its path.        *)
THEOREM ImportIsPublicHalf ==
  ASSUME NEW seed \in Scalar, NEW index \in Uint32
  PROVE  ImportDescriptor(GetDescriptor(seed), index) = PublicHalf(getBip44Key(seed, index))
<1> DEFINE descriptor == GetDescriptor(seed)
<1>1. Path(index) \in Uint32 /\ ~isHardened(Path(index))
  BY PathsInRange DEF Uint32, isHardened
<1>2. descriptor.key = Neuter(ChangeKey(seed))
  BY DEF GetDescriptor
<1>3. Derive(descriptor.key, Path(index)) = Neuter(Derive(ChangeKey(seed), Path(index)))
  BY <1>1, <1>2, ChangeKeyPrivate, DeriveNeutered
<1>4. [level \in 1 .. 4 |-> parsePath(descriptor.derivation[level])] = ParentPath
  <2>1. \A level \in 1 .. 4 : ParentPath[level] \in Uint32
    <3>1. ParentPath[1] \in Uint32 /\ ParentPath[2] \in Uint32
      BY PathsInRange DEF ParentPath
    <3>2. ParentPath[3] \in Uint32 /\ ParentPath[4] \in Uint32
      BY PathsInRange DEF ParentPath, Uint32
    <3> QED
      BY <3>1, <3>2
  <2>2. \A level \in 1 .. 4 : descriptor.derivation[level] = getDerivationValue(ParentPath[level])
    BY DEF GetDescriptor
  <2>3. \A level \in 1 .. 4 : parsePath(descriptor.derivation[level]) = ParentPath[level]
    BY <2>1, <2>2, ParsedPath
  <2>4. ParentPath = [level \in 1 .. 4 |-> ParentPath[level]]
    BY DEF ParentPath
  <2> QED
    BY <2>3, <2>4
<1> HIDE DEF descriptor
<1> QED
  BY <1>2, <1>3, <1>4 DEF ImportDescriptor, PublicHalf, getBip44Key, descriptor

-----------------------------------------------------------------------------
(* Indices of a page.                                                      *)
LEMMA ModNext ==
  ASSUME NEW b \in Nat \ {0}, NEW x \in Nat
  PROVE  /\ x % b \in 0 .. b - 1
         /\ (x + 1) % b = IF (x % b) + 1 = b THEN 0 ELSE (x % b) + 1
<1>1. x \div b \in Nat /\ x % b \in 0 .. b - 1 /\ x = b * (x \div b) + (x % b)
  OBVIOUS
<1>2. PICK q \in Nat, r \in 0 .. b - 1 : x = b * q + r /\ x % b = r
  BY <1>1
<1>3. CASE r + 1 < b
  <2>1. x + 1 = b * q + (r + 1) /\ r + 1 \in 0 .. b - 1
    BY <1>2, <1>3
  <2> QED
    BY <1>2, <1>3, <2>1
<1>4. CASE r + 1 = b
  <2>1. x + 1 = b * (q + 1) + 0
    BY <1>2, <1>4
  <2> QED
    BY <1>2, <1>4, <2>1
<1> QED
  BY <1>2, <1>3, <1>4

(* A remainder below twice the divisor is one subtraction at most.         *)
LEMMA ModSmall ==
  ASSUME NEW b \in Nat \ {0}, NEW x \in 0 .. 2 * b - 1
  PROVE  x % b = IF x < b THEN x ELSE x - b
<1>1. CASE x < b
  BY <1>1
<1>2. CASE x >= b
  <2>1. x - b \in 0 .. b - 1 /\ x = b * 1 + (x - b)
    BY <1>2
  <2> QED
    BY <2>1
<1> QED
  BY <1>1, <1>2

(* The index after n siblings, wrapped at the hardened boundary.           *)
LEMMA PageIndices ==
  ASSUME NEW start \in Uint32, NEW n \in Nat
  PROVE  /\ (start + n) % HardenedKeyStart \in 0 .. HardenedKeyStart - 1
         /\ Path(start) = (start + 0) % HardenedKeyStart
         /\ NextSibling((start + n) % HardenedKeyStart) = (start + n + 1) % HardenedKeyStart
<1>1. HardenedKeyStart \in Nat \ {0} /\ start + n \in Nat /\ start \in Nat
  BY HardenedAssumption DEF Uint32
<1>2. PICK x \in 0 .. HardenedKeyStart - 1 : x = (start + n) % HardenedKeyStart
  BY <1>1, ModNext
<1>3. Path(start) = (start + 0) % HardenedKeyStart
  <2>1. start \in 0 .. 2 * HardenedKeyStart - 1 /\ start + 0 = start
    BY <1>1 DEF Uint32
  <2>2. start % HardenedKeyStart
          = IF start < HardenedKeyStart THEN start ELSE start - HardenedKeyStart
    BY <1>1, <2>1, ModSmall
  <2> QED
    BY <1>1, <2>1, <2>2 DEF Path, isHardened
<1>4. NextSibling(x) = IF x + 1 = HardenedKeyStart THEN 0 ELSE x + 1
  <2>1. x + 1 \in 0 .. 2 * HardenedKeyStart - 1 /\ 2 * HardenedKeyStart \in Nat \ {0}
    BY <1>1
  <2>2. Wrapped(x + 1) = x + 1
    BY <2>1 DEF Wrapped
  <2> QED
    BY <1>1, <2>2 DEF NextSibling, Path, isHardened
<1>5. (start + n + 1) % HardenedKeyStart = IF x + 1 = HardenedKeyStart THEN 0 ELSE x + 1
  BY <1>1, <1>2, ModNext
<1> QED
  BY <1>2, <1>3, <1>4, <1>5

(* The sibling of a key is the key of the next index, and the sibling of   *)
(* its public half is the public half of that one.                         *)
LEMMA SiblingIsNextKey ==
  ASSUME NEW seed \in Scalar, NEW index \in 0 .. HardenedKeyStart - 1,
         NEW next \in 0 .. HardenedKeyStart - 1, next = NextSibling(index)
  PROVE  /\ DeriveNextSibling(getBip44Key(seed, index)) = getBip44Key(seed, next)
         /\ DeriveNextSibling(PublicHalf(getBip44Key(seed, index)))
              = PublicHalf(getBip44Key(seed, next))
<1> DEFINE key == getBip44Key(seed, index)
           nextKey == getBip44Key(seed, next)
<1>1. Path(index) = index /\ Path(next) = next /\ ~isHardened(next) /\ next \in Uint32
  BY HardenedAssumption DEF Path, isHardened, Uint32
<1>2. /\ key.changeKey = ChangeKey(seed) /\ key.parents = ParentPath /\ key.index = index
      /\ nextKey = [ changeKey |-> ChangeKey(seed), indexKey |-> Derive(ChangeKey(seed), next),
                      parents |-> ParentPath, index |-> next ]
  BY <1>1 DEF getBip44Key
<1>3. Derive(Neuter(ChangeKey(seed)), next) = Neuter(Derive(ChangeKey(seed), next))
  BY <1>1, ChangeKeyPrivate, DeriveNeutered
<1> HIDE DEF key, nextKey
<1> QED
  BY <1>2, <1>3 DEF DeriveNextSibling, PublicHalf, key, nextKey

(* Both halves of an index key are those of one private key.               *)
LEMMA IndexKeyPrivate ==
  ASSUME NEW seed \in Scalar, NEW index \in 0 .. HardenedKeyStart - 1
  PROVE  /\ getBip44Key(seed, index).indexKey.secret \in Scalar
         /\ PublicHalf(getBip44Key(seed, index)).indexKey.point
              = Pub(getBip44Key(seed, index).indexKey.secret)
<1>1. Path(index) \in Uint32
  BY HardenedAssumption DEF Path, isHardened, Uint32
<1>2. PrivateKeyOf(Derive(ChangeKey(seed), Path(index)))
  BY <1>1, ChangeKeyPrivate, DerivePrivate
<1>3. getBip44Key(seed, index).indexKey = Derive(ChangeKey(seed), Path(index))
  BY DEF getBip44Key
<1>4. \A key : PublicHalf(key).indexKey.point = key.indexKey.point
  BY DEF PublicHalf, Neuter
<1>5. \A key : PrivateKeyOf(key) => key.secret \in Scalar /\ key.point = Pub(key.secret)
  BY DEF PrivateKeyOf, NewMaster
<1> QED
  BY <1>2, <1>3, <1>4, <1>5

-----------------------------------------------------------------------------
(* The inductive invariant: what a call was made with, how far its loop    *)
(* is, and the two properties about keys and addresses.                    *)
WalletMade == pc \notin {"new", "failed"} => wallet \in [first : Seeds, second : Seeds]

Called ==
  pc \notin {"new", "created", "failed"} =>
    /\ request.startIndex \in Int /\ request.num \in Int
    /\ request.firstMnemonic \in {wallet.first, Malformed}
    /\ request.secondDescriptor \in {GetDescriptor(wallet.second), Malformed}

PageBounds ==
  pc \in {"page", "returned"} =>
    /\ request.startIndex \in Uint32
    /\ request.num \in 1 .. MaxUint8
    /\ DOMAIN addresses = 0 .. request.num - 1
    /\ i \in 0 .. request.num
    /\ pc = "returned" => i = request.num

IInv == TypeOK /\ WalletMade /\ Called /\ PageBounds /\ KeysInStep /\ AddressesAgree

USE DEF Fail

(* The invariant holds at the start.                                       *)
LEMMA InitIInv == Init => IInv
<1> SUFFICES ASSUME Init PROVE IInv
  OBVIOUS
<1>1. TypeOK
  BY HardenedAssumption, AddressAssumption DEF Init, TypeOK, NoKey, Uint32
<1>2. KeysInStep /\ AddressesAgree
  BY DEF Init, KeysInStep, AddressesAgree, Done
<1>3. WalletMade /\ Called /\ PageBounds
  BY DEF Init, WalletMade, Called, PageBounds
<1> QED
  BY <1>1, <1>2, <1>3 DEF IInv

(* Nothing is due while no page is made.                                   *)
LEMMA BeforePage ==
  ASSUME IInv, pc' \in {"created", "called", "failed"}, UNCHANGED <<keys, i, addresses>>,
         wallet' \in [first : Seeds, second : Seeds] \cup {NoWallet},
         WalletMade', Called'
  PROVE  IInv'
<1>1. TypeOK'
  BY DEF IInv, TypeOK, keys
<1>2. KeysInStep' /\ AddressesAgree' /\ PageBounds'
  BY DEF KeysInStep, AddressesAgree, Done, PageBounds
<1> QED
  BY <1>1, <1>2 DEF IInv

(* An error that ends the call keeps the invariant.                        *)
LEMMA FailStep ==
  ASSUME IInv, Fail
  PROVE  IInv'
<1>1. wallet' \in [first : Seeds, second : Seeds] \cup {NoWallet}
  BY DEF IInv, TypeOK
<1>2. WalletMade' /\ Called'
  BY DEF WalletMade, Called
<1> QED
  BY <1>1, <1>2, BeforePage DEF keys

(* So does making the wallet.                                              *)
LEMMA CreateStep ==
  ASSUME IInv, CreateNewWallet
  PROVE  IInv'
<1>1. wallet' \in [first : Seeds, second : Seeds]
  BY DEF CreateNewWallet
<1>2. WalletMade' /\ Called' /\ pc' = "created"
  BY <1>1 DEF WalletMade, Called, CreateNewWallet
<1> QED
  BY <1>1, <1>2, BeforePage DEF CreateNewWallet

(* So does a call, with arguments the wallet gave out.                     *)
LEMMA CallStep ==
  ASSUME IInv, Call
  PROVE  IInv'
<1>1. wallet' = wallet /\ pc' = "called" /\ pc = "created"
  BY DEF Call
<1>2. wallet \in [first : Seeds, second : Seeds]
  BY <1>1 DEF IInv, WalletMade
<1>3. PICK known \in BOOLEAN, start \in Starts, num \in Nums,
           mnemonic \in {wallet.first, Malformed},
           descriptor \in {GetDescriptor(wallet.second), Malformed} :
        request' = [ knownNetwork |-> known, firstMnemonic |-> mnemonic,
                     secondDescriptor |-> descriptor, startIndex |-> start, num |-> num ]
  BY DEF Call
<1>4. start \in Int /\ num \in Int
  BY AddressAssumption
<1>5. Called'
  BY <1>1, <1>3, <1>4 DEF Called
<1>6. WalletMade'
  BY <1>1, <1>2 DEF WalletMade
<1> QED
  BY <1>1, <1>2, <1>5, <1>6, BeforePage DEF Call

(* The first keys of a page are those of its start index.                  *)
LEMMA BeginPageStep ==
  ASSUME IInv, BeginPage
  PROVE  IInv'
<1>1. /\ pc = "called" /\ pc' = "page" /\ wallet' = wallet /\ request' = request /\ i' = 0
      /\ addresses' = [n \in 0 .. request.num - 1 |-> NoAddress]
      /\ firstKey' = getBip44Key(request.firstMnemonic, request.startIndex)
      /\ secondKey' = ImportDescriptor(request.secondDescriptor, request.startIndex)
  BY DEF BeginPage
<1>2. wallet \in [first : Seeds, second : Seeds]
  BY <1>1 DEF IInv, WalletMade
<1>3. wallet.first \in Scalar /\ wallet.second \in Scalar
  BY <1>2, AddressAssumption
<1>4. InRange /\ Readable
  BY DEF BeginPage, Accepted
<1>5. request.startIndex \in Uint32 /\ request.num \in 1 .. MaxUint8
  BY <1>4, AddressAssumption DEF InRange
<1>6. request.firstMnemonic = wallet.first /\ request.secondDescriptor = GetDescriptor(wallet.second)
  BY <1>1, <1>4 DEF IInv, Called, Readable
<1>7. Called' /\ WalletMade'
  BY <1>1, <1>2 DEF IInv, Called, WalletMade
<1>8. PageBounds'
  BY <1>1, <1>5, AddressAssumption DEF PageBounds
<1>9. KeysInStep' /\ firstKey'.index \in Uint32 /\ secondKey'.index \in Uint32
  <2> DEFINE start == request.startIndex
             index == (start + 0) % HardenedKeyStart
  <2>1. Path(start) = index /\ index \in 0 .. HardenedKeyStart - 1
    BY <1>5, PageIndices
  <2>2. Path(index) = index /\ index \in Uint32
    BY <2>1, HardenedAssumption DEF Path, isHardened, Uint32
  <2>3. IndexAt(i)' = index
    BY <1>1 DEF IndexAt
  <2>4. \A seed : getBip44Key(seed, start) = getBip44Key(seed, index)
    BY <2>1, <2>2 DEF getBip44Key
  <2>5. firstKey' = getBip44Key(wallet.first, index)
    BY <1>1, <1>6, <2>4
  <2>6. secondKey' = PublicHalf(getBip44Key(wallet.second, index))
    BY <1>1, <1>3, <1>5, <1>6, <2>4, ImportIsPublicHalf
  <2>7. \A seed : getBip44Key(seed, index).index = index
    BY <2>2 DEF getBip44Key
  <2>8. \A key : PublicHalf(key).index = key.index
    BY DEF PublicHalf
  <2> HIDE DEF index
  <2> QED
    BY <1>1, <2>2, <2>3, <2>5, <2>6, <2>7, <2>8 DEF KeysInStep
<1>10. TypeOK'
  BY <1>1, <1>2, <1>8, <1>9, AddressAssumption DEF TypeOK, PageBounds
<1>11. AddressesAgree'
  BY <1>1 DEF AddressesAgree, Done
<1> QED
  BY <1>7, <1>8, <1>9, <1>10, <1>11 DEF IInv

(* The counter of the loop does not wrap: the page is at most 255 long.    *)
LEMMA CounterStep ==
  ASSUME IInv, AddAddress
  PROVE  /\ i \in 0 .. request.num - 1 /\ request.num \in 1 .. MaxUint8
         /\ i' = i + 1
<1>1. i \in 0 .. request.num - 1 /\ request.num \in 1 .. MaxUint8
  BY AddressAssumption DEF AddAddress, More, IInv, PageBounds
<1>2. PICK x \in 0 .. MaxUint8, b \in Nat \ {0} : x = i + 1 /\ b = MaxUint8 + 1
  BY <1>1, AddressAssumption
<1>3. x % b = x
  BY <1>2, AddressAssumption
<1> QED
  BY <1>1, <1>2, <1>3 DEF AddAddress

(* One address more, and both keys move on to the same next index.         *)
LEMMA AddAddressStep ==
  ASSUME IInv, AddAddress
  PROVE  IInv'
<1>1. /\ pc = "page" /\ pc' = "page" /\ wallet' = wallet /\ request' = request
      /\ i < request.num /\ i' = (i + 1) % (MaxUint8 + 1)
      /\ firstKey' = DeriveNextSibling(firstKey) /\ secondKey' = DeriveNextSibling(secondKey)
      /\ addresses' = [addresses EXCEPT ![i] =
           createTweakedAddressFromPublicKey(secondKey.indexKey.point, firstKey.indexKey.secret)]
  BY DEF AddAddress, More
<1>2. /\ wallet \in [first : Seeds, second : Seeds]
      /\ wallet.first \in Scalar /\ wallet.second \in Scalar
  BY <1>1, AddressAssumption DEF IInv, WalletMade
<1>3. /\ request.startIndex \in Uint32 /\ request.num \in 1 .. MaxUint8 /\ i \in 0 .. request.num - 1
      /\ DOMAIN addresses = 0 .. request.num - 1
  BY <1>1, AddressAssumption DEF IInv, PageBounds
<1>4. i' = i + 1
  BY CounterStep
<1>5. /\ IndexAt(i) \in 0 .. HardenedKeyStart - 1
      /\ IndexAt(i + 1) \in 0 .. HardenedKeyStart - 1
      /\ IndexAt(i + 1) = NextSibling(IndexAt(i))
  <2>1. i \in Nat /\ i + 1 \in Nat /\ request.startIndex + i + 1 = request.startIndex + (i + 1)
    BY <1>3 DEF Uint32
  <2> QED
    BY <1>3, <2>1, PageIndices DEF IndexAt
<1>6. /\ firstKey = getBip44Key(wallet.first, IndexAt(i))
      /\ secondKey = PublicHalf(getBip44Key(wallet.second, IndexAt(i)))
  BY <1>1 DEF IInv, KeysInStep
<1>7. /\ firstKey' = getBip44Key(wallet.first, IndexAt(i + 1))
      /\ secondKey' = PublicHalf(getBip44Key(wallet.second, IndexAt(i + 1)))
  BY <1>1, <1>2, <1>5, <1>6, SiblingIsNextKey
<1>8. KeysInStep'
  <2>1. IndexAt(i)' = IndexAt(i + 1)
    BY <1>1, <1>4 DEF IndexAt
  <2> QED
    BY <1>1, <1>7, <2>1 DEF KeysInStep
<1>9. firstKey'.index \in Uint32 /\ secondKey'.index \in Uint32
  <2>1. \A seed : \A index \in 0 .. HardenedKeyStart - 1 : getBip44Key(seed, index).index \in Uint32
    BY HardenedAssumption DEF getBip44Key, Path, isHardened, Uint32
  <2>2. \A key : PublicHalf(key).index = key.index
    BY DEF PublicHalf
  <2>3. firstKey'.index \in Uint32
    BY <1>5, <1>7, <2>1
  <2>4. secondKey'.index = getBip44Key(wallet.second, IndexAt(i + 1)).index
    BY <1>7, <2>2
  <2> QED
    BY <1>5, <2>1, <2>3, <2>4
<1>10. Called' /\ WalletMade'
  BY <1>1 DEF IInv, Called, WalletMade
<1>11. PageBounds' /\ DOMAIN addresses' = 0 .. request.num - 1
  BY <1>1, <1>3, <1>4 DEF PageBounds
<1>12. TypeOK'
  BY <1>1, <1>2, <1>3, <1>4, <1>9, <1>11, AddressAssumption DEF TypeOK
<1>13. AddressesAgree'
  <2> SUFFICES ASSUME NEW n \in Done'
               PROVE addresses'[n] = createTweakedAddress(SecondPrivate(IndexAt(n)), FirstPrivate(IndexAt(n)))'
    BY DEF AddressesAgree
  <2>1. n \in 0 .. i /\ i \in Nat
    BY <1>1, <1>3, <1>4 DEF Done
  <2>2. createTweakedAddress(SecondPrivate(IndexAt(n)), FirstPrivate(IndexAt(n)))'
          = createTweakedAddress(SecondPrivate(IndexAt(n)), FirstPrivate(IndexAt(n)))
    BY <1>1 DEF SecondPrivate, FirstPrivate, IndexAt
  <2>3. CASE n # i
    <3>1. n \in Done /\ addresses'[n] = addresses[n]
      BY <1>1, <1>3, <2>1, <2>3 DEF Done
    <3> QED
      BY <2>2, <3>1 DEF IInv, AddressesAgree
  <2>4. CASE n = i
    <3> DEFINE first == FirstPrivate(IndexAt(i))
               second == SecondPrivate(IndexAt(i))
    <3>1. first \in Scalar /\ second \in Scalar /\ secondKey.indexKey.point = Pub(second)
      BY <1>2, <1>5, <1>6, IndexKeyPrivate DEF FirstPrivate, SecondPrivate
    <3>2. firstKey.indexKey.secret = first
      BY <1>6 DEF FirstPrivate
    <3>3. addresses'[i] = createTweakedAddressFromPublicKey(Pub(second), first)
      BY <1>1, <1>3, <3>1, <3>2
    <3>4. addresses'[i] = createTweakedAddress(second, first)
      BY <3>1, <3>3, SameAddress
    <3> QED
      BY <2>2, <2>4, <3>4
  <2> QED
    BY <2>3, <2>4
<1> QED
  BY <1>8, <1>10, <1>11, <1>12, <1>13 DEF IInv

(* The page is returned as the loop leaves it.                             *)
LEMMA ReturnStep ==
  ASSUME IInv, Return
  PROVE  IInv'
<1>1. /\ pc = "page" /\ pc' = "returned" /\ ~(i < request.num)
      /\ UNCHANGED <<wallet, request, firstKey, secondKey, i, addresses>>
  BY DEF Return, More, keys
<1>2. i = request.num /\ PageBounds'
  BY <1>1 DEF IInv, PageBounds
<1>3. TypeOK' /\ WalletMade' /\ Called' /\ KeysInStep'
  BY <1>1 DEF IInv, TypeOK, WalletMade, Called, KeysInStep
<1>4. Done' = Done
  BY <1>1, <1>2 DEF IInv, PageBounds, Done
<1>5. AddressesAgree'
  BY <1>1, <1>4 DEF IInv, AddressesAgree, SecondPrivate, FirstPrivate, IndexAt
<1> QED
  BY <1>2, <1>3, <1>5 DEF IInv

(* Every step keeps the invariant.                                         *)
LEMMA NextIInv == IInv /\ [Next]_vars => IInv'
<1> SUFFICES ASSUME IInv, [Next]_vars PROVE IInv'
  OBVIOUS
<1>1. CASE CreateNewWallet
  BY <1>1, CreateStep
<1>2. CASE CreateFailed \/ Refuse \/ NoSibling
  BY <1>2, FailStep DEF CreateFailed, Refuse, NoSibling
<1>3. CASE Call
  BY <1>3, CallStep
<1>4. CASE BeginPage
  BY <1>4, BeginPageStep
<1>5. CASE AddAddress
  BY <1>5, AddAddressStep
<1>6. CASE Return
  BY <1>6, ReturnStep
<1>7. CASE UNCHANGED vars
  BY <1>7 DEF vars, IInv, TypeOK, WalletMade, Called, PageBounds, KeysInStep, AddressesAgree,
              Done, IndexAt, FirstPrivate, SecondPrivate
<1> QED
  BY <1>1, <1>2, <1>3, <1>4, <1>5, <1>6, <1>7 DEF Next, Step

(* The invariant holds in every state of GetAddresses and its caller.      *)
THEOREM SpecIInv == Spec => []IInv
BY InitIInv, NextIInv, PTL DEF Spec

(* Type correctness.                                                       *)
THEOREM SpecTypeOK == Spec => []TypeOK
<1>1. IInv => TypeOK
  BY DEF IInv
<1> QED
  BY <1>1, SpecIInv, PTL

(* Both keys of the loop are keys of the same normal index.                *)
THEOREM SpecKeysInStep == Spec => []KeysInStep
<1>1. IInv => KeysInStep
  BY DEF IInv
<1> QED
  BY <1>1, SpecIInv, PTL

(* Every address shown is the one the search for signing keys makes.       *)
THEOREM SpecAddressesAgree == Spec => []AddressesAgree
<1>1. IInv => AddressesAgree
  BY DEF IInv
<1> QED
  BY <1>1, SpecIInv, PTL

(* Coins on every address shown can be spent, and recovered.               *)
THEOREM SpecSpendable == Spec => []Spendable
<1>1. IInv => Spendable
  <2> SUFFICES ASSUME IInv, NEW n \in Done
               PROVE  LET first  == FirstPrivate(IndexAt(n))
                          second == SecondPrivate(IndexAt(n))
                          secondPublic == Derive(GetDescriptor(wallet.second).key, IndexAt(n)).point
                      IN  /\ KeyPathValid(addresses[n],
                               TaprootSign(TweakedPrivateKey(second, first), GetMerkleRoot(Pub(first))))
                          /\ ScriptPathValid(addresses[n],
                               TapscriptSign(first, ToSign(TweakedPublicKey(secondPublic, first), Pub(first))))
    BY DEF Spendable
  <2> DEFINE index == IndexAt(n)
             first == FirstPrivate(index)
             second == SecondPrivate(index)
             secondPublic == Derive(GetDescriptor(wallet.second).key, index).point
  <2>1. pc \in {"page", "returned"}
    BY DEF Done
  <2>2. wallet.first \in Scalar /\ wallet.second \in Scalar
    BY <2>1, AddressAssumption DEF IInv, WalletMade
  <2>3. n \in Nat /\ request.startIndex \in Uint32
    BY <2>1 DEF IInv, PageBounds, Done
  <2>4. index \in 0 .. HardenedKeyStart - 1
    BY <2>3, PageIndices DEF IndexAt
  <2>5. first \in Scalar /\ second \in Scalar
    BY <2>2, <2>4, IndexKeyPrivate DEF FirstPrivate, SecondPrivate
  <2>6. secondPublic = Pub(second)
    <3>1. index \in Uint32 /\ ~isHardened(index) /\ Path(index) = index
      BY <2>4, HardenedAssumption DEF Uint32, isHardened, Path
    <3>2. Derive(GetDescriptor(wallet.second).key, index) = Neuter(Derive(ChangeKey(wallet.second), index))
      BY <2>2, <3>1, ChangeKeyPrivate, DeriveNeutered DEF GetDescriptor
    <3>3. secondPublic = Derive(ChangeKey(wallet.second), index).point
      BY <3>2 DEF Neuter
    <3>4. getBip44Key(wallet.second, index).indexKey = Derive(ChangeKey(wallet.second), index)
      BY <3>1 DEF getBip44Key
    <3>5. PrivateKeyOf(Derive(ChangeKey(wallet.second), index))
      BY <2>2, <3>1, ChangeKeyPrivate, DerivePrivate
    <3> QED
      BY <3>3, <3>4, <3>5 DEF SecondPrivate, PrivateKeyOf, NewMaster
  <2>7. addresses[n] = createTweakedAddressFromPublicKey(Pub(second), first)
    BY <2>5, SameAddress DEF IInv, AddressesAgree
  <2> HIDE DEF first, second, secondPublic
  <2>8. /\ KeyPathValid(addresses[n],
             TaprootSign(TweakedPrivateKey(second, first), GetMerkleRoot(Pub(first))))
        /\ ScriptPathValid(addresses[n],
             TapscriptSign(first, ToSign(TweakedPublicKey(Pub(second), first), Pub(first))))
    BY <2>5, <2>7, AddressSpendable
  <2> QED
    BY <2>6, <2>8 DEF first, second, secondPublic
<1> QED
  BY <1>1, SpecIInv, PTL

-----------------------------------------------------------------------------
(* A multiple of the divisor and what is left, which is the remainder.     *)
LEMMA RemainderIs ==
  ASSUME NEW b \in Nat \ {0}, NEW q \in Nat, NEW r \in 0 .. b - 1
  PROVE  (b * q + r) % b = r
OBVIOUS

(* No remainder comes twice among as many numbers in a row as the divisor. *)
LEMMA RemainderOnce ==
  ASSUME NEW b \in Nat \ {0}, NEW x \in Nat, NEW d \in 1 .. b - 1
  PROVE  (x + d) % b # x % b
<1> SUFFICES ASSUME (x + d) % b = x % b PROVE FALSE
  OBVIOUS
<1>1. x \div b \in Nat /\ x % b \in 0 .. b - 1 /\ x = b * (x \div b) + (x % b)
  OBVIOUS
<1>2. PICK q \in Nat, r \in 0 .. b - 1 : x = b * q + r /\ x % b = r
  BY <1>1
<1>3. CASE r + d < b
  <2>1. x + d = b * q + (r + d) /\ r + d \in 0 .. b - 1
    BY <1>2, <1>3
  <2>2. (x + d) % b = r + d
    BY <2>1, RemainderIs
  <2> QED
    BY <1>2, <2>2
<1>4. CASE r + d >= b
  <2>1. x + d = b * (q + 1) + (r + d - b) /\ r + d - b \in 0 .. b - 1
    BY <1>2, <1>4
  <2>2. (x + d) % b = r + d - b
    <3>1. q + 1 \in Nat
      BY <1>2
    <3> QED
      BY <2>1, <3>1, RemainderIs
  <2> QED
    BY <1>2, <2>2
<1> QED
  BY <1>3, <1>4

(* No index comes twice on a page, also where it goes from the last normal *)
(* index on to 0: as the code has it, a page is of fewer addresses than    *)
(* there are normal indices.                                               *)
EachIndexOnce ==
  pc \in {"page", "returned"} =>
    \A m, n \in DOMAIN addresses : IndexAt(m) = IndexAt(n) => m = n

THEOREM SpecEachIndexOnce ==
  ASSUME MaxUint8 <= HardenedKeyStart
  PROVE  Spec => []EachIndexOnce
<1>1. IInv => EachIndexOnce
  <2> SUFFICES ASSUME IInv, pc \in {"page", "returned"}, NEW m \in DOMAIN addresses,
                      NEW n \in DOMAIN addresses, m # n
               PROVE  IndexAt(m) # IndexAt(n)
    BY DEF EachIndexOnce
  <2>1. /\ m \in 0 .. HardenedKeyStart - 1 /\ n \in 0 .. HardenedKeyStart - 1
        /\ request.startIndex \in Nat /\ HardenedKeyStart \in Nat \ {0}
    BY AddressAssumption, HardenedAssumption DEF IInv, PageBounds, Uint32
  <2>2. ASSUME NEW k \in 0 .. HardenedKeyStart - 1, NEW l \in 0 .. HardenedKeyStart - 1, k < l
        PROVE  IndexAt(k) # IndexAt(l)
    <3>1. PICK x \in Nat, d \in 1 .. HardenedKeyStart - 1 :
            x = request.startIndex + k /\ d = l - k /\ request.startIndex + l = x + d
      <4>1. request.startIndex + k \in Nat /\ l - k \in 1 .. HardenedKeyStart - 1
        BY <2>1, <2>2
      <4> QED
        BY <2>1, <4>1
    <3>2. (x + d) % HardenedKeyStart # x % HardenedKeyStart
      BY <2>1, RemainderOnce
    <3> QED
      BY <3>1, <3>2 DEF IndexAt
  <2>3. m < n \/ n < m
    BY <2>1
  <2> QED
    BY <2>1, <2>2, <2>3
<1> QED
  BY <1>1, SpecIInv, PTL

-----------------------------------------------------------------------------
(* The call ends.  What it still has to do: addresses to make, and phases  *)
(* to go through.  Until the length of the page is known it may be any.    *)
AddressesLeft ==
  IF pc = "page" THEN request.num - i
  ELSE IF pc \in {"new", "created", "called"} THEN MaxUint8 ELSE 0

PhasesLeft ==
  CASE pc = "new" -> 4 [] pc = "created" -> 3 [] pc = "called" -> 2 [] pc = "page" -> 1 [] OTHER -> 0

WorkLeft == AddressesLeft + PhasesLeft

(* Every step leaves less to do, of which there is never less than none:   *)
(* GetAddresses runs through its loop and returns, since its counter, a    *)
(* uint8, is at its bound before it wraps.                                 *)
CallEnds == [][WorkLeft' < WorkLeft /\ WorkLeft' \in Nat]_vars

LEMMA PartsLeft == IInv => AddressesLeft \in 0 .. MaxUint8 /\ PhasesLeft \in 0 .. 4
<1> SUFFICES ASSUME IInv PROVE AddressesLeft \in 0 .. MaxUint8
  BY DEF PhasesLeft
<1>1. pc = "page" => request.num - i \in 0 .. MaxUint8
  BY AddressAssumption DEF IInv, PageBounds
<1> QED
  BY <1>1, AddressAssumption DEF AddressesLeft

(* No more addresses in an earlier phase, or fewer in the same.            *)
Fewer(x, p, y, q) == (y <= x /\ q < p) \/ (y < x /\ q = p)

LEMMA LessSum ==
  ASSUME NEW x \in Nat, NEW p \in Nat, NEW y \in Nat, NEW q \in Nat, Fewer(x, p, y, q)
  PROVE  y + q < x + p
BY DEF Fewer

LEMMA LessLeft ==
  ASSUME IInv, IInv', Fewer(AddressesLeft, PhasesLeft, AddressesLeft', PhasesLeft')
  PROVE  WorkLeft' < WorkLeft
<1>1. AddressesLeft \in Nat /\ PhasesLeft \in Nat
  BY PartsLeft, AddressAssumption
<1>2. (IInv => AddressesLeft \in 0 .. MaxUint8 /\ PhasesLeft \in 0 .. 4)'
  BY PartsLeft, PTL
<1>3. AddressesLeft' \in Nat /\ PhasesLeft' \in Nat
  BY <1>2, AddressAssumption
<1>4. AddressesLeft' + PhasesLeft' < AddressesLeft + PhasesLeft
  BY <1>1, <1>3, LessSum, Zenon
<1> QED
  BY <1>4 DEF WorkLeft

LEMMA LessWork == IInv /\ IInv' /\ Next => WorkLeft' < WorkLeft
<1> SUFFICES ASSUME IInv, IInv', Next PROVE WorkLeft' < WorkLeft
  OBVIOUS
<1>1. AddressesLeft \in 0 .. MaxUint8 /\ MaxUint8 \in Nat
  BY PartsLeft, AddressAssumption
<1>2. CASE AddAddress
  <2>1. /\ i \in 0 .. request.num - 1 /\ request.num \in Nat /\ i' = i + 1
        /\ pc = "page" /\ UNCHANGED <<pc, request>>
    BY <1>2, CounterStep DEF AddAddress, More
  <2>2. AddressesLeft = request.num - i /\ AddressesLeft' = request.num - (i + 1)
    BY <2>1 DEF AddressesLeft
  <2>3. PhasesLeft' = PhasesLeft
    BY <2>1 DEF PhasesLeft
  <2> QED
    BY <2>1, <2>2, <2>3, LessLeft DEF Fewer
<1>3. CASE BeginPage
  <2>1. pc = "called" /\ pc' = "page"
    BY <1>3 DEF BeginPage
  <2>2. AddressesLeft = MaxUint8 /\ AddressesLeft' \in 0 .. MaxUint8
    <3>1. (IInv => AddressesLeft \in 0 .. MaxUint8 /\ PhasesLeft \in 0 .. 4)'
      BY PartsLeft, PTL
    <3> QED
      BY <2>1, <3>1 DEF AddressesLeft
  <2>3. PhasesLeft = 2 /\ PhasesLeft' = 1
    BY <2>1 DEF PhasesLeft
  <2> QED
    BY <1>1, <2>2, <2>3, LessLeft DEF Fewer
<1>4. CASE \/ pc = "new" /\ pc' = "created"
           \/ pc = "created" /\ pc' = "called"
  <2>1. AddressesLeft' = AddressesLeft
    BY <1>4 DEF AddressesLeft
  <2>2. PhasesLeft' < PhasesLeft
    BY <1>4 DEF PhasesLeft
  <2> QED
    BY <1>1, <2>1, <2>2, LessLeft DEF Fewer
<1>5. CASE /\ pc \in {"new", "called", "page"}
           /\ pc' \in {"returned", "failed"}
  <2>1. AddressesLeft' = 0
    BY <1>5 DEF AddressesLeft
  <2>2. PhasesLeft' < PhasesLeft
    BY <1>5 DEF PhasesLeft
  <2> QED
    BY <1>1, <2>1, <2>2, LessLeft DEF Fewer
<1> QED
  BY <1>2, <1>3, <1>4, <1>5 DEF Next, Step, CreateNewWallet, CreateFailed, Call, Refuse,
     NoSibling, Return, More

(* A wallet's page of addresses takes a bounded number of steps.           *)
THEOREM PageOfAddressesEnds == Spec => CallEnds
<1>1. IInv => WorkLeft \in Nat
  BY PartsLeft, AddressAssumption DEF WorkLeft
<1>2. IInv /\ IInv' /\ [Next]_vars => [WorkLeft' < WorkLeft /\ WorkLeft' \in Nat]_vars
  <2>1. IInv' => (WorkLeft \in Nat)'
    BY <1>1, PTL
  <2> QED
    BY <2>1, LessWork
<1> QED
  BY <1>2, SpecIInv, PTL DEF Spec, CallEnds

=============================================================================
