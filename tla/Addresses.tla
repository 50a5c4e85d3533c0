----------------------------- MODULE Addresses -----------------------------
(***************************************************************************)
(* A wallet is created, and one page of its addresses is asked for:        *)
(* MobileCreateNewWallet and MobileGetAddresses of mobile_leafy.go over    *)
(* GetAddresses of leafy.go.  A mnemonic is the seed it encodes.           *)
(*                                                                         *)
(* The page is made of the first private keys and of the second public     *)
(* keys, one address in a step; the second mnemonic is not at hand.        *)
(***************************************************************************)
EXTENDS KeyChain, FiniteSets

CONSTANTS
  Seeds,        (* what GenerateMnemonic may make                          *)
  Starts, Nums, (* start indices and page sizes that are asked for         *)
  MaxUint8,     (* 255: the counter of the loop is a uint8                 *)
  Malformed,    (* a mnemonic or a descriptor that cannot be read          *)
  NoAddress     (* an element of the slice that is not written yet         *)

ASSUME AddressAssumption ==
  /\ Seeds \subseteq Scalar
  /\ Starts \subseteq Int /\ Nums \subseteq Int
  /\ MaxUint8 \in Nat \ {0}
  /\ Malformed \notin Seeds
  /\ NoAddress \notin Point

VARIABLES
  pc,         (* "new", "created", "called", "page", "returned", "failed"  *)
  wallet,     (* the two seeds that were made                              *)
  request,    (* the arguments of MobileGetAddresses                       *)
  firstKey, secondKey,  (* the two Bip44Keys of the loop                   *)
  i,          (* the loop's counter, a uint8                               *)
  addresses   (* the slice, from 0                                         *)

vars == <<pc, wallet, request, firstKey, secondKey, i, addresses>>
keys == <<firstKey, secondKey>>

NoExtendedKey == [secret |-> NoSecret, point |-> NoSecret]
NoKey == [ changeKey |-> NoExtendedKey, indexKey |-> NoExtendedKey,
           parents |-> << >>, index |-> 0 ]
NoWallet == [first |-> Malformed, second |-> Malformed]
NoRequest == [ knownNetwork |-> FALSE, firstMnemonic |-> Malformed,
               secondDescriptor |-> Malformed, startIndex |-> 0, num |-> 0 ]

Init ==
  /\ pc = "new"
  /\ wallet = NoWallet
  /\ request = NoRequest
  /\ firstKey = NoKey /\ secondKey = NoKey
  /\ i = 0
  /\ addresses = << >>

Fail == pc' = "failed" /\ UNCHANGED <<wallet, request, keys, i, addresses>>

(* GetDescriptor derives the second key down to its first address.         *)
CreateNewWallet ==
  /\ pc = "new"
  /\ \E first, second \in Seeds :
       /\ CanCreateBip44Key(second, Path(0))
       /\ wallet' = [first |-> first, second |-> second]
  /\ pc' = "created"
  /\ UNCHANGED <<request, keys, i, addresses>>

(* No entropy, an unknown network, or no descriptor.                       *)
CreateFailed == pc = "new" /\ Fail

Call ==
  /\ pc = "created"
  /\ \E known \in BOOLEAN, start \in Starts, num \in Nums,
        mnemonic \in {wallet.first, Malformed},
        descriptor \in {GetDescriptor(wallet.second), Malformed} :
       request' = [ knownNetwork |-> known, firstMnemonic |-> mnemonic,
                    secondDescriptor |-> descriptor, startIndex |-> start, num |-> num ]
  /\ pc' = "called"
  /\ UNCHANGED <<wallet, keys, i, addresses>>

(* Mutant: the lower bound of the start is not checked.                    *)
Mutant_InRange ==
  /\ request.startIndex < 2 * HardenedKeyStart
  /\ request.num \in 1 .. MaxUint8
InRange ==
  /\ request.startIndex \in Uint32
  /\ request.num \in 0 .. MaxUint8
  /\ request.num >= 1

Readable == Malformed \notin {request.firstMnemonic, request.secondDescriptor}

(* Both keys of the first address can be derived.                          *)
FirstKeysExist ==
  /\ CanCreateBip44Key(request.firstMnemonic, Path(request.startIndex))
  /\ CanDerive(request.secondDescriptor.key, Path(request.startIndex))

Accepted == InRange /\ request.knownNetwork /\ Readable /\ FirstKeysExist

Refuse ==
  /\ pc = "called"
  /\ ~Accepted
  /\ Fail

BeginPage ==
  /\ pc = "called"
  /\ Accepted
  /\ firstKey' = getBip44Key(request.firstMnemonic, request.startIndex)
  /\ secondKey' = ImportDescriptor(request.secondDescriptor, request.startIndex)
  /\ i' = 0
  /\ addresses' = [n \in 0 .. request.num - 1 |-> NoAddress]
  /\ pc' = "page"
  /\ UNCHANGED <<wallet, request>>

(* Mutant: one address too many.                                           *)
Mutant_More == pc = "page" /\ i <= request.num
More == pc = "page" /\ i < request.num

(* The next siblings are derived after the last address too.               *)
SiblingsExist == CanDeriveNextSibling(firstKey) /\ CanDeriveNextSibling(secondKey)

AddAddress ==
  /\ More
  /\ SiblingsExist
  /\ addresses' = [addresses EXCEPT ![i] =
       createTweakedAddressFromPublicKey(secondKey.indexKey.point, firstKey.indexKey.secret)]
  /\ firstKey' = DeriveNextSibling(firstKey)
  /\ secondKey' = DeriveNextSibling(secondKey)
  /\ i' = (i + 1) % (MaxUint8 + 1)
  /\ UNCHANGED <<pc, wallet, request>>

NoSibling == More /\ ~SiblingsExist /\ Fail

Return ==
  /\ pc = "page"
  /\ ~More
  /\ pc' = "returned"
  /\ UNCHANGED <<wallet, request, keys, i, addresses>>

Step == Refuse \/ BeginPage \/ AddAddress \/ NoSibling \/ Return
Next == CreateNewWallet \/ CreateFailed \/ Call \/ Step

(* A call that was made runs to its return.                                *)
Spec == Init /\ [][Next]_vars /\ WF_vars(Step)

-----------------------------------------------------------------------------
(* Types of the variables; the counter keeps its width.                    *)
TypeOK ==
  /\ pc \in {"new", "created", "called", "page", "returned", "failed"}
  /\ wallet \in [first : Seeds, second : Seeds] \cup {NoWallet}
  /\ i \in 0 .. MaxUint8
  /\ firstKey.index \in Uint32 /\ secondKey.index \in Uint32
  /\ pc = "page" => DOMAIN addresses = 0 .. request.num - 1

(* The index of the address at position n of the page: a start from the    *)
(* hardened range folds back, and past the last normal index the page goes *)
(* on at 0 and not in the hardened range.                                  *)
IndexAt(n) == (request.startIndex + n) % HardenedKeyStart

PublicHalf(key) == [ changeKey |-> Neuter(key.changeKey),
                     indexKey  |-> Neuter(key.indexKey),
                     parents   |-> key.parents,
                     index     |-> key.index ]

(* Both keys of the loop are always the keys of one normal index, those    *)
(* CreateBip44Key derives from the two seeds, though the loop got there    *)
(* from sibling to sibling, and for the second without its private key.    *)
KeysInStep ==
  pc = "page" =>
    /\ firstKey = getBip44Key(wallet.first, IndexAt(i))
    /\ secondKey = PublicHalf(getBip44Key(wallet.second, IndexAt(i)))

Done == IF pc = "page" THEN 0 .. i - 1 ELSE IF pc = "returned" THEN DOMAIN addresses ELSE {}

(* The private keys that the searches of findSigningKeys and of            *)
(* findSigningRecoveryKeys derive at an index.                             *)
FirstPrivate(index) == getBip44Key(wallet.first, index).indexKey.secret
SecondPrivate(index) == getBip44Key(wallet.second, index).indexKey.secret

(* An address shown to receive coins, made without the second mnemonic, is *)
(* the address that findSigningKeys makes of both mnemonics at its index.  *)
AddressesAgree ==
  \A n \in Done :
    addresses[n] = createTweakedAddress(SecondPrivate(IndexAt(n)), FirstPrivate(IndexAt(n)))

(* Coins sent to an address of a page can be spent with the two mnemonics  *)
(* (TaprootSign with the tweaked second key and the merkle root), and      *)
(* recovered with the first mnemonic and the descriptor (TapscriptSign     *)
(* with the first key and the signing data of the leaf).                   *)
Spendable ==
  \A n \in Done :
    LET first  == FirstPrivate(IndexAt(n))
        second == SecondPrivate(IndexAt(n))
        secondPublic == Derive(GetDescriptor(wallet.second).key, IndexAt(n)).point
    IN  /\ KeyPathValid(addresses[n],
             TaprootSign(TweakedPrivateKey(second, first), GetMerkleRoot(Pub(first))))
        /\ ScriptPathValid(addresses[n],
             TapscriptSign(first, ToSign(TweakedPublicKey(secondPublic, first), Pub(first))))

(* A call ends: the counter of the loop does not wrap before its bound.    *)
Returns == pc = "called" ~> pc \in {"returned", "failed"}

=============================================================================
