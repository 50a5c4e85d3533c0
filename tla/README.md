# Leafy in TLA+

Leafy is a bitcoin wallet whose coins need two keys: one mnemonic on the phone, one in a remote account. A Go
core (`leafy.go` and its neighbours) makes scripts, addresses and transactions; a Flutter application
(`frontend/lib`) holds the user's state and calls the core through native bridges. This directory models the
parts of both whose behaviour is hard to test, checks the models with TLC, and proves the main results with
TLAPS.

All Dart paths below are under `frontend/lib/`.

## 1. Inventory

| Component | State | Operations | Interacts by | What is hard | What makes it correct |
|---|---|---|---|---|---|
| Transaction creation (`leafy.go` `CreateTransaction`, 495-661) | local to a call: matched and unmatched utxos, four running amounts, two indices | selection, fee inputs, change, dust avoidance, five early returns | called by signing and by the send, recovery and liveliness pages | three loops that share a list and keep value and position apart | figures add up, no input twice, true errors, the fee rate is met, it returns |
| Key search and signing (`leafy.go` 98-365, `bip_44.go`, `signer.go`) | position in the key sequence, address-to-key map, witnesses | derive, next sibling, sign an input | called with the created transaction | `uint8` and `uint32` indices that wrap; the sequence number of a recovery is written before signing | every own utxo can be signed, each witness commits to what is sent |
| Addresses and key derivation (`leafy.go` `GetAddresses`, `bip_44.go`, `script.go`, `signer.go`, `mobile_leafy.go`) | local to a call: two keys, a `uint8` counter | make a wallet, a page of addresses | asked by the data loader, in batches | index ranges at 2^8, 2^31 and 2^32; one address derived two ways, with the second mnemonic and with its descriptor | normal, consecutive indices; both ways agree; what signs for an address is accepted |
| Inscriptions (`script.go`), social bond | none | build scripts, split data in chunks | tests | chunk boundaries | chunks join to the data |
| Data loader (`util/data_loader.dart`) | addresses, next index, paging flag, loading flag, timer | init, load, addresses, dispose, forceLoad | method channel and block explorer, calls back the wallet page | replies between awaits, a flag that keeps loads apart, paging from the end of a load | no address twice, the balance catches up, paging stops when it may |
| Send page (`create_transaction.dart`, `util/transaction.dart`) | form, `_hex`, `_signing`, `_readyToSubmit` | edits, refresh, approve, submit | two native calls, three explorer calls | answers that replace state newer than their question | what is submitted is what was approved; one button, one transaction; the button comes back |
| Wallet custody (`globals.dart`, `setup_new.dart`, `start_branch.dart`, `receive_address.dart`) | secure storage on the phone, keys handed from page to page | set up, persist, start, receive, leave a page | remote account, companion, all pages | four writes not awaited, kills between them, pages left while they write, answers of the account that are lost | one wallet's keys on a page; a wallet the account still has starts; an address is shown of a deposited wallet only |
| Remote account (`util/*remote_account.dart`, `util/google_*`) | files in Drive or iCloud | persist and read the second mnemonic and companion data | custody, recovery | eventual visibility, two writes | what is reported as stored is stored |
| Companion recovery (`social_recovery.dart`) | ephemeral keys, QR exchange | back up, restore | two phones, remote account | a page closed in the exchange, a recovery over another wallet | the restored pieces are those backed up |
| Timelock recovery (`timelock_recovery.dart`), liveliness (`liveliness.dart`, `util/bitcoin_network_connectivity.dart`) | utxos seen, block height, thresholds | reload, create, sign, submit | data loader, native calls | stale outputs, heights out of order, answers for figures between those of a recovery, outputs worth less than the fees, errors that leave `_signing` set | nothing is signed before its time, nor two recoveries at a time; the button comes back |
| Explorer and price clients (`util/mempool_space_connectivity.dart`, `util/price_service.dart`) | none | HTTP requests | loader and pages | failures, answers of different moments | - |
| Native bridges (`android/`, `ios/`) | none | one handler per call | Go core | run on the platform thread, so answer in order of the calls | - |
| Display pages and widgets, settings, website, scripts | layout | - | - | - | - |

`PROJECT.json` lists each of them with its status, and the hazards of the code line by line.

Interaction. A page calls the core through `platform.invokeMethod`; the bridges run the Go function
synchronously on the platform thread, so that calls are answered in the order in which they were made, and
Dart sees each answer as a callback. Requests to the block explorer are independent and answer in any order.
Dart runs one callback at a time and keeps no lock: whatever a handler read before an `await` may be old after
it. Inside the Go core everything is sequential.

## 2. Modules

| Module | Models | Kind |
|---|---|---|
| `Payment` | what `CreateTransaction` promises: one step from question to answer | abstract specification |
| `CoinSelection` | `CreateTransaction`, one step per loop iteration or decision | detailed specification, implements `Payment` |
| `CoinSelection_proofs` | theorems about `CoinSelection` | proofs |
| `MCCoinSelection` | all utxo lists up to a size, from a few amounts | instance for TLC |
| `Bip44` | siblings of a key and the wrap of their index | operators |
| `Signing` | `findSigningKeys`, `findSigningRecoveryKeys`, `CreateAndSign...Transaction` | detailed specification |
| `Signing_proofs` | theorems about `Signing` | proofs |
| `MCSigning` | lists of inputs for TLC | instance for TLC |
| `TaprootKeys` | the tweaks, the timelock leaf, both ways to an address, both ways to sign for it | operators over any group and any hashes |
| `KeyChain` | BIP-44 derivation, descriptors and the keys read from them, siblings | operators |
| `Addresses` | making a wallet, and a page of its addresses (`GetAddresses` with its bindings) | detailed specification |
| `Addresses_proofs` | theorems about the three | proofs |
| `MCAddresses` | a group of eleven elements with its hashes, indices around every boundary | instance for TLC |
| `Backup` | what custody promises: deposit, keep, share, show | abstract specification |
| `Custody` | setup, start, storage, Google Drive, companion, pages that are left, loss of either phone and of the account's content | detailed specification, implements `Backup` |
| `Custody_proofs` | theorems about `Custody`, and the refinement | proofs |
| `MCCustody` | two wallets and their symmetry | instance for TLC |
| `DataLoader` | the data loader, the calls it makes and the page it calls back | specification, checked as it is |
| `DataLoader_proofs` | theorems about `DataLoader` | proofs |
| `SendPage` | the send page, its native calls and the explorer's verdict | specification, checked as it is |
| `SendPage_proofs` | theorems about `SendPage` | proofs |
| `MCSendPage` | which amounts are too much at which fee rate | instance for TLC |
| `TimelockRecovery` | the recovery page, its calls, the chain and the mempool | specification |
| `TimelockRecovery_proofs` | theorems about `TimelockRecovery` | proofs |
| `MCTimelockRecovery` | what two outputs can pay for | instance for TLC |

### CoinSelection

A wallet is a list of utxos, given by its running totals, so that the value of a run of utxos is a difference
and needs no recursion; a utxo is its position. `txIn` is `matchedUtxos` and then `msgTx.TxIn`; `feeIndex` and
`index` count what the fee loop and the dust loop took from `unmatched`. `pc` says which loop runs: `start`
(checks), `select`, `settle` (the fee is computed), `fee`, `change` (dust), `built` or `failed`.
`CheckFeeRate` .. `Build` are the function from top to bottom; each early return is an action of its own that
ends in `Fail`. The fee rate is a float in the code: here an integer over `RateScale`, and `FeeFor` is the
same ceiling. Weights of inputs and outputs are constants. A script that does not decode (`undecodable`) ends
the call with an error wherever an input is added.

### Signing

The loop `for j := uint8(i*100); j < uint8(i*100)+100; j++` is `First`, `Last` (both modulo `ByteSize`) and
`NextBatch`; `sibling` is the key that the walk has reached, `mapping` the keys found. An input is its owner,
the index of a key of the wallet, or `Foreign`. A signature is what it commits to: the key, the sequence
number the input had when it was signed, and the path it spends. `BeginSearch` includes the rewriting of the
sequence numbers that precedes it.

### Addresses

`TaprootKeys` has private keys as scalars and public keys as points of any group that `GroupAssumption`
describes, and any hashes. What a node does with a signature is `KeyPathValid` and `ScriptPathValid`;
`createTweakedAddress` and `createTweakedAddressFromPublicKey` are the two ways of `leafy.go` to one address.
`KeyChain` derives keys along BIP-44; `BadChild` are the children that `hdkeychain` refuses, and a descriptor
carries the public half of a change key. `Addresses` is a wallet made by `CreateNewWallet` and one call of
`GetAddresses`: `Refuse` (range checks of the binding, unknown network, unreadable arguments, a key that
cannot be derived), `BeginPage`, one `AddAddress` per turn of the loop with its `uint8` counter `i`,
`NoSibling` and `Return`.

### Custody

A wallet stands for its first mnemonic, its second mnemonic and the second's descriptor; a text is a wallet
(or a word) and the password it is sealed with. `stored` is the secure storage, `pending` the writes to it
that nobody awaits; `Flush` makes the first of them, and reads are queued behind them, so that an action that
reads the storage waits for an empty queue. `page` says what is shown and how far it has got: `backingUpApp`,
`backingUpFolder`, `backingUpUser` and `backingUpLocally` are the four steps of a setup, `backupLost` one
whose remote half ended in an exception that nobody catches, `stuck` a start that goes on loading. The account
is two places, the application directory (`appFiles`) and the folder of the owner (`userFolder`, `userFiles`).
The companion is what it holds locally, in its own account, and the copy sealed for the page it has open
(`offer`). `Kill` may come between any two steps and drops the queue; `LosePhone` and `LoseCompanion` are the
losses of the README's table, `ClearAppData` the owner who removes an app's hidden data, and `DeleteUserData`
one who deletes what is in the account's folder, or the folder: with both directories gone the start finds
nothing for its wallet (`LoadNothing`) and goes to the timelock recovery, as `start_branch.dart:155-157` has
it.

`Leave` is the back button, on any page. Dart futures do not end with the page that began them: a setup that
is left while it backs up moves from `page` to `left`, where `Proceeds` takes it through the same steps, and
`PersistLocallyUnmounted` is its end, `setup_new.dart:98` without what `if (mounted)` guards (the flag of the
companion is not reset and no page opens). Meanwhile the owner may start, set up another wallet, or open one.
`LeaveDeciphering` is the recovery page left for the wallet below it while it deciphers, whose
`persistLocally` (`social_recovery.dart:791`) is not guarded either.

`deleted`, `overtaken` and `cut` are history variables: the wallets whose second seed the owner deleted,
whether a page that was left has written its wallet behind the keys in hand, and whether the phone was killed
between the writes of a wallet over another.

### TimelockRecovery

`height`, `tip`, `blocks` and `mempool` are the chain: where each output confirms, how high it is, what is
spent. The page has its outputs with the status they were first seen with (`utxos`), a height (`shown`, 0
while there is none), and the form. `DataLoaderCallback` takes any height since the page was opened, as the
loader's requests are answered in any order, and makes the figures again as the code does. `Recover` makes and
signs, the native calls are answered in order (`FiguresReply`, `CreateReply`, `SignReply`, `CallFails`), and
`Accepted` and `Refused` are the explorer's answer; what is accepted replaces the recoveries it conflicts
with. `dropped` is a history variable, as in `SendPage`.

The page always asks to spend everything (`spendAll = 0`, `timelock_recovery.dart:436`, `461`), and
`CreateTransaction` checks no funds then (`leafy.go:542`, `556`, `582-584`): the destination gets what is left
after the fee, below nothing if need be. So no creation and no signing of this page is refused for its funds,
and lines 444-452 never run. A recovery that does not pay for its fees is signed and submitted; only the
explorer refuses it, which is what `Affordable` is for.

### DataLoader

A step is what runs between two awaits: `Start`, `Dispose`, `Reload` (timer or `forceLoad`), `AddressesReply`
and `AddressesFail` (the native call), then one action for each reply a load waits for (`MempoolReply`,
`UnusedReply`, `UsedReply`, `TransactionsReply`) and `LoadFail` for an error at any of these points. `EndLoad`
is the tail of `_loadAddressInfoForAddresses`, which belongs to the step of the last reply. `Receive` and
`Replaced` are the network: an address gets its first transaction, or loses its only one to a replacement. The
page keeps what the callback gave it (`page`). `overlapped` is a history variable.

### SendPage

The four inputs of the form, the fee refresh (`Refresh`), the button (`Approve`, `Submit`), the answers of the
native side (`CreateReply`, `SignReply`, `SignRefused`, `CallFails`) and of the explorer (`Accepted`,
`FeeTooLow`, `Refused`). A transaction is the form it was made from, unsigned or signed. "insufficient funds"
is a figure when creating and an error when signing. `changed` and `dropped` are history variables: the form
was edited or refreshed since `Approve`, and an answer was lost for the page because nothing handles its
error.

## 3. Runs

| Run | Question | Result |
|---|---|---|
| `coin_selection` | do the figures, the errors, the loops and the promise hold? | holds |
| `coin_selection_dup` | is every input there once (`leafy.go:621-622`)? | violated |
| `coin_selection_rate` | does the finished transaction pay the fee rate (`leafy.go:497-498`)? | violated |
| `signing` | are keys found, and signatures made, as far as the search reaches? | holds |
| `signing_thousand` | does the search reach 1000 addresses (`leafy.go:174`, `322`)? | violated |
| `addresses` | are the addresses of a page consecutive, the same for both ways to make them, and spendable, up to the boundaries of the indices? | holds |
| `data_loader` | is the list sound while calls do not overlap, does the page catch up? | holds |
| `data_loader_enough` | does paging go on until enough unused addresses are found (`data_loader.dart:158`)? | violated |
| `send_page` | does what is submitted match the page, one at a time, and does the button come back? | holds |
| `send_page_signed` | is what is shown as "Signed Transaction" signed (`create_transaction.dart:399`)? | violated |
| `custody` | does a wallet stay in one piece and within reach, and does custody keep its promise, wherever the app is killed and whatever page is left? | holds |
| `timelock` | is no recovery signed too early, nor two at a time, and does the button come back? | holds |

What the violations show:

- **`NoDuplicateInputs`**: with a change that is dust after the fee loop added inputs, the dust loop begins
  again at the first unmatched utxo and spends it twice. `DuplicatesNeedBothLoops`, proved, says that this is
  the only way.
- **`FeeMeetsRate`**: the fee is computed before fee inputs, dust inputs and the change output exist; a `TODO`
  in the code says so.
- **`UpToAllAddresses`**: `uint8(i*100)+100` wraps for the batches 2, 5 and 7, which are empty; 700 keys are
  tried. `OutcomeIsReach`, proved, makes it exact, and `ReachOfTheCode` computes the 700.
- **`PagesUntilEnoughFound`**: a load ends while a `getAddresses` is still under way and asks for the same
  batch again; one address without transactions then counts twice.
- **`ShownAsSigned`**: an edit during signing queues a create call behind the signature, and its answer
  overwrites the signed transaction while the button says Submit. `ReadyMatchesPage`, which holds, says that
  this needs a change of the form, or a refresh, after Approve.

What the conditions in the other properties say about the code:

- `OneWallet`, `WrittenBehind` and `mixed` in `Backup` except writes of a wallet over another that were killed
  halfway (`cut`), be it by a recovery or by a setup that was left: what is stored is then a first mnemonic of
  one wallet and a descriptor of another, and each start takes them for one.
- `WrittenBehind` and `mixed` also except a page that was left and has written its wallet since the keys in
  hand were read or written (`overtaken`). An owner who leaves a setup while it backs up and sets up a second
  wallet has the first one's late `persistLocally` replace the stored wallet behind the open page, which then
  shows addresses of a wallet that the phone does not keep. Its keys are of one wallet (`OneWallet`) and its
  second seed was deposited (`ShownAreDeposited`, proved without the exception); it is gone from the phone
  when the page closes.
- `KnownWalletStarts`: with the second seed in the account's folder, a start that found that wallet on the
  phone does not hang, and goes to the timelock recovery only if another wallet was made, whose file may be
  the first one found (a `TODO` at `google_drive_remote_account.dart:46`). An owner who has deleted the second
  seed does go there, the route of `start_branch.dart:16`, or gets `stuck` on the folder without it:
  `files.first` throws a `StateError`, which is not an `Exception`. A start with nothing on the phone can get
  `stuck` without any deletion, after a setup killed between making the folder and writing the file; the next
  setup meets the same error.
- `TimelockRecovery.ButtonComesBack` excepts a press of Recover before the fees are loaded
  (`_recommendedFees!` throws after `_signing` was set) and a creation or a signing that throws. `OneAtATime`
  makes it exact: the button is away just as long as a recovery is being created, signed or submitted, or
  since one of these answers was lost.
- `OnlyMature` does not say that the outputs are unspent: `_utxos` only grows, so that an output spent by an
  earlier recovery stays, and a second recovery conflicts with the first: it replaces it in the mempool, or is
  refused once the first is in a block.

Read in the code while modelling, and part of the models without a property of their own: a future that nobody
awaits loses the exception whose message says "please retry" (`setup_new.dart:295`, from `:72` and `:172`), so
that the page stays at `backupLost`; when the sign-in to the account fails the start page pops itself, where
`start_branch.dart:16` announces the timelock recovery, which only an account without the seed leads to; a
recovery "without password" of a sealed copy stores a wallet that no password opens; `Done` sets the flag of a
companion whether or not it has scanned, and a setup that was left does not reset it, so that the receive page
may open for a wallet that no companion has.

### Bounds

- `coin_selection`: up to 4 utxos of {60, 200, 331, 600} sats, requests {0, 100, 500, 1000}, rates {0, 1, 2.5}
  sat/vByte, one undecodable script. The real weights and dust limit are used, so that fees are around 60 to
  500 sats and lie between the amounts. Four utxos let all three loops run in one call, which is what a
  doubled input needs; one amount equals the dust limit plus one.
- `signing`: the code's bounds (10 batches of 100, 256 values of the counter, a hardened range made small but
  beyond any sibling reached), up to two inputs, with owners at both ends of the first batch, of the reach and
  of the thousand. The search is deterministic, so that these are all its cases.
- `data_loader`: batches of two, stop at two, two pending calls and one failure; three addresses may have
  transactions. A batch and a second one make the paging continue and stop; `MaxPending` only keeps the timer
  and the page's start waiting, so one reply can still make the second call. `data_loader_enough` takes
  batches of three, stops at two and needs no failure. The code's sizes are five and three: there the same
  behaviour takes eight used addresses among the first ten and a `getAddresses` slower than a whole load.
- `addresses`: two seeds, integers modulo 11 as the group, a hardened range that begins at 64 and a counter up
  to 4, so that starts and lengths on both sides of 0, 2^8, 2^31 and 2^32 all occur; one index has no key.
  About half of the points are odd, which is what makes the two ways to an address differ if a lift is
  forgotten.
- `custody`: two wallets, which files, copies, leftovers and late writes can be confused with, and one
  password, which separates sealed from plain and right from wrong. No definition tells the wallets apart, so
  that they are symmetric. One setup at a time may be left (a second is then finished on its page), and what
  was left writes while at most `MaxWrites` = 6 writes are queued, room for a whole wallet with its flag: late
  writes come before, between and behind those of an open page. A deciphering that was left ends before the
  owner's next step, and no owner deletes the folder between the two steps of a setup that need it. 1.7
  million states, up to symmetry; it takes about two minutes.
- `timelock`: two outputs, of which one may be old enough and the other not; two levels of which one is only
  affordable with both. Blocks 2 to 4 with a timelock of 2: an output can ripen while a call is under way,
  confirm after the page has seen it, and the page's height can be two behind. Two calls, one failure. 136,290
  states.
- `send_page`: two addresses, the amounts nothing, everything and too much, two fee rates (typed as text, what
  everything was at the lower rate is too much at the other), two pending calls, one failure. Two calls are
  what it takes for one to be answered after another that it contradicts. 367,103 states.

Deadlock is not checked where the modelled thing ends: a function returns, a page closes or is left.

### Fairness

- `CoinSelection`, `Signing`: weak fairness of `Next`. A Go call runs until it returns.
- `DataLoader`: weak fairness of the page's start, the timer (`Timer.periodic`), and of each reply (a call is
  answered or fails). Failures, the network's changes and leaving the page are not fair. `PageCatchesUp` is
  stated for behaviours in which the chain stops changing.
- `SendPage`: weak fairness of replies only. The user need not do anything.
- `TimelockRecovery`: weak fairness of the native side and of the explorer, each of which answers or throws.
  The fees may never be loaded, nothing need be mined, and the user need not do anything.
- `Addresses`: weak fairness of the steps of a call. Nobody need call.
- `Custody`: none. Its properties are safety, and nothing in it must happen: an account may never answer, nor
  a page that was left write.

## 4. Proofs

The theorems are proved for all values of the constants under the named assumptions of the modules, which TLC
evaluates on the instances.

**CoinSelection_proofs.** `SelectionInv` is inductive. Amounts alone are not: the guard of the dust loop is on
`unmatchedAmount` while its body indexes by `index`, so that the invariant ties each amount to a difference of
totals (`matchedAmount` to the utxos matched, `unmatchedAmount` to those after the loops' indices). From it
follow the types, that the dust loop stays in range although its guard does not mention the length, that a
doubled input needs both loops, and that otherwise inputs are a prefix of the list and pay exactly outputs and
fee. `PromiseKept` is the refinement of `Payment`. Assumptions: running totals start at 0 and do not decrease,
weights and the dust limit are naturals (a transaction without inputs weighs more than 0), `RateScale` is
positive.

Three theorems say what a run cannot, or says only by its counterexample. `FeeShortByWhatWasAdded` bounds the
violation of `FeeMeetsRate`: the fee is computed for the matched inputs, is never more than the rate asks of
the final transaction, and is short of it by at most the fee of the inputs and the change output that were
added afterwards (`FeeGrows` on the rounding up of a quotient is its lemma). `InputsAreNeeded`: without its
last input each loop would not have reached its mark. `LoopsAreBounded`: the number of steps left, `WorkLeft`,
is a natural that every step decreases.

**Signing_proofs.** `SigningInv` says how `sibling`, `batch` and `j` go together: `sibling` is the number of
keys of the non-empty batches before `batch` plus the place in this one. It gives the exact reach of the
search, and that signatures commit to the sequence numbers sent.
`ReachOfTheCode` instantiates it. Assumptions: a batch is not empty and fits the counter, the search ends
before the hardened range, so that an index does not wrap.

`SearchAndSigningEnd`: the keys, batches, inputs and phases left are naturals, one of which every step
decreases while the others stay. That the keys left do so rests on the invariant: the counter of a batch
wraps, but the address found at each step is a new one.

**DataLoader_proofs.** `LoaderInv` adds to the properties what makes them inductive: `Running` (the loading
flag is set while a load is under way, and a set flag without one is due to a failure) and `Walk` (a load has
put the first addresses of its copy, each once, into those with and those without transactions). Its parts
need each other: that the page counts an address once needs the walk, which needs the order of the list, which
needs that a call without overlap asks for what comes next. Assumptions: both amounts are positive.

`LoadPassesOverNone`: what the loop of a load is past is in one of its two lists. With it and the walk,
`PageShowsTheChain`: what a load knows of the chain stays true for as long as the chain stands still, and when
it ends the page counts exactly the used ones of the list it copied and offers an unused one of it, or none.
That is what `PageCatchesUp` needs of each load; that a load begins and ends is fairness.
`StopsPagingWithEnough` proves `PagingStops` from the order of the list: entries without repetition give as
many different addresses as the list is long.

**Addresses_proofs.** `TweakCommutes`: the private and the public side of a tweak give one key, whichever of a
point and its opposite is even; `ImportIsPublicHalf`: a key read from the descriptor is the public half of the
key derived from the seed, and so is its sibling. The invariant `IInv` adds to `KeysInStep` and
`AddressesAgree` where the loop is (`PageBounds`), so that the counter does not wrap, and what the request
holds. `Spendable` follows from the addresses and the laws of the group: it needs no induction of its own.
Assumptions: the laws of a group with an even point in each pair, nothing of the hashes but their types, and
44 below the hardened range.

`SpecEachIndexOnce` has a hypothesis of its own, which the code satisfies: the widest page (255) is not longer
than the normal range (2^31). Then no index comes twice, also on a page that goes from the last normal index
on to 0. `PageOfAddressesEnds` is the bound on the steps of a call; it rests on `CounterStep`, that the
counter does not wrap.

**SendPage_proofs.** The native side answers in the order of the calls. `PageInv` says what follows: at most
one transaction is on its way to be signed or submitted (`Alone`), while nobody touches the page the call that
signs is the last (`SignLast`), so no later answer can overwrite its own, and what is ready is what was signed
(`SignedShown`). Any number of calls, inputs and failures.

`SpecSubmitsWhatIsShown` carries `ReadyMatchesPage` on to the explorer: what is being submitted from such a
page is what was ready. `SpecAnswerAwaited` and `LostAnswerLocks` are about the button: while it is away
somebody owes the page an answer, unless one was lost or a call failed (the exceptions of `ButtonComesBack`);
and a lost answer was the only one due, after which no step whatever gives the button back. The exceptions of
the liveness property are therefore not transient: they leave a page that can only be left. One more
assumption: null is not a transaction.

**TimelockRecovery_proofs.** A height that the page goes by is late or right, never early, and a status is a
height at which the output did confirm, or none; so what is old enough by them is old enough on the chain.
What is old enough once remains so, since the tip only grows, so that the calls, the submissions and the
mempool stay mature however long they wait. Assumptions: blocks are not undone, and `TypeOK`'s bound on
heights.

`SpecOneAtATime` is inductive with the types. The queue keeps its order, so that the answer of a creation
turns one call that was pressed for into another, at the end, and all else the page asks for is for figures,
whose answers leave `_signing` alone; `AppendPressed` and `TailPressed` say what the two ends of the queue do
to the calls pressed for. Since nothing is pressed for while one is under way, the last answer is the one that
gives the button back.

**Custody_proofs.** `CustodyInv` is inductive; the properties alone are not, since they speak of pages and of
what will be stored, and a step of the storage takes one value of four. Its parts: the queue consists of whole
wallets and flags, in order, whoever queued them (`InOrder`); what is stored is a whole wallet, or the
beginning of the one whose next value heads the queue, or was cut (`Behind`); every text outside a setup is of
a wallet that was deposited (`Deposited`); a setup holds one plain wallet, and its later steps, on its page or
left, have their folder and their file behind them (`SetupMemory`, `SetupSteps`); a copy is of one wallet,
sealed with one password (`CopiesWhole`); and a page holds what is stored once the queue is written, unless it
was overtaken (`MemoryKept`). A late write only appends a whole wallet to the queue, so that it disturbs
`MemoryKept` alone, which is what `overtaken` records. The lemmas on `Settled` (a key has the value of its
last write) let a step that queues and a step that writes be treated apart. `SpecKeepsPromise` is the
refinement of `Backup`: a write keeps a deposited wallet or none, a companion gets a deposited one or none, an
address is shown of the wallet in the storage, a kill or a late write parts page and phone or changes nothing,
and all other steps stutter. Assumptions: the constants that stand for none are not among the wallets, words
and passwords.

Two more follow from `CustodyInv`. `SpecStoredIsWhole`: what the phone keeps at rest has both texts alike and
its second seed deposited, and its account sealed as they are, or plain after a recovery "without password" of
a sealed copy (the wallet of section 3 that no password opens; it is the only exception).
`SpecShownAreDeposited`: an address is shown only of wallets whose second seed was deposited in the account's
folder, also after writes that were cut or came behind the page, where the refinement promises nothing;
without those it is the wallet the phone keeps.

Only model-checked: liveness (`Returns`, `PageCatchesUp`, `ButtonComesBack`), because TLAPS does not reason
about fairness and ENABLED. What is proved of them is the safety they rest on: for `Returns` that every step
decreases what is left to do, for `ButtonComesBack` that what is awaited is pending, for `PageCatchesUp` that
a load that ends shows the chain. Every other property of the runs that pass is a theorem. Properties that
only the proofs state (the variants, `FeeFallsShortByExtra`, `NoNeedlessInput`, `NonePassedOver`,
`ShowsTheChain`, `EachIndexOnce`, `SubmitsWhatIsShown`, `AnswerAwaited`, `StoredIsWhole`, `ShownAreDeposited`)
are defined next to their theorems.

## 5. Not modelled

- Cryptography: Schnorr signatures, RSA and AES are ideal, and the group and the hashes are constants. A copy
  of a wallet sealed for a page cannot be opened elsewhere.
- JSON, string and unit conversion at the bindings; layout and wording of pages.
- In `DataLoader`, prices and block heights, which share no state with the loading of addresses.
  `TimelockRecovery` takes the heights as the loader may deliver them.
- In `SendPage` and `TimelockRecovery`, the pages in their role of replacing a transaction, and a user who
  leaves the page while a call is under way. (`transaction.dart:151` opens the recovery page again
  without the arguments that it casts.)
- In `TimelockRecovery`, another copy of the wallet that spends meanwhile, and reorganisations of the chain.
- In `Custody`, iCloud and the choice between the two accounts: what its polling sees is decided by the
  operating system. (Its flag `_loggingInRemoteAccount` is not reset when the login fails,
  `social_recovery.dart:441-463`.) Nor the companion lists of an account (a second wallet with a companion id
  that is taken replaces the first's copy), and the chunks of a QR code. `DecryptAndSave` and
  `LeaveDeciphering` take what is behind the `await` of `social_recovery.dart:791` as one step with it. Two
  setups that look for the folder at the same moment could make two of one name; here looking and making are
  one step.
- Errors of libraries that the inputs of the app do not produce: a script for an address that was decoded, and
  serializing a transaction into memory (`leafy.go:520-527`, `647-649`), deriving a child of a private key and
  signing with it (`131`, `179-200`, `327-349`). `ImportDescriptor` refuses a malformed descriptor where
  `bip_44.go:195-205` slices without a check and keeps only the last error of parsing a path; the app passes
  none but those that `GetDescriptor` made.
- The page of the liveliness updates: its button hides until its one chain of calls is over, and an update is
  a transaction as in `CoinSelection` and `Signing`. The test against the timelock, which it shares, is in
  `TimelockRecovery`.
- Inscriptions and the social bond, which no call of the application makes; the price service, the native
  bridges and the display, which keep no state. What the bridges guarantee, answers in the order of the calls,
  is in the models of the pages.

## 6. Plan

Done: `CoinSelection` with `Payment`, `Signing` with `Bip44`, `Addresses` with `TaprootKeys` and `KeyChain`,
`DataLoader`, `SendPage`, `Custody` with `Backup`, `TimelockRecovery`, and the proofs of all of them. What
would come next:

1. The two pages as replacements of a transaction (`SendPage` with a fixed form; the recovery page at twice
   the rate of an earlier one), and leaving a page while a call is under way.
2. `LivelinessPage`, composed with the loader's heights: no output passes the timelock unseen while the owner
   follows the reminders.
3. The iCloud half of `Custody`, if its polling is given a contract.
4. `Chunks`: splitting and joining of inscriptions and QR codes, against a reference definition.
5. A proof that joins `TimelockRecovery` with `Signing`: that what is mature and signed is accepted.
