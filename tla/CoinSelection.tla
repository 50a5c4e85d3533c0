--------------------------- MODULE CoinSelection ---------------------------
(***************************************************************************)
(* CreateTransaction of leafy.go: how the wallet picks the utxos a         *)
(* transaction spends, what fee it pays and what change it gives back.     *)
(*                                                                         *)
(* The function is sequential; a step of this module is one iteration of   *)
(* one of its three loops (selection, fee inputs, dust avoidance) or one   *)
(* of the decisions between them.  A utxo is its position in the list      *)
(* the caller passes.  The list is given by the running totals of its      *)
(* amounts, so that the value of a run of utxos is a difference of two     *)
(* totals.                                                                 *)
(***************************************************************************)
EXTENDS Integers, Sequences

CONSTANTS
  Wallets,       (* the utxo lists a caller may pass, see IsWallet         *)
  Requests,      (* amounts to send, in sats; 0 asks to spend everything   *)
  FeeRates,      (* fee rates, in sat/vByte times RateScale                *)
  RateScale,     (* fee rates are floats in the code: FeeRate / RateScale  *)
  BaseWeight,    (* weight of a transaction without inputs, one output     *)
  MarkerWeight,  (* segwit marker and flag, present once there is an input *)
  InputWeight,   (* one key-path input with its 64-byte signature          *)
  OutputWeight,  (* the P2TR change output                                 *)
  P2trDustAmt    (* change at or under this amount is dust                 *)

(* A list of size utxos: total[i] is the value of the first i of them, and *)
(* undecodable are those whose script DecodeScript rejects.                *)
IsWallet(w) ==
  /\ w.size \in Nat
  /\ w.total \in [0 .. w.size -> Nat]
  /\ w.total[0] = 0
  /\ \A i, j \in 0 .. w.size : i <= j => w.total[i] <= w.total[j]
  /\ w.undecodable \subseteq 1 .. w.size

ASSUME WalletsAssumption  == \A w \in Wallets : IsWallet(w)
ASSUME RequestsAssumption == Requests \subseteq Nat
ASSUME RatesAssumption    == FeeRates \subseteq Int /\ RateScale \in Nat \ {0}
ASSUME WeightsAssumption  == /\ BaseWeight \in Nat \ {0}
                             /\ MarkerWeight \in Nat
                             /\ InputWeight \in Nat
                             /\ OutputWeight \in Nat
                             /\ P2trDustAmt \in Nat

VARIABLES
  pc,               (* "start", "select", "settle", "fee", "change",       *)
                    (* "built" or "failed"                                 *)
  wallet,           (* the list of utxos passed in                         *)
  amount,           (* the amount to send, 0 to spend everything           *)
  feeRate,
  next,             (* the utxo the selection loop looks at next           *)
  txIn,             (* matchedUtxos, which becomes msgTx.TxIn              *)
  unmatched,        (* unmatchedUtxos                                      *)
  matchedAmount,
  unmatchedAmount,
  feeNeeded,
  feePaid,
  change,
  destValue,        (* msgTx.TxOut[0].Value                                *)
  feeIndex,         (* utxos of unmatched the fee loop has added           *)
  matchedFeeAmount,
  index,            (* utxos of unmatched the dust loop has added          *)
  error             (* which error was returned, "none" if none            *)

inputVars == <<wallet, amount, feeRate>>
selectionVars == <<next, unmatched>>
vars == <<pc, wallet, amount, feeRate, next, txIn, unmatched, matchedAmount,
          unmatchedAmount, feeNeeded, feePaid, change, destValue, feeIndex,
          matchedFeeAmount, index, error>>

Errors == {"none", "feeRate", "funds", "fees", "script"}

Total(i) == wallet.total[i]
UtxoAmount(u) == Total(u) - Total(u - 1)
SpendAll == amount = 0

(* blockchain.GetTransactionWeight of a transaction with n inputs that     *)
(* carry a signature and one output, and its virtual size rounded up.      *)
Weight(n) == IF n = 0 THEN BaseWeight ELSE BaseWeight + MarkerWeight + n * InputWeight
VSizeOf(weight) == (weight + 3) \div 4

(* int64(math.Ceil(feeRate * float64(vSize)))                              *)
FeeFor(vSize) == (feeRate * vSize + (RateScale - 1)) \div RateScale

-----------------------------------------------------------------------------
Init ==
  /\ wallet \in Wallets
  /\ amount \in Requests
  /\ feeRate \in FeeRates
  /\ pc = "start"
  /\ next = 1
  /\ txIn = << >>
  /\ unmatched = << >>
  /\ matchedAmount = 0
  /\ unmatchedAmount = 0
  /\ feeNeeded = 0
  /\ feePaid = 0
  /\ change = 0
  /\ destValue = amount
  /\ feeIndex = 0
  /\ matchedFeeAmount = 0
  /\ index = 0
  /\ error = "none"

(* An early return of an error: no transaction is handed out.              *)
Fail(reason) ==
  /\ pc' = "failed"
  /\ error' = reason
  /\ UNCHANGED <<inputVars, selectionVars, txIn, matchedAmount, unmatchedAmount,
                 feeNeeded, feePaid, change, destValue, feeIndex,
                 matchedFeeAmount, index>>

CheckFeeRate ==
  /\ pc = "start"
  /\ feeRate > 0
  /\ pc' = "select"
  /\ UNCHANGED <<inputVars, selectionVars, txIn, matchedAmount, unmatchedAmount,
                 feeNeeded, feePaid, change, destValue, feeIndex,
                 matchedFeeAmount, index, error>>

RejectFeeRate == pc = "start" /\ feeRate <= 0 /\ Fail("feeRate")

(* The selection loop leaves a utxo once the ones before it reach amount.  *)
Enough == ~SpendAll /\ matchedAmount >= amount

MatchUtxo ==
  /\ pc = "select"
  /\ next <= wallet.size
  /\ ~Enough
  /\ matchedAmount' = matchedAmount + UtxoAmount(next)
  /\ txIn' = Append(txIn, next)
  /\ next' = next + 1
  /\ UNCHANGED <<pc, inputVars, unmatched, unmatchedAmount, feeNeeded, feePaid,
                 change, destValue, feeIndex, matchedFeeAmount, index, error>>

(* Mutant: the value of a utxo that is left is not counted.                *)
Mutant_LeaveUtxo ==
  /\ pc = "select"
  /\ next <= wallet.size
  /\ Enough
  /\ unmatched' = Append(unmatched, next)
  /\ next' = next + 1
  /\ UNCHANGED <<pc, inputVars, txIn, matchedAmount, unmatchedAmount, feeNeeded,
                 feePaid, change, destValue, feeIndex, matchedFeeAmount, index,
                 error>>

LeaveUtxo ==
  /\ pc = "select"
  /\ next <= wallet.size
  /\ Enough
  /\ unmatchedAmount' = unmatchedAmount + UtxoAmount(next)
  /\ unmatched' = Append(unmatched, next)
  /\ next' = next + 1
  /\ UNCHANGED <<pc, inputVars, txIn, matchedAmount, feeNeeded, feePaid, change,
                 destValue, feeIndex, matchedFeeAmount, index, error>>

Selected == pc = "select" /\ next > wallet.size

InsufficientFunds == Selected /\ matchedAmount < amount /\ Fail("funds")

(* Every matched utxo becomes an input, and the fee is computed from the   *)
(* transaction as it is here: without fee inputs and without change.       *)
AddMatchedInputs ==
  /\ Selected
  /\ matchedAmount >= amount
  /\ \A i \in DOMAIN txIn : txIn[i] \notin wallet.undecodable
  /\ feeNeeded' = FeeFor(VSizeOf(Weight(Len(txIn))))
  /\ feePaid' = feeNeeded'
  /\ change' = matchedAmount - amount
  /\ pc' = "settle"
  /\ UNCHANGED <<inputVars, selectionVars, txIn, matchedAmount, unmatchedAmount,
                 destValue, feeIndex, matchedFeeAmount, index, error>>

(* Mutant: the fee is not taken from what the destination receives.        *)
Mutant_SettleSpendAll ==
  /\ pc = "settle"
  /\ SpendAll
  /\ change' = 0
  /\ destValue' = matchedAmount
  /\ pc' = "change"
  /\ UNCHANGED <<inputVars, selectionVars, txIn, matchedAmount, unmatchedAmount,
                 feeNeeded, feePaid, feeIndex, matchedFeeAmount, index, error>>

SettleSpendAll ==
  /\ pc = "settle"
  /\ SpendAll
  /\ change' = 0
  /\ destValue' = matchedAmount - feeNeeded
  /\ pc' = "change"
  /\ UNCHANGED <<inputVars, selectionVars, txIn, matchedAmount, unmatchedAmount,
                 feeNeeded, feePaid, feeIndex, matchedFeeAmount, index, error>>

(* Mutant: the fee is not taken from the change.                           *)
Mutant_SettleFromChange ==
  /\ pc = "settle"
  /\ ~SpendAll
  /\ feeNeeded <= change
  /\ pc' = "change"
  /\ UNCHANGED <<inputVars, selectionVars, txIn, matchedAmount, unmatchedAmount,
                 feeNeeded, feePaid, change, destValue, feeIndex,
                 matchedFeeAmount, index, error>>

SettleFromChange ==
  /\ pc = "settle"
  /\ ~SpendAll
  /\ feeNeeded <= change
  /\ change' = change - feeNeeded
  /\ pc' = "change"
  /\ UNCHANGED <<inputVars, selectionVars, txIn, matchedAmount, unmatchedAmount,
                 feeNeeded, feePaid, destValue, feeIndex, matchedFeeAmount,
                 index, error>>

(* What the change does not cover of the fee.  Mutants: the change is not   *)
(* counted; the difference is taken the wrong way round.                   *)
Mutant_Shortage_whole == feeNeeded
Mutant_Shortage_swapped == change - feeNeeded
Shortage == feeNeeded - change

InsufficientFees ==
  /\ pc = "settle"
  /\ ~SpendAll
  /\ feeNeeded > change
  /\ Shortage > unmatchedAmount
  /\ Fail("fees")

BeginFeeInputs ==
  /\ pc = "settle"
  /\ ~SpendAll
  /\ feeNeeded > change
  /\ Shortage <= unmatchedAmount
  /\ feeNeeded' = Shortage
  /\ pc' = "fee"
  /\ UNCHANGED <<inputVars, selectionVars, txIn, matchedAmount, unmatchedAmount,
                 feePaid, change, destValue, feeIndex, matchedFeeAmount, index,
                 error>>

(* One iteration of the fee loop; it breaks once the fee is matched, and   *)
(* the change is what the last of its inputs leaves over.                  *)
FeeUtxo == unmatched[feeIndex + 1]

AddFeeInput ==
  /\ pc = "fee"
  /\ feeIndex < Len(unmatched)
  /\ FeeUtxo \notin wallet.undecodable
  /\ matchedFeeAmount' = matchedFeeAmount + UtxoAmount(FeeUtxo)
  /\ matchedAmount' = matchedAmount + UtxoAmount(FeeUtxo)
  /\ unmatchedAmount' = unmatchedAmount - UtxoAmount(FeeUtxo)
  /\ txIn' = Append(txIn, FeeUtxo)
  /\ feeIndex' = feeIndex + 1
  /\ IF matchedFeeAmount' >= feeNeeded \/ feeIndex' = Len(unmatched)
       THEN pc' = "change" /\ change' = matchedFeeAmount' - feeNeeded
       ELSE UNCHANGED <<pc, change>>
  /\ UNCHANGED <<inputVars, selectionVars, feeNeeded, feePaid, destValue, index,
                 error>>

(* The dust loop: index starts at the first unmatched utxo, also when the  *)
(* fee loop has already added that one.                                    *)
(* Mutant: the index is not used.                                          *)
Mutant_DustUtxo == unmatched[1]
DustUtxo == unmatched[index + 1]

(* Mutants: the loop does not ask whether anything is left; the loop does  *)
(* not run after the fee loop.                                             *)
Mutant_NeedsDust_unbounded == change > 0 /\ change <= P2trDustAmt
Mutant_NeedsDust_noFees == /\ change > 0 /\ change <= P2trDustAmt
                           /\ unmatchedAmount > 0 /\ feeIndex = 0
NeedsDust == change > 0 /\ change <= P2trDustAmt /\ unmatchedAmount > 0

MoreForDust == pc = "change" /\ NeedsDust

(* Mutants: the added value is not given back as change; a utxo above the  *)
(* dust limit is passed over without advancing the index.                  *)
Mutant_AddDustInput_lost ==
  /\ MoreForDust
  /\ DustUtxo \notin wallet.undecodable
  /\ unmatchedAmount' = unmatchedAmount - UtxoAmount(DustUtxo)
  /\ matchedAmount' = matchedAmount + UtxoAmount(DustUtxo)
  /\ txIn' = Append(txIn, DustUtxo)
  /\ index' = index + 1
  /\ UNCHANGED <<pc, inputVars, selectionVars, change, feeNeeded, feePaid,
                 destValue, feeIndex, matchedFeeAmount, error>>

Mutant_AddDustInput_stuck ==
  /\ MoreForDust
  /\ DustUtxo \notin wallet.undecodable
  /\ UtxoAmount(DustUtxo) <= P2trDustAmt
  /\ change' = change + UtxoAmount(DustUtxo)
  /\ unmatchedAmount' = unmatchedAmount - UtxoAmount(DustUtxo)
  /\ matchedAmount' = matchedAmount + UtxoAmount(DustUtxo)
  /\ txIn' = Append(txIn, DustUtxo)
  /\ index' = index + 1
  /\ UNCHANGED <<pc, inputVars, selectionVars, feeNeeded, feePaid, destValue,
                 feeIndex, matchedFeeAmount, error>>

AddDustInput ==
  /\ MoreForDust
  /\ DustUtxo \notin wallet.undecodable
  /\ change' = change + UtxoAmount(DustUtxo)
  /\ unmatchedAmount' = unmatchedAmount - UtxoAmount(DustUtxo)
  /\ matchedAmount' = matchedAmount + UtxoAmount(DustUtxo)
  /\ txIn' = Append(txIn, DustUtxo)
  /\ index' = index + 1
  /\ UNCHANGED <<pc, inputVars, selectionVars, feeNeeded, feePaid, destValue,
                 feeIndex, matchedFeeAmount, error>>

(* DecodeScript fails for an input that was just added by one of the loops *)
UndecodableInput ==
  /\ \/ /\ Selected
        /\ matchedAmount >= amount
        /\ \E i \in DOMAIN txIn : txIn[i] \in wallet.undecodable
     \/ /\ pc = "fee"
        /\ feeIndex < Len(unmatched)
        /\ FeeUtxo \in wallet.undecodable
     \/ MoreForDust /\ DustUtxo \in wallet.undecodable
  /\ Fail("script")

(* The transaction is complete; it has a change output iff change > 0.     *)
Build ==
  /\ pc = "change"
  /\ ~MoreForDust
  /\ pc' = "built"
  /\ UNCHANGED <<inputVars, selectionVars, txIn, matchedAmount, unmatchedAmount,
                 feeNeeded, feePaid, change, destValue, feeIndex,
                 matchedFeeAmount, index, error>>

Next ==
  \/ CheckFeeRate
  \/ RejectFeeRate
  \/ MatchUtxo
  \/ LeaveUtxo
  \/ InsufficientFunds
  \/ AddMatchedInputs
  \/ SettleSpendAll
  \/ SettleFromChange
  \/ InsufficientFees
  \/ BeginFeeInputs
  \/ AddFeeInput
  \/ AddDustInput
  \/ UndecodableInput
  \/ Build

(* A function call runs to its return.                                     *)
Spec == Init /\ [][Next]_vars /\ WF_vars(Next)

-----------------------------------------------------------------------------
(* Types of the variables.                                                 *)
TypeOK ==
  /\ pc \in {"start", "select", "settle", "fee", "change", "built", "failed"}
  /\ IsWallet(wallet)
  /\ amount \in Requests
  /\ feeRate \in FeeRates
  /\ next \in 1 .. wallet.size + 1
  /\ txIn \in Seq(1 .. wallet.size)
  /\ unmatched \in Seq(1 .. wallet.size)
  /\ matchedAmount \in Nat
  /\ unmatchedAmount \in Int
  /\ feeNeeded \in Nat
  /\ feePaid \in Nat
  /\ change \in Nat
  /\ destValue \in Int
  /\ feeIndex \in 0 .. Len(unmatched)
  /\ matchedFeeAmount \in Nat
  /\ index \in 0 .. Len(unmatched)
  /\ error \in Errors

Funds == Total(wallet.size)
Succeeded == pc = "built"
DustChange == Succeeded /\ 0 < change /\ change <= P2trDustAmt

(* The utxos the selection loop matched: all but the unmatched ones.       *)
Matched == next - 1 - Len(unmatched)

-----------------------------------------------------------------------------
(* Where the three loops are: the inputs are the matched utxos, then the   *)
(* first feeIndex unmatched ones, then the first index unmatched ones, and *)
(* the amounts the code keeps are the totals of those runs.                *)
Lists ==
  /\ pc \notin {"start", "select", "failed"} => next = wallet.size + 1
  /\ Len(unmatched) <= next - 1
  /\ Len(txIn) = Matched + feeIndex + index
  /\ \A i \in 1 .. Len(unmatched) : unmatched[i] = Matched + i
  /\ \A i \in 1 .. Matched + feeIndex : txIn[i] = i
  /\ \A i \in 1 .. index : txIn[Matched + feeIndex + i] = Matched + i

Amounts ==
  /\ matchedFeeAmount = Total(Matched + feeIndex) - Total(Matched)
  /\ matchedAmount = Total(Matched + feeIndex)
                        + (Total(Matched + index) - Total(Matched))
  /\ unmatchedAmount = (Total(next - 1) - Total(Matched + feeIndex))
                        - (Total(Matched + index) - Total(Matched))

Phases ==
  /\ pc \notin {"change", "built", "failed"} => index = 0
  /\ pc \in {"start", "select", "settle"} => feeIndex = 0
  /\ pc = "start" => next = 1
  /\ pc \notin {"start", "failed"} => feeRate > 0
  /\ error = "feeRate" => feeRate <= 0
  /\ pc \in {"start", "select"} => change = 0 /\ feeNeeded = 0 /\ feePaid = 0
  /\ Len(unmatched) > 0 => ~SpendAll /\ Total(Matched) >= amount
  /\ pc \in {"settle", "fee", "change", "built"} =>
       matchedAmount >= amount /\ feePaid > 0
  /\ pc = "settle" => change = matchedAmount - amount /\ feePaid = feeNeeded
  /\ pc = "fee" => /\ ~SpendAll
                   /\ feeNeeded > 0
                   /\ feeNeeded = feePaid - (Total(Matched) - amount)
                   /\ feeNeeded <= Total(wallet.size) - Total(Matched)
                   /\ matchedFeeAmount < feeNeeded
  /\ pc \in {"change", "built"} /\ SpendAll =>
       change = 0 /\ destValue = matchedAmount - feePaid /\ Len(unmatched) = 0
  /\ pc \in {"change", "built"} /\ ~SpendAll =>
       /\ matchedAmount = amount + feePaid + change
       /\ Total(Matched + feeIndex) >= amount + feePaid
  /\ pc = "built" => ~NeedsDust
  /\ ~SpendAll => destValue = amount
  /\ error = "none" <=> pc # "failed"
  /\ error = "funds" => Funds < amount
  /\ error = "fees" => ~SpendAll /\ Funds < amount + feePaid

(* The invariant that makes the properties below inductive.                *)
SelectionInv == TypeOK /\ Lists /\ Amounts /\ Phases

-----------------------------------------------------------------------------
(* The dust loop indexes unmatchedUtxos without a bound of its own: it     *)
(* stops on unmatchedAmount, which the fee loop has lowered, while index   *)
(* restarts at 0.  It still never runs past the end of the slice.          *)
DustIndexInRange == MoreForDust => index < Len(unmatched)

(* What CreateTransaction documents of the amounts it returns: input less  *)
(* fee less change is the amount asked for, or, when everything is spent,  *)
(* the change is zero and the destination receives all the utxos less fee. *)
BooksBalance ==
  Succeeded =>
    IF SpendAll
      THEN change = 0 /\ destValue = Funds - feePaid
      ELSE destValue = amount /\ matchedAmount - feePaid - change = amount

(* An input is spent twice only when the fee loop and the dust loop both   *)
(* added inputs: the dust loop restarts at the first unmatched utxo.       *)
DistinctInputs ==
  \A i, j \in DOMAIN txIn : txIn[i] = txIn[j] => i = j

DuplicatesNeedBothLoops == DistinctInputs \/ (feeIndex > 0 /\ index > 0)

(* When no input is doubled, the utxos the transaction spends are worth    *)
(* exactly what it pays out: destination, change and the fee it reports.   *)
InputsPayOutputs ==
  Succeeded /\ DistinctInputs =>
    /\ \A i \in DOMAIN txIn : txIn[i] = i
    /\ Total(Len(txIn)) = destValue + change + feePaid

(* An error about funds is returned only to a caller whose utxos, all of   *)
(* them, do not reach the amount plus the fee quoted; a transaction is     *)
(* built only for one whose utxos do (unless everything is spent).         *)
ErrorsAreHonest ==
  /\ error = "funds" => Funds < amount
  /\ error = "fees" => Funds < amount + feePaid
  /\ Succeeded /\ ~SpendAll => Funds >= amount + feePaid

(* Dust change is left only when the dust loop has nothing more to add:    *)
(* unless an input was doubled, nothing of value is left in the wallet.    *)
DustOnlyWhenExhausted ==
  DustChange /\ DistinctInputs => Total(Len(txIn)) = Funds

(* CreateTransaction returns: none of its loops runs for ever.             *)
Returns == <>(pc \in {"built", "failed"})

-----------------------------------------------------------------------------
(* leafy.go:621-622 intends the dust loop to add MORE inputs; a utxo must  *)
(* not be an input twice, a transaction that spends it twice is invalid.   *)
NoDuplicateInputs == Succeeded => DistinctInputs

(* leafy.go:497-498: fees are determined by feeRate, in sat/vByte.  The    *)
(* fee paid is that of the transaction handed out.                         *)
FinalWeight == Weight(Len(txIn)) + (IF change > 0 THEN OutputWeight ELSE 0)
FeeMeetsRate == Succeeded => feePaid >= FeeFor(VSizeOf(FinalWeight))

-----------------------------------------------------------------------------
(* What a caller is promised, see Payment.                                 *)
Returned(v) == IF pc = "built" THEN v ELSE 0

PaymentPromise ==
  INSTANCE Payment WITH
    funds   <- Funds,
    outcome <- CASE pc = "built" -> "built"
                 [] pc = "failed" -> "refused"
                 [] OTHER -> "pending",
    reason  <- error,
    fee     <- IF pc \in {"built", "failed"} THEN feePaid ELSE 0,
    input   <- Returned(matchedAmount),
    sent    <- Returned(destValue),
    back    <- Returned(change)

(* The step machine implements the one-step promise.                       *)
KeepsPromise == PaymentPromise!Spec

=============================================================================
