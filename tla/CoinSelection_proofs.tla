----------------------- MODULE CoinSelection_proofs -----------------------
(***************************************************************************)
(* Proofs about CoinSelection, for every list of utxos, request, fee rate  *)
(* and transaction weight: SelectionInv is inductive, and what it implies. *)
(***************************************************************************)
EXTENDS CoinSelection, TLAPS

(* A fee rate above zero asks for a fee above zero: rounding is upwards.   *)
LEMMA FeePositive ==
  ASSUME NEW rate \in Nat \ {0}, NEW vSize \in Nat \ {0}, NEW scale \in Nat \ {0}
  PROVE  (rate * vSize + (scale - 1)) \div scale \in Nat \ {0}
<1> DEFINE p == rate * vSize
<1>1. p \in Nat /\ p >= 1
  OBVIOUS
<1> HIDE DEF p
<1> DEFINE q == (p + (scale - 1)) \div scale
<1>2. q \in Int
  BY <1>1
<1>3. q >= 1
  BY <1>1
<1> QED
  BY <1>2, <1>3 DEF p

(* The fee AddMatchedInputs computes.                                      *)
LEMMA FeeForPositive ==
  ASSUME NEW n \in Nat, feeRate \in Int, feeRate > 0
  PROVE  FeeFor(VSizeOf(Weight(n))) \in Nat \ {0}
<1>1. Weight(n) \in Nat \ {0}
  BY WeightsAssumption DEF Weight
<1>2. VSizeOf(Weight(n)) \in Nat \ {0}
  BY <1>1 DEF VSizeOf
<1> QED
  BY <1>2, FeePositive, RatesAssumption DEF FeeFor

(* What appending one utxo to a list of utxos gives.                       *)
LEMMA AppendOne ==
  ASSUME NEW S, NEW list \in Seq(S), NEW e \in S
  PROVE  /\ Append(list, e) \in Seq(S)
         /\ Len(Append(list, e)) = Len(list) + 1
         /\ Len(list) \in Nat
         /\ \A i \in 1 .. Len(list) : Append(list, e)[i] = list[i]
         /\ Append(list, e)[Len(list) + 1] = e
OBVIOUS

-----------------------------------------------------------------------------
(* The invariant with the wallet's totals as a function T over 0 .. n.     *)
Shape(n, T) ==
  /\ n \in Nat /\ T \in [0 .. n -> Nat]
  /\ wallet.size = n /\ wallet.total = T
  /\ T[0] = 0
  /\ \A i, j \in 0 .. n : i <= j => T[i] <= T[j]
  /\ Matched \in 0 .. n
  /\ Matched + feeIndex \in 0 .. n
  /\ Matched + index \in 0 .. n
  /\ next - 1 \in 0 .. n
  /\ feeIndex \in Nat /\ index \in Nat
  /\ Len(unmatched) \in Nat
  /\ next - 1 = Matched + Len(unmatched)
  /\ matchedFeeAmount = T[Matched + feeIndex] - T[Matched]
  /\ matchedAmount = T[Matched + feeIndex] + (T[Matched + index] - T[Matched])
  /\ unmatchedAmount = (T[next - 1] - T[Matched + feeIndex])
                       - (T[Matched + index] - T[Matched])

LEMMA ShapeOfInv ==
  ASSUME SelectionInv
  PROVE  \E n, T : Shape(n, T)
<1>1. /\ wallet.size \in Nat /\ wallet.total \in [0 .. wallet.size -> Nat]
      /\ wallet.total[0] = 0
      /\ \A i, j \in 0 .. wallet.size : i <= j => wallet.total[i] <= wallet.total[j]
  BY DEF SelectionInv, TypeOK, IsWallet
<1>2. /\ next \in 1 .. wallet.size + 1 /\ Len(unmatched) \in Nat
      /\ feeIndex \in 0 .. Len(unmatched) /\ index \in 0 .. Len(unmatched)
      /\ Len(unmatched) <= next - 1
  BY DEF SelectionInv, TypeOK, Lists
<1>3. /\ Matched \in 0 .. wallet.size
      /\ Matched + feeIndex \in 0 .. wallet.size
      /\ Matched + index \in 0 .. wallet.size
      /\ next - 1 \in 0 .. wallet.size
      /\ next - 1 = Matched + Len(unmatched)
  BY <1>1, <1>2 DEF Matched
<1>4. /\ matchedFeeAmount = wallet.total[Matched + feeIndex] - wallet.total[Matched]
      /\ matchedAmount = wallet.total[Matched + feeIndex]
                         + (wallet.total[Matched + index] - wallet.total[Matched])
      /\ unmatchedAmount = (wallet.total[next - 1] - wallet.total[Matched + feeIndex])
                           - (wallet.total[Matched + index] - wallet.total[Matched])
  BY DEF SelectionInv, Amounts, Total
<1>5. feeIndex \in Nat /\ index \in Nat
  BY <1>2
<1> DEFINE n == wallet.size
           T == wallet.total
<1> WITNESS n, T
<1> HIDE DEF n, T
<1> QED
  BY <1>1, <1>2, <1>3, <1>4, <1>5 DEF n, T, Shape

LEMMA ShapeGrows ==
  ASSUME NEW n, NEW T, Shape(n, T), NEW i \in 0 .. n, NEW j \in 0 .. n, i <= j
  PROVE  T[i] \in Nat /\ T[j] \in Nat /\ T[i] <= T[j] /\ T[j] - T[i] \in Nat
<1>1. T[i] \in Nat /\ T[j] \in Nat /\ T[i] <= T[j]
  BY DEF Shape
<1> QED
  BY <1>1

(* The amounts while neither of the later loops has added an input.        *)
LEMMA ShapeAlone ==
  ASSUME NEW n, NEW T, Shape(n, T), feeIndex = 0, index = 0
  PROVE  /\ T[Matched] \in Nat /\ T[next - 1] \in Nat
         /\ matchedFeeAmount = 0 /\ matchedAmount = T[Matched]
         /\ unmatchedAmount = T[next - 1] - T[Matched]
<1>1. PICK m \in 0 .. n, k \in 0 .. n : m = Matched /\ k = next - 1
  BY DEF Shape
<1>2. PICK a \in Nat, b \in Nat : a = T[m] /\ b = T[k]
  BY <1>1 DEF Shape
<1>3. n \in Nat /\ Matched + feeIndex = m /\ Matched + index = m
  BY <1>1 DEF Shape
<1>4. /\ matchedFeeAmount = T[Matched + feeIndex] - T[Matched]
      /\ matchedAmount = T[Matched + feeIndex] + (T[Matched + index] - T[Matched])
      /\ unmatchedAmount = (T[next - 1] - T[Matched + feeIndex])
                           - (T[Matched + index] - T[Matched])
  BY DEF Shape
<1>5. matchedFeeAmount = a - a /\ matchedAmount = a + (a - a) /\ unmatchedAmount = (b - a) - (a - a)
  BY <1>1, <1>2, <1>3, <1>4, Zenon
<1>6. a - a = 0 /\ a + (a - a) = a /\ (b - a) - (a - a) = b - a
  BY <1>2
<1> QED
  BY <1>1, <1>2, <1>5, <1>6, Zenon

(* The selection loop.                                                     *)
LEMMA MatchStep == SelectionInv /\ MatchUtxo => SelectionInv'
<1> SUFFICES ASSUME SelectionInv, MatchUtxo PROVE SelectionInv'
  OBVIOUS
<1>1. PICK n, T : Shape(n, T)
  BY ShapeOfInv
<1>2. /\ pc = "select" /\ pc' = "select" /\ next' = next + 1 /\ next <= n
      /\ feeIndex = 0 /\ index = 0 /\ feeIndex' = 0 /\ index' = 0
      /\ wallet' = wallet /\ unmatched' = unmatched
      /\ txIn' = Append(txIn, next)
      /\ matchedAmount' = matchedAmount + (T[next] - T[next - 1])
      /\ matchedFeeAmount' = matchedFeeAmount /\ unmatchedAmount' = unmatchedAmount
  BY <1>1 DEF MatchUtxo, UtxoAmount, Total, Shape, SelectionInv, Phases, inputVars
<1>3. Len(unmatched) = 0 /\ Matched = next - 1 /\ Len(txIn) = next - 1 /\ next \in 1 .. n
  <2>1. /\ Matched \in 0 .. n /\ Matched + feeIndex = Matched /\ Matched + index = Matched
        /\ Len(unmatched) \in Nat /\ next - 1 = Matched + Len(unmatched) /\ next \in 1 .. n
    BY <1>1, <1>2 DEF Shape, SelectionInv, TypeOK
  <2>2. matchedAmount = T[Matched]
    BY <1>1, <2>1 DEF Shape
  <2>3. Len(unmatched) > 0 => ~SpendAll /\ T[Matched] >= amount
    BY <1>1 DEF SelectionInv, Phases, Total, Shape
  <2>4. ~(~SpendAll /\ matchedAmount >= amount)
    BY DEF MatchUtxo, Enough
  <2>5. Len(unmatched) = 0
    BY <2>1, <2>2, <2>3, <2>4
  <2>6. Len(txIn) = Matched
    BY <1>2, <2>1 DEF SelectionInv, Lists
  <2> QED
    BY <2>1, <2>5, <2>6
<1>4. Matched' = next
  BY <1>1, <1>2, <1>3 DEF Matched, Shape
<1>5. /\ txIn' \in Seq(1 .. n) /\ Len(txIn') = next
      /\ \A i \in 1 .. next - 1 : txIn'[i] = txIn[i]
      /\ txIn'[next] = next
  <2>1. txIn \in Seq(1 .. n)
    BY <1>1 DEF SelectionInv, TypeOK, Shape
  <2> QED
    BY <1>2, <1>3, <2>1, AppendOne
<1>6. T[next] - T[next - 1] \in Nat
  <2>1. next \in 0 .. n /\ next - 1 \in 0 .. n /\ next - 1 <= next
    BY <1>1, <1>3 DEF Shape
  <2> QED
    BY <1>1, <2>1, ShapeGrows
<1>7. TypeOK'
  <2>1. IsWallet(wallet)' /\ wallet'.size = n
    BY <1>1, <1>2 DEF SelectionInv, TypeOK, IsWallet, Shape
  <2>2. next' \in 1 .. n + 1 /\ unmatched' \in Seq(1 .. n) /\ matchedAmount' \in Nat
    <3>1. wallet.size = n /\ n \in Nat
      BY <1>1 DEF Shape
    <3>2. unmatched \in Seq(1 .. n) /\ matchedAmount \in Nat
      BY <3>1 DEF SelectionInv, TypeOK
    <3>3. matchedAmount' \in Nat
      BY <1>2, <1>6, <3>2
    <3>4. next' \in 1 .. n + 1
      BY <1>2, <1>3, <3>1
    <3> QED
      BY <1>2, <3>2, <3>3, <3>4
  <2>3. feeIndex' \in 0 .. Len(unmatched') /\ index' \in 0 .. Len(unmatched')
    BY <1>2, <1>3
  <2> QED
    BY <1>5, <1>2, <2>1, <2>2, <2>3 DEF MatchUtxo, SelectionInv, TypeOK, inputVars
<1>8. Lists'
  <2>1. n \in Nat /\ next \in 1 .. n
    BY <1>1, <1>3 DEF Shape
  <2>2. \A i \in 1 .. next - 1 : txIn[i] = i
    <3>1. \A i \in 1 .. Matched + feeIndex : txIn[i] = i
      BY DEF SelectionInv, Lists
    <3>2. Matched + feeIndex = next - 1
      BY <1>2, <1>3, <2>1
    <3> QED
      BY <3>1, <3>2
  <2>3. \A i \in 1 .. next : txIn'[i] = i
    <3> SUFFICES ASSUME NEW i \in 1 .. next PROVE txIn'[i] = i
      OBVIOUS
    <3>1. i \in 1 .. next - 1 \/ i = next
      BY <2>1
    <3> QED
      BY <1>5, <2>2, <3>1
  <2>4. Matched' + feeIndex' = next /\ Matched' + feeIndex' + index' = next
    BY <1>2, <1>4, <2>1
  <2>5. Len(unmatched') = 0 /\ Len(unmatched') <= next' - 1
    BY <1>2, <1>3, <2>1
  <2>6. pc' = "select" /\ index' = 0
    BY <1>2
  <2> QED
    BY <1>5, <2>3, <2>4, <2>5, <2>6 DEF Lists
<1>9. Amounts'
  <2>1. /\ T[Matched] \in Nat /\ matchedFeeAmount = 0 /\ matchedAmount = T[Matched]
        /\ unmatchedAmount = T[next - 1] - T[Matched]
    BY <1>1, <1>2, ShapeAlone
  <2>2. PICK a \in Nat, b \in Nat : a = T[next - 1] /\ b = T[next]
    <3>1. T \in [0 .. n -> Nat] /\ n \in Nat
      BY <1>1 DEF Shape
    <3>2. next - 1 \in 0 .. n /\ next \in 0 .. n
      BY <1>3, <3>1
    <3> QED
      BY <3>1, <3>2
  <2>3. matchedFeeAmount' = 0 /\ matchedAmount' = b /\ unmatchedAmount' = 0
    BY <1>2, <1>3, <2>1, <2>2
  <2>4. /\ Matched' + feeIndex' = next /\ Matched' + index' = next /\ next' - 1 = next
        /\ wallet'.total = T
    BY <1>1, <1>2, <1>3, <1>4 DEF Shape
  <2>5. 0 = b - b /\ b = b + (b - b) /\ 0 = (b - b) - (b - b)
    BY <2>2
  <2> QED
    BY <1>4, <2>2, <2>3, <2>4, <2>5, Zenon DEF Amounts, Total
<1>10. Phases'
  BY <1>1, <1>2, <1>3, <1>4 DEF MatchUtxo, inputVars, SelectionInv, Phases, SpendAll, Funds, Total, NeedsDust
<1> QED
  BY <1>7, <1>8, <1>9, <1>10 DEF SelectionInv

LEMMA LeaveStep == SelectionInv /\ LeaveUtxo => SelectionInv'
<1> SUFFICES ASSUME SelectionInv, LeaveUtxo PROVE SelectionInv'
  OBVIOUS
<1>1. PICK n, T : Shape(n, T)
  BY ShapeOfInv
<1>2. /\ pc = "select" /\ pc' = "select" /\ next' = next + 1 /\ next <= n
      /\ feeIndex = 0 /\ index = 0 /\ feeIndex' = 0 /\ index' = 0
      /\ wallet' = wallet /\ txIn' = txIn
      /\ unmatched' = Append(unmatched, next)
      /\ unmatchedAmount' = unmatchedAmount + (T[next] - T[next - 1])
      /\ matchedFeeAmount' = matchedFeeAmount /\ matchedAmount' = matchedAmount
  BY <1>1 DEF LeaveUtxo, UtxoAmount, Total, Shape, SelectionInv, Phases, inputVars
<1>3. /\ Matched \in 0 .. n /\ Matched + feeIndex = Matched /\ Matched + index = Matched
      /\ Len(unmatched) \in Nat /\ next - 1 = Matched + Len(unmatched) /\ next \in 1 .. n
      /\ n \in Nat
  BY <1>1, <1>2 DEF Shape, SelectionInv, TypeOK
<1>4. /\ unmatched' \in Seq(1 .. n) /\ Len(unmatched') = Len(unmatched) + 1
      /\ \A i \in 1 .. Len(unmatched) : unmatched'[i] = unmatched[i]
      /\ unmatched'[Len(unmatched) + 1] = next
  <2>1. unmatched \in Seq(1 .. n)
    BY <1>1 DEF SelectionInv, TypeOK, Shape
  <2> QED
    BY <1>2, <1>3, <2>1, AppendOne
<1>5. Matched' = Matched
  BY <1>2, <1>3, <1>4 DEF Matched
<1>6. /\ T[next] - T[next - 1] \in Nat /\ T[next] \in Nat /\ T[next - 1] \in Nat
      /\ T[Matched] \in Nat
  <2>1. next \in 0 .. n /\ next - 1 \in 0 .. n /\ next - 1 <= next
    BY <1>3
  <2> QED
    BY <1>1, <1>3, <2>1, ShapeGrows
<1>7. TypeOK'
  <2>1. IsWallet(wallet)' /\ wallet'.size = n
    BY <1>1, <1>2 DEF SelectionInv, TypeOK, IsWallet, Shape
  <2>2. next' \in 1 .. n + 1 /\ txIn' \in Seq(1 .. n)
    BY <1>1, <1>2, <1>3 DEF SelectionInv, TypeOK, Shape
  <2>4. unmatchedAmount' \in Int
    BY <1>2, <1>6 DEF SelectionInv, TypeOK
  <2>3. feeIndex' \in 0 .. Len(unmatched') /\ index' \in 0 .. Len(unmatched')
    BY <1>2, <1>3, <1>4
  <2> QED
    BY <1>4, <1>2, <2>1, <2>2, <2>3, <2>4 DEF LeaveUtxo, SelectionInv, TypeOK, inputVars
<1>8. Lists'
  <2>1. /\ Len(unmatched') <= next' - 1
        /\ Len(txIn') = Matched' + feeIndex' + index'
        /\ \A i \in 1 .. Matched' + feeIndex' : txIn'[i] = i
        /\ \A i \in 1 .. index' : txIn'[Matched' + feeIndex' + i] = Matched' + i
    BY <1>2, <1>3, <1>4, <1>5 DEF SelectionInv, Lists
  <2>2. \A i \in 1 .. Len(unmatched') : unmatched'[i] = Matched' + i
    <3>1. \A i \in 1 .. Len(unmatched) : unmatched[i] = Matched + i
      BY DEF SelectionInv, Lists
    <3>2. next = Matched + (Len(unmatched) + 1)
      BY <1>3
    <3> SUFFICES ASSUME NEW i \in 1 .. Len(unmatched) + 1
                 PROVE  unmatched'[i] = Matched + i
      BY <1>4, <1>5
    <3>3. CASE i \in 1 .. Len(unmatched)
      BY <1>4, <3>1, <3>3
    <3>4. CASE i = Len(unmatched) + 1
      BY <1>4, <3>2, <3>4
    <3> QED
      BY <1>3, <3>3, <3>4
  <2> QED
    BY <1>2, <2>1, <2>2 DEF Lists
<1>9. Amounts'
  <2>0. T[Matched + feeIndex] = T[Matched] /\ T[Matched + index] = T[Matched]
    BY <1>3
  <2>1. /\ matchedFeeAmount = 0 /\ matchedAmount = T[Matched]
        /\ unmatchedAmount = T[next - 1] - T[Matched]
    BY <1>1, <1>2, ShapeAlone
  <2>2. Matched' + feeIndex' = Matched /\ Matched' + index' = Matched /\ next' - 1 = next
    BY <1>2, <1>3, <1>5
  <2>3. unmatchedAmount' = T[next] - T[Matched]
    BY <1>2, <1>6, <2>1
  <2>4. wallet'.total = T
    BY <1>1, <1>2 DEF Shape
  <2>5. PICK a \in Nat, b \in Nat : a = T[Matched] /\ b = T[next]
    BY <1>6
  <2>6. matchedFeeAmount' = 0 /\ matchedAmount' = a /\ unmatchedAmount' = b - a
    BY <1>2, <2>1, <2>3, <2>5, Zenon
  <2>7. 0 = a - a /\ a = a + (a - a) /\ b - a = (b - a) - (a - a)
    BY <2>5
  <2> QED
    BY <1>5, <2>2, <2>4, <2>5, <2>6, <2>7, Zenon DEF Amounts, Total
<1>10. Phases'
  <2>1. matchedAmount = T[Matched]
    BY <1>1, <1>3, <1>6 DEF Shape
  <2>2. ~SpendAll /\ matchedAmount >= amount
    BY DEF LeaveUtxo, Enough
  <2>3. ~SpendAll' /\ T[Matched'] >= amount' /\ wallet'.total = T
    BY <1>1, <1>2, <1>5, <2>1, <2>2 DEF LeaveUtxo, inputVars, SpendAll, Shape
  <2> QED
    BY <1>2, <2>3 DEF LeaveUtxo, inputVars, SelectionInv, Phases, SpendAll, Funds, Total, NeedsDust
<1> QED
  BY <1>7, <1>8, <1>9, <1>10 DEF SelectionInv

-----------------------------------------------------------------------------
(* The steps that leave the three loops where they are.                    *)
loopVars == <<wallet, next, txIn, unmatched, matchedAmount, unmatchedAmount,
              feeIndex, matchedFeeAmount, index>>

LEMMA LoopsUntouched ==
  ASSUME SelectionInv, UNCHANGED loopVars,
         pc' \notin {"start", "select", "failed"} => next = wallet.size + 1
  PROVE  Lists' /\ Amounts' /\ Matched' = Matched
<1>1. Matched' = Matched
  BY DEF Matched, loopVars
<1>2. Lists'
  BY <1>1 DEF SelectionInv, Lists, loopVars
<1>3. Amounts'
  BY <1>1 DEF SelectionInv, Amounts, Total, loopVars
<1> QED
  BY <1>1, <1>2, <1>3

(* Returning an error keeps the invariant when the error is a true one.    *)
LEMMA FailStep ==
  ASSUME SelectionInv, NEW reason \in Errors \ {"none"}, Fail(reason),
         reason = "feeRate" => feeRate <= 0,
         reason = "funds" => Funds < amount,
         reason = "fees" => ~SpendAll /\ Funds < amount + feePaid,
         pc # "built"
  PROVE  SelectionInv'
<1> USE DEF Fail, inputVars, selectionVars
<1>1. TypeOK'
  BY DEF SelectionInv, TypeOK, Errors
<1>2. Lists' /\ Amounts' /\ Matched' = Matched
  BY LoopsUntouched DEF loopVars
<1>3. Phases'
  BY <1>2 DEF SelectionInv, Phases, SpendAll, Funds, Total, NeedsDust, Errors
<1> QED
  BY <1>1, <1>2, <1>3 DEF SelectionInv

THEOREM InitInv == Init => SelectionInv
<1> SUFFICES ASSUME Init PROVE SelectionInv
  OBVIOUS
<1>1. IsWallet(wallet) /\ amount \in Nat /\ feeRate \in Int
  BY WalletsAssumption, RequestsAssumption, RatesAssumption DEF Init
<1>2. TypeOK
  BY <1>1 DEF Init, TypeOK, IsWallet, Errors
<1>3. Len(unmatched) = 0 /\ Len(txIn) = 0
  BY DEF Init
<1>4. next = 1 /\ feeIndex = 0 /\ index = 0 /\ pc = "start"
  BY DEF Init
<1>5. Matched = 0
  BY <1>3, <1>4 DEF Matched
<1>6. Lists
  BY <1>3, <1>4, <1>5 DEF Lists
<1>7. Amounts
  BY <1>1, <1>4, <1>5 DEF Init, Amounts, IsWallet, Total
<1>8. Phases
  BY <1>1, <1>3 DEF Init, Phases, Matched, SpendAll, Funds, IsWallet, Total
<1> QED
  BY <1>2, <1>6, <1>7, <1>8 DEF SelectionInv

(* The whole list is worth matched and unmatched utxos together, and once  *)
(* the selection loop is over nothing of it is left to look at.            *)
LEMMA AfterSelection ==
  ASSUME SelectionInv, NEW n, NEW T, Shape(n, T), next = n + 1
  PROVE  /\ Funds = T[n] /\ T[n] \in Nat
         /\ n = Matched + Len(unmatched)
         /\ feeIndex = 0 /\ index = 0 =>
              matchedAmount = T[Matched] /\ unmatchedAmount = T[n] - T[Matched]
<1>1. n \in Nat /\ T \in [0 .. n -> Nat] /\ Funds = T[n] /\ T[n] \in Nat
  <2>1. n \in Nat /\ T \in [0 .. n -> Nat] /\ wallet.size = n /\ wallet.total = T
    BY DEF Shape
  <2>2. n \in 0 .. n
    BY <2>1
  <2> QED
    BY <2>1, <2>2 DEF Funds, Total
<1>2. next - 1 = n
  BY <1>1
<1>3. n = Matched + Len(unmatched)
  BY <1>2 DEF Shape
<1>4. ASSUME feeIndex = 0, index = 0
      PROVE  matchedAmount = T[Matched] /\ unmatchedAmount = T[n] - T[Matched]
  <2>1. matchedAmount = T[Matched] /\ unmatchedAmount = T[next - 1] - T[Matched]
    BY <1>4, ShapeAlone
  <2> QED
    BY <1>2, <2>1
<1> QED
  BY <1>1, <1>3, <1>4

-----------------------------------------------------------------------------
(* The decisions between the loops.                                        *)
LEMMA CheckStep == SelectionInv /\ CheckFeeRate => SelectionInv'
<1> SUFFICES ASSUME SelectionInv, CheckFeeRate PROVE SelectionInv'
  OBVIOUS
<1> USE DEF CheckFeeRate, inputVars, selectionVars
<1>1. TypeOK'
  BY DEF SelectionInv, TypeOK
<1>2. Lists' /\ Amounts' /\ Matched' = Matched
  BY LoopsUntouched DEF loopVars
<1>3. Phases'
  BY <1>2 DEF SelectionInv, Phases, SpendAll, Funds, Total, NeedsDust
<1> QED
  BY <1>1, <1>2, <1>3 DEF SelectionInv

LEMMA AddMatchedStep == SelectionInv /\ AddMatchedInputs => SelectionInv'
<1> SUFFICES ASSUME SelectionInv, AddMatchedInputs PROVE SelectionInv'
  OBVIOUS
<1> USE DEF AddMatchedInputs, Selected, inputVars, selectionVars
<1>1. /\ next = wallet.size + 1 /\ feeRate > 0 /\ feeRate \in Int
      /\ Len(txIn) \in Nat /\ matchedAmount \in Nat /\ amount \in Nat
      /\ matchedAmount >= amount
  BY RatesAssumption, RequestsAssumption DEF SelectionInv, TypeOK, IsWallet, Phases
<1>2. feeNeeded' \in Nat \ {0} /\ feePaid' = feeNeeded' /\ change' \in Nat
  BY <1>1, FeeForPositive
<1>3. TypeOK'
  BY <1>2 DEF SelectionInv, TypeOK
<1>4. Lists' /\ Amounts' /\ Matched' = Matched
  BY <1>1, LoopsUntouched DEF loopVars
<1>5. Phases'
  BY <1>1, <1>2, <1>4 DEF SelectionInv, Phases, SpendAll, Funds, Total, NeedsDust
<1> QED
  BY <1>3, <1>4, <1>5 DEF SelectionInv

LEMMA SettleStep ==
  SelectionInv /\ (SettleSpendAll \/ SettleFromChange \/ BeginFeeInputs) => SelectionInv'
<1> SUFFICES ASSUME SelectionInv, SettleSpendAll \/ SettleFromChange \/ BeginFeeInputs
             PROVE  SelectionInv'
  OBVIOUS
<1> USE DEF inputVars, selectionVars
<1>1. PICK n, T : Shape(n, T)
  BY ShapeOfInv
<1>2. /\ pc = "settle" /\ next = n + 1 /\ feeIndex = 0 /\ index = 0
      /\ feeNeeded \in Nat /\ feePaid = feeNeeded /\ feePaid > 0
      /\ change \in Nat /\ amount \in Nat /\ matchedAmount \in Nat
      /\ change = matchedAmount - amount /\ matchedAmount >= amount
      /\ UNCHANGED loopVars /\ pc' \in {"change", "fee"}
      /\ feePaid' = feePaid /\ amount' = amount /\ error' = error
  BY <1>1, RequestsAssumption
     DEF SelectionInv, TypeOK, Lists, Phases, Shape, loopVars, SettleSpendAll,
         SettleFromChange, BeginFeeInputs
<1>3. Funds = T[n] /\ matchedAmount = T[Matched] /\ unmatchedAmount = T[n] - T[Matched]
  BY <1>1, <1>2, AfterSelection
<1>4. Lists' /\ Amounts' /\ Matched' = Matched /\ wallet' = wallet
  BY <1>1, <1>2, LoopsUntouched DEF loopVars, Shape
<1>5. TypeOK'
  <2>1. change' \in Nat /\ feeNeeded' \in Nat /\ destValue' \in Int
    <3>1. destValue \in Int /\ change \in Nat /\ feeNeeded \in Nat /\ matchedAmount \in Nat
      BY <1>2 DEF SelectionInv, TypeOK
    <3>2. CASE SettleSpendAll
      BY <3>1, <3>2 DEF SettleSpendAll
    <3>3. CASE SettleFromChange
      BY <3>1, <3>3 DEF SettleFromChange
    <3>4. CASE BeginFeeInputs
      BY <3>1, <3>4 DEF BeginFeeInputs, Shortage
    <3> QED
      BY <3>2, <3>3, <3>4
  <2>2. feeRate' = feeRate
    BY DEF SettleSpendAll, SettleFromChange, BeginFeeInputs, Shortage
  <2> QED
    BY <1>2, <2>1, <2>2 DEF SelectionInv, TypeOK, loopVars
<1>6. wallet.size = n /\ wallet.total = T
  BY <1>1 DEF Shape
<1>7. CASE SettleSpendAll
  <2>1. Len(unmatched) = 0
    BY <1>7 DEF SettleSpendAll, SelectionInv, TypeOK, Phases
  <2> QED
    BY <1>2, <1>4, <1>5, <1>7, <2>1
       DEF SettleSpendAll, SelectionInv, Phases, SpendAll, Funds, Total, NeedsDust
<1>8. CASE SettleFromChange
  <2>1. matchedAmount = amount + feePaid + change' /\ ~SpendAll /\ pc' = "change"
    BY <1>2, <1>8 DEF SettleFromChange
  <2>2. T[Matched + feeIndex] >= amount + feePaid
    <3>1. Matched + feeIndex = Matched
      BY <1>1, <1>2 DEF Shape
    <3>2. T[Matched + feeIndex] = matchedAmount /\ change >= feePaid
      BY <1>2, <1>3, <1>8, <3>1 DEF SettleFromChange
    <3> QED
      BY <1>2, <3>2
  <2>3. Matched' + feeIndex' = Matched + feeIndex /\ wallet'.total = T
    BY <1>2, <1>4, <1>6 DEF loopVars
  <2> QED
    BY <1>2, <1>4, <1>5, <1>8, <2>1, <2>2, <2>3
       DEF SettleFromChange, SelectionInv, Phases, SpendAll, Funds, Total, NeedsDust
<1>9. CASE BeginFeeInputs
  <2>1. /\ ~SpendAll /\ pc' = "fee" /\ feeNeeded' > 0
        /\ feeNeeded' = feePaid - (T[Matched] - amount)
        /\ feeNeeded' <= T[n] - T[Matched]
    BY <1>2, <1>3, <1>9 DEF BeginFeeInputs, Shortage
  <2>2. matchedFeeAmount' = 0
    <3>1. Matched + feeIndex = Matched /\ T[Matched] \in Nat
      BY <1>1, <1>2 DEF Shape
    <3>2. T[Matched + feeIndex] = T[Matched]
      BY <3>1
    <3> QED
      BY <1>1, <1>9, <3>1, <3>2 DEF BeginFeeInputs, Shape
  <2>3. Phases'
    BY <1>2, <1>4, <1>6, <1>9, <2>1, <2>2
       DEF BeginFeeInputs, SelectionInv, Phases, SpendAll, Funds, Total, NeedsDust
  <2> QED
    BY <1>4, <1>5, <2>3 DEF SelectionInv
<1> QED
  BY <1>7, <1>8, <1>9

LEMMA BuildStep == SelectionInv /\ Build => SelectionInv'
<1> SUFFICES ASSUME SelectionInv, Build PROVE SelectionInv'
  OBVIOUS
<1> USE DEF Build, inputVars, selectionVars
<1>1. TypeOK'
  BY DEF SelectionInv, TypeOK
<1>2. Lists' /\ Amounts' /\ Matched' = Matched
  BY LoopsUntouched DEF loopVars, SelectionInv, Lists
<1>3. Phases'
  BY <1>2 DEF SelectionInv, Phases, SpendAll, Funds, Total, NeedsDust, MoreForDust
<1> QED
  BY <1>1, <1>2, <1>3 DEF SelectionInv

-----------------------------------------------------------------------------
(* The fee loop and the dust loop.                                         *)
LEMMA AddFeeStep == SelectionInv /\ AddFeeInput => SelectionInv'
<1> SUFFICES ASSUME SelectionInv, AddFeeInput PROVE SelectionInv'
  OBVIOUS
<1>1. PICK n, T, M, f : Shape(n, T) /\ M = Matched /\ f = feeIndex
  BY ShapeOfInv
<1>2. /\ n \in Nat /\ T \in [0 .. n -> Nat] /\ M \in 0 .. n /\ f \in Nat
      /\ next = n + 1 /\ n = M + Len(unmatched) /\ Funds = T[n]
      /\ f < Len(unmatched) /\ index = 0 /\ Len(unmatched) \in Nat
      /\ M + f \in 0 .. n /\ M + f + 1 \in 1 .. n /\ M + f + 1 \in 0 .. n
      /\ pc = "fee" /\ ~SpendAll /\ feePaid > 0 /\ feeNeeded > 0 /\ feeNeeded \in Nat
      /\ feeNeeded = feePaid - (T[M] - amount) /\ feeNeeded <= T[n] - T[M]
      /\ amount \in Nat /\ feePaid \in Nat /\ matchedAmount >= amount
      /\ wallet.total = T /\ wallet.size = n /\ f = feeIndex /\ M = Matched
  <2>1. next = n + 1
    BY <1>1 DEF AddFeeInput, SelectionInv, Lists, Shape
  <2>2. n = M + Len(unmatched) /\ Funds = T[n]
    BY <1>1, <2>1, AfterSelection
  <2>3. f < Len(unmatched) /\ Len(unmatched) \in Nat /\ f \in Nat /\ M \in 0 .. n /\ n \in Nat
    BY <1>1 DEF AddFeeInput, Shape
  <2>4. M + f \in 0 .. n /\ M + f + 1 \in 1 .. n /\ M + f + 1 \in 0 .. n
    BY <2>2, <2>3
  <2>5. /\ index = 0 /\ pc = "fee" /\ ~SpendAll /\ feePaid > 0 /\ feeNeeded > 0
        /\ matchedAmount >= amount
        /\ feeNeeded = feePaid - (T[M] - amount) /\ feeNeeded <= T[n] - T[M]
    BY <1>1, <2>2 DEF AddFeeInput, SelectionInv, Phases, Total, Shape, Funds
  <2>6. amount \in Nat /\ feePaid \in Nat /\ feeNeeded \in Nat
    BY RequestsAssumption DEF SelectionInv, TypeOK
  <2> QED
    BY <1>1, <2>1, <2>2, <2>3, <2>4, <2>5, <2>6 DEF Shape
<1>3. /\ FeeUtxo = M + f + 1
      /\ UtxoAmount(FeeUtxo) = T[M + f + 1] - T[M + f]
  <2>0. \A i \in 1 .. Len(unmatched) : unmatched[i] = M + i
    BY <1>2, Zenon DEF SelectionInv, Lists
  <2>1. FeeUtxo = M + (f + 1)
    <3>0. f < Len(unmatched) /\ f \in Nat /\ Len(unmatched) \in Nat
      BY <1>2, Zenon
    <3>1. f + 1 \in 1 .. Len(unmatched)
      BY <3>0
    <3> QED
      BY <1>2, <2>0, <3>1, Zenon DEF FeeUtxo
  <2>2. FeeUtxo = M + f + 1 /\ FeeUtxo - 1 = M + f
    <3>1. M \in Nat /\ f \in Nat
      BY <1>2
    <3> QED
      BY <2>1, <3>1
  <2> QED
    BY <1>1, <2>2 DEF UtxoAmount, Total, Shape
<1>4. /\ T[M] \in Nat /\ T[M + f] \in Nat /\ T[M + f + 1] \in Nat /\ T[n] \in Nat
      /\ T[M] <= T[M + f] /\ T[M + f] <= T[M + f + 1] /\ T[M + f + 1] <= T[n]
  <2>1. M <= M + f /\ M + f <= M + f + 1 /\ M + f + 1 <= n /\ n \in 0 .. n
    BY <1>2
  <2> QED
    BY <1>1, <1>2, <2>1, ShapeGrows
<1>5. /\ matchedFeeAmount = T[M + f] - T[M]
      /\ matchedAmount = T[M + f]
      /\ unmatchedAmount = T[n] - T[M + f]
  <2>1. M + index = M /\ next - 1 = n
    BY <1>2
  <2>2. T[M + index] = T[M] /\ T[next - 1] = T[n]
    BY <2>1
  <2>3. /\ matchedFeeAmount = T[Matched + feeIndex] - T[Matched]
        /\ matchedAmount = T[Matched + feeIndex] + (T[Matched + index] - T[Matched])
        /\ unmatchedAmount = (T[next - 1] - T[Matched + feeIndex])
                             - (T[Matched + index] - T[Matched])
    BY <1>1 DEF Shape
  <2>4. PICK a \in Nat, b \in Nat, c \in Nat : a = T[M] /\ b = T[M + f] /\ c = T[n]
    BY <1>4
  <2>5. /\ matchedFeeAmount = b - a /\ matchedAmount = b + (a - a)
        /\ unmatchedAmount = (c - b) - (a - a)
    BY <1>1, <2>2, <2>3, <2>4, Zenon
  <2> QED
    BY <2>4, <2>5
<1>6. /\ matchedFeeAmount' = T[M + f + 1] - T[M]
      /\ matchedAmount' = T[M + f + 1]
      /\ unmatchedAmount' = T[n] - T[M + f + 1]
      /\ feeIndex' = f + 1 /\ index' = 0
      /\ wallet' = wallet /\ unmatched' = unmatched /\ next' = next
      /\ amount' = amount /\ feeRate' = feeRate /\ feeNeeded' = feeNeeded
      /\ feePaid' = feePaid /\ destValue' = destValue /\ error' = error
      /\ txIn' = Append(txIn, M + f + 1)
  <2>1. /\ matchedFeeAmount' = matchedFeeAmount + (T[M + f + 1] - T[M + f])
        /\ matchedAmount' = matchedAmount + (T[M + f + 1] - T[M + f])
        /\ unmatchedAmount' = unmatchedAmount - (T[M + f + 1] - T[M + f])
    BY <1>3 DEF AddFeeInput
  <2>2. /\ matchedFeeAmount' = T[M + f + 1] - T[M]
        /\ matchedAmount' = T[M + f + 1]
        /\ unmatchedAmount' = T[n] - T[M + f + 1]
    BY <1>4, <1>5, <2>1
  <2> QED
    BY <1>2, <1>3, <2>2 DEF AddFeeInput, inputVars, selectionVars
<1>7. Matched' = M
  BY <1>2, <1>6 DEF Matched
<1>9. /\ n \in Nat /\ M \in Nat /\ f \in Nat /\ Len(unmatched) \in Nat
      /\ n = M + Len(unmatched) /\ f < Len(unmatched)
  BY <1>2
<1>10. /\ amount \in Nat /\ feePaid \in Nat /\ feeNeeded \in Nat
       /\ feeNeeded = feePaid - (T[M] - amount) /\ feeNeeded <= T[n] - T[M]
       /\ matchedFeeAmount' = T[M + f + 1] - T[M] /\ matchedAmount' = T[M + f + 1]
       /\ T[M] \in Nat /\ T[M + f + 1] \in Nat
  BY <1>2, <1>4, <1>6
<1>8. /\ txIn \in Seq(1 .. n) /\ Len(txIn) = M + f
      /\ txIn' \in Seq(1 .. n) /\ Len(txIn') = M + f + 1
      /\ \A i \in 1 .. M + f : txIn'[i] = txIn[i]
      /\ txIn'[M + f + 1] = M + f + 1
  <2>1. txIn \in Seq(1 .. n) /\ Len(txIn) = M + f + 0
    BY <1>2 DEF SelectionInv, TypeOK, Lists
  <2>2. Len(txIn) = M + f
    BY <1>2, <2>1
  <2>4. M + f + 1 \in 1 .. n
    BY <1>2
  <2>3. /\ Append(txIn, M + f + 1) \in Seq(1 .. n)
        /\ Len(Append(txIn, M + f + 1)) = Len(txIn) + 1
        /\ \A i \in 1 .. Len(txIn) : Append(txIn, M + f + 1)[i] = txIn[i]
        /\ Append(txIn, M + f + 1)[Len(txIn) + 1] = M + f + 1
    BY <2>1, <2>4, AppendOne
  <2> QED
    BY <1>6, <2>1, <2>2, <2>3
<1>11. /\ \/ pc' = "change" /\ matchedAmount' = amount + feePaid + change'
          \/ pc' = "fee" /\ matchedFeeAmount' < feeNeeded
       /\ change' \in Nat
  <2>1. CASE matchedFeeAmount' >= feeNeeded \/ feeIndex' = Len(unmatched)
    <3>1. pc' = "change" /\ change' = matchedFeeAmount' - feeNeeded
      BY <2>1 DEF AddFeeInput
    <3>2. CASE matchedFeeAmount' >= feeNeeded
      <4>1. change' \in Nat
        BY <1>10, <3>1, <3>2
      <4>2. matchedAmount' = amount + feePaid + change'
        BY <1>10, <3>1
      <4> QED
        BY <3>1, <4>1, <4>2
    <3>3. CASE feeIndex' = Len(unmatched)
      <4>0. f + 1 = Len(unmatched)
        BY <1>6, <3>3
      <4>1. M + f + 1 = n
        BY <1>9, <4>0
      <4>2. T[M + f + 1] = T[n]
        BY <4>1
      <4>3. matchedFeeAmount' >= feeNeeded
        BY <1>2, <1>4, <1>6, <4>2
      <4> QED
        BY <3>2, <4>3
    <3> QED
      BY <2>1, <3>2, <3>3
  <2>2. CASE ~(matchedFeeAmount' >= feeNeeded \/ feeIndex' = Len(unmatched))
    <3>1. pc' = "fee" /\ change' = change
      BY <1>2, <2>2 DEF AddFeeInput
    <3>2. matchedFeeAmount' < feeNeeded
      BY <1>2, <1>4, <1>6, <2>2
    <3> QED
      BY <3>1, <3>2 DEF SelectionInv, TypeOK
  <2> QED
    BY <2>1, <2>2
<1>12. TypeOK'
  <2>1. IsWallet(wallet)' /\ wallet'.size = n
    BY <1>2, <1>6 DEF SelectionInv, TypeOK, IsWallet
  <2>2. /\ matchedAmount' \in Nat /\ matchedFeeAmount' \in Nat /\ unmatchedAmount' \in Int
        /\ feeIndex' \in 0 .. Len(unmatched') /\ index' \in 0 .. Len(unmatched')
    <3>1. feeIndex' \in 0 .. Len(unmatched) /\ index' \in 0 .. Len(unmatched)
      BY <1>6, <1>9
    <3>2. T[M + f + 1] - T[M] \in Nat /\ T[n] - T[M + f + 1] \in Int
      BY <1>4
    <3> QED
      BY <1>4, <1>6, <3>1, <3>2
  <2>3. unmatched' \in Seq(1 .. n) /\ next' \in 1 .. n + 1
    BY <1>2, <1>6 DEF SelectionInv, TypeOK
  <2> QED
    BY <1>6, <1>8, <1>11, <2>1, <2>2, <2>3 DEF SelectionInv, TypeOK
<1>13. Lists'
  <2>1. \A i \in 1 .. M + f + 1 : txIn'[i] = i
    <3>1. \A i \in 1 .. M + f : txIn[i] = i
      BY <1>2 DEF SelectionInv, Lists
    <3> SUFFICES ASSUME NEW i \in 1 .. M + f + 1 PROVE txIn'[i] = i
      OBVIOUS
    <3>2. CASE i = M + f + 1
      BY <1>8, <3>2
    <3>3. CASE i \in 1 .. M + f
      BY <1>8, <3>1, <3>3
    <3> QED
      BY <1>9, <3>2, <3>3
  <2>2. Matched' + feeIndex' = M + f + 1 /\ Len(txIn') = Matched' + feeIndex' + index'
    BY <1>2, <1>6, <1>7, <1>8
  <2>3. \A i \in 1 .. Matched' + feeIndex' : txIn'[i] = i
    BY <2>1, <2>2
  <2>4. /\ Len(unmatched') <= next' - 1
        /\ \A i \in 1 .. Len(unmatched') : unmatched'[i] = Matched' + i
        /\ next' = wallet'.size + 1
    BY <1>2, <1>6, <1>7 DEF SelectionInv, Lists
  <2>5. \A i \in 1 .. index' : txIn'[Matched' + feeIndex' + i] = Matched' + i
    BY <1>6
  <2> QED
    BY <2>2, <2>3, <2>4, <2>5 DEF Lists
<1>14. Amounts'
  <2>1. /\ Matched' + feeIndex' = M + f + 1 /\ Matched' + index' = M /\ next' - 1 = n
        /\ wallet'.total = T
    BY <1>2, <1>6, <1>7
  <2>2. /\ matchedFeeAmount' = T[M + f + 1] - T[M]
        /\ matchedAmount' = T[M + f + 1] + (T[M] - T[M])
        /\ unmatchedAmount' = (T[n] - T[M + f + 1]) - (T[M] - T[M])
    BY <1>4, <1>6
  <2> QED
    BY <1>7, <2>1, <2>2 DEF Amounts, Total
<1>15. Phases'
  <2>0. matchedAmount \in Nat /\ matchedAmount <= matchedAmount' /\ matchedAmount' \in Nat
    BY <1>4, <1>5, <1>6
  <2>1. /\ amount' = amount /\ wallet' = wallet /\ wallet.total = T /\ matchedAmount' >= amount
    <3>1. amount' = amount /\ wallet' = wallet /\ wallet.total = T
      BY <1>2, <1>6, Zenon
    <3>2. amount \in Nat /\ matchedAmount >= amount
      BY <1>2, Zenon
    <3>3. matchedAmount' >= amount
      BY <2>0, <3>2
    <3> QED
      BY <3>1, <3>3
  <2>2. pc' = "fee" => /\ feeNeeded' = feePaid' - (T[M] - amount')
                       /\ feeNeeded' <= T[n] - T[M]
                       /\ matchedFeeAmount' < feeNeeded'
    BY <1>2, <1>6, <1>11
  <2>3. pc' = "change" => matchedAmount' = amount' + feePaid' + change'
    BY <1>2, <1>6, <1>11
  <2>4. pc' = "change" => T[M + f + 1] >= amount' + feePaid'
    BY <1>6, <1>10, <1>11
  <2>5. Matched' + feeIndex' = M + f + 1 /\ wallet'.total = T
    BY <1>2, <1>6, <1>7
  <2> QED
    BY <1>2, <1>6, <1>7, <1>11, <2>1, <2>2, <2>3, <2>4, <2>5
       DEF SelectionInv, Phases, SpendAll, Funds, Total, NeedsDust
<1> QED
  BY <1>12, <1>13, <1>14, <1>15 DEF SelectionInv

(* The dust loop never runs past the end of unmatchedUtxos: while          *)
(* unmatchedAmount is positive there is an unmatched utxo at index.        *)
LEMMA DustInRange == SelectionInv => DustIndexInRange
<1> SUFFICES ASSUME SelectionInv, MoreForDust PROVE index < Len(unmatched)
  BY DEF DustIndexInRange
<1>1. PICK n, T, M, f, m : Shape(n, T) /\ M = Matched /\ f = feeIndex /\ m = index
  BY ShapeOfInv
<1>2. next = n + 1
  BY <1>1 DEF MoreForDust, NeedsDust, SelectionInv, Lists, Shape
<1>3. n = M + Len(unmatched) /\ n \in Nat /\ M \in 0 .. n /\ f \in Nat /\ M + f \in 0 .. n
  BY <1>1, <1>2, AfterSelection DEF Shape
<1>4. m \in 0 .. Len(unmatched) /\ Len(unmatched) \in Nat
  BY <1>1 DEF SelectionInv, TypeOK, Shape
<1>5. T[M] \in Nat /\ T[M + f] \in Nat /\ T[M] <= T[M + f]
  <2>1. M <= M + f
    BY <1>3
  <2> QED
    BY <1>1, <1>3, <2>1, ShapeGrows
<1>6. (T[next - 1] - T[M + f]) - (T[M + m] - T[M]) > 0
  BY <1>1 DEF MoreForDust, NeedsDust, Shape
<1>7. next - 1 = n
  BY <1>2, <1>3
<1>8. SUFFICES ASSUME m = Len(unmatched) PROVE FALSE
  BY <1>1, <1>4
<1>9. M + m = n /\ n \in 0 .. n
  BY <1>3, <1>8
<1>10. T[n] \in Nat
  BY <1>1, <1>9 DEF Shape
<1>11. (T[n] - T[M + f]) - (T[n] - T[M]) > 0
  BY <1>6, <1>7, <1>9
<1> QED
  BY <1>5, <1>10, <1>11

LEMMA AddDustStep == SelectionInv /\ AddDustInput => SelectionInv'
<1> SUFFICES ASSUME SelectionInv, AddDustInput PROVE SelectionInv'
  OBVIOUS
<1>1. PICK n, T, M, f, m : Shape(n, T) /\ M = Matched /\ f = feeIndex /\ m = index
  BY ShapeOfInv
<1>2. /\ n \in Nat /\ T \in [0 .. n -> Nat] /\ M \in 0 .. n /\ f \in Nat /\ m \in Nat
      /\ next = n + 1 /\ n = M + Len(unmatched) /\ Len(unmatched) \in Nat
      /\ m < Len(unmatched) /\ f <= Len(unmatched)
      /\ pc = "change" /\ change \in Nat /\ change > 0 /\ amount \in Nat
      /\ feePaid \in Nat /\ wallet.total = T /\ wallet.size = n
      /\ matchedAmount >= amount /\ unmatchedAmount \in Int
  <2>1. pc = "change" /\ change > 0 /\ m < Len(unmatched)
    BY <1>1, DustInRange DEF AddDustInput, MoreForDust, NeedsDust, DustIndexInRange
  <2>2. next = n + 1
    BY <1>1, <2>1 DEF SelectionInv, Lists, Shape
  <2>3. n = M + Len(unmatched)
    BY <1>1, <2>2, AfterSelection
  <2>4. /\ change \in Nat /\ amount \in Nat /\ feePaid \in Nat
        /\ f <= Len(unmatched) /\ unmatchedAmount \in Int
    BY <1>1, RequestsAssumption DEF SelectionInv, TypeOK, Shape
  <2>5. matchedAmount >= amount
    BY <2>1 DEF SelectionInv, Phases
  <2> QED
    BY <1>1, <2>1, <2>2, <2>3, <2>4, <2>5 DEF Shape
<1>3. M + f \in 0 .. n /\ M + m \in 0 .. n /\ M + m + 1 \in 1 .. n /\ M + m + 1 \in 0 .. n
  BY <1>2
<1>4. DustUtxo = M + m + 1 /\ UtxoAmount(DustUtxo) = T[M + m + 1] - T[M + m]
  <2>1. DustUtxo = M + (m + 1)
    BY <1>1, <1>2 DEF DustUtxo, SelectionInv, Lists
  <2>2. DustUtxo = M + m + 1 /\ DustUtxo - 1 = M + m
    BY <1>2, <2>1
  <2> QED
    BY <1>2, <2>2 DEF UtxoAmount, Total
<1>5. /\ T[M] \in Nat /\ T[M + f] \in Nat /\ T[M + m] \in Nat /\ T[M + m + 1] \in Nat
      /\ T[n] \in Nat /\ T[M + m] <= T[M + m + 1] /\ T[M] <= T[M + m]
  <2>1. M + m <= M + m + 1 /\ M <= M + m /\ M + f <= n /\ n \in 0 .. n
    BY <1>2, <1>3
  <2> QED
    BY <1>1, <1>2, <1>3, <2>1, ShapeGrows
<1>6. /\ matchedFeeAmount = T[M + f] - T[M]
      /\ matchedAmount = T[M + f] + (T[M + m] - T[M])
      /\ unmatchedAmount = (T[n] - T[M + f]) - (T[M + m] - T[M])
  <2>1. next - 1 = n
    BY <1>2
  <2> QED
    BY <1>1, <2>1 DEF Shape
<1>7. ~SpendAll /\ matchedAmount = amount + feePaid + change
  BY <1>2 DEF SelectionInv, Phases
<1>8. /\ change' = change + (T[M + m + 1] - T[M + m])
      /\ matchedAmount' = matchedAmount + (T[M + m + 1] - T[M + m])
      /\ unmatchedAmount' = unmatchedAmount - (T[M + m + 1] - T[M + m])
      /\ txIn' = Append(txIn, M + m + 1) /\ index' = m + 1
      /\ pc' = "change" /\ feeIndex' = f /\ matchedFeeAmount' = matchedFeeAmount
      /\ wallet' = wallet /\ unmatched' = unmatched /\ next' = next
      /\ amount' = amount /\ feeRate' = feeRate /\ feeNeeded' = feeNeeded
      /\ feePaid' = feePaid /\ destValue' = destValue /\ error' = error
  BY <1>1, <1>2, <1>4 DEF AddDustInput, inputVars, selectionVars
<1>9. Matched' = M
  BY <1>1, <1>8 DEF Matched
<1>10. /\ txIn \in Seq(1 .. n) /\ Len(txIn) = M + f + m
       /\ txIn' \in Seq(1 .. n) /\ Len(txIn') = M + f + m + 1
       /\ \A i \in 1 .. M + f + m : txIn'[i] = txIn[i]
       /\ txIn'[M + f + m + 1] = M + m + 1
  <2>1. txIn \in Seq(1 .. n) /\ Len(txIn) = M + f + m
    BY <1>1, <1>2 DEF SelectionInv, TypeOK, Lists
  <2>2. /\ Append(txIn, M + m + 1) \in Seq(1 .. n)
        /\ Len(Append(txIn, M + m + 1)) = Len(txIn) + 1
        /\ \A i \in 1 .. Len(txIn) : Append(txIn, M + m + 1)[i] = txIn[i]
        /\ Append(txIn, M + m + 1)[Len(txIn) + 1] = M + m + 1
    BY <1>3, <2>1, AppendOne
  <2> QED
    BY <1>8, <2>1, <2>2
<1>11. /\ change' \in Nat /\ matchedAmount' \in Nat /\ unmatchedAmount' \in Int
       /\ matchedAmount' = amount + feePaid + change' /\ matchedAmount' >= amount
       /\ change' > 0
  <2>1. PICK d \in Nat : d = T[M + m + 1] - T[M + m]
    BY <1>5
  <2>2. /\ change' = change + d /\ matchedAmount' = matchedAmount + d
        /\ unmatchedAmount' = unmatchedAmount - d
    BY <1>8, <2>1
  <2>3. matchedAmount = amount + feePaid + change
    BY <1>7
  <2> QED
    BY <1>2, <2>2, <2>3
<1>12. TypeOK'
  <2>1. IsWallet(wallet)' /\ wallet'.size = n
    BY <1>2, <1>8 DEF SelectionInv, TypeOK, IsWallet
  <2>2. feeIndex' \in 0 .. Len(unmatched') /\ index' \in 0 .. Len(unmatched')
    <3>1. /\ Len(unmatched) \in Nat /\ f \in Nat /\ m \in Nat
          /\ f <= Len(unmatched) /\ m < Len(unmatched)
      BY <1>2, Zenon
    <3>2. f \in 0 .. Len(unmatched) /\ m + 1 \in 0 .. Len(unmatched)
      BY <3>1
    <3> QED
      BY <1>8, <3>2, Zenon
  <2>3. unmatched' \in Seq(1 .. n) /\ next' \in 1 .. n + 1
    BY <1>2, <1>8 DEF SelectionInv, TypeOK
  <2> QED
    BY <1>8, <1>10, <1>11, <2>1, <2>2, <2>3 DEF SelectionInv, TypeOK
<1>13. Lists'
  <2>1. \A i \in 1 .. M + f : txIn'[i] = i
    <3>1. \A i \in 1 .. M + f : txIn[i] = i
      BY <1>1 DEF SelectionInv, Lists
    <3> SUFFICES ASSUME NEW i \in 1 .. M + f PROVE txIn'[i] = i
      OBVIOUS
    <3>2. i \in 1 .. M + f + m
      BY <1>2
    <3> QED
      BY <1>10, <3>1, <3>2
  <2>2. \A i \in 1 .. m + 1 : txIn'[M + f + i] = M + i
    <3>1. \A i \in 1 .. m : txIn[M + f + i] = M + i
      BY <1>1 DEF SelectionInv, Lists
    <3> SUFFICES ASSUME NEW i \in 1 .. m + 1 PROVE txIn'[M + f + i] = M + i
      OBVIOUS
    <3>2. CASE i = m + 1
      <4>1. M + f + i = M + f + m + 1 /\ M + i = M + m + 1
        BY <1>2, <3>2
      <4> QED
        BY <1>10, <4>1
    <3>3. CASE i \in 1 .. m
      <4>1. M + f + i \in 1 .. M + f + m
        BY <1>2, <3>3
      <4> QED
        BY <1>10, <3>1, <3>3, <4>1
    <3> QED
      BY <1>2, <3>2, <3>3
  <2>3. Len(txIn') = Matched' + feeIndex' + index'
    BY <1>2, <1>8, <1>9, <1>10
  <2>4. /\ Len(unmatched') <= next' - 1
        /\ \A i \in 1 .. Len(unmatched') : unmatched'[i] = Matched' + i
        /\ next' = wallet'.size + 1
    BY <1>1, <1>2, <1>8, <1>9 DEF SelectionInv, Lists
  <2> QED
    BY <1>8, <1>9, <2>1, <2>2, <2>3, <2>4 DEF Lists
<1>14. Amounts'
  <2>1. /\ Matched' + feeIndex' = M + f /\ Matched' + index' = M + m + 1
        /\ next' - 1 = n /\ wallet'.total = T
    BY <1>2, <1>8, <1>9
  <2>2. /\ matchedFeeAmount' = T[M + f] - T[M]
        /\ matchedAmount' = T[M + f] + (T[M + m + 1] - T[M])
        /\ unmatchedAmount' = (T[n] - T[M + f]) - (T[M + m + 1] - T[M])
    <3>1. /\ matchedAmount' = matchedAmount + (T[M + m + 1] - T[M + m])
          /\ unmatchedAmount' = unmatchedAmount - (T[M + m + 1] - T[M + m])
          /\ matchedFeeAmount' = matchedFeeAmount
      BY <1>8
    <3> QED
      BY <1>5, <1>6, <3>1
  <2> QED
    BY <1>9, <2>1, <2>2 DEF Amounts, Total
<1>15. Phases'
  BY <1>1, <1>2, <1>7, <1>8, <1>9, <1>11
     DEF SelectionInv, Phases, SpendAll, Funds, Total, NeedsDust
<1> QED
  BY <1>12, <1>13, <1>14, <1>15 DEF SelectionInv

-----------------------------------------------------------------------------
(* The steps that return an error return a true one.                       *)
LEMMA ErrorStep ==
  SelectionInv /\ (RejectFeeRate \/ InsufficientFunds \/ InsufficientFees \/ UndecodableInput)
    => SelectionInv'
<1> SUFFICES ASSUME SelectionInv,
                    RejectFeeRate \/ InsufficientFunds \/ InsufficientFees \/ UndecodableInput
             PROVE  SelectionInv'
  OBVIOUS
<1>1. PICK n, T, M : Shape(n, T) /\ M = Matched
  BY ShapeOfInv
<1>2. amount \in Nat /\ feePaid \in Nat /\ feeNeeded \in Nat /\ change \in Nat
  BY RequestsAssumption DEF SelectionInv, TypeOK
<1>3. CASE RejectFeeRate
  BY <1>3, FailStep DEF RejectFeeRate, Errors
<1>4. CASE InsufficientFunds
  <2>1. /\ pc = "select" /\ next = n + 1 /\ matchedAmount < amount
        /\ feeIndex = 0 /\ index = 0
    <3>1. pc = "select" /\ next > n /\ matchedAmount < amount
      BY <1>1, <1>4 DEF InsufficientFunds, Selected, Shape
    <3>2. next \in 1 .. n + 1 /\ n \in Nat
      BY <1>1 DEF SelectionInv, TypeOK, Shape
    <3>3. feeIndex = 0 /\ index = 0
      BY <3>1 DEF SelectionInv, Phases
    <3> QED
      BY <3>1, <3>2, <3>3
  <2>2. Funds = T[n] /\ n = M + Len(unmatched) /\ matchedAmount = T[M]
    BY <1>1, <2>1, AfterSelection
  <2>3. Len(unmatched) > 0 => T[M] >= amount
    BY <1>1 DEF SelectionInv, Phases, Total, Shape
  <2>4. Len(unmatched) \in Nat /\ M \in 0 .. n /\ n \in Nat /\ T[M] \in Nat
    BY <1>1 DEF Shape
  <2>5. Len(unmatched) = 0
    BY <1>2, <2>1, <2>2, <2>3, <2>4
  <2>6. M = n
    BY <2>2, <2>4, <2>5
  <2>7. Funds < amount
    BY <2>1, <2>2, <2>6
  <2> QED
    BY <1>4, <2>1, <2>7, FailStep DEF InsufficientFunds, Errors
<1>5. CASE InsufficientFees
  <2>1. /\ pc = "settle" /\ next = n + 1 /\ feeIndex = 0 /\ index = 0 /\ ~SpendAll
        /\ feeNeeded - change > unmatchedAmount
        /\ change = matchedAmount - amount /\ feePaid = feeNeeded
    BY <1>1, <1>5 DEF InsufficientFees, Shortage, SelectionInv, Lists, Phases, Shape
  <2>2. /\ Funds = T[n] /\ T[n] \in Nat /\ matchedAmount = T[M]
        /\ unmatchedAmount = T[n] - T[M]
    BY <1>1, <2>1, AfterSelection
  <2>3. T[M] \in Nat
    BY <1>1 DEF Shape
  <2>4. Funds < amount + feePaid
    BY <1>2, <2>1, <2>2, <2>3
  <2> QED
    BY <1>5, <2>1, <2>4, FailStep DEF InsufficientFees, Errors
<1>6. CASE UndecodableInput
  BY <1>6, FailStep DEF UndecodableInput, Selected, MoreForDust, Errors
<1> QED
  BY <1>3, <1>4, <1>5, <1>6

LEMMA NextInv == SelectionInv /\ [Next]_vars => SelectionInv'
<1> SUFFICES ASSUME SelectionInv, [Next]_vars PROVE SelectionInv'
  OBVIOUS
<1>1. CASE Next
  BY <1>1, MatchStep, LeaveStep, CheckStep, AddMatchedStep, SettleStep, BuildStep,
     AddFeeStep, AddDustStep, ErrorStep DEF Next
<1>2. CASE UNCHANGED vars
  <2>1. UNCHANGED loopVars /\ UNCHANGED <<pc, amount, feeRate, feeNeeded, feePaid,
                                          change, destValue, error>>
    BY <1>2 DEF vars, loopVars
  <2>2. pc' = pc
    BY <2>1
  <2>3. Lists' /\ Amounts' /\ Matched' = Matched
    BY <2>1, <2>2, LoopsUntouched DEF SelectionInv, Lists
  <2>4. TypeOK'
    BY <2>1 DEF SelectionInv, TypeOK, loopVars
  <2>5. Phases'
    BY <2>1, <2>3 DEF SelectionInv, Phases, loopVars, SpendAll, Funds, Total, NeedsDust
  <2> QED
    BY <2>3, <2>4, <2>5 DEF SelectionInv
<1> QED
  BY <1>1, <1>2

(* SelectionInv holds in every state of the function, for every list of    *)
(* utxos, request, fee rate and weights.                                   *)
THEOREM SelectionInvariant == Spec => []SelectionInv
BY InitInv, NextInv, PTL DEF Spec

-----------------------------------------------------------------------------
(* What the invariant says of the inputs of a transaction.                 *)

(* Unless both loops added inputs, the inputs are a prefix of the list.    *)
LEMMA PrefixOfWallet ==
  ASSUME SelectionInv, feeIndex = 0 \/ index = 0
  PROVE  \A i \in DOMAIN txIn : txIn[i] = i
<1>1. PICK M, f, m, L : /\ M = Matched /\ f = feeIndex /\ m = index
                        /\ L = Len(txIn) /\ L = M + f + m
  BY DEF SelectionInv, Lists
<1>2. M \in Nat /\ f \in Nat /\ m \in Nat
  <2>1. PICK n, T : Shape(n, T)
    BY ShapeOfInv
  <2> QED
    BY <1>1, <2>1 DEF Shape
<1>3. DOMAIN txIn = 1 .. L
  <2>1. DOMAIN txIn = 1 .. Len(txIn)
    BY DEF SelectionInv, TypeOK
  <2>2. Len(txIn) = L
    BY <1>1
  <2> QED
    BY <2>1, <2>2
<1>4. \A i \in 1 .. M + f : txIn[i] = i
  BY <1>1 DEF SelectionInv, Lists
<1>5. \A i \in 1 .. m : txIn[M + f + i] = M + i
  BY <1>1 DEF SelectionInv, Lists
<1> SUFFICES ASSUME NEW i \in 1 .. L PROVE txIn[i] = i
  BY <1>3
<1>6. CASE i \in 1 .. M + f
  BY <1>4, <1>6
<1>7. CASE i \notin 1 .. M + f
  <2>1. m > 0 /\ f = 0
    BY <1>1, <1>2, <1>7
  <2>2. i - M \in 1 .. m /\ M + f + (i - M) = i /\ M + (i - M) = i
    BY <1>1, <1>2, <1>7, <2>1
  <2>3. txIn[M + f + (i - M)] = M + (i - M)
    BY <1>5, <2>2
  <2> QED
    BY <2>2, <2>3
<1> QED
  BY <1>6, <1>7

(* When both loops added inputs, the first unmatched utxo is doubled.      *)
LEMMA BothLoopsDouble ==
  ASSUME SelectionInv, DistinctInputs
  PROVE  feeIndex = 0 \/ index = 0
<1>1. PICK M, f, m, L : /\ M = Matched /\ f = feeIndex /\ m = index
                        /\ L = Len(txIn) /\ L = M + f + m
  BY DEF SelectionInv, Lists
<1>2. M \in Nat /\ f \in Nat /\ m \in Nat
  <2>1. PICK n, T : Shape(n, T)
    BY ShapeOfInv
  <2> QED
    BY <1>1, <2>1 DEF Shape
<1> SUFFICES ASSUME f > 0, m > 0 PROVE FALSE
  BY <1>1, <1>2
<1>3. DOMAIN txIn = 1 .. L
  <2>1. DOMAIN txIn = 1 .. Len(txIn)
    BY DEF SelectionInv, TypeOK
  <2>2. Len(txIn) = L
    BY <1>1
  <2> QED
    BY <2>1, <2>2
<1>4. txIn[M + 1] = M + 1
  <2>1. M + 1 \in 1 .. M + f
    BY <1>2
  <2> QED
    BY <1>1, <2>1 DEF SelectionInv, Lists
<1>5. txIn[M + f + 1] = M + 1
  <2>1. 1 \in 1 .. m
    BY <1>2
  <2> QED
    BY <1>1, <2>1 DEF SelectionInv, Lists
<1>6. M + 1 \in 1 .. L /\ M + f + 1 \in 1 .. L /\ M + 1 # M + f + 1
  BY <1>1, <1>2
<1> QED
  BY <1>3, <1>4, <1>5, <1>6 DEF DistinctInputs

(* The value of the inputs when they are a prefix of the list.             *)
LEMMA PrefixValue ==
  ASSUME SelectionInv, DistinctInputs
  PROVE  /\ Total(Len(txIn)) = matchedAmount
         /\ next = wallet.size + 1 => unmatchedAmount = Funds - Total(Len(txIn))
<1>1. PICK n, T, M, f, m, L : /\ Shape(n, T) /\ M = Matched /\ f = feeIndex
                              /\ m = index /\ L = Len(txIn) /\ L = M + f + m
  BY ShapeOfInv DEF SelectionInv, Lists
<1>2. f = 0 \/ m = 0
  BY <1>1, BothLoopsDouble
<1>3. M \in 0 .. n /\ M + f \in 0 .. n /\ M + m \in 0 .. n /\ f \in Nat /\ m \in Nat /\ n \in Nat
  BY <1>1 DEF Shape
<1>4. T[M] \in Nat /\ T[M + f] \in Nat /\ T[M + m] \in Nat /\ T[n] \in Nat
  <2>1. n \in 0 .. n
    BY <1>3
  <2> QED
    BY <1>1, <1>3, <2>1 DEF Shape
<1>5. T[L] = T[M + f] + (T[M + m] - T[M])
  <2>1. CASE f = 0
    <3>1. L = M + m /\ M + f = M
      BY <1>1, <1>3, <2>1
    <3> QED
      BY <1>4, <3>1
  <2>2. CASE m = 0
    <3>1. L = M + f /\ M + m = M
      BY <1>1, <1>3, <2>2
    <3> QED
      BY <1>4, <3>1
  <2> QED
    BY <1>2, <2>1, <2>2
<1>6. matchedAmount = T[L]
  BY <1>1, <1>5 DEF Shape
<1>7. ASSUME next = wallet.size + 1
      PROVE  unmatchedAmount = T[n] - T[L]
  <2>1. next - 1 = n
    BY <1>1, <1>3, <1>7 DEF Shape
  <2>2. unmatchedAmount = (T[n] - T[M + f]) - (T[M + m] - T[M])
    BY <1>1, <2>1 DEF Shape
  <2> QED
    BY <1>4, <1>5, <2>2
<1> QED
  BY <1>1, <1>6, <1>7 DEF Total, Funds, Shape

(* The books balance.                                                      *)
LEMMA BalanceFollows == SelectionInv => BooksBalance
<1> SUFFICES ASSUME SelectionInv, pc = "built"
             PROVE  IF SpendAll
                      THEN change = 0 /\ destValue = Funds - feePaid
                      ELSE destValue = amount /\ matchedAmount - feePaid - change = amount
  BY DEF BooksBalance, Succeeded
<1>1. matchedAmount \in Nat /\ feePaid \in Nat /\ change \in Nat /\ amount \in Nat
  BY RequestsAssumption DEF SelectionInv, TypeOK
<1>2. CASE ~SpendAll
  BY <1>1, <1>2 DEF SelectionInv, Phases
<1>3. CASE SpendAll
  <2>1. change = 0 /\ destValue = matchedAmount - feePaid /\ Len(unmatched) = 0
    BY <1>3 DEF SelectionInv, Phases
  <2>2. PICK n, T : Shape(n, T) /\ next = n + 1
    BY ShapeOfInv DEF SelectionInv, Lists, Shape
  <2>3. feeIndex = 0 /\ index = 0
    BY <2>1 DEF SelectionInv, TypeOK
  <2>4. Funds = T[n] /\ n = Matched + Len(unmatched) /\ matchedAmount = T[Matched]
    BY <2>2, <2>3, AfterSelection
  <2>5. Matched = n
    BY <2>1, <2>2, <2>4 DEF Shape
  <2> QED
    BY <1>3, <2>1, <2>4, <2>5
<1> QED
  BY <1>2, <1>3

(* Errors are honest.                                                      *)
LEMMA HonestFollows == SelectionInv => ErrorsAreHonest
<1> SUFFICES ASSUME SelectionInv PROVE ErrorsAreHonest
  OBVIOUS
<1>1. ASSUME pc = "built", ~SpendAll PROVE Funds >= amount + feePaid
  <2>1. PICK n, T : Shape(n, T) /\ next = n + 1
    BY <1>1, ShapeOfInv DEF SelectionInv, Lists, Shape
  <2>2. Funds = T[n] /\ T[n] \in Nat /\ n \in 0 .. n /\ Matched + feeIndex \in 0 .. n
    BY <2>1, AfterSelection DEF Shape
  <2>3. T[Matched + feeIndex] \in Nat /\ T[Matched + feeIndex] <= T[n]
    <3>1. PICK k \in 0 .. n : k = Matched + feeIndex
      BY <2>2
    <3>2. k <= n
      OBVIOUS
    <3> QED
      BY <2>1, <2>2, <3>1, <3>2, ShapeGrows, Zenon
  <2>4. T[Matched + feeIndex] >= amount + feePaid
    BY <1>1, <2>1 DEF SelectionInv, Phases, Total, Shape
  <2>5. amount \in Nat /\ feePaid \in Nat
    BY RequestsAssumption DEF SelectionInv, TypeOK
  <2> QED
    BY <2>2, <2>3, <2>4, <2>5
<1> QED
  BY <1>1 DEF SelectionInv, Phases, ErrorsAreHonest, Succeeded

-----------------------------------------------------------------------------
(* The theorems a reader should know of.                                   *)

(* The variables keep their types: in particular change is never negative, *)
(* although the code computes it by subtractions it does not guard.        *)
THEOREM TypeCorrect == Spec => []TypeOK
<1>1. SelectionInv => TypeOK
  BY DEF SelectionInv
<1> QED
  BY <1>1, SelectionInvariant, PTL

(* The dust loop never indexes past the end of unmatchedUtxos.             *)
THEOREM DustLoopInRange == Spec => []DustIndexInRange
BY DustInRange, SelectionInvariant, PTL

(* A utxo is an input twice only if both loops added inputs.               *)
THEOREM DuplicatesCharacterised == Spec => []DuplicatesNeedBothLoops
<1>1. SelectionInv => DuplicatesNeedBothLoops
  <2> SUFFICES ASSUME SelectionInv, feeIndex = 0 \/ index = 0 PROVE DistinctInputs
    BY DEF DuplicatesNeedBothLoops, SelectionInv, TypeOK
  <2> QED
    BY PrefixOfWallet DEF DistinctInputs
<1> QED
  BY <1>1, SelectionInvariant, PTL

(* Without a doubled input, what the transaction spends is what it pays.   *)
THEOREM ValueConserved == Spec => []InputsPayOutputs
<1>1. SelectionInv => InputsPayOutputs
  <2> SUFFICES ASSUME SelectionInv, pc = "built", DistinctInputs
               PROVE  /\ \A i \in DOMAIN txIn : txIn[i] = i
                      /\ Total(Len(txIn)) = destValue + change + feePaid
    BY DEF InputsPayOutputs, Succeeded
  <2>1. \A i \in DOMAIN txIn : txIn[i] = i
    BY PrefixOfWallet, BothLoopsDouble
  <2>2. Total(Len(txIn)) = matchedAmount
    BY PrefixValue
  <2>3. matchedAmount \in Nat /\ feePaid \in Nat /\ change \in Nat /\ amount \in Nat
    BY RequestsAssumption DEF SelectionInv, TypeOK
  <2>4. matchedAmount = destValue + change + feePaid
    BY <2>3 DEF SelectionInv, Phases
  <2> QED
    BY <2>1, <2>2, <2>4
<1> QED
  BY <1>1, SelectionInvariant, PTL

(* The figures returned add up to the amount asked for, or to everything.  *)
THEOREM FiguresBalance == Spec => []BooksBalance
BY BalanceFollows, SelectionInvariant, PTL

(* An error about funds is a true one, and a transaction is built only for *)
(* a wallet that can pay the amount and the fee.                           *)
THEOREM HonestErrors == Spec => []ErrorsAreHonest
BY HonestFollows, SelectionInvariant, PTL

(* Dust change is left only when no utxo of value is left to add.          *)
THEOREM DustIsLastResort == Spec => []DustOnlyWhenExhausted
<1>1. SelectionInv => DustOnlyWhenExhausted
  <2> SUFFICES ASSUME SelectionInv, DustChange, DistinctInputs
               PROVE  Total(Len(txIn)) = Funds
    BY DEF DustOnlyWhenExhausted
  <2>1. next = wallet.size + 1
    BY DEF DustChange, Succeeded, SelectionInv, Lists
  <2>2. unmatchedAmount = Funds - Total(Len(txIn)) /\ Total(Len(txIn)) = matchedAmount
    BY <2>1, PrefixValue
  <2>3. unmatchedAmount <= 0
    <3>1. ~(unmatchedAmount > 0)
      BY DEF DustChange, Succeeded, SelectionInv, Phases, NeedsDust
    <3> QED
      BY <3>1 DEF SelectionInv, TypeOK
  <2>4. matchedAmount <= Funds
    <3>1. PICK n, T : Shape(n, T) /\ next = n + 1
      BY <2>1, ShapeOfInv DEF Shape
    <3>2. Funds = T[n] /\ Funds \in Nat /\ n \in Nat
      <4>1. Funds = T[n] /\ T[n] \in Nat
        BY <3>1, AfterSelection
      <4>2. n \in Nat
        BY <3>1 DEF Shape
      <4> QED
        BY <4>1, <4>2
    <3>3. Len(txIn) \in 0 .. n
      <4>1. /\ Len(txIn) = Matched + feeIndex + index /\ Matched + feeIndex \in 0 .. n
            /\ Matched + index \in 0 .. n /\ Matched \in 0 .. n
            /\ feeIndex \in Nat /\ index \in Nat
        BY <3>1 DEF SelectionInv, Lists, Shape
      <4>2. feeIndex = 0 \/ index = 0
        BY BothLoopsDouble
      <4> QED
        BY <3>2, <4>1, <4>2
    <3>4. T[Len(txIn)] \in Nat /\ T[Len(txIn)] <= T[n]
      <4>1. n \in 0 .. n /\ Len(txIn) <= n
        BY <3>2, <3>3
      <4> QED
        BY <3>1, <3>3, <4>1, ShapeGrows
    <3> QED
      BY <2>2, <3>1, <3>2, <3>4 DEF Total, Shape
  <2>5. Funds \in Int /\ matchedAmount \in Int
    <3>1. PICK n, T : Shape(n, T) /\ next = n + 1
      BY <2>1, ShapeOfInv DEF Shape
    <3> QED
      BY <3>1, AfterSelection DEF SelectionInv, TypeOK
  <2> QED
    BY <2>2, <2>3, <2>4, <2>5
<1> QED
  BY <1>1, SelectionInvariant, PTL

-----------------------------------------------------------------------------
(* CoinSelection implements Payment.  A step of the machine that is not a  *)
(* return changes nothing a caller sees.                                   *)
LEMMA InitPromise == Init => PaymentPromise!Init
<1> SUFFICES ASSUME Init PROVE PaymentPromise!Init
  OBVIOUS
<1>1. IsWallet(wallet) /\ amount \in Nat /\ feeRate \in Int
  BY WalletsAssumption, RequestsAssumption, RatesAssumption DEF Init
<1>2. Funds \in Nat
  BY <1>1 DEF IsWallet, Funds, Total
<1> QED
  BY <1>1, <1>2 DEF Init, PaymentPromise!Init, PaymentPromise!answer, Returned

LEMMA BuildPromise == SelectionInv /\ SelectionInv' /\ Build => PaymentPromise!Build
<1> SUFFICES ASSUME SelectionInv, SelectionInv', Build PROVE PaymentPromise!Build
  OBVIOUS
<1>1. BooksBalance' /\ ErrorsAreHonest'
  BY BalanceFollows, HonestFollows, PTL
<1>2. /\ pc = "change" /\ pc' = "built" /\ error = "none" /\ error' = "none"
      /\ UNCHANGED <<wallet, amount, feeRate, matchedAmount, feePaid, change, destValue>>
  BY DEF Build, inputVars, selectionVars, SelectionInv, Phases
<1>3. feeRate > 0 /\ feePaid > 0 /\ feePaid \in Nat /\ matchedAmount \in Nat /\ change \in Nat
      /\ amount \in Nat
  BY <1>2, RequestsAssumption DEF SelectionInv, TypeOK, Phases
<1>4. Funds' = Funds
  BY <1>2 DEF Funds, Total
<1>5. CASE SpendAll
  <2>1. change = 0 /\ destValue = Funds - feePaid /\ matchedAmount = destValue + feePaid
    BY <1>1, <1>2, <1>3, <1>4, <1>5
       DEF BooksBalance, Succeeded, SpendAll, SelectionInv, Phases
  <2>2. Funds = matchedAmount
    <3>1. Funds \in Nat
      <4>1. PICK n, T : Shape(n, T)
        BY ShapeOfInv
      <4> QED
        BY <4>1 DEF Shape, Funds, Total
    <3> QED
      BY <1>3, <2>1, <3>1 DEF SelectionInv, TypeOK
  <2> QED
    BY <1>2, <1>3, <1>4, <1>5, <2>1, <2>2
       DEF PaymentPromise!Build, PaymentPromise!BuildAll, PaymentPromise!asked, Returned,
           SpendAll
<1>6. CASE ~SpendAll
  <2>1. destValue = amount /\ matchedAmount - feePaid - change = amount
    BY <1>1, <1>2, <1>6 DEF BooksBalance, Succeeded, SpendAll
  <2>2. Funds >= amount + feePaid
    BY <1>1, <1>2, <1>4, <1>6 DEF ErrorsAreHonest, Succeeded, SpendAll
  <2>3. amount > 0 /\ matchedAmount = destValue + feePaid + change
    BY <1>3, <1>6, <2>1 DEF SpendAll
  <2> QED
    BY <1>2, <1>3, <1>4, <2>1, <2>2, <2>3
       DEF PaymentPromise!Build, PaymentPromise!BuildAmount, PaymentPromise!asked, Returned
<1> QED
  BY <1>5, <1>6

(* Returning an error is a refusal.                                        *)
LEMMA FailPromise ==
  ASSUME SelectionInv, SelectionInv', NEW reason \in Errors \ {"none"}, Fail(reason),
         pc \notin {"built", "failed"}
  PROVE  PaymentPromise!Refuse
<1>1. /\ pc' = "failed" /\ error' = reason
      /\ UNCHANGED <<wallet, amount, feeRate, feePaid>>
  BY DEF Fail, inputVars
<1>2. Funds' = Funds
  BY <1>1 DEF Funds, Total
<1>3. feePaid \in Nat /\ amount \in Nat /\ feeRate \in Int
  BY RequestsAssumption, RatesAssumption DEF SelectionInv, TypeOK
<1>4. /\ reason = "feeRate" => feeRate <= 0
      /\ reason = "funds" => Funds < amount
      /\ reason = "fees" => amount > 0 /\ Funds < amount + feePaid
  <2>1. /\ error' = "feeRate" => feeRate' <= 0
        /\ error' = "funds" => Funds' < amount'
        /\ error' = "fees" => ~SpendAll' /\ Funds' < amount' + feePaid'
    BY DEF SelectionInv, Phases
  <2> QED
    BY <1>1, <1>2, <1>3, <2>1 DEF SpendAll
<1> QED
  BY <1>1, <1>2, <1>3, <1>4
     DEF PaymentPromise!Refuse, PaymentPromise!asked, Returned, Errors

LEMMA StepPromise ==
  SelectionInv /\ SelectionInv' /\ [Next]_vars
    => [PaymentPromise!Next]_<<PaymentPromise!asked, PaymentPromise!answer>>
<1> SUFFICES ASSUME SelectionInv, SelectionInv', [Next]_vars
             PROVE  [PaymentPromise!Next]_<<PaymentPromise!asked, PaymentPromise!answer>>
  OBVIOUS
<1>1. CASE Build
  BY <1>1, BuildPromise DEF PaymentPromise!Next
<1>2. CASE RejectFeeRate \/ InsufficientFunds \/ InsufficientFees \/ UndecodableInput
  <2>1. PICK reason \in Errors \ {"none"} : Fail(reason)
    BY <1>2 DEF RejectFeeRate, InsufficientFunds, InsufficientFees, UndecodableInput, Errors
  <2>2. pc \notin {"built", "failed"}
    BY <1>2 DEF RejectFeeRate, InsufficientFunds, InsufficientFees, UndecodableInput,
                Selected, MoreForDust
  <2> QED
    BY <2>1, <2>2, FailPromise DEF PaymentPromise!Next
<1>3. ASSUME /\ pc \notin {"built", "failed"} /\ pc' \notin {"built", "failed"}
             /\ UNCHANGED <<wallet, amount, feeRate, error>>
      PROVE  UNCHANGED <<PaymentPromise!asked, PaymentPromise!answer>>
  BY <1>3 DEF PaymentPromise!asked, PaymentPromise!answer, Returned, Funds, Total
<1>4. CASE \/ CheckFeeRate \/ MatchUtxo \/ LeaveUtxo \/ AddMatchedInputs \/ SettleSpendAll
           \/ SettleFromChange \/ BeginFeeInputs \/ AddFeeInput \/ AddDustInput
  <2>1. /\ pc \notin {"built", "failed"} /\ pc' \notin {"built", "failed"}
        /\ UNCHANGED <<wallet, amount, feeRate, error>>
    BY <1>4 DEF CheckFeeRate, MatchUtxo, LeaveUtxo, AddMatchedInputs, Selected, SettleSpendAll,
                SettleFromChange, BeginFeeInputs, AddFeeInput, AddDustInput, MoreForDust,
                inputVars
  <2> QED
    BY <1>3, <2>1
<1>5. CASE UNCHANGED vars
  BY <1>5 DEF vars, PaymentPromise!asked, PaymentPromise!answer, Returned, Funds, Total
<1> QED
  BY <1>1, <1>2, <1>4, <1>5 DEF Next

(* CreateTransaction implements what it promises its caller: a single step *)
(* from the question to a balanced transaction or to an honest refusal.    *)
THEOREM PromiseKept == Spec => KeepsPromise
<1>1. Init => PaymentPromise!Init
  BY InitPromise
<1>2. SelectionInv /\ SelectionInv' /\ [Next]_vars
        => [PaymentPromise!Next]_<<PaymentPromise!asked, PaymentPromise!answer>>
  BY StepPromise
<1> QED
  BY <1>1, <1>2, SelectionInvariant, PTL DEF Spec, KeepsPromise, PaymentPromise!Spec

-----------------------------------------------------------------------------
(* Rounding up: what is divided by its quotient and by the next.           *)
LEMMA Quotient ==
  ASSUME NEW n \in Nat, NEW d \in Nat \ {0}
  PROVE  /\ n \div d \in Int
         /\ d * (n \div d) <= n
         /\ n < d * (n \div d) + d
OBVIOUS

LEMMA NextMultiple ==
  ASSUME NEW p \in Int, NEW q \in Int, NEW d \in Nat \ {0}, p > q
  PROVE  d * p >= d * q + d
<1>1. PICK k \in Nat : p = q + 1 + k
  <2>1. p - q - 1 \in Nat
    OBVIOUS
  <2> QED
    BY <2>1
<1>2. d * p = d * q + d + d * k /\ d * k >= 0
  BY <1>1
<1> QED
  BY <1>2

(* A fee grows with the size it is for, and that of two sizes together is  *)
(* at most the two fees.                                                   *)
LEMMA FeeGrows ==
  ASSUME NEW a \in Nat, NEW b \in Nat, feeRate \in Int, feeRate > 0
  PROVE  /\ FeeFor(a) \in Int /\ FeeFor(a + b) \in Int
         /\ FeeFor(a) <= FeeFor(a + b)
         /\ FeeFor(a + b) <= FeeFor(a) + FeeFor(b)
<1>1. PICK r \in Nat, d \in Nat \ {0} : r = feeRate /\ d = RateScale
  BY RatesAssumption
<1>2. PICK x \in Nat, y \in Nat : x = r * a /\ y = r * b
  OBVIOUS
<1>3. r * (a + b) = x + y
  BY <1>2
<1>4. /\ FeeFor(a) = (x + (d - 1)) \div d /\ FeeFor(b) = (y + (d - 1)) \div d
      /\ FeeFor(a + b) = (x + y + (d - 1)) \div d
  BY <1>1, <1>2, <1>3 DEF FeeFor
<1>5. x + (d - 1) \in Nat /\ y + (d - 1) \in Nat /\ x + y + (d - 1) \in Nat
  OBVIOUS
<1>6. PICK p \in Int, q \in Int, s \in Int :
        /\ p = FeeFor(a) /\ d * p <= x + (d - 1) /\ x + (d - 1) < d * p + d
        /\ q = FeeFor(b) /\ d * q <= y + (d - 1) /\ y + (d - 1) < d * q + d
        /\ s = FeeFor(a + b) /\ d * s <= x + y + (d - 1)
        /\ x + y + (d - 1) < d * s + d
  BY <1>4, <1>5, Quotient
<1>7. p <= s
  <2> SUFFICES ASSUME p > s PROVE FALSE
    OBVIOUS
  <2>1. d * p >= d * s + d /\ d * p \in Int /\ d * s \in Int
    BY NextMultiple
  <2> QED
    BY <1>6, <2>1
<1>8. s <= p + q
  <2> SUFFICES ASSUME s > p + q PROVE FALSE
    OBVIOUS
  <2>1. d * s >= d * (p + q) + d
    BY NextMultiple
  <2>2. /\ d * (p + q) = d * p + d * q
        /\ d * p \in Int /\ d * q \in Int /\ d * s \in Int
    OBVIOUS
  <2> QED
    BY <1>6, <2>1, <2>2
<1> QED
  BY <1>6, <1>7, <1>8

LEMMA SizeGrows ==
  ASSUME NEW w \in Nat, NEW e \in Nat
  PROVE  /\ VSizeOf(w) \in Nat /\ VSizeOf(e) \in Nat /\ VSizeOf(w + e) \in Nat
         /\ VSizeOf(w) <= VSizeOf(w + e)
         /\ VSizeOf(w + e) <= VSizeOf(w) + VSizeOf(e)
BY DEF VSizeOf

LEMMA FeeOfWeights ==
  ASSUME NEW w \in Nat, NEW e \in Nat, feeRate \in Int, feeRate > 0
  PROVE  /\ FeeFor(VSizeOf(w)) <= FeeFor(VSizeOf(w + e))
         /\ FeeFor(VSizeOf(w + e)) <= FeeFor(VSizeOf(w)) + FeeFor(VSizeOf(e))
<1>1. PICK a \in Nat, b \in Nat, c \in Nat :
        /\ a = VSizeOf(w) /\ b = VSizeOf(e) /\ c = VSizeOf(w + e)
        /\ a <= c /\ c <= a + b
  BY SizeGrows
<1>2. c - a \in Nat /\ a + (c - a) = c /\ a + b - c \in Nat /\ c + (a + b - c) = a + b
  BY <1>1
<1>3. FeeFor(a) <= FeeFor(c)
  BY <1>2, FeeGrows
<1>4. /\ FeeFor(c) <= FeeFor(a + b) /\ FeeFor(c) \in Int /\ FeeFor(a + b) \in Int
      /\ FeeFor(a) \in Int /\ FeeFor(b) \in Int
  BY <1>2, FeeGrows
<1>5. FeeFor(a + b) <= FeeFor(a) + FeeFor(b)
  BY FeeGrows
<1>6. FeeFor(c) <= FeeFor(a) + FeeFor(b)
  BY <1>4, <1>5
<1> QED
  BY <1>1, <1>3, <1>6

-----------------------------------------------------------------------------
(* The fee is that of the matched inputs alone: what AddMatchedInputs      *)
(* computes is never computed again.                                       *)
FeeOfMatched ==
  pc \in {"settle", "fee", "change", "built"} =>
    feePaid = FeeFor(VSizeOf(Weight(Matched)))

(* Where the selection loop is when it matches, and when it leaves, a utxo.*)
LEMMA MatchFacts ==
  ASSUME SelectionInv, MatchUtxo
  PROVE  /\ pc' = "select" /\ Matched = next - 1 /\ Matched' = next /\ next \in 1 .. wallet.size
         /\ feeIndex = 0 /\ index = 0 /\ Len(unmatched) = 0 /\ matchedAmount = Total(Matched)
         /\ SpendAll \/ matchedAmount < amount
<1>1. PICK n, T : Shape(n, T)
  BY ShapeOfInv
<1>2. /\ pc = "select" /\ pc' = "select" /\ next' = next + 1 /\ next <= n
      /\ feeIndex = 0 /\ index = 0 /\ unmatched' = unmatched
  BY <1>1 DEF MatchUtxo, Shape, SelectionInv, Phases
<1>3. /\ Matched \in 0 .. n /\ Matched + feeIndex = Matched /\ Matched + index = Matched
      /\ Len(unmatched) \in Nat /\ next - 1 = Matched + Len(unmatched) /\ next \in 1 .. n
  BY <1>1, <1>2 DEF Shape, SelectionInv, TypeOK
<1>4. matchedAmount = T[Matched]
  BY <1>1, <1>3 DEF Shape
<1>5. Len(unmatched) > 0 => ~SpendAll /\ T[Matched] >= amount
  BY <1>1 DEF SelectionInv, Phases, Total, Shape
<1>6. matchedAmount \in Nat /\ amount \in Nat
  BY RequestsAssumption DEF SelectionInv, TypeOK
<1>7. SpendAll \/ matchedAmount < amount
  BY <1>6 DEF MatchUtxo, Enough
<1>8. Len(unmatched) = 0
  BY <1>3, <1>4, <1>5, <1>6, <1>7
<1>9. Matched' = next
  BY <1>2, <1>3, <1>8 DEF Matched
<1> QED
  BY <1>1, <1>2, <1>3, <1>4, <1>7, <1>8, <1>9 DEF Shape, Total

LEMMA LeaveFacts ==
  ASSUME SelectionInv, LeaveUtxo
  PROVE  /\ pc' = "select" /\ Matched' = Matched /\ Len(unmatched') = Len(unmatched) + 1
         /\ feeIndex = 0 /\ index = 0 /\ next \in 1 .. wallet.size
<1>1. /\ pc = "select" /\ pc' = "select" /\ next' = next + 1 /\ next <= wallet.size
      /\ feeIndex = 0 /\ index = 0 /\ unmatched' = Append(unmatched, next)
  BY DEF LeaveUtxo, SelectionInv, Phases
<1>2. next \in 1 .. wallet.size /\ wallet.size \in Nat /\ unmatched \in Seq(1 .. wallet.size)
  BY <1>1 DEF SelectionInv, TypeOK, IsWallet
<1>3. Len(unmatched') = Len(unmatched) + 1 /\ Len(unmatched) \in Nat
  BY <1>1, <1>2, AppendOne
<1>4. Matched' = Matched
  BY <1>1, <1>2, <1>3 DEF Matched
<1> QED
  BY <1>1, <1>2, <1>3, <1>4

(* No other step moves the matched utxos.                                  *)
LEMMA MatchedStays ==
  ASSUME SelectionInv, [Next]_vars, ~MatchUtxo
  PROVE  Matched' = Matched /\ UNCHANGED <<wallet, amount, feeRate>>
<1>1. CASE LeaveUtxo
  BY <1>1, LeaveFacts DEF LeaveUtxo, inputVars
<1>2. CASE UNCHANGED <<next, unmatched, wallet, amount, feeRate>>
  BY <1>2 DEF Matched
<1> QED
  BY <1>1, <1>2
  DEF Next, vars, inputVars, selectionVars, Fail, CheckFeeRate, RejectFeeRate,
      InsufficientFunds, AddMatchedInputs, SettleSpendAll, SettleFromChange,
      InsufficientFees, BeginFeeInputs, AddFeeInput, AddDustInput, UndecodableInput, Build

LEMMA FeeOfMatchedStep ==
  SelectionInv /\ FeeOfMatched /\ [Next]_vars => FeeOfMatched'
<1> SUFFICES ASSUME SelectionInv, FeeOfMatched, [Next]_vars PROVE FeeOfMatched'
  OBVIOUS
<1>1. CASE MatchUtxo
  BY <1>1, MatchFacts DEF FeeOfMatched
<1>2. CASE AddMatchedInputs
  <2>1. Len(txIn) = Matched
    <3>1. /\ Len(txIn) = Matched + feeIndex + index /\ feeIndex = 0 /\ index = 0
      BY <1>2 DEF AddMatchedInputs, Selected, SelectionInv, Lists, Phases
    <3>2. Matched \in Nat
      <4>1. PICK n, T : Shape(n, T)
        BY ShapeOfInv
      <4> QED
        BY <4>1 DEF Shape
    <3> QED
      BY <3>1, <3>2
  <2>2. feePaid' = FeeFor(VSizeOf(Weight(Matched))) /\ ~MatchUtxo
    BY <1>2, <2>1 DEF AddMatchedInputs, Selected, MatchUtxo, SelectionInv, TypeOK, IsWallet
  <2> QED
    BY <2>2, MatchedStays DEF FeeOfMatched, FeeFor
<1>3. CASE pc' \notin {"settle", "fee", "change", "built"}
  BY <1>3 DEF FeeOfMatched
<1>4. CASE ~MatchUtxo /\ feePaid' = feePaid /\ pc \in {"settle", "fee", "change", "built"}
  BY <1>4, MatchedStays DEF FeeOfMatched, FeeFor
<1> QED
  BY <1>1, <1>2, <1>3, <1>4
  DEF Next, vars, Fail, CheckFeeRate, RejectFeeRate, MatchUtxo, LeaveUtxo, Selected,
      InsufficientFunds, AddMatchedInputs, SettleSpendAll, SettleFromChange, MoreForDust,
      InsufficientFees, BeginFeeInputs, AddFeeInput, AddDustInput, UndecodableInput, Build,
      SelectionInv, TypeOK

(* The weight of the transaction handed out beyond that of the matched     *)
(* inputs: the inputs the later loops added, and the change output.        *)
Extra == (feeIndex + index) * InputWeight + (IF change > 0 THEN OutputWeight ELSE 0)

(* The fee of a transaction is never more than feeRate asks of it, and it  *)
(* is exactly that when the later loops added nothing and no change is     *)
(* given.  Otherwise it may fall short, see FeeMeetsRate, but by no more   *)
(* than the fee of what was added after it was computed.                   *)
FeeFallsShortByExtra ==
  Succeeded =>
    /\ feePaid <= FeeFor(VSizeOf(FinalWeight))
    /\ feeIndex + index = 0 /\ change = 0 => feePaid = FeeFor(VSizeOf(FinalWeight))
    /\ FeeFor(VSizeOf(FinalWeight)) <= feePaid + FeeFor(VSizeOf(Extra))

(* Nothing is added to no input at all.                                    *)
LEMMA AddedToSome ==
  ASSUME SelectionInv, Matched = 0
  PROVE  feeIndex = 0 /\ index = 0
<1>1. amount \in Nat /\ Total(0) = 0 /\ Len(unmatched) \in Nat
      /\ feeIndex \in 0 .. Len(unmatched) /\ index \in 0 .. Len(unmatched)
  BY RequestsAssumption DEF SelectionInv, TypeOK, IsWallet, Total
<1>2. Len(unmatched) > 0 => amount # 0 /\ Total(Matched) >= amount
  BY DEF SelectionInv, Phases, SpendAll
<1> QED
  BY <1>1, <1>2

LEMMA FinalIsExtra ==
  ASSUME SelectionInv, Succeeded
  PROVE  /\ Weight(Matched) \in Nat /\ Extra \in Nat
         /\ FinalWeight = Weight(Matched) + Extra
<1>1. PICK m \in Nat, a \in Nat : m = Matched /\ a = feeIndex + index
  <2>1. PICK n, T : Shape(n, T)
    BY ShapeOfInv
  <2> QED
    BY <2>1 DEF Shape
<1>2. Len(txIn) = m + a
  <2>1. Len(txIn) = Matched + feeIndex + index /\ feeIndex \in Int /\ index \in Int
    BY DEF SelectionInv, Lists, TypeOK
  <2> QED
    BY <1>1, <2>1
<1>3. PICK o \in Nat : o = IF change > 0 THEN OutputWeight ELSE 0
  BY WeightsAssumption
<1>4. PICK w \in Nat : w = InputWeight
  BY WeightsAssumption
<1>5. m = 0 => a = 0
  BY <1>1, AddedToSome
<1>6. Weight(m + a) = Weight(m) + a * w
  <2>1. CASE m = 0
    BY <1>5, <2>1, WeightsAssumption DEF Weight
  <2>2. CASE m # 0
    <3>1. m + a # 0 /\ (m + a) * w = m * w + a * w
      BY <2>2
    <3>2. Weight(m + a) = BaseWeight + MarkerWeight + (m + a) * w
      BY <1>4, <3>1 DEF Weight
    <3>3. Weight(m) = BaseWeight + MarkerWeight + m * w
      BY <1>4, <2>2 DEF Weight
    <3>4. m * w \in Nat /\ a * w \in Nat
      OBVIOUS
    <3> QED
      BY <3>1, <3>2, <3>3, <3>4, WeightsAssumption
  <2> QED
    BY <2>1, <2>2
<1>7. Weight(m) \in Nat /\ a * w \in Nat
  <2>1. m * w \in Nat /\ a * w \in Nat
    OBVIOUS
  <2> QED
    BY <1>4, <2>1, WeightsAssumption DEF Weight
<1>8. Extra = a * w + o /\ FinalWeight = Weight(m + a) + o
  BY <1>1, <1>2, <1>3, <1>4 DEF Extra, FinalWeight
<1> QED
  BY <1>1, <1>6, <1>7, <1>8

(* How far the fee of a transaction is from what its rate asks.            *)
THEOREM FeeShortByWhatWasAdded == Spec => []FeeFallsShortByExtra
<1>1. Init => FeeOfMatched
  BY DEF Init, FeeOfMatched
<1>2. SelectionInv /\ FeeOfMatched => FeeFallsShortByExtra
  <2> SUFFICES ASSUME SelectionInv, FeeOfMatched, Succeeded
               PROVE  /\ feePaid <= FeeFor(VSizeOf(FinalWeight))
                      /\ feeIndex + index = 0 /\ change = 0 =>
                           feePaid = FeeFor(VSizeOf(FinalWeight))
                      /\ FeeFor(VSizeOf(FinalWeight)) <= feePaid + FeeFor(VSizeOf(Extra))
    BY DEF FeeFallsShortByExtra
  <2>1. PICK w \in Nat, e \in Nat :
          w = Weight(Matched) /\ e = Extra /\ FinalWeight = w + e
    BY FinalIsExtra
  <2>2. feePaid = FeeFor(VSizeOf(w))
    BY <2>1 DEF FeeOfMatched, Succeeded
  <2>3. feeRate \in Int /\ feeRate > 0
    BY RatesAssumption DEF SelectionInv, TypeOK, Phases, Succeeded
  <2>4. feeIndex + index = 0 /\ change = 0 => e = 0
    BY <2>1, WeightsAssumption DEF Extra
  <2>5. e = 0 => w + e = w
    OBVIOUS
  <2> QED
    BY <2>1, <2>2, <2>3, <2>4, <2>5, FeeOfWeights
<1> QED
  BY <1>1, <1>2, FeeOfMatchedStep, SelectionInvariant, PTL DEF Spec

-----------------------------------------------------------------------------
(* No loop takes an input it has no need of: without the last of the       *)
(* matched utxos the amount was not reached, without the last of the fee   *)
(* inputs the fee was not, and without the last of the dust inputs the     *)
(* change was dust.                                                        *)
NoNeedlessInput ==
  /\ ~SpendAll /\ Matched > 0 => Total(Matched - 1) < amount
  /\ feeIndex > 0 => Total(Matched + feeIndex - 1) < amount + feePaid
  /\ index > 0 => change - UtxoAmount(Matched + index) \in 1 .. P2trDustAmt

LEMMA FeeInputNeeded ==
  ASSUME SelectionInv, AddFeeInput
  PROVE  /\ index' = 0 /\ feeIndex' = feeIndex + 1
         /\ Matched + feeIndex + 1 - 1 = Matched + feeIndex
         /\ Total(Matched + feeIndex) < amount + feePaid
<1>1. PICK n, T, M, f : Shape(n, T) /\ M = Matched /\ f = feeIndex
  BY ShapeOfInv
<1>2. /\ T[M] \in Nat /\ T[M + f] \in Nat /\ amount \in Nat /\ feePaid \in Nat
      /\ feeNeeded \in Nat /\ wallet.total = T /\ M \in Nat /\ f \in Nat
  BY <1>1, RequestsAssumption DEF Shape, SelectionInv, TypeOK
<1>3. /\ feeNeeded = feePaid - (T[M] - amount) /\ matchedFeeAmount < feeNeeded
      /\ matchedFeeAmount = T[M + f] - T[M]
  BY <1>1 DEF AddFeeInput, SelectionInv, Phases, Shape, Total
<1>4. T[M + f] < amount + feePaid
  BY <1>2, <1>3
<1> QED
  BY <1>1, <1>2, <1>4 DEF Total, AddFeeInput, SelectionInv, Phases

LEMMA DustInputNeeded ==
  ASSUME SelectionInv, AddDustInput
  PROVE  /\ index' = index + 1 /\ feeIndex' = feeIndex
         /\ change' - UtxoAmount(Matched + (index + 1)) = change
         /\ change \in 1 .. P2trDustAmt
<1>1. index < Len(unmatched) /\ index \in Nat /\ Len(unmatched) \in Nat
  <2>1. index < Len(unmatched)
    BY DustInRange DEF AddDustInput, DustIndexInRange
  <2> QED
    BY <2>1 DEF SelectionInv, TypeOK
<1>2. DustUtxo = Matched + (index + 1)
  BY <1>1 DEF DustUtxo, SelectionInv, Lists
<1>3. change' = change + UtxoAmount(DustUtxo) /\ change > 0 /\ change <= P2trDustAmt
      /\ index' = index + 1 /\ feeIndex' = feeIndex
  BY DEF AddDustInput, MoreForDust, NeedsDust
<1>4. PICK n, T, M, k : Shape(n, T) /\ M = Matched /\ k = M + (index + 1)
  BY ShapeOfInv
<1>5. k \in 1 .. n
  <2>1. next = n + 1
    BY <1>4 DEF AddDustInput, MoreForDust, SelectionInv, Lists, Shape
  <2>2. n = M + Len(unmatched) /\ M \in Nat
    BY <1>4, <2>1, AfterSelection DEF Shape
  <2> QED
    BY <1>1, <1>4, <2>2
<1>6. UtxoAmount(k) \in Int
  <2>1. T \in [0 .. n -> Nat] /\ n \in Nat /\ wallet.total = T
    BY <1>4 DEF Shape
  <2>2. k \in 0 .. n /\ k - 1 \in 0 .. n
    BY <1>5, <2>1
  <2>3. T[k] \in Nat /\ T[k - 1] \in Nat
    BY <2>1, <2>2
  <2> QED
    BY <2>1, <2>3 DEF UtxoAmount, Total
<1>7. change \in Nat
  BY DEF SelectionInv, TypeOK
<1>8. change' - UtxoAmount(k) = change
  BY <1>2, <1>3, <1>4, <1>6, <1>7
<1> QED
  BY <1>3, <1>4, <1>7, <1>8, WeightsAssumption

LEMMA NoNeedlessStep ==
  SelectionInv /\ NoNeedlessInput /\ [Next]_vars => NoNeedlessInput'
<1> SUFFICES ASSUME SelectionInv, NoNeedlessInput, [Next]_vars PROVE NoNeedlessInput'
  OBVIOUS
<1>1. CASE MatchUtxo
  <2>1. /\ Matched' - 1 = Matched /\ feeIndex' = 0 /\ index' = 0
        /\ SpendAll \/ Total(Matched) < amount
        /\ amount' = amount /\ wallet' = wallet
    BY <1>1, MatchFacts DEF MatchUtxo, inputVars
  <2> QED
    BY <2>1 DEF NoNeedlessInput, Total, SpendAll
<1>2. CASE AddFeeInput
  <2>1. ~MatchUtxo /\ feePaid' = feePaid
    BY <1>2 DEF AddFeeInput, MatchUtxo
  <2>2. Matched' = Matched /\ UNCHANGED <<wallet, amount, feeRate>>
    BY <2>1, MatchedStays
  <2>3. Matched' + feeIndex' - 1 = Matched + feeIndex
    <3>1. PICK n, T : Shape(n, T)
      BY ShapeOfInv
    <3>2. Matched \in Nat /\ feeIndex \in Nat
      BY <3>1 DEF Shape
    <3> QED
      BY <1>2, <2>2, <3>2, FeeInputNeeded
  <2>4. wallet'.total[Matched' + feeIndex' - 1] < amount' + feePaid' /\ index' = 0
    BY <1>2, <2>1, <2>2, <2>3, FeeInputNeeded DEF Total
  <2> QED
    BY <2>2, <2>4 DEF NoNeedlessInput, Total, SpendAll
<1>3. CASE AddDustInput
  <2>1. ~MatchUtxo /\ feePaid' = feePaid
    BY <1>3 DEF AddDustInput, MoreForDust, MatchUtxo
  <2>2. Matched' = Matched /\ UNCHANGED <<wallet, amount, feeRate>>
    BY <2>1, MatchedStays
  <2> QED
    BY <1>3, <2>1, <2>2, DustInputNeeded DEF NoNeedlessInput, Total, SpendAll, UtxoAmount
<1>4. CASE /\ ~MatchUtxo /\ UNCHANGED <<feeIndex, index>>
           /\ feePaid' = feePaid \/ feeIndex = 0
           /\ change' = change \/ index = 0
  BY <1>4, MatchedStays DEF NoNeedlessInput, Total, SpendAll, UtxoAmount
<1>5. CASE /\ pc = "settle" \/ Selected
           /\ ~MatchUtxo /\ UNCHANGED <<feeIndex, index>>
  <2>1. feeIndex = 0 /\ index = 0
    BY <1>5 DEF Selected, SelectionInv, Phases
  <2> QED
    BY <1>4, <1>5, <2>1
<1>6. CASE LeaveUtxo
  <2>1. ~MatchUtxo /\ UNCHANGED <<feeIndex, index, feePaid, change>>
    BY <1>6 DEF LeaveUtxo, MatchUtxo
  <2> QED
    BY <1>4, <2>1
<1>7. CASE UNCHANGED vars
  BY <1>4, <1>7 DEF vars, NoNeedlessInput, Total, SpendAll, UtxoAmount, Matched
<1>8. ASSUME NEW reason, Fail(reason) PROVE NoNeedlessInput'
  BY <1>8 DEF Fail, inputVars, selectionVars, NoNeedlessInput, Total, SpendAll, UtxoAmount,
              Matched
<1>9. Selected => ~MatchUtxo
  <2>1. next \in Int /\ wallet.size \in Nat
    BY DEF SelectionInv, TypeOK, IsWallet
  <2> QED
    BY <2>1 DEF Selected, MatchUtxo
<1> QED
  BY <1>1, <1>2, <1>3, <1>4, <1>5, <1>6, <1>7, <1>8, <1>9
  DEF Next, CheckFeeRate, RejectFeeRate, MatchUtxo,
      InsufficientFunds, AddMatchedInputs, SettleSpendAll, SettleFromChange,
      InsufficientFees, BeginFeeInputs, UndecodableInput, Build

(* Each of the inputs is one the transaction needs.                        *)
THEOREM InputsAreNeeded == Spec => []NoNeedlessInput
<1>1. Init => NoNeedlessInput
  <2> SUFFICES ASSUME Init PROVE NoNeedlessInput
    OBVIOUS
  <2>1. Len(unmatched) = 0 /\ next = 1 /\ feeIndex = 0 /\ index = 0
    BY DEF Init
  <2>2. Matched = 0
    BY <2>1 DEF Matched
  <2> QED
    BY <2>1, <2>2 DEF NoNeedlessInput
<1> QED
  BY <1>1, NoNeedlessStep, SelectionInvariant, PTL DEF Spec

-----------------------------------------------------------------------------
(* What CreateTransaction still has to do: every utxo to look at may leave *)
(* one to either of the later loops, and the phases follow each other.     *)
PhasesLeft ==
  CASE pc = "start" -> 5
    [] pc = "select" -> 4
    [] pc = "settle" -> 3
    [] pc = "fee" -> 2
    [] pc = "change" -> 1
    [] OTHER -> 0

UtxosLeft == wallet.size + 1 - next
FeeUtxosLeft == Len(unmatched) - feeIndex
DustUtxosLeft == Len(unmatched) - index
WorkLeft == 3 * UtxosLeft + FeeUtxosLeft + DustUtxosLeft + PhasesLeft

(* Every step of the function leaves less to do, of which there is never   *)
(* less than none: no call takes more steps than three for each utxo and   *)
(* five, whatever the amounts, so that none of its loops runs for ever.    *)
LoopsEnd == [][WorkLeft' < WorkLeft /\ WorkLeft' \in Nat]_vars

LEMMA PartsLeft ==
  TypeOK => UtxosLeft \in Nat /\ FeeUtxosLeft \in Nat /\ DustUtxosLeft \in Nat
<1> SUFFICES ASSUME TypeOK
             PROVE  UtxosLeft \in Nat /\ FeeUtxosLeft \in Nat /\ DustUtxosLeft \in Nat
  OBVIOUS
<1>1. wallet.size \in Nat /\ Len(unmatched) \in Nat
  BY DEF TypeOK, IsWallet
<1>2. /\ next \in 1 .. wallet.size + 1
      /\ feeIndex \in 0 .. Len(unmatched) /\ index \in 0 .. Len(unmatched)
  BY DEF TypeOK
<1> QED
  BY <1>1, <1>2 DEF UtxosLeft, FeeUtxosLeft, DustUtxosLeft

LEMMA PhasesLeftType == PhasesLeft \in Nat
BY DEF PhasesLeft

LEMMA WorkLeftType == TypeOK => WorkLeft \in Nat
BY PartsLeft, PhasesLeftType DEF WorkLeft

(* A later phase, or one utxo less of one of the three kinds; the one the  *)
(* selection loop has looked at may be one more for each of the others.    *)
Fewer(u, f, d, p, v, g, e, q) ==
  \/ v = u /\ g = f /\ e = d /\ q < p
  \/ v = u - 1 /\ g <= f + 1 /\ e <= d + 1 /\ q = p
  \/ v = u /\ g = f - 1 /\ e = d /\ q <= p
  \/ v = u /\ g = f /\ e = d - 1 /\ q = p

LEMMA LessSum ==
  ASSUME NEW u \in Nat, NEW f \in Nat, NEW d \in Nat, NEW p \in Nat,
         NEW v \in Nat, NEW g \in Nat, NEW e \in Nat, NEW q \in Nat,
         Fewer(u, f, d, p, v, g, e, q)
  PROVE  3 * v + g + e + q < 3 * u + f + d + p
BY DEF Fewer

(* What is left of each kind before and after a step.                      *)
LEMMA LessLeft ==
  ASSUME TypeOK, TypeOK',
         Fewer(UtxosLeft, FeeUtxosLeft, DustUtxosLeft, PhasesLeft,
               UtxosLeft', FeeUtxosLeft', DustUtxosLeft', PhasesLeft')
  PROVE  WorkLeft' < WorkLeft
<1>1. /\ UtxosLeft \in Nat /\ FeeUtxosLeft \in Nat /\ DustUtxosLeft \in Nat
      /\ PhasesLeft \in Nat
  BY PartsLeft, PhasesLeftType
<1>2. (TypeOK => UtxosLeft \in Nat /\ FeeUtxosLeft \in Nat /\ DustUtxosLeft \in Nat)'
  BY PartsLeft, PTL
<1>3. PhasesLeft' \in Nat
  BY DEF PhasesLeft
<1>4. /\ UtxosLeft' \in Nat /\ FeeUtxosLeft' \in Nat /\ DustUtxosLeft' \in Nat
  BY <1>2
<1>5. 3 * UtxosLeft' + FeeUtxosLeft' + DustUtxosLeft' + PhasesLeft'
        < 3 * UtxosLeft + FeeUtxosLeft + DustUtxosLeft + PhasesLeft
  BY <1>1, <1>3, <1>4, LessSum, Zenon
<1> QED
  BY <1>5 DEF WorkLeft

LEMMA LessWork == SelectionInv /\ TypeOK' /\ Next => WorkLeft' < WorkLeft
<1> SUFFICES ASSUME SelectionInv, TypeOK', Next PROVE WorkLeft' < WorkLeft
  OBVIOUS
<1> USE DEF UtxosLeft, FeeUtxosLeft, DustUtxosLeft
<1>1. TypeOK
  BY DEF SelectionInv
<1>2. /\ wallet.size \in Nat /\ Len(unmatched) \in Nat /\ next \in Int
      /\ feeIndex \in Int /\ index \in Int
  <2>1. wallet.size \in Nat /\ Len(unmatched) \in Nat /\ next \in Int
    BY <1>1 DEF TypeOK, IsWallet
  <2> QED
    BY <1>1, <2>1 DEF TypeOK
<1>3. CASE MatchUtxo
  <2>1. UNCHANGED <<wallet, unmatched, feeIndex, index, pc>> /\ next' = next + 1
    BY <1>3 DEF MatchUtxo, inputVars
  <2>2. /\ UtxosLeft' = UtxosLeft - 1 /\ FeeUtxosLeft' <= FeeUtxosLeft + 1
        /\ DustUtxosLeft' <= DustUtxosLeft + 1
    BY <1>2, <2>1
  <2>3. PhasesLeft' = PhasesLeft
    BY <2>1 DEF PhasesLeft
  <2> QED
    BY <1>1, <2>2, <2>3, LessLeft DEF Fewer
<1>4. CASE LeaveUtxo
  <2>1. /\ UNCHANGED <<wallet, feeIndex, index, pc>> /\ next' = next + 1
        /\ Len(unmatched') = Len(unmatched) + 1
    BY <1>4, LeaveFacts DEF LeaveUtxo, inputVars
  <2>2. /\ UtxosLeft' = UtxosLeft - 1 /\ FeeUtxosLeft' <= FeeUtxosLeft + 1
        /\ DustUtxosLeft' <= DustUtxosLeft + 1
    BY <1>2, <2>1
  <2>3. PhasesLeft' = PhasesLeft
    BY <2>1 DEF PhasesLeft
  <2> QED
    BY <1>1, <2>2, <2>3, LessLeft DEF Fewer
<1>5. CASE AddFeeInput
  <2>1. /\ UNCHANGED <<wallet, next, unmatched, index>> /\ feeIndex' = feeIndex + 1
        /\ pc = "fee" /\ pc' \in {"fee", "change"}
    BY <1>5 DEF AddFeeInput, inputVars, selectionVars
  <2>2. /\ UtxosLeft' = UtxosLeft /\ FeeUtxosLeft' = FeeUtxosLeft - 1
        /\ DustUtxosLeft' = DustUtxosLeft
    BY <1>2, <2>1
  <2>3. PhasesLeft' <= PhasesLeft
    BY <2>1 DEF PhasesLeft
  <2> QED
    BY <1>1, <2>2, <2>3, LessLeft DEF Fewer
<1>6. CASE AddDustInput
  <2>1. UNCHANGED <<wallet, next, unmatched, feeIndex, pc>> /\ index' = index + 1
    BY <1>6 DEF AddDustInput, inputVars, selectionVars
  <2>2. /\ UtxosLeft' = UtxosLeft /\ FeeUtxosLeft' = FeeUtxosLeft
        /\ DustUtxosLeft' = DustUtxosLeft - 1
    BY <1>2, <2>1
  <2>3. PhasesLeft' = PhasesLeft
    BY <2>1 DEF PhasesLeft
  <2> QED
    BY <1>1, <2>2, <2>3, LessLeft DEF Fewer
<1>7. CASE /\ UNCHANGED <<wallet, next, unmatched, feeIndex, index>>
           /\ PhasesLeft' < PhasesLeft
  <2>1. /\ UtxosLeft' = UtxosLeft /\ FeeUtxosLeft' = FeeUtxosLeft
        /\ DustUtxosLeft' = DustUtxosLeft
    BY <1>7
  <2> QED
    BY <1>1, <1>7, <2>1, LessLeft DEF Fewer
<1>8. ASSUME NEW reason, Fail(reason), pc \in {"start", "select", "settle", "fee", "change"}
      PROVE  WorkLeft' < WorkLeft
  BY <1>7, <1>8 DEF Fail, inputVars, selectionVars, PhasesLeft
<1>9. CASE CheckFeeRate \/ AddMatchedInputs \/ SettleSpendAll \/ SettleFromChange
             \/ BeginFeeInputs \/ Build
  BY <1>7, <1>9 DEF CheckFeeRate, AddMatchedInputs, Selected, SettleSpendAll, SettleFromChange,
                    BeginFeeInputs, Build, inputVars, selectionVars, PhasesLeft
<1> QED
  BY <1>3, <1>4, <1>5, <1>6, <1>8, <1>9
  DEF Next, RejectFeeRate, InsufficientFunds, InsufficientFees, UndecodableInput, Selected,
      MoreForDust

(* CreateTransaction takes a bounded number of steps.                      *)
THEOREM LoopsAreBounded == Spec => LoopsEnd
<1>1. SelectionInv => TypeOK
  BY DEF SelectionInv
<1>2. SelectionInv /\ SelectionInv' /\ [Next]_vars =>
        [WorkLeft' < WorkLeft /\ WorkLeft' \in Nat]_vars
  <2>1. TypeOK' => (WorkLeft \in Nat)'
    BY WorkLeftType, PTL
  <2> QED
    BY <1>1, <2>1, LessWork DEF SelectionInv
<1> QED
  BY <1>2, SelectionInvariant, PTL DEF Spec, LoopsEnd

=============================================================================
