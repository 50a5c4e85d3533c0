--------------------------- MODULE Signing_proofs ---------------------------
(***************************************************************************)
(* Proofs about Signing, for every transaction and every number and size   *)
(* of batches: how far the search for keys gets, and what a signed         *)
(* transaction carries.                                                    *)
(***************************************************************************)
EXTENDS Signing, FiniteSetTheorems, TLAPS

(* A number below twice b wraps at most once.                              *)
LEMMA ModOnce ==
  ASSUME NEW b \in Nat \ {0}, NEW x \in 0 .. 2 * b - 1
  PROVE  x % b = IF x < b THEN x ELSE x - b
<1>1. CASE x < b
  BY <1>1
<1>2. CASE x >= b
  <2>1. x - b \in 0 .. b - 1 /\ x = b * 1 + (x - b)
    BY <1>2
  <2> QED
    BY <2>1
<1> QED
  BY <1>1, <1>2

(* The bounds of the inner loop: a batch is empty or has BatchSize keys.   *)
LEMMA BatchBounds ==
  ASSUME NEW i \in Nat
  PROVE  /\ First(i) \in 0 .. ByteSize - 1
         /\ Last(i) \in 0 .. ByteSize - 1
         /\ ~Empty(i) => Last(i) = First(i) + BatchSize
<1>1. BatchSize \in Nat \ {0} /\ ByteSize \in Nat \ {0} /\ BatchSize < ByteSize
  BY BatchAssumption
<1>2. PICK f \in 0 .. ByteSize - 1 : f = First(i)
  <2>1. i * BatchSize \in Nat
    BY <1>1
  <2> QED
    BY <1>1, <2>1 DEF First
<1>3. Last(i) = IF f + BatchSize < ByteSize THEN f + BatchSize ELSE f + BatchSize - ByteSize
  <2>1. f + BatchSize \in 0 .. 2 * ByteSize - 1
    BY <1>1, <1>2
  <2>2. PICK x \in 0 .. 2 * ByteSize - 1 : x = f + BatchSize
    BY <2>1
  <2>3. x % ByteSize = IF x < ByteSize THEN x ELSE x - ByteSize
    BY <1>1, ModOnce
  <2>4. Last(i) = x % ByteSize
    BY <1>2, <2>2 DEF Last
  <2> QED
    <3>1. CASE x < ByteSize
      BY <2>2, <2>3, <2>4, <3>1
    <3>2. CASE ~(x < ByteSize)
      <4>1. Last(i) = x - ByteSize
        BY <2>3, <2>4, <3>2
      <4> QED
        BY <1>1, <1>2, <2>2, <3>2, <4>1
    <3> QED
      BY <3>1, <3>2
<1> QED
  BY <1>1, <1>2, <1>3 DEF Empty

(* One batch adds BatchSize keys or none.                                  *)
LEMMA KeysBeforeStep ==
  ASSUME NEW i \in Nat
  PROVE  /\ KeysBefore(i) \in Nat
         /\ KeysBefore(i + 1) = KeysBefore(i) + (IF Empty(i) THEN 0 ELSE BatchSize)
<1> DEFINE Full(n) == {k \in 0 .. n - 1 : ~Empty(k)}
<1>1. BatchSize \in Nat
  BY BatchAssumption
<1>2. IsFiniteSet(Full(i)) /\ Cardinality(Full(i)) \in Nat
  <2>1. IsFiniteSet(0 .. i - 1) /\ Full(i) \subseteq 0 .. i - 1
    BY FS_Interval
  <2>2. IsFiniteSet(Full(i))
    BY <2>1, FS_Subset
  <2> QED
    BY <2>2, FS_CardinalityType
<1>3. /\ KeysBefore(i) = BatchSize * Cardinality(Full(i))
      /\ KeysBefore(i + 1) = BatchSize * Cardinality(Full(i + 1))
  BY DEF KeysBefore
<1>4. CASE Empty(i)
  <2>1. Full(i + 1) = Full(i)
    BY <1>4
  <2> HIDE DEF Full
  <2>2. BatchSize * Cardinality(Full(i)) \in Nat
    BY <1>1, <1>2
  <2> QED
    BY <1>3, <1>4, <2>1, <2>2
<1>5. CASE ~Empty(i)
  <2>1. Full(i + 1) = Full(i) \cup {i} /\ i \notin Full(i)
    BY <1>5
  <2>2. Cardinality(Full(i + 1)) = Cardinality(Full(i)) + 1
    BY <1>2, <2>1, FS_AddElement
  <2> HIDE DEF Full
  <2>3. /\ BatchSize * (Cardinality(Full(i)) + 1) = BatchSize * Cardinality(Full(i)) + BatchSize
        /\ BatchSize * Cardinality(Full(i)) \in Nat
    BY <1>1, <1>2
  <2> QED
    BY <1>3, <1>5, <2>2, <2>3
<1> QED
  BY <1>4, <1>5

(* The keys before a batch are at most those before the end of the search, *)
(* and at most a full batch for every batch.                               *)
LEMMA KeysBeforeBound ==
  ASSUME NEW i \in 0 .. Batches
  PROVE  /\ KeysBefore(i) <= Reach
         /\ Reach \in Nat
         /\ Reach <= Batches * BatchSize
<1> DEFINE Full(n) == {k \in 0 .. n - 1 : ~Empty(k)}
<1>1. BatchSize \in Nat /\ Batches \in Nat
  BY BatchAssumption
<1>2. Full(i) \subseteq Full(Batches)
  BY <1>1
<1>3. /\ IsFiniteSet(0 .. Batches - 1) /\ Cardinality(0 .. Batches - 1) = Batches
      /\ Full(Batches) \subseteq 0 .. Batches - 1
  BY <1>1, FS_Interval
<1>4. /\ IsFiniteSet(Full(Batches)) /\ Cardinality(Full(Batches)) <= Batches
      /\ Cardinality(Full(Batches)) \in Nat
  BY <1>3, FS_Subset, FS_CardinalityType
<1>5. Cardinality(Full(i)) <= Cardinality(Full(Batches)) /\ Cardinality(Full(i)) \in Nat
  BY <1>2, <1>4, FS_Subset, FS_CardinalityType
<1> HIDE DEF Full
<1>6. /\ BatchSize * Cardinality(Full(i)) <= BatchSize * Cardinality(Full(Batches))
      /\ BatchSize * Cardinality(Full(Batches)) <= Batches * BatchSize
      /\ BatchSize * Cardinality(Full(Batches)) \in Nat
  BY <1>1, <1>4, <1>5
<1> QED
  BY <1>6 DEF KeysBefore, Reach, Full

-----------------------------------------------------------------------------
Locked(owners) == [n \in DOMAIN owners |->
                     IF mode = "recover" THEN Timelock ELSE FinalSequence]

(* How far the search is: it has derived the keys of the batches before    *)
(* this one and, unless this one is empty, one for each j it counted.      *)
Progress ==
  /\ mapping = 0 .. sibling - 1
  /\ batch < Batches /\ Empty(batch) => j = First(batch) /\ sibling = KeysBefore(batch)
  /\ batch < Batches /\ ~Empty(batch) =>
       /\ j \in First(batch) .. Last(batch)
       /\ sibling = KeysBefore(batch) + (j - First(batch))
  /\ batch = Batches => sibling = Reach

(* What each phase of the call relies on.                                  *)
Stage ==
  /\ pc = "start" => batch = 0 /\ sequences = [n \in DOMAIN inputs |-> FinalSequence]
  /\ pc # "start" => sequences = Locked(inputs)
  /\ pc = "derive" /\ batch = Batches => ~AllMapped
  /\ pc = "failed" => batch = Batches /\ ~AllMapped
  /\ pc \in {"sign", "signed"} => AllMapped
  /\ pc = "signed" => Len(witnesses) = Len(inputs)
  /\ witnesses \in Seq([key : Nat \cup {Foreign}, sequence : {Timelock, FinalSequence},
                        spends : {"key", "script"}])
  /\ pc \notin {"sign", "signed"} => witnesses = << >>
  /\ \A n \in 1 .. Len(witnesses) : witnesses[n] = Signature(n)

SigningInv == TypeOK /\ Progress /\ Stage

LEMMA SiblingBound ==
  ASSUME SigningInv
  PROVE  sibling <= Reach /\ (pc = "derive" /\ BatchDone => sibling = KeysBefore(batch + 1))
<1>1. batch \in 0 .. Batches /\ Batches \in Nat /\ j \in Nat /\ sibling \in Nat
      /\ BatchSize \in Nat
  BY BatchAssumption DEF SigningInv, TypeOK
<1>2. CASE batch = Batches
  BY <1>1, <1>2, KeysBeforeBound DEF SigningInv, Progress, BatchDone
<1>3. CASE batch < Batches
  <2>1. /\ KeysBefore(batch) \in Nat /\ KeysBefore(batch + 1) <= Reach /\ Reach \in Nat
        /\ KeysBefore(batch + 1) = KeysBefore(batch) + (IF Empty(batch) THEN 0 ELSE BatchSize)
    <3>1. batch \in Nat /\ batch + 1 \in 0 .. Batches
      BY <1>1, <1>3
    <3> QED
      BY <3>1, KeysBeforeStep, KeysBeforeBound
  <2>2. /\ First(batch) \in Nat /\ Last(batch) \in Nat
        /\ ~Empty(batch) => Last(batch) = First(batch) + BatchSize
    BY <1>1, BatchBounds
  <2>3. /\ Empty(batch) => sibling = KeysBefore(batch)
        /\ ~Empty(batch) => /\ j <= Last(batch)
                            /\ sibling = KeysBefore(batch) + (j - First(batch))
    BY <1>3, <2>2 DEF SigningInv, Progress
  <2> QED
    BY <1>1, <2>1, <2>2, <2>3 DEF BatchDone
<1> QED
  BY <1>1, <1>2, <1>3

THEOREM SigningInit == Init => SigningInv
<1> SUFFICES ASSUME Init PROVE SigningInv
  OBVIOUS
<1>1. Path(0) = 0 /\ Batches \in Nat \ {0} /\ ByteSize \in Nat \ {0}
  BY HardenedAssumption, BatchAssumption DEF Path, isHardened
<1>2. First(0) = 0 /\ KeysBefore(0) = 0
  <2>1. BatchSize \in Nat /\ 0 * BatchSize = 0 /\ 0 % ByteSize = 0
    BY <1>1, BatchAssumption
  <2>2. {k \in 0 .. 0 - 1 : ~Empty(k)} = {}
    OBVIOUS
  <2> QED
    BY <2>1, <2>2, FS_EmptySet DEF First, KeysBefore
<1>3. TypeOK
  <2>1. inputs \in Seq(Nat \cup {Foreign})
    BY InputAssumption DEF Init
  <2> QED
    BY <1>1, <1>2, <2>1 DEF Init, TypeOK
<1>4. Progress
  <2>1. Last(0) \in Nat
    BY BatchBounds
  <2>2. ~Empty(0) => 0 \in First(0) .. Last(0)
    BY <1>2, <2>1 DEF Empty
  <2> QED
    BY <1>1, <1>2, <2>2 DEF Init, Progress
<1>5. Stage
  BY DEF Init, Stage
<1> QED
  BY <1>3, <1>4, <1>5 DEF SigningInv
-----------------------------------------------------------------------------
(* One lemma per action.                                                   *)
LEMMA BeginStep == SigningInv /\ BeginSearch => SigningInv'
<1> SUFFICES ASSUME SigningInv, BeginSearch PROVE SigningInv'
  OBVIOUS
<1>1. /\ pc = "start" /\ pc' = "derive"
      /\ UNCHANGED <<mode, inputs, batch, j, sibling, mapping, witnesses>>
  BY DEF BeginSearch
<1>2. sequences' = Locked(inputs)'
  BY <1>1 DEF BeginSearch, SigningInv, Stage, Locked
<1>3. TypeOK'
  BY <1>1, <1>2 DEF SigningInv, TypeOK, Locked
<1>4. Progress'
  BY <1>1 DEF SigningInv, Progress
<1>6. Stage'
  <2>1. batch' = 0 /\ Batches # 0 /\ witnesses' = << >>
    BY <1>1, BatchAssumption DEF SigningInv, Stage
  <2> QED
    BY <1>1, <1>2, <2>1 DEF Stage
<1> QED
  BY <1>3, <1>4, <1>6 DEF SigningInv

LEMMA DeriveStep == SigningInv /\ DeriveKey => SigningInv'
<1> SUFFICES ASSUME SigningInv, DeriveKey PROVE SigningInv'
  OBVIOUS
<1>1. /\ pc = "derive" /\ batch < Batches /\ j < Last(batch)
      /\ mapping' = mapping \cup {sibling} /\ sibling' = NextSibling(sibling)
      /\ j' = (j + 1) % ByteSize
      /\ UNCHANGED <<pc, mode, inputs, sequences, batch, witnesses>>
  BY DEF DeriveKey, InBatch, transaction
<1>2. /\ batch \in Nat /\ batch + 1 \in 0 .. Batches /\ j \in 0 .. ByteSize - 1
      /\ sibling \in Nat /\ ByteSize \in Nat /\ BatchSize \in Nat
  BY <1>1, BatchAssumption DEF SigningInv, TypeOK
<1>3. First(batch) \in Nat /\ Last(batch) \in 0 .. ByteSize - 1
      /\ (~Empty(batch) => Last(batch) = First(batch) + BatchSize)
  BY <1>2, BatchBounds
<1>4. ~Empty(batch) /\ j \in First(batch) .. Last(batch)
      /\ sibling = KeysBefore(batch) + (j - First(batch))
  BY <1>1, <1>2, <1>3 DEF SigningInv, Progress, Empty
<1>5. j' = j + 1
  <2>1. j + 1 < ByteSize /\ j + 1 \in 0 .. 2 * ByteSize - 1
    BY <1>1, <1>2, <1>3
  <2>2. PICK x \in 0 .. 2 * ByteSize - 1 : x = j + 1 /\ x < ByteSize
    BY <2>1
  <2>3. x % ByteSize = x
    BY <2>2, ModOnce, BatchAssumption
  <2> QED
    BY <1>1, <2>2, <2>3
<1>6. sibling < HardenedKeyStart - 1
  <2>1. /\ KeysBefore(batch + 1) <= Reach /\ Reach <= Batches * BatchSize /\ Reach \in Nat
        /\ KeysBefore(batch) \in Nat /\ KeysBefore(batch + 1) = KeysBefore(batch) + BatchSize
    BY <1>2, <1>4, KeysBeforeStep, KeysBeforeBound
  <2>2. Batches * BatchSize \in Nat /\ Batches * BatchSize < HardenedKeyStart
        /\ HardenedKeyStart \in Nat
    <3>1. Batches \in Nat
      BY BatchAssumption
    <3> QED
      BY <1>2, <3>1, BatchAssumption, HardenedAssumption
  <2>3. sibling < KeysBefore(batch) + BatchSize
    BY <1>1, <1>2, <1>3, <1>4, <2>1
  <2> QED
    BY <1>2, <2>1, <2>2, <2>3
<1>7. sibling' = sibling + 1
  <2>1. HardenedKeyStart \in Nat \ {0} /\ sibling + 1 \in 0 .. 2 * HardenedKeyStart - 1
    BY <1>2, <1>6, HardenedAssumption
  <2>2. Wrapped(sibling + 1) = sibling + 1
    <3>1. 2 * HardenedKeyStart \in Nat \ {0} /\ sibling + 1 \in 0 .. 2 * (2 * HardenedKeyStart) - 1
          /\ sibling + 1 < 2 * HardenedKeyStart
      BY <2>1
    <3> QED
      BY <3>1, ModOnce DEF Wrapped
  <2>3. ~isHardened(sibling) /\ ~isHardened(sibling + 1)
    BY <1>2, <1>6, <2>1 DEF isHardened
  <2> QED
    BY <1>1, <2>2, <2>3 DEF NextSibling, Path
<1>8. mapping' = 0 .. sibling' - 1
  <2>1. mapping = 0 .. sibling - 1
    BY DEF SigningInv, Progress
  <2> QED
    BY <1>1, <1>2, <1>7, <2>1
<1>9. TypeOK'
  <2>1. j' \in 0 .. ByteSize - 1 /\ sibling' \in Nat /\ mapping' \subseteq Nat
    BY <1>1, <1>2, <1>3, <1>5, <1>7, <1>8
  <2> QED
    BY <1>1, <2>1 DEF SigningInv, TypeOK
<1>10. Progress'
  <2>1. /\ j' \in First(batch) .. Last(batch)
        /\ sibling' = KeysBefore(batch) + (j' - First(batch))
    <3>1. KeysBefore(batch) \in Nat
      BY <1>2, KeysBeforeStep
    <3> QED
      BY <1>1, <1>2, <1>3, <1>4, <1>5, <1>7, <3>1
  <2>2. batch' = batch
    BY <1>1
  <2> QED
    BY <1>1, <1>2, <1>4, <1>8, <2>1, <2>2 DEF Progress
<1>11. Stage'
  <2>1. pc' = "derive" /\ batch' # Batches /\ sequences' = Locked(inputs)' /\ witnesses' = << >>
    BY <1>1, <1>2 DEF SigningInv, Stage, Locked
  <2> QED
    BY <2>1 DEF Stage
<1> QED
  BY <1>9, <1>10, <1>11 DEF SigningInv

LEMMA NextBatchStep == SigningInv /\ NextBatch => SigningInv'
<1> SUFFICES ASSUME SigningInv, NextBatch PROVE SigningInv'
  OBVIOUS
<1>1. /\ pc = "derive" /\ BatchDone /\ batch < Batches /\ ~AllMapped
      /\ batch' = batch + 1 /\ j' = First(batch + 1)
      /\ UNCHANGED <<pc, mode, inputs, sequences, sibling, mapping, witnesses>>
  BY DEF NextBatch, BatchDone, transaction
<1>2. batch + 1 \in Nat /\ batch + 1 \in 0 .. Batches
  BY <1>1, BatchAssumption DEF SigningInv, TypeOK
<1>3. sibling = KeysBefore(batch + 1) /\ KeysBefore(batch + 1) \in Nat
  BY <1>1, <1>2, SiblingBound, KeysBeforeStep
<1>4. First(batch + 1) \in 0 .. ByteSize - 1 /\ Last(batch + 1) \in 0 .. ByteSize - 1
  BY <1>2, BatchBounds
<1>5. TypeOK'
  BY <1>1, <1>2, <1>4 DEF SigningInv, TypeOK
<1>6. Progress'
  <2>1. ~Empty(batch + 1) => First(batch + 1) \in First(batch + 1) .. Last(batch + 1)
    BY <1>4, BatchAssumption DEF Empty
  <2>2. sibling = KeysBefore(batch + 1) + (First(batch + 1) - First(batch + 1))
    BY <1>3, <1>4
  <2>3. mapping' = 0 .. sibling' - 1
    BY <1>1 DEF SigningInv, Progress
  <2>4. batch + 1 = Batches => sibling = Reach
    BY <1>3 DEF Reach
  <2> QED
    BY <1>1, <1>3, <2>1, <2>2, <2>3, <2>4 DEF Progress
<1>7. Stage'
  <2>1. /\ pc' = "derive" /\ sequences' = Locked(inputs)' /\ witnesses' = << >>
        /\ ~AllMapped'
    BY <1>1 DEF SigningInv, Stage, Locked, AllMapped, AllOwned
  <2> QED
    BY <2>1 DEF Stage
<1> QED
  BY <1>5, <1>6, <1>7 DEF SigningInv

LEMMA SearchEnds == SigningInv /\ (KeysFound \/ KeysNotFound \/ Finish) => SigningInv'
<1> SUFFICES ASSUME SigningInv, KeysFound \/ KeysNotFound \/ Finish PROVE SigningInv'
  OBVIOUS
<1>1. UNCHANGED <<mode, inputs, sequences, batch, j, sibling, mapping, witnesses>>
  BY DEF KeysFound, KeysNotFound, Finish, transaction
<1>2. TypeOK'
  BY <1>1 DEF SigningInv, TypeOK, KeysFound, KeysNotFound, Finish
<1>3. Progress'
  BY <1>1 DEF SigningInv, Progress
<1>4. AllMapped' <=> AllMapped
  BY <1>1 DEF AllMapped, AllOwned
<1>5. Stage'
  <2>1. /\ sequences' = Locked(inputs)' /\ pc' # "start" /\ pc' # "derive"
        /\ \A n \in 1 .. Len(witnesses') : witnesses'[n] = Signature(n)'
        /\ witnesses' = witnesses
    BY <1>1 DEF SigningInv, Stage, Locked, Signature, KeysFound, KeysNotFound, Finish, BatchDone
  <2>2. /\ pc' = "failed" => batch' = Batches /\ ~AllMapped' /\ witnesses' = << >>
        /\ pc' \in {"sign", "signed"} => AllMapped'
        /\ pc' = "signed" => Len(witnesses') = Len(inputs')
    BY <1>1, <1>4 DEF SigningInv, Stage, KeysFound, KeysNotFound, Finish
  <2>3. witnesses' \in Seq([key : Nat \cup {Foreign}, sequence : {Timelock, FinalSequence},
                            spends : {"key", "script"}])
    BY <1>1 DEF SigningInv, Stage
  <2>4. pc' \notin {"sign", "signed"} => pc' = "failed"
    BY DEF KeysFound, KeysNotFound, Finish
  <2> QED
    BY <2>1, <2>2, <2>3, <2>4 DEF Stage
<1> QED
  BY <1>2, <1>3, <1>5 DEF SigningInv

LEMMA AppendLast ==
  ASSUME NEW S, NEW list \in Seq(S), NEW e \in S
  PROVE  /\ Append(list, e) \in Seq(S)
         /\ Len(Append(list, e)) = Len(list) + 1
         /\ Len(list) \in Nat
         /\ \A i \in 1 .. Len(list) : Append(list, e)[i] = list[i]
         /\ Append(list, e)[Len(list) + 1] = e
OBVIOUS

LEMMA SignStep == SigningInv /\ SignInput => SigningInv'
<1> SUFFICES ASSUME SigningInv, SignInput PROVE SigningInv'
  OBVIOUS
<1> DEFINE m == Len(witnesses) + 1
           W == [key : Nat \cup {Foreign}, sequence : {Timelock, FinalSequence},
                 spends : {"key", "script"}]
<1>1. /\ pc = "sign" /\ pc' = "sign" /\ Len(witnesses) < Len(inputs)
      /\ witnesses' = Append(witnesses, Signature(m))
      /\ UNCHANGED <<mode, inputs, sequences, batch, j, sibling, mapping>>
  BY DEF SignInput, transaction
<1>2. inputs \in Seq(Nat \cup {Foreign}) /\ witnesses \in Seq(W)
  BY InputAssumption DEF SigningInv, TypeOK, Stage
<1>3. m \in DOMAIN inputs /\ m \in 1 .. Len(inputs) /\ Len(witnesses) \in Nat /\ Len(inputs) \in Nat
  BY <1>1, <1>2
<1>4. Signature(m) \in W
  <2>1. inputs[m] \in Nat \cup {Foreign} /\ sequences[m] \in {Timelock, FinalSequence}
    BY <1>2, <1>3 DEF SigningInv, TypeOK
  <2> QED
    BY <2>1 DEF Signature
<1> HIDE DEF m, W
<1>5. /\ witnesses' \in Seq(W) /\ Len(witnesses') = Len(witnesses) + 1
      /\ \A i \in 1 .. Len(witnesses) : witnesses'[i] = witnesses[i]
      /\ witnesses'[Len(witnesses) + 1] = Signature(m)
  BY <1>1, <1>2, <1>4, AppendLast
<1>6. TypeOK'
  BY <1>1, <1>3, <1>5 DEF SigningInv, TypeOK
<1>7. Progress'
  BY <1>1 DEF SigningInv, Progress
<1>8. \A n \in 1 .. Len(witnesses') : witnesses'[n] = Signature(n)'
  <2> SUFFICES ASSUME NEW n \in 1 .. Len(witnesses) + 1
               PROVE  witnesses'[n] = Signature(n)
    BY <1>1, <1>5 DEF Signature
  <2>1. CASE n = Len(witnesses) + 1
    BY <1>5, <2>1 DEF m
  <2>2. CASE n \in 1 .. Len(witnesses)
    BY <1>5, <2>2 DEF SigningInv, Stage
  <2> QED
    BY <1>3, <2>1, <2>2
<1>9. Stage'
  BY <1>1, <1>5, <1>8 DEF SigningInv, Stage, Locked, AllMapped, AllOwned, W
<1> QED
  BY <1>6, <1>7, <1>9 DEF SigningInv

LEMMA SigningNext == SigningInv /\ [Next]_vars => SigningInv'
<1> SUFFICES ASSUME SigningInv, [Next]_vars PROVE SigningInv'
  OBVIOUS
<1>1. CASE Next
  BY <1>1, BeginStep, DeriveStep, NextBatchStep, SearchEnds, SignStep DEF Next
<1>2. CASE UNCHANGED vars
  BY <1>2 DEF vars, SigningInv, TypeOK, Progress, Stage, Locked, AllMapped, AllOwned, Signature
<1> QED
  BY <1>1, <1>2

(* The inductive invariant of the key search and the signing loop.         *)
THEOREM SigningInvariant == Spec => []SigningInv
BY SigningInit, SigningNext, PTL DEF Spec

-----------------------------------------------------------------------------
(* The theorems a reader should know of.                                   *)

(* The types hold; the counter of the inner loop never leaves its uint8.   *)
THEOREM SigningTypes == Spec => []TypeOK
<1>1. SigningInv => TypeOK
  BY DEF SigningInv
<1> QED
  BY <1>1, SigningInvariant, PTL

(* The search derives the first keys of the wallet without a hole and never*)
(* more than Reach of them.                                                *)
THEOREM SearchIsPrefix == Spec => []ConsecutiveKeys
<1>1. SigningInv => ConsecutiveKeys
  <2> SUFFICES ASSUME SigningInv PROVE ConsecutiveKeys
    OBVIOUS
  <2>1. sibling <= Reach /\ (pc = "derive" /\ BatchDone => sibling = KeysBefore(batch + 1))
    BY SiblingBound
  <2> QED
    BY <2>1 DEF ConsecutiveKeys, SigningInv, Progress
<1> QED
  BY <1>1, SigningInvariant, PTL

(* A transaction is signed exactly when the first Reach keys own all of its*)
(* inputs.                                                                 *)
THEOREM ReachDecides == Spec => []OutcomeIsReach
<1>1. SigningInv => OutcomeIsReach
  <2> SUFFICES ASSUME SigningInv PROVE OutcomeIsReach
    OBVIOUS
  <2>1. mapping = 0 .. sibling - 1 /\ sibling \in Nat /\ sibling <= Reach
    BY SiblingBound DEF SigningInv, TypeOK, Progress
  <2>2. Reach \in Nat
    <3>1. 0 \in 0 .. Batches
      BY BatchAssumption
    <3> QED
      BY <3>1, KeysBeforeBound
  <2>3. pc = "signed" => AllOwned(0 .. Reach - 1)
    <3>1. mapping \subseteq 0 .. Reach - 1
      BY <2>1, <2>2
    <3> QED
      BY <3>1 DEF SigningInv, Stage, AllMapped, AllOwned
  <2>4. pc = "failed" => ~AllOwned(0 .. Reach - 1)
    BY <2>1 DEF SigningInv, Stage, Progress, AllMapped
  <2> QED
    BY <2>3, <2>4 DEF OutcomeIsReach
<1> QED
  BY <1>1, SigningInvariant, PTL

(* Every witness is its input's owner's, for the sequence number sent.     *)
THEOREM SignaturesFit == Spec => []WitnessesValid
<1>1. SigningInv => WitnessesValid
  <2> SUFFICES ASSUME SigningInv, pc = "signed", NEW n \in DOMAIN inputs
               PROVE  /\ witnesses[n].key = inputs[n]
                      /\ witnesses[n].sequence = sequences[n]
                      /\ witnesses[n].spends = "script" => sequences[n] = Timelock
                      /\ mode = "recover" <=> witnesses[n].spends = "script"
    BY DEF WitnessesValid, SigningInv, Stage
  <2>1. inputs \in Seq(Nat \cup {Foreign})
    BY InputAssumption DEF SigningInv, TypeOK
  <2>2. n \in 1 .. Len(witnesses)
    BY <2>1 DEF SigningInv, Stage
  <2>3. witnesses[n] = Signature(n)
    BY <2>2 DEF SigningInv, Stage
  <2>4. sequences[n] = IF mode = "recover" THEN Timelock ELSE FinalSequence
    BY DEF SigningInv, Stage, Locked
  <2> QED
    BY <2>3, <2>4 DEF Signature
<1> QED
  BY <1>1, SigningInvariant, PTL

(* What the call still has to do: keys to derive, batches to try, inputs   *)
(* to sign, and the phases between them.                                   *)
KeysLeft == Reach - sibling
BatchesLeft == Batches - batch
SignaturesLeft == Len(inputs) - Len(witnesses)
PhasesLeft ==
  CASE pc = "start" -> 3 [] pc = "derive" -> 2 [] pc = "sign" -> 1 [] OTHER -> 0
WorkLeft == KeysLeft + BatchesLeft + SignaturesLeft + PhasesLeft

(* Every step of the call leaves less to do, of which there is never less  *)
(* than none: though the counter of the search is a byte that wraps, the   *)
(* search and the signing take no more steps than there are keys in reach, *)
(* batches and inputs, and three.                                          *)
CallEnds == [][WorkLeft' < WorkLeft /\ WorkLeft' \in Nat]_vars

LEMMA PartsLeft ==
  SigningInv => /\ KeysLeft \in Nat /\ BatchesLeft \in Nat /\ SignaturesLeft \in Nat
                /\ PhasesLeft \in Nat
<1> SUFFICES ASSUME SigningInv
             PROVE  /\ KeysLeft \in Nat /\ BatchesLeft \in Nat /\ SignaturesLeft \in Nat
                    /\ PhasesLeft \in Nat
  OBVIOUS
<1>1. sibling <= Reach /\ sibling \in Nat
  BY SiblingBound DEF SigningInv, TypeOK
<1>2. Reach \in Nat /\ Batches \in Nat /\ batch \in 0 .. Batches
  <2>1. batch \in 0 .. Batches /\ Batches \in Nat
    BY BatchAssumption DEF SigningInv, TypeOK
  <2> QED
    BY <2>1, KeysBeforeBound
<1>3. Len(inputs) \in Nat /\ Len(witnesses) \in 0 .. Len(inputs)
  <2>1. inputs \in Seq(Nat \cup {Foreign})
    BY InputAssumption DEF SigningInv, TypeOK
  <2> QED
    BY <2>1 DEF SigningInv, TypeOK
<1>4. KeysLeft \in Nat
  BY <1>1, <1>2 DEF KeysLeft
<1>5. BatchesLeft \in Nat
  BY <1>2 DEF BatchesLeft
<1>6. SignaturesLeft \in Nat
  BY <1>3 DEF SignaturesLeft
<1>7. PhasesLeft \in Nat
  BY DEF PhasesLeft
<1> QED
  BY <1>4, <1>5, <1>6, <1>7

(* One kind of work shrinks and the others stay, so the sum shrinks.       *)
Fewer(k, b, s, p, l, c, t, q) ==
  \/ l < k /\ c = b /\ t = s /\ q = p
  \/ l = k /\ c < b /\ t = s /\ q = p
  \/ l = k /\ c = b /\ t < s /\ q = p
  \/ l = k /\ c = b /\ t = s /\ q < p

LEMMA LessSum ==
  ASSUME NEW k \in Nat, NEW b \in Nat, NEW s \in Nat, NEW p \in Nat,
         NEW l \in Nat, NEW c \in Nat, NEW t \in Nat, NEW q \in Nat,
         Fewer(k, b, s, p, l, c, t, q)
  PROVE  l + c + t + q < k + b + s + p
BY DEF Fewer

LEMMA LessLeft ==
  ASSUME SigningInv, SigningInv',
         Fewer(KeysLeft, BatchesLeft, SignaturesLeft, PhasesLeft,
               KeysLeft', BatchesLeft', SignaturesLeft', PhasesLeft')
  PROVE  WorkLeft' < WorkLeft
<1>1. KeysLeft \in Nat /\ BatchesLeft \in Nat /\ SignaturesLeft \in Nat /\ PhasesLeft \in Nat
  BY PartsLeft
<1>2. (SigningInv => /\ KeysLeft \in Nat /\ BatchesLeft \in Nat /\ SignaturesLeft \in Nat
                     /\ PhasesLeft \in Nat)'
  BY PartsLeft, PTL
<1>3. KeysLeft' \in Nat /\ BatchesLeft' \in Nat /\ SignaturesLeft' \in Nat /\ PhasesLeft' \in Nat
  BY <1>2
<1>4. KeysLeft' + BatchesLeft' + SignaturesLeft' + PhasesLeft'
        < KeysLeft + BatchesLeft + SignaturesLeft + PhasesLeft
  BY <1>1, <1>3, LessSum, Zenon
<1> QED
  BY <1>4 DEF WorkLeft

LEMMA LeftAfter ==
  ASSUME NEW r \in Nat, NEW x \in Nat, NEW y \in Nat, x < y
  PROVE  r - y < r - x
OBVIOUS

LEMMA BelowNext ==
  ASSUME NEW x \in Nat, NEW y \in Nat, x \in 0 .. y - 1
  PROVE  x < y
OBVIOUS

LEMMA LessWork == SigningInv /\ SigningInv' /\ Next => WorkLeft' < WorkLeft
<1> SUFFICES ASSUME SigningInv, SigningInv', Next PROVE WorkLeft' < WorkLeft
  OBVIOUS
<1>1. KeysLeft \in Int /\ BatchesLeft \in Int /\ SignaturesLeft \in Int /\ PhasesLeft \in Int
  BY PartsLeft
<1>2. CASE DeriveKey
  <2>1. /\ mapping' = mapping \cup {sibling}
        /\ UNCHANGED <<pc, inputs, batch, witnesses>>
    BY <1>2 DEF DeriveKey, transaction
  <2>2. /\ sibling \in Nat /\ sibling' \in Nat /\ mapping' = 0 .. sibling' - 1
    BY DEF SigningInv, TypeOK, Progress
  <2>3. sibling < sibling'
    <3>1. sibling \in 0 .. sibling' - 1
      BY <2>1, <2>2
    <3> QED
      BY <2>2, <3>1, BelowNext, Zenon
  <2>4. KeysLeft' < KeysLeft
    <3>1. Reach \in Nat
      <4>1. 0 \in 0 .. Batches
        BY BatchAssumption
      <4> QED
        BY <4>1, KeysBeforeBound
    <3>2. Reach' = Reach
      OBVIOUS
    <3> QED
      BY <2>2, <2>3, <3>1, <3>2, LeftAfter, Zenon DEF KeysLeft
  <2>5. BatchesLeft' = BatchesLeft /\ SignaturesLeft' = SignaturesLeft /\ PhasesLeft' = PhasesLeft
    BY <2>1 DEF BatchesLeft, SignaturesLeft, PhasesLeft
  <2> QED
    BY <2>4, <2>5, LessLeft DEF Fewer
<1>3. CASE NextBatch
  <2>1. batch' = batch + 1 /\ UNCHANGED <<pc, inputs, sibling, witnesses>>
    BY <1>3 DEF NextBatch, transaction
  <2>2. BatchesLeft' = BatchesLeft - 1
    <3>1. batch \in Int /\ Batches \in Int
      BY BatchAssumption DEF SigningInv, TypeOK
    <3> QED
      BY <2>1, <3>1 DEF BatchesLeft
  <2>3. KeysLeft' = KeysLeft /\ SignaturesLeft' = SignaturesLeft /\ PhasesLeft' = PhasesLeft
    BY <2>1 DEF KeysLeft, SignaturesLeft, PhasesLeft
  <2> QED
    BY <1>1, <2>2, <2>3, LessLeft DEF Fewer
<1>4. CASE SignInput
  <2>1. UNCHANGED <<pc, inputs, sibling, batch>>
    BY <1>4 DEF SignInput, transaction
  <2>2. SignaturesLeft' = SignaturesLeft - 1
    <3>1. PICK W : witnesses \in Seq(W) /\ Signature(Len(witnesses) + 1) \in W
      <4>1. PICK V : witnesses \in Seq(V)
        BY DEF SigningInv, Stage
      <4>2. witnesses \in Seq(V \cup {Signature(Len(witnesses) + 1)})
        BY <4>1
      <4> QED
        BY <4>2
    <3>2. Len(witnesses') = Len(witnesses) + 1 /\ Len(witnesses) \in Nat
      BY <1>4, <3>1, AppendLast DEF SignInput
    <3>3. Len(inputs) \in Nat
      BY InputAssumption DEF SigningInv, TypeOK
    <3> QED
      BY <2>1, <3>2, <3>3 DEF SignaturesLeft
  <2>3. KeysLeft' = KeysLeft /\ BatchesLeft' = BatchesLeft /\ PhasesLeft' = PhasesLeft
    BY <2>1 DEF KeysLeft, BatchesLeft, PhasesLeft
  <2> QED
    BY <1>1, <2>2, <2>3, LessLeft DEF Fewer
<1>5. CASE BeginSearch \/ KeysFound \/ KeysNotFound \/ Finish
  <2>1. UNCHANGED <<inputs, sibling, batch, witnesses>>
    BY <1>5 DEF BeginSearch, KeysFound, KeysNotFound, Finish, transaction
  <2>2. PhasesLeft' < PhasesLeft
    BY <1>5 DEF BeginSearch, KeysFound, BatchDone, KeysNotFound, Finish, PhasesLeft
  <2>3. KeysLeft' = KeysLeft /\ BatchesLeft' = BatchesLeft /\ SignaturesLeft' = SignaturesLeft
    BY <2>1 DEF KeysLeft, BatchesLeft, SignaturesLeft
  <2> QED
    BY <1>1, <2>2, <2>3, LessLeft DEF Fewer
<1> QED
  BY <1>2, <1>3, <1>4, <1>5 DEF Next

(* The search and the signing take a bounded number of steps.              *)
THEOREM SearchAndSigningEnd == Spec => CallEnds
<1>1. SigningInv => WorkLeft \in Nat
  BY PartsLeft DEF WorkLeft
<1>2. SigningInv /\ SigningInv' /\ [Next]_vars =>
        [WorkLeft' < WorkLeft /\ WorkLeft' \in Nat]_vars
  <2>1. SigningInv' => (WorkLeft \in Nat)'
    BY <1>1, PTL
  <2> QED
    BY <2>1, LessWork
<1> QED
  BY <1>2, SigningInvariant, PTL DEF Spec, CallEnds

(* With the bounds of the code the reach is 700 addresses, not 1000: three *)
(* of the ten batches are empty.                                           *)
THEOREM ReachOfTheCode ==
  ASSUME Batches = 10, BatchSize = 100, ByteSize = 256
  PROVE  Reach = 700
<1>1. \A k \in 0 .. 9 : Empty(k) <=> k \in {2, 5, 7}
  <2>1. \A k \in 0 .. 9 : First(k) = (k * 100) % 256 /\ Last(k) = (First(k) + 100) % 256
    BY DEF First, Last
  <2>2. /\ First(0) = 0 /\ First(1) = 100 /\ First(2) = 200 /\ First(3) = 44
        /\ First(4) = 144 /\ First(5) = 244 /\ First(6) = 88 /\ First(7) = 188
        /\ First(8) = 32 /\ First(9) = 132
    BY <2>1
  <2> QED
    BY <2>1, <2>2 DEF Empty
<1>2. {k \in 0 .. Batches - 1 : ~Empty(k)} = {0, 1, 3, 4, 6, 8, 9}
  BY <1>1
<1>3. Cardinality({0, 1, 3, 4, 6, 8, 9}) = 7
  <2>1. IsFiniteSet({0}) /\ Cardinality({0}) = 1
    BY FS_Singleton
  <2>2. IsFiniteSet({0, 1}) /\ Cardinality({0, 1}) = 2
    <3>1. {0, 1} = {0} \cup {1}
      OBVIOUS
    <3> QED
      BY <2>1, <3>1, FS_AddElement
  <2>3. IsFiniteSet({0, 1, 3}) /\ Cardinality({0, 1, 3}) = 3
    <3>1. {0, 1, 3} = {0, 1} \cup {3}
      OBVIOUS
    <3> QED
      BY <2>2, <3>1, FS_AddElement
  <2>4. IsFiniteSet({0, 1, 3, 4}) /\ Cardinality({0, 1, 3, 4}) = 4
    <3>1. {0, 1, 3, 4} = {0, 1, 3} \cup {4}
      OBVIOUS
    <3> QED
      BY <2>3, <3>1, FS_AddElement
  <2>5. IsFiniteSet({0, 1, 3, 4, 6}) /\ Cardinality({0, 1, 3, 4, 6}) = 5
    <3>1. {0, 1, 3, 4, 6} = {0, 1, 3, 4} \cup {6}
      OBVIOUS
    <3> QED
      BY <2>4, <3>1, FS_AddElement
  <2>6. IsFiniteSet({0, 1, 3, 4, 6, 8}) /\ Cardinality({0, 1, 3, 4, 6, 8}) = 6
    <3>1. {0, 1, 3, 4, 6, 8} = {0, 1, 3, 4, 6} \cup {8}
      OBVIOUS
    <3> QED
      BY <2>5, <3>1, FS_AddElement
  <2> QED
    <3>1. {0, 1, 3, 4, 6, 8, 9} = {0, 1, 3, 4, 6, 8} \cup {9}
      OBVIOUS
    <3> QED
      BY <2>6, <3>1, FS_AddElement
<1> QED
  BY <1>2, <1>3 DEF Reach, KeysBefore

=============================================================================
