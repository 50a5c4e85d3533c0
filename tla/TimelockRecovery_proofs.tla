----------------------- MODULE TimelockRecovery_proofs -----------------------
(***************************************************************************)
(* That a recovery is never signed too early, for all outputs, timelocks   *)
(* and heights.  A height is late or right, never early, so an output that *)
(* is old enough by it is old enough on the chain; and what is old enough  *)
(* once remains so.  And that one recovery at a time is under way, and the *)
(* button is away only as long, or since an answer was lost.               *)
(***************************************************************************)
EXTENDS TimelockRecovery, SequenceTheorems, TLAPS

(* The page's own figures: types of a form.                                *)
LEMMA RecoverableType ==
  ASSUME TypeOK
  PROVE  Recoverable \in SUBSET Outputs
BY DEF TypeOK, Recoverable

(* One answer less leaves a sequence of forms.                             *)
LEMMA AnsweredType ==
  ASSUME NEW n \in 1..Len(sent), sent \in Seq(Forms), Answered(n)
  PROVE  /\ sent' \in Seq(Forms)
         /\ \A k \in DOMAIN sent' : \E m \in DOMAIN sent : sent'[k] = sent[m]
<1>1. /\ Len(sent) \in Nat
      /\ DOMAIN sent = 1..Len(sent)
      /\ \A m \in 1..Len(sent) : sent[m] \in Forms
  OBVIOUS
<1>2. sent' = [m \in 1..(Len(sent) - 1) |-> IF m < n THEN sent[m] ELSE sent[m + 1]]
  BY DEF Answered
<1>3. \A m \in 1..(Len(sent) - 1) : m \in 1..Len(sent) /\ m + 1 \in 1..Len(sent)
  BY <1>1
<1>4. sent' \in [1..(Len(sent) - 1) -> Forms]
  BY <1>1, <1>2, <1>3
<1>5. Len(sent) - 1 \in Nat
  BY <1>1
<1>6. sent' \in Seq(Forms)
  BY <1>4, <1>5
<1>7. ASSUME NEW k \in DOMAIN sent'
      PROVE  \E m \in DOMAIN sent : sent'[k] = sent[m]
  BY <1>1, <1>2, <1>3, <1>7
<1> QED
  BY <1>6, <1>7

(* A call asked for joins the calls; a type step of every input.           *)
LEMMA CreateTransactionType ==
  ASSUME calls \in Seq(Calls), NEW inputs \in SUBSET Outputs, NEW to \in Addresses,
         NEW rate \in Levels, CreateTransaction(inputs, to, rate)
  PROVE  calls' \in Seq(Calls)
<1> DEFINE call == [kind |-> "figures", form |-> [inputs |-> inputs, dest |-> to, level |-> rate]]
<1>1. call \in Calls
  BY DEF Calls, Forms
<1>2. Append(calls, call) \in Seq(Calls)
  BY <1>1, AppendProperties
<1> QED
  BY <1>2 DEF CreateTransaction

(* The head of the calls is a call, and the rest are calls.                *)
LEMMA HeadTail ==
  ASSUME calls \in Seq(Calls), calls # << >>
  PROVE  /\ Head(calls) \in Calls
         /\ Tail(calls) \in Seq(Calls)
         /\ Head(calls).form \in Forms
         /\ Head(calls) = calls[1] /\ 1 \in DOMAIN calls
         /\ \A k \in DOMAIN Tail(calls) : k + 1 \in DOMAIN calls /\ Tail(calls)[k] = calls[k + 1]
<1>1. Head(calls) \in Calls /\ Tail(calls) \in Seq(Calls)
  BY HeadTailProperties
<1>2. Head(calls).form \in Forms
  BY <1>1 DEF Calls
<1>3. Head(calls) = calls[1] /\ 1 \in DOMAIN calls
  OBVIOUS
<1>4. \A k \in DOMAIN Tail(calls) : k + 1 \in DOMAIN calls /\ Tail(calls)[k] = calls[k + 1]
  OBVIOUS
<1> QED
  BY <1>1, <1>2, <1>3, <1>4

-----------------------------------------------------------------------------
(* The types hold at the start.                                            *)
LEMMA InitType == Init => TypeOK
<1> SUFFICES ASSUME Init PROVE TypeOK
  OBVIOUS
<1>1. mempool \subseteq SUBSET Outputs
  <2>1. ASSUME NEW inputs \in mempool PROVE inputs \in SUBSET Outputs
    <3>1. PICK o \in Outputs : inputs = {o}
      BY <2>1 DEF Init
    <3> QED
      BY <3>1
  <2> QED
    BY <2>1
<1>2. tip \in Opened..MaxTip /\ failures \in 0..MaxFailures
  BY HeightsAssumption, BoundsAssumption DEF Init
<1>3. utxos = << >> /\ DOMAIN utxos = {}
  BY DEF Init
<1>4. DOMAIN utxos \subseteq Outputs /\ \A output \in DOMAIN utxos : utxos[output] \in {0, height[output]}
  BY <1>3
<1>5. {fees, feesPaid, loading, signing, dropped} \subseteq BOOLEAN
  BY DEF Init
<1>6. calls \in Seq(Calls) /\ sent \in Seq(Forms)
  BY DEF Init
<1>7. shown \in {0} \cup Opened..tip /\ level \in Levels /\ dest \in Addresses \cup {None}
  BY DEF Init
<1>8. height \in [Outputs -> 1..MaxTip] /\ blocks \subseteq Outputs
  BY DEF Init
<1> QED
  BY <1>1, <1>2, <1>4, <1>5, <1>6, <1>7, <1>8 DEF TypeOK

(* The types are kept by every step.                                       *)
LEMMA TypeStep ==
  ASSUME TypeOK, Next
  PROVE  TypeOK'
<1> USE HeightsAssumption, BoundsAssumption
<1>1. CASE Mine
  BY <1>1 DEF Mine, TypeOK, page
<1>2. CASE FeesReply
  BY <1>2 DEF FeesReply, TypeOK, chain
<1>3. CASE DataLoaderCallback
  <2>1. PICK paging \in {FALSE, loading}, found \in SUBSET Unspent, at \in Opened..tip,
             from \in {0} \cup Opened..tip :
          /\ utxos' = [output \in DOMAIN utxos \cup found |->
                         IF output \in DOMAIN utxos THEN utxos[output] ELSE Status(output, at)]
          /\ shown' = from
          /\ loading' = paging
    BY <1>3 DEF DataLoaderCallback
  <2>2. found \subseteq Outputs
    BY DEF Unspent
  <2>3. UNCHANGED <<height, tip, blocks, mempool, fees, level, feesPaid, signing, sent,
                    failures, dropped>>
    BY <1>3 DEF DataLoaderCallback, chain
  <2>4. DOMAIN utxos' = DOMAIN utxos \cup found
    BY <2>1
  <2>5. \A output \in DOMAIN utxos' : utxos'[output] \in {0, height[output]}
    BY <2>1, <2>4 DEF TypeOK, Status
  <2>6. dest' \in Addresses \cup {None}
    BY <1>3 DEF DataLoaderCallback, TypeOK
  <2>7. Recoverable' \in SUBSET Outputs
    BY <2>2, <2>4 DEF Recoverable, TypeOK
  <2>8. calls' \in Seq(Calls)
    <3>1. CASE ~feesPaid /\ dest' # None
      <4>1. dest' \in Addresses /\ level \in Levels /\ calls \in Seq(Calls)
        BY <2>6, <3>1 DEF TypeOK
      <4>2. CreateTransaction(Recoverable', dest', level)
        BY <1>3, <3>1 DEF DataLoaderCallback
      <4> HIDE DEF CreateTransaction
      <4> QED
        BY <2>7, <4>1, <4>2, CreateTransactionType
    <3>2. CASE ~(~feesPaid /\ dest' # None)
      BY <1>3, <3>2 DEF DataLoaderCallback, TypeOK
    <3> QED
      BY <3>1, <3>2
  <2>9. loading' \in BOOLEAN /\ shown' \in {0} \cup Opened..tip
    BY <2>1 DEF TypeOK
  <2> QED
    BY <2>2, <2>3, <2>4, <2>5, <2>6, <2>8, <2>9 DEF TypeOK
<1>4. CASE PickAddress
  <2>1. dest' \in Addresses /\ Recoverable \in SUBSET Outputs /\ level \in Levels /\ calls \in Seq(Calls)
    BY <1>4, RecoverableType DEF PickAddress, TypeOK
  <2>2. CreateTransaction(Recoverable, dest', level)
    BY <1>4 DEF PickAddress
  <2>3. calls' \in Seq(Calls)
    BY <2>1, <2>2, CreateTransactionType
  <2> QED
    BY <1>4, <2>1, <2>3 DEF PickAddress, TypeOK, chain
<1>5. CASE AddAddress
  BY <1>5 DEF AddAddress, TypeOK, chain
<1>6. CASE SelectLevel
  <2>1. level' \in Levels /\ Recoverable \in SUBSET Outputs /\ calls \in Seq(Calls)
    BY <1>6, RecoverableType DEF SelectLevel, TypeOK
  <2>2. calls' \in Seq(Calls)
    <3>1. CASE dest # None
      <4>1. dest \in Addresses /\ CreateTransaction(Recoverable, dest, level')
        BY <1>6, <3>1 DEF SelectLevel, TypeOK
      <4> QED
        BY <2>1, <4>1, CreateTransactionType
    <3>2. CASE dest = None
      BY <1>6, <2>1, <3>2 DEF SelectLevel
    <3> QED
      BY <3>1, <3>2
  <2> QED
    BY <1>6, <2>1, <2>2 DEF SelectLevel, TypeOK, chain
<1>7. CASE Recover
  <2> DEFINE call == [kind |-> "create",
                      form |-> [inputs |-> Recoverable, dest |-> dest, level |-> level]]
  <2>1. call \in Calls
    BY <1>7, RecoverableType DEF Recover, TypeOK, Calls, Forms
  <2>2. Append(calls, call) \in Seq(Calls)
    BY <2>1, AppendProperties DEF TypeOK
  <2>3. calls' \in Seq(Calls) /\ dropped' \in BOOLEAN
    BY <1>7, <2>2 DEF Recover, TypeOK
  <2> QED
    BY <1>7, <2>3 DEF Recover, TypeOK, chain, page
<1>8. CASE FiguresReply
  <2>1. calls' \in Seq(Calls)
    BY <1>8, HeadTail DEF FiguresReply, Reply, TypeOK
  <2>2. feesPaid' \in BOOLEAN /\ signing' \in BOOLEAN
    BY <1>8 DEF FiguresReply, HandleTransactionCreated, TypeOK
  <2> QED
    BY <1>8, <2>1, <2>2 DEF FiguresReply, TypeOK, chain
<1>9. CASE CreateReply
  <2> DEFINE call == [kind |-> "sign", form |-> Head(calls).form]
  <2>1. Tail(calls) \in Seq(Calls) /\ call \in Calls
    BY <1>9, HeadTail DEF CreateReply, Reply, TypeOK, Calls
  <2>2. calls' \in Seq(Calls)
    BY <1>9, <2>1, AppendProperties DEF CreateReply
  <2>3. feesPaid' \in BOOLEAN /\ signing' \in BOOLEAN
    BY <1>9 DEF CreateReply, HandleTransactionCreated, TypeOK
  <2> QED
    BY <1>9, <2>2, <2>3 DEF CreateReply, TypeOK, chain
<1>10. CASE SignReply
  <2>1. Tail(calls) \in Seq(Calls) /\ Head(calls).form \in Forms
    BY <1>10, HeadTail DEF SignReply, Reply, TypeOK
  <2>2. sent' \in Seq(Forms)
    BY <1>10, <2>1, AppendProperties DEF SignReply, TypeOK
  <2> QED
    BY <1>10, <2>1, <2>2 DEF SignReply, TypeOK, chain, page
<1>11. CASE CallFails
  <2>1. Tail(calls) \in Seq(Calls)
    BY <1>11, HeadTail DEF CallFails, TypeOK
  <2> QED
    BY <1>11, <2>1 DEF CallFails, TypeOK, chain, page
<1>12. CASE Accepted
  <2>1. PICK n \in 1..Len(sent) :
          /\ mempool' = {waiting \in mempool : waiting \cap sent[n].inputs = {}}
                        \cup {sent[n].inputs}
          /\ Answered(n)
          /\ signing' = FALSE
          /\ UNCHANGED <<height, tip, blocks, page, calls, failures, dropped>>
    BY <1>12 DEF Accepted
  <2>2. sent' \in Seq(Forms)
    BY <2>1, AnsweredType DEF TypeOK
  <2>3. sent[n] \in Forms
    BY DEF TypeOK
  <2>4. mempool' \subseteq SUBSET Outputs
    BY <2>1, <2>3 DEF TypeOK, Forms
  <2> QED
    BY <2>1, <2>2, <2>4 DEF TypeOK, page
<1>13. CASE Refused
  <2>1. PICK n \in 1..Len(sent) :
          /\ Answered(n)
          /\ signing' = FALSE
          /\ UNCHANGED <<chain, page, calls, failures, dropped>>
    BY <1>13 DEF Refused
  <2>2. sent' \in Seq(Forms)
    BY <2>1, AnsweredType DEF TypeOK
  <2> QED
    BY <2>1, <2>2 DEF TypeOK, chain, page
<1> QED
  BY <1>1, <1>2, <1>3, <1>4, <1>5, <1>6, <1>7, <1>8, <1>9, <1>10, <1>11, <1>12, <1>13
  DEF Next, User, Native, Explorer

(* A step that changes nothing keeps the types.                            *)
LEMMA TypeStutter ==
  ASSUME TypeOK, UNCHANGED vars
  PROVE  TypeOK'
BY DEF TypeOK, vars, chain, page

(* Every state is of these types.                                          *)
THEOREM SpecTypeOK == Spec => []TypeOK
<1>1. TypeOK /\ [Next]_vars => TypeOK'
  BY TypeStep, TypeStutter
<1> QED
  BY InitType, <1>1, PTL DEF Spec

-----------------------------------------------------------------------------
(* Old enough for the page is old enough for the chain.                    *)
MatureRecoverable == \A output \in Recoverable : Mature(output)

(* What the page takes for recoverable is old enough on the chain: an      *)
(* unconfirmed output has no confirmations, and no height is early.        *)
LEMMA RecoverableMature == TypeOK => MatureRecoverable
<1> SUFFICES ASSUME TypeOK, NEW output \in Recoverable PROVE Mature(output)
  BY DEF MatureRecoverable
<1>1. /\ output \in Outputs /\ height[output] \in Nat \ {0}
      /\ utxos[output] \in {0, height[output]}
      /\ tip \in Nat /\ shown \in Nat /\ shown <= tip
      /\ Timelock \in Nat \ {0}
  BY HeightsAssumption DEF TypeOK, Recoverable
<1>2. Confirmations(utxos[output], shown) >= Timelock
  BY DEF Recoverable, needLivelinessCheck
<1>3. utxos[output] = height[output] /\ shown - height[output] + 1 >= Timelock
  BY <1>1, <1>2 DEF Confirmations
<1> QED
  BY <1>1, <1>3 DEF Mature

(* What is old enough once remains so.                                     *)
LEMMA MatureStable ==
  ASSUME TypeOK, TypeOK', height' = height, tip' \in {tip, tip + 1},
         NEW output \in Outputs, Mature(output)
  PROVE  Mature(output)'
<1>1. tip \in Nat /\ height[output] \in Nat /\ Timelock \in Nat
  BY HeightsAssumption DEF TypeOK
<1> QED
  BY <1>1 DEF Mature

(* The inputs of the calls, of the submissions, and of the mempool.        *)
MatureCalls == \A n \in DOMAIN calls : \A output \in calls[n].form.inputs : Mature(output)
MatureSent == \A n \in DOMAIN sent : \A output \in sent[n].inputs : Mature(output)
MatureMempool == \A inputs \in mempool : \A output \in inputs : Mature(output)

(* Nothing of the chain moves, and the calls are kept.                     *)
LEMMA CallsKept ==
  ASSUME MatureCalls, UNCHANGED <<calls, height, tip>>
  PROVE  MatureCalls'
BY DEF MatureCalls, Mature

(* A call appended, of mature inputs.                                      *)
LEMMA CallAppended ==
  ASSUME MatureCalls, calls \in Seq(Calls), UNCHANGED <<height, tip>>, NEW call \in Calls,
         calls' = Append(calls, call), \A output \in call.form.inputs : Mature(output)
  PROVE  MatureCalls'
<1>1. \A n \in DOMAIN calls' : (n \in DOMAIN calls /\ calls'[n] = calls[n]) \/ calls'[n] = call
  BY AppendProperties
<1> QED
  BY <1>1 DEF MatureCalls, Mature

(* The head of the calls is answered.                                      *)
LEMMA CallAnswered ==
  ASSUME MatureCalls, calls \in Seq(Calls), calls # << >>, UNCHANGED <<height, tip>>,
         calls' = Tail(calls)
  PROVE  MatureCalls'
BY HeadTail DEF MatureCalls, Mature

(* The figures are asked for, of mature inputs.                            *)
LEMMA FiguresAsked ==
  ASSUME MatureCalls, calls \in Seq(Calls), UNCHANGED <<height, tip>>,
         NEW inputs \in SUBSET Outputs, NEW to \in Addresses, NEW rate \in Levels,
         \A output \in inputs : Mature(output),
         CreateTransaction(inputs, to, rate)
  PROVE  MatureCalls'
<1> DEFINE call == [kind |-> "figures", form |-> [inputs |-> inputs, dest |-> to, level |-> rate]]
<1>1. CASE fees
  <2>1. calls' = Append(calls, call) /\ call \in Calls /\ call.form.inputs = inputs
    BY <1>1 DEF CreateTransaction, Calls, Forms
  <2> HIDE DEF call
  <2> QED
    BY <2>1, CallAppended
<1>2. CASE ~fees
  BY <1>2, CallsKept DEF CreateTransaction
<1> QED
  BY <1>1, <1>2

(* No step makes a recovery that is too early.                             *)
LEMMA MatureStep ==
  ASSUME TypeOK, TypeOK', OnlyMature, Next
  PROVE  OnlyMature'
<1> USE DEF chain, page
<1>0. MatureCalls /\ MatureSent /\ MatureMempool /\ calls \in Seq(Calls) /\ sent \in Seq(Forms)
  BY DEF OnlyMature, MatureCalls, MatureSent, MatureMempool, TypeOK
<1>a. ASSUME MatureCalls', MatureSent', MatureMempool' PROVE OnlyMature'
  BY <1>a DEF OnlyMature, MatureCalls, MatureSent, MatureMempool
<1>b. UNCHANGED <<height, tip, sent>> => MatureSent'
  BY <1>0 DEF MatureSent, Mature
<1>c. UNCHANGED <<height, tip, mempool>> => MatureMempool'
  BY <1>0 DEF MatureMempool, Mature
<1>1. CASE Mine
  <2>1. height' = height /\ tip' = tip + 1 /\ calls' = calls /\ sent' = sent /\ mempool' \subseteq mempool
    BY <1>1 DEF Mine
  <2>2. \A output \in Outputs : Mature(output) => Mature(output)'
    BY <2>1, MatureStable
  <2>3. MatureMempool'
    BY <1>0, <2>1, <2>2 DEF MatureMempool, TypeOK
  <2>4. \A n \in DOMAIN calls : calls[n].form.inputs \subseteq Outputs
    <3>1. \A n \in DOMAIN calls : calls[n] \in Calls
      BY <1>0
    <3> QED
      BY <3>1 DEF Calls, Forms
  <2>5. \A n \in DOMAIN sent : sent[n].inputs \subseteq Outputs
    <3>1. \A n \in DOMAIN sent : sent[n] \in Forms
      BY <1>0
    <3> QED
      BY <3>1 DEF Forms
  <2>6. MatureCalls' /\ MatureSent'
    BY <1>0, <2>1, <2>2, <2>4, <2>5 DEF MatureCalls, MatureSent
  <2> QED
    BY <1>a, <2>3, <2>6
<1>2. CASE FeesReply
  BY <1>0, <1>2, <1>a, <1>b, <1>c, CallsKept DEF FeesReply
<1>3. CASE DataLoaderCallback
  <2>1. UNCHANGED <<height, tip, mempool, sent, fees, level>>
    BY <1>3 DEF DataLoaderCallback
  <2>2. Recoverable' \in SUBSET Outputs
    BY DEF Recoverable, TypeOK
  <2>3. \A output \in Recoverable' : Mature(output)
    <3>1. MatureRecoverable'
      BY RecoverableMature, PTL
    <3> QED
      BY <2>1, <3>1 DEF MatureRecoverable, Mature
  <2>4. MatureCalls'
    <3>1. CASE ~feesPaid /\ dest' # None
      <4>1. dest' \in Addresses /\ level \in Levels
        BY <3>1 DEF TypeOK
      <4>2. CreateTransaction(Recoverable', dest', level)
        BY <1>3, <3>1 DEF DataLoaderCallback
      <4>3. PICK inputs \in SUBSET Outputs : inputs = Recoverable'
        BY <2>2
      <4>4. CreateTransaction(inputs, dest', level)
        BY <4>2, <4>3 DEF CreateTransaction
      <4>5. \A output \in inputs : Mature(output)
        BY <2>3, <4>3
      <4> QED
        BY <1>0, <2>1, <4>1, <4>4, <4>5, FiguresAsked
    <3>2. CASE ~(~feesPaid /\ dest' # None)
      BY <1>0, <1>3, <2>1, <3>2, CallsKept DEF DataLoaderCallback
    <3> QED
      BY <3>1, <3>2
  <2> QED
    BY <1>a, <1>b, <1>c, <2>1, <2>4
<1>4. CASE PickAddress
  <2>1. UNCHANGED <<height, tip, mempool, sent>> /\ dest' \in Addresses /\ level \in Levels
    BY <1>4 DEF PickAddress, TypeOK
  <2>2. CreateTransaction(Recoverable, dest', level)
    BY <1>4 DEF PickAddress
  <2>3. MatureCalls'
    BY <1>0, <2>1, <2>2, RecoverableType, RecoverableMature, FiguresAsked DEF MatureRecoverable
  <2> QED
    BY <1>a, <1>b, <1>c, <2>1, <2>3
<1>5. CASE AddAddress
  BY <1>0, <1>5, <1>a, <1>b, <1>c, CallsKept DEF AddAddress
<1>6. CASE SelectLevel
  <2>1. UNCHANGED <<height, tip, mempool, sent>> /\ level' \in Levels
    BY <1>6 DEF SelectLevel
  <2>2. MatureCalls'
    <3>1. CASE dest # None
      <4>1. dest \in Addresses /\ CreateTransaction(Recoverable, dest, level')
        BY <1>6, <3>1 DEF SelectLevel, TypeOK
      <4> QED
        BY <1>0, <2>1, <4>1, RecoverableType, RecoverableMature, FiguresAsked DEF MatureRecoverable
    <3>2. CASE dest = None
      BY <1>0, <1>6, <2>1, <3>2, CallsKept DEF SelectLevel
    <3> QED
      BY <3>1, <3>2
  <2> QED
    BY <1>a, <1>b, <1>c, <2>1, <2>2
<1>7. CASE Recover
  <2> DEFINE call == [kind |-> "create",
                      form |-> [inputs |-> Recoverable, dest |-> dest, level |-> level]]
  <2>1. UNCHANGED <<height, tip, mempool, sent>>
    BY <1>7 DEF Recover
  <2>2. call \in Calls /\ call.form.inputs = Recoverable
    BY <1>7, RecoverableType DEF Recover, TypeOK, Calls, Forms
  <2>3. calls' = calls \/ calls' = Append(calls, call)
    BY <1>7 DEF Recover
  <2> HIDE DEF call
  <2>4. MatureCalls'
    BY <1>0, <2>1, <2>2, <2>3, RecoverableMature, CallsKept, CallAppended
    DEF MatureRecoverable
  <2> QED
    BY <1>a, <1>b, <1>c, <2>1, <2>4
<1>8. CASE FiguresReply
  BY <1>0, <1>8, <1>a, <1>b, <1>c, CallAnswered DEF FiguresReply, Reply
<1>9. CASE CreateReply
  <2> DEFINE call == [kind |-> "sign", form |-> Head(calls).form]
  <2>1. UNCHANGED <<height, tip, mempool, sent>> /\ calls # << >> /\ calls' = Append(Tail(calls), call)
    BY <1>9 DEF CreateReply, Reply
  <2>2. /\ Tail(calls) \in Seq(Calls) /\ call \in Calls
        /\ call.form = calls[1].form /\ 1 \in DOMAIN calls
    BY <1>0, <2>1, HeadTail DEF Calls
  <2> HIDE DEF call
  <2>3. \A n \in DOMAIN calls' :
          \E k \in DOMAIN calls : calls'[n].form = calls[k].form
    <3>1. \A n \in DOMAIN calls' : (n \in DOMAIN Tail(calls) /\ calls'[n] = Tail(calls)[n])
                                   \/ calls'[n] = call
      BY <2>1, <2>2, AppendProperties
    <3>2. \A k \in DOMAIN Tail(calls) : k + 1 \in DOMAIN calls /\ Tail(calls)[k] = calls[k + 1]
      BY <1>0, <2>1, HeadTail
    <3> QED
      BY <2>2, <3>1, <3>2
  <2>4. MatureCalls'
    BY <1>0, <2>1, <2>3 DEF MatureCalls, Mature
  <2> QED
    BY <1>a, <1>b, <1>c, <2>1, <2>4
<1>10. CASE SignReply
  <2>1. /\ UNCHANGED <<height, tip, mempool>> /\ calls # << >>
        /\ calls' = Tail(calls) /\ sent' = Append(sent, Head(calls).form)
    BY <1>10 DEF SignReply, Reply
  <2>2. Head(calls).form \in Forms /\ Head(calls) = calls[1] /\ 1 \in DOMAIN calls
    BY <1>0, <2>1, HeadTail
  <2>3. PICK form \in Forms : form = Head(calls).form
    BY <2>2
  <2>4. \A output \in form.inputs : Mature(output)
    BY <1>0, <2>2, <2>3 DEF MatureCalls
  <2>5. \A n \in DOMAIN sent' : (n \in DOMAIN sent /\ sent'[n] = sent[n]) \/ sent'[n] = form
    BY <1>0, <2>1, <2>3, AppendProperties
  <2>6. MatureSent'
    BY <1>0, <2>1, <2>4, <2>5 DEF MatureSent, Mature
  <2>7. MatureCalls'
    BY <1>0, <2>1, CallAnswered
  <2> QED
    BY <1>a, <1>c, <2>1, <2>6, <2>7
<1>11. CASE CallFails
  BY <1>0, <1>11, <1>a, <1>b, <1>c, CallAnswered DEF CallFails
<1>12. CASE Accepted
  <2>1. PICK n \in 1..Len(sent) :
          /\ mempool' = {waiting \in mempool : waiting \cap sent[n].inputs = {}}
                        \cup {sent[n].inputs}
          /\ Answered(n)
          /\ UNCHANGED <<height, tip, calls>>
    BY <1>12 DEF Accepted
  <2>2. \A k \in DOMAIN sent' : \E m \in DOMAIN sent : sent'[k] = sent[m]
    BY <1>0, <2>1, AnsweredType
  <2>3. MatureSent'
    BY <1>0, <2>1, <2>2 DEF MatureSent, Mature
  <2>4. \A output \in sent[n].inputs : Mature(output)
    BY <1>0 DEF MatureSent
  <2>5. MatureMempool'
    BY <1>0, <2>1, <2>4 DEF MatureMempool, Mature
  <2> QED
    BY <1>0, <1>a, <2>1, <2>3, <2>5, CallsKept
<1>13. CASE Refused
  <2>1. PICK n \in 1..Len(sent) :
          /\ Answered(n)
          /\ UNCHANGED <<height, tip, calls, mempool>>
    BY <1>13 DEF Refused
  <2>2. \A k \in DOMAIN sent' : \E m \in DOMAIN sent : sent'[k] = sent[m]
    BY <1>0, <2>1, AnsweredType
  <2>3. MatureSent'
    BY <1>0, <2>1, <2>2 DEF MatureSent, Mature
  <2> QED
    BY <1>0, <1>a, <1>c, <2>1, <2>3, CallsKept
<1> QED
  BY <1>1, <1>2, <1>3, <1>4, <1>5, <1>6, <1>7, <1>8, <1>9, <1>10, <1>11, <1>12, <1>13
  DEF Next, User, Native, Explorer

(* Whatever the page creates, signs or submits, and whatever of it waits   *)
(* for a block, the next block can take: no height or status that comes    *)
(* late makes a recovery too early.                                        *)
THEOREM SpecOnlyMature == Spec => []OnlyMature
<1>1. Init => OnlyMature
  <2> SUFFICES ASSUME Init PROVE OnlyMature
    OBVIOUS
  <2>1. DOMAIN calls = {} /\ DOMAIN sent = {}
    BY DEF Init
  <2>2. \A inputs \in mempool : \A output \in inputs : Mature(output)
    BY DEF Init
  <2> QED
    BY <2>1, <2>2 DEF OnlyMature
<1>2. TypeOK /\ TypeOK' /\ OnlyMature /\ [Next]_vars => OnlyMature'
  <2>1. ASSUME OnlyMature, UNCHANGED vars PROVE OnlyMature'
    BY <2>1 DEF OnlyMature, Mature, vars, chain
  <2> QED
    BY <2>1, MatureStep
<1> QED
  BY <1>1, <1>2, SpecTypeOK, PTL DEF Spec

-----------------------------------------------------------------------------
(* What is under way.  A call behind the ones there are leaves those that  *)
(* were pressed for, and is one of them if it is of that kind.             *)
LEMMA AppendPressed ==
  ASSUME NEW queue \in Seq(Calls), NEW call \in Calls, calls' = Append(queue, call)
  PROVE  Pressed' = {n \in DOMAIN queue : queue[n].kind # "figures"}
                      \cup (IF call.kind = "figures" THEN {} ELSE {Len(queue) + 1})
<1>1. /\ DOMAIN calls' = DOMAIN queue \cup {Len(queue) + 1} /\ calls'[Len(queue) + 1] = call
      /\ \A n \in DOMAIN queue : calls'[n] = queue[n]
  BY AppendProperties
<1> QED
  BY <1>1 DEF Pressed

(* Behind the answered call they move up.                                  *)
LEMMA TailPressed ==
  ASSUME calls \in Seq(Calls), calls # << >>, NEW queue, queue = Tail(calls),
         \A m, n \in Pressed : m = n
  PROVE  LET left == {n \in DOMAIN queue : queue[n].kind # "figures"} IN
         /\ \A m, n \in left : m = n
         /\ Head(calls).kind = "figures" => (left = {} <=> Pressed = {})
         /\ Head(calls).kind # "figures" => left = {} /\ Pressed # {}
<1> DEFINE left == {n \in DOMAIN queue : queue[n].kind # "figures"}
<1>1. /\ DOMAIN calls = 1 .. Len(calls) /\ Len(calls) \in Nat \ {0}
      /\ DOMAIN queue = 1 .. (Len(calls) - 1)
      /\ Head(calls) = calls[1] /\ 1 \in DOMAIN calls
      /\ \A n \in DOMAIN queue : queue[n] = calls[n + 1]
  OBVIOUS
<1>2. ASSUME NEW n \in left PROVE n \in Nat \ {0} /\ n + 1 \in Pressed
  BY <1>1, <1>2 DEF Pressed
<1>3. ASSUME NEW n \in Pressed, n # 1 PROVE n - 1 \in left
  <2>1. n \in DOMAIN calls /\ n - 1 \in DOMAIN queue /\ (n - 1) + 1 = n
    BY <1>1, <1>3 DEF Pressed
  <2>2. queue[n - 1] = calls[n]
    BY <1>1, <2>1
  <2> QED
    BY <1>3, <2>1, <2>2 DEF Pressed
<1>4. \A m, n \in left : m = n
  <2>1. ASSUME NEW m \in left, NEW n \in left PROVE m = n
    <3>1. m + 1 = n + 1 /\ m \in Nat /\ n \in Nat
      BY <1>2, <2>1
    <3> QED
      BY <3>1
  <2> QED
    BY <2>1
<1>5. 1 \in Pressed <=> Head(calls).kind # "figures"
  BY <1>1 DEF Pressed
<1>6. ASSUME Head(calls).kind = "figures" PROVE left = {} <=> Pressed = {}
  <2>1. \A n \in Pressed : n # 1
    BY <1>5, <1>6
  <2> QED
    BY <1>2, <1>3, <2>1
<1>7. ASSUME Head(calls).kind # "figures" PROVE left = {} /\ Pressed # {}
  <2>1. ASSUME NEW n \in left PROVE FALSE
    <3>1. n + 1 = 1 /\ n \in Nat \ {0}
      BY <1>2, <1>5, <1>7, <2>1
    <3> QED
      BY <3>1
  <2> QED
    BY <1>5, <1>7, <2>1
<1> QED
  BY <1>4, <1>6, <1>7

(* Figures asked for leave what is under way.                              *)
LEMMA FiguresKeepPressed ==
  ASSUME calls \in Seq(Calls), NEW inputs \in SUBSET Outputs,
         NEW to \in Addresses, NEW rate \in Levels, CreateTransaction(inputs, to, rate)
  PROVE  Pressed' = Pressed
<1> DEFINE call == [kind |-> "figures", form |-> [inputs |-> inputs, dest |-> to, level |-> rate]]
<1>1. CASE fees
  <2>1. calls' = Append(calls, call) /\ call \in Calls /\ call.kind = "figures"
    BY <1>1 DEF CreateTransaction, Calls, Forms
  <2> HIDE DEF call
  <2> QED
    BY <2>1, AppendPressed DEF Pressed
<1>2. CASE ~fees
  BY <1>2 DEF CreateTransaction, Pressed
<1> QED
  BY <1>1, <1>2

(* What was lost was pressed for.                                          *)
Lost == dropped => signing

(* No step begins a second recovery, or leaves the button away for none.   *)
LEMMA OneAtATimeStep ==
  ASSUME TypeOK, TypeOK', OneAtATime, Lost, Next
  PROVE  OneAtATime' /\ Lost'
<1> USE DEF chain, page
<1>0. calls \in Seq(Calls) /\ sent \in Seq(Forms) /\ \A m, n \in Pressed : m = n
  BY DEF TypeOK, OneAtATime
<1>1. ASSUME UNCHANGED <<signing, dropped, sent>>, Pressed' = Pressed
      PROVE  OneAtATime' /\ Lost'
  BY <1>1 DEF OneAtATime, Idle, Lost
<1>2. UNCHANGED calls => Pressed' = Pressed
  BY DEF Pressed
<1>3. CASE Mine \/ FeesReply \/ AddAddress
  BY <1>1, <1>2, <1>3 DEF Mine, FeesReply, AddAddress
<1>4. CASE DataLoaderCallback
  <2>1. Pressed' = Pressed
    <3>1. CASE ~feesPaid /\ dest' # None
      <4>1. dest' \in Addresses /\ level \in Levels
        BY <3>1 DEF TypeOK
      <4>2. PICK inputs \in SUBSET Outputs : inputs = Recoverable'
        BY DEF Recoverable, TypeOK
      <4>3. CreateTransaction(Recoverable', dest', level)
        BY <1>4, <3>1 DEF DataLoaderCallback
      <4>4. CreateTransaction(inputs, dest', level)
        BY <4>2, <4>3 DEF CreateTransaction
      <4> QED
        BY <1>0, <4>1, <4>4, FiguresKeepPressed
    <3>2. CASE ~(~feesPaid /\ dest' # None)
      BY <1>2, <1>4, <3>2 DEF DataLoaderCallback
    <3> QED
      BY <3>1, <3>2
  <2> QED
    BY <1>1, <1>4, <2>1 DEF DataLoaderCallback
<1>5. CASE PickAddress
  <2>1. dest' \in Addresses /\ level \in Levels /\ CreateTransaction(Recoverable, dest', level)
    BY <1>5 DEF PickAddress, TypeOK
  <2>2. Pressed' = Pressed
    BY <1>0, <2>1, RecoverableType, FiguresKeepPressed
  <2> QED
    BY <1>1, <1>5, <2>2 DEF PickAddress
<1>6. CASE SelectLevel
  <2>1. Pressed' = Pressed
    <3>1. CASE dest # None
      <4>1. dest \in Addresses /\ level' \in Levels /\ CreateTransaction(Recoverable, dest, level')
        BY <1>6, <3>1 DEF SelectLevel, TypeOK
      <4> QED
        BY <1>0, <4>1, RecoverableType, FiguresKeepPressed
    <3>2. CASE dest = None
      BY <1>2, <1>6, <3>2 DEF SelectLevel
    <3> QED
      BY <3>1, <3>2
  <2> QED
    BY <1>1, <1>6, <2>1 DEF SelectLevel
<1>7. CASE Recover
  <2> DEFINE call == [kind |-> "create",
                      form |-> [inputs |-> Recoverable, dest |-> dest, level |-> level]]
  <2>1. Pressed = {} /\ sent = << >> /\ sent' = sent /\ signing'
    BY <1>7 DEF Recover, OneAtATime, Idle
  <2>2. CASE fees
    <3>1. call \in Calls /\ call.kind = "create"
      BY <1>7, RecoverableType DEF Recover, TypeOK, Calls, Forms
    <3>2. calls' = Append(calls, call) /\ dropped' = dropped /\ ~signing
      BY <1>7, <2>2 DEF Recover
    <3> HIDE DEF call
    <3>3. Pressed' = {Len(calls) + 1}
      BY <1>0, <2>1, <3>1, <3>2, AppendPressed DEF Pressed
    <3>4. ~dropped
      BY <3>2 DEF Lost
    <3> QED
      BY <2>1, <3>2, <3>3, <3>4 DEF OneAtATime, Idle, Lost
  <2>3. CASE ~fees
    <3>1. Pressed' = {} /\ dropped'
      BY <1>2, <1>7, <2>1, <2>3 DEF Recover
    <3> QED
      BY <2>1, <3>1 DEF OneAtATime, Idle, Lost
  <2> QED
    BY <2>2, <2>3
<1> DEFINE queue == Tail(calls)
           left == {n \in DOMAIN queue : queue[n].kind # "figures"}
<1>8. ASSUME calls # << >>
      PROVE  /\ \A m, n \in left : m = n
             /\ Head(calls).kind = "figures" => (left = {} <=> Pressed = {})
             /\ Head(calls).kind # "figures" => left = {} /\ Pressed # {}
             /\ queue \in Seq(Calls) /\ Head(calls) \in Calls /\ Head(calls).form \in Forms
             /\ calls' = queue => Pressed' = left
  <2>1. queue \in Seq(Calls) /\ Head(calls) \in Calls /\ Head(calls).form \in Forms
    BY <1>0, <1>8, HeadTail
  <2>2. /\ \A m, n \in left : m = n
        /\ Head(calls).kind = "figures" => (left = {} <=> Pressed = {})
        /\ Head(calls).kind # "figures" => left = {} /\ Pressed # {}
    BY <1>0, <1>8, TailPressed
  <2>3. calls' = queue => Pressed' = left
    BY DEF Pressed
  <2> QED
    BY <2>1, <2>2, <2>3
<1> HIDE DEF queue, left
<1>9. CASE FiguresReply
  <2>1. calls # << >> /\ calls' = queue /\ Head(calls).kind = "figures"
        /\ UNCHANGED <<signing, dropped, sent>>
    BY <1>9 DEF FiguresReply, Reply, HandleTransactionCreated, queue
  <2> QED
    BY <1>8, <2>1 DEF OneAtATime, Idle, Lost
<1>10. CASE CreateReply
  <2> DEFINE call == [kind |-> "sign", form |-> Head(calls).form]
  <2>1. calls # << >> /\ calls' = Append(queue, call) /\ Head(calls).kind # "figures"
        /\ UNCHANGED <<signing, dropped, sent>>
    BY <1>10 DEF CreateReply, Reply, HandleTransactionCreated, queue
  <2>2. call \in Calls /\ call.kind # "figures"
    BY <1>8, <2>1 DEF Calls
  <2> HIDE DEF call
  <2>3. Pressed' = left \cup {Len(queue) + 1}
    BY <1>8, <2>1, <2>2, AppendPressed DEF left
  <2> QED
    BY <1>8, <2>1, <2>3 DEF OneAtATime, Idle, Lost
<1>11. CASE SignReply
  <2>1. calls # << >> /\ calls' = queue /\ Head(calls).kind # "figures"
        /\ UNCHANGED <<signing, dropped>> /\ sent' = Append(sent, Head(calls).form)
    BY <1>11 DEF SignReply, Reply, queue
  <2>2. sent = << >> /\ Pressed # {} /\ Pressed' = {}
    BY <1>8, <2>1 DEF OneAtATime
  <2>3. sent' = << Head(calls).form >>
    BY <2>1, <2>2
  <2>4. Len(sent') = 1 /\ sent' # << >>
    BY <2>3
  <2> QED
    BY <2>1, <2>2, <2>4 DEF OneAtATime, Idle, Lost
<1>12. CASE CallFails
  <2>1. calls # << >> /\ calls' = queue /\ UNCHANGED <<signing, sent>>
        /\ dropped' = (dropped \/ Head(calls).kind # "figures")
    BY <1>12 DEF CallFails, queue
  <2>2. CASE Head(calls).kind = "figures"
    BY <1>8, <2>1, <2>2 DEF OneAtATime, Idle, Lost
  <2>3. CASE Head(calls).kind # "figures"
    BY <1>8, <2>1, <2>3 DEF OneAtATime, Idle, Lost
  <2> QED
    BY <2>2, <2>3
<1>13. CASE Accepted \/ Refused
  <2>1. PICK n \in 1..Len(sent) : Answered(n) /\ signing' = FALSE /\ UNCHANGED <<calls, dropped>>
    BY <1>13 DEF Accepted, Refused
  <2>2. Len(sent) = 1 /\ n = 1
    <3> DEFINE len == Len(sent)
    <3>1. len \in Nat /\ len <= 1 /\ n \in 1..len
      BY <1>0, <2>1 DEF OneAtATime
    <3> HIDE DEF len
    <3>2. len = 1 /\ n = 1
      BY <3>1
    <3> QED
      BY <3>2 DEF len
  <2>3. sent' = << >> /\ sent # << >>
    BY <2>1, <2>2 DEF Answered
  <2>4. Pressed = {} /\ Pressed' = {} /\ ~Idle
    BY <2>1, <2>3 DEF OneAtATime, Pressed, Idle
  <2>5. ~dropped
    BY <2>4 DEF OneAtATime
  <2> QED
    BY <2>1, <2>3, <2>4, <2>5 DEF OneAtATime, Idle, Lost
<1> QED
  BY <1>3, <1>4, <1>5, <1>6, <1>7, <1>9, <1>10, <1>11, <1>12, <1>13
  DEF Next, User, Native, Explorer

(* One recovery at a time is under way, and the button is away for one or  *)
(* since an answer was lost.                                               *)
THEOREM SpecOneAtATime == Spec => []OneAtATime
<1>1. Init => OneAtATime /\ Lost
  BY DEF Init, OneAtATime, Idle, Pressed, Lost
<1>2. TypeOK /\ TypeOK' /\ OneAtATime /\ Lost /\ [Next]_vars => OneAtATime' /\ Lost'
  <2>1. OneAtATime /\ Lost /\ UNCHANGED vars => OneAtATime' /\ Lost'
    BY DEF OneAtATime, Idle, Pressed, Lost, vars
  <2> QED
    BY <2>1, OneAtATimeStep
<1> QED
  BY <1>1, <1>2, SpecTypeOK, PTL DEF Spec

=============================================================================
