--------------------------- MODULE SendPage_proofs ---------------------------
(***************************************************************************)
(* That the page has one transaction at a time on its way, and submits     *)
(* what was approved, for any number of calls, inputs and failures.  The   *)
(* native side answers in order: while nobody touches the page, the call   *)
(* that signs is the last one, so nothing overwrites its answer.  And that *)
(* a page whose button is away waits for an answer, unless one was lost,   *)
(* after which it never has its button again.                              *)
(***************************************************************************)
EXTENDS SendPage, SequenceTheorems, FiniteSetTheorems, TLAPS

(* The head of the calls is a call, and the rest are the calls behind it.  *)
LEMMA HeadTail ==
  ASSUME calls \in Seq(Calls), calls # << >>
  PROVE  /\ Head(calls) \in Calls
         /\ Tail(calls) \in Seq(Calls)
         /\ Head(calls).form \in Forms
         /\ Head(calls) = calls[1] /\ 1 \in DOMAIN calls
         /\ Len(Tail(calls)) = Len(calls) - 1
         /\ \A k \in DOMAIN Tail(calls) : k + 1 \in DOMAIN calls /\ Tail(calls)[k] = calls[k + 1]
<1>1. Head(calls) \in Calls /\ Tail(calls) \in Seq(Calls)
  BY HeadTailProperties
<1>2. Head(calls).form \in Forms
  BY <1>1 DEF Calls
<1>3. Head(calls) = calls[1] /\ 1 \in DOMAIN calls
  OBVIOUS
<1>4. \A k \in DOMAIN Tail(calls) : k + 1 \in DOMAIN calls /\ Tail(calls)[k] = calls[k + 1]
  OBVIOUS
<1>5. Len(Tail(calls)) = Len(calls) - 1
  OBVIOUS
<1> QED
  BY <1>1, <1>2, <1>3, <1>4, <1>5

(* Making the figures anew adds a call or none.                            *)
LEMMA CreateHexType ==
  ASSUME calls \in Seq(Calls), to' \in Addresses \cup {None}, rate' \in Rates \cup {None},
         text' \in Amounts, CreateHex
  PROVE  /\ calls' \in Seq(Calls)
         /\ \A n \in DOMAIN calls' : (n \in DOMAIN calls /\ calls'[n] = calls[n])
                                      \/ calls'[n].kind = "create"
<1>1. CASE Complete'
  <2>1. Form' \in Forms
    BY <1>1 DEF Complete, Form, Forms
  <2>2. PICK f \in Forms : f = Form'
    BY <2>1
  <2>3. PICK call \in Calls : call = Create(f) /\ call.kind = "create"
    <3>1. Create(f) \in Calls /\ Create(f).kind = "create"
      BY DEF Calls, Create
    <3> QED
      BY <3>1
  <2>4. calls' = Append(calls, call)
    BY <1>1, <2>2, <2>3 DEF CreateHex
  <2> QED
    BY <2>3, <2>4, AppendProperties
<1>2. CASE ~Complete'
  BY <1>2 DEF CreateHex
<1> QED
  BY <1>1, <1>2

(* New fees empty a _hex that is there and make it anew.                   *)
LEMMA RefreshHexType ==
  ASSUME TypeOK, NEW r \in Rates, RefreshHex(r)
  PROVE  /\ to' = to /\ all' = all /\ text' = text /\ rate' \in Rates
         /\ hex' = None \/ hex' \in Hexes
         /\ calls' \in Seq(Calls)
         /\ \A n \in DOMAIN calls' : (n \in DOMAIN calls /\ calls'[n] = calls[n])
                                      \/ calls'[n].kind = "create"
<1>1. to' = to /\ all' = all /\ text' = text /\ rate' \in Rates
  BY DEF RefreshHex
<1>2. CASE hex = None /\ UNCHANGED <<hex, calls>>
  BY <1>1, <1>2 DEF TypeOK
<1>3. CASE hex # None /\ hex' = withHex(hex, Empty) /\ CreateHex
  <2>1. hex' \in Hexes
    BY <1>3 DEF TypeOK, withHex, Transactions, Hexes
  <2>2. calls \in Seq(Calls) /\ to' \in Addresses \cup {None} /\ rate' \in Rates \cup {None}
        /\ text' \in Amounts
    BY <1>1 DEF TypeOK
  <2> QED
    BY <1>1, <1>3, <2>1, <2>2, CreateHexType
<1> QED
  BY <1>2, <1>3 DEF RefreshHex

-----------------------------------------------------------------------------
(* The types hold at the start.                                            *)
LEMMA InitType == Init => TypeOK
<1> SUFFICES ASSUME Init PROVE TypeOK
  OBVIOUS
<1>1. to \in Addresses \cup {None} /\ rate \in Rates \cup {None} /\ sent \in Transactions \cup {None}
  BY DEF Init
<1>2. text \in Amounts /\ failures \in 0..MaxFailures
  BY AmountsAssumption, BoundsAssumption DEF Init
<1>3. calls \in Seq(Calls) /\ hex = None
  BY DEF Init
<1>4. {all, signing, ready, open, changed, dropped} \subseteq BOOLEAN
  BY DEF Init
<1> QED
  BY <1>1, <1>2, <1>3, <1>4 DEF TypeOK

(* The types are kept by every step.                                       *)
LEMMA TypeStep ==
  ASSUME TypeOK, Next
  PROVE  TypeOK'
<1>0. calls \in Seq(Calls) /\ text \in Amounts /\ failures \in 0..MaxFailures
  BY DEF TypeOK
<1>1. ASSUME NEW a \in Addresses, PickAddress(a) PROVE TypeOK'
  <2>1. calls' \in Seq(Calls)
    BY <1>0, <1>1, CreateHexType DEF PickAddress, TypeOK
  <2> QED
    BY <1>1, <2>1 DEF PickAddress, Edit, TypeOK
<1>2. ASSUME NEW a \in Addresses, AddAddress(a) PROVE TypeOK'
  BY <1>2 DEF AddAddress, TypeOK
<1>3. ASSUME NEW amount \in Amounts, TypeAmount(amount) PROVE TypeOK'
  <2>1. calls' \in Seq(Calls)
    BY <1>0, <1>3, CreateHexType DEF TypeAmount, TypeOK
  <2> QED
    BY <1>3, <2>1 DEF TypeAmount, Edit, TypeOK
<1>4. ASSUME NEW every \in BOOLEAN, SelectAmountType(every) PROVE TypeOK'
  <2>1. calls' \in Seq(Calls)
    BY <1>0, <1>4, CreateHexType DEF SelectAmountType, TypeOK
  <2> QED
    BY <1>4, <2>1 DEF SelectAmountType, Edit, TypeOK
<1>5. ASSUME NEW r \in Rates, SelectLevel(r) PROVE TypeOK'
  <2>1. calls' \in Seq(Calls)
    BY <1>0, <1>5, CreateHexType DEF SelectLevel, TypeOK
  <2> QED
    BY <1>5, <2>1 DEF SelectLevel, Edit, TypeOK
<1>6. ASSUME NEW r \in Rates, Refresh(r) PROVE TypeOK'
  <2>1. RefreshHex(r)
    BY <1>6 DEF Refresh
  <2> QED
    BY <1>6, <2>1, RefreshHexType DEF Refresh, Edit, TypeOK
<1>7. ASSUME NEW r \in Rates, FeeTooLow(r) PROVE TypeOK'
  <2>1. RefreshHex(r)
    BY <1>7 DEF FeeTooLow
  <2> QED
    BY <1>7, <2>1, RefreshHexType DEF FeeTooLow, TypeOK
<1>8. CASE Approve
  <2>1. calls' \in Seq(Calls)
    <3>1. CASE Complete
      <4>1. Form \in Forms
        BY <3>1 DEF Complete, Form, Forms, TypeOK
      <4>2. PICK f \in Forms : f = Form
        BY <4>1
      <4>3. PICK call \in Calls : call = Sign(f)
        BY DEF Calls, Sign
      <4> QED
        BY <1>0, <1>8, <3>1, <4>2, <4>3, AppendProperties DEF Approve
    <3> QED
      BY <1>0, <1>8, <3>1 DEF Approve
  <2>2. dropped' \in BOOLEAN
    BY <1>8 DEF Approve, Complete, ValidAmount
  <2> QED
    BY <1>8, <2>1, <2>2 DEF Approve, TypeOK, form
<1>9. CASE Submit
  <2>1. hex.tx \in Transactions
    BY <1>9 DEF Submit, Enabled, TypeOK, Hexes
  <2>2. sent' \in Transactions \cup {None} /\ dropped' \in BOOLEAN
    BY <1>9, <2>1 DEF Submit
  <2> QED
    BY <1>9, <2>2 DEF Submit, TypeOK, form
<1>10. CASE CreateReply
  <2>1. PICK f \in Forms : f = Head(calls).form
    BY <1>0, <1>10, HeadTail DEF CreateReply, Reply
  <2>2. calls' \in Seq(Calls)
    BY <1>0, <1>10, HeadTail DEF CreateReply, Reply
  <2>3. hex' = [ figures |-> f, insufficient |-> TooMuch(f),
                 tx |-> IF TooMuch(f) THEN Empty ELSE Unsigned(f) ]
    BY <1>10, <2>1, Zenon DEF CreateReply
  <2>4. TooMuch(f) \in BOOLEAN /\ Empty \in Transactions /\ Unsigned(f) \in Transactions
    BY DEF Transactions, Unsigned, TooMuch
  <2>5. hex' \in Hexes
    BY <2>3, <2>4 DEF Hexes
  <2>6. text' \in Amounts
    <3>1. f.amount \in Amounts \cup {All}
      BY DEF Forms
    <3> DEFINE costly == TooMuch(Head(calls).form)
    <3>2. text' = IF ~all THEN text
                  ELSE CASE costly -> Zero
                         [] Head(calls).form.amount = All -> Everything
                         [] OTHER -> Head(calls).form.amount
      BY <1>10 DEF CreateReply
    <3>3. Head(calls).form.amount \in Amounts \cup {All}
      BY <2>1, <3>1
    <3> HIDE DEF costly
    <3> QED
      BY <1>0, <3>2, <3>3, AmountsAssumption
  <2> QED
    BY <1>10, <2>2, <2>5, <2>6 DEF CreateReply, Reply, TypeOK
<1>11. CASE SignReply
  <2>1. PICK f \in Forms : f = Head(calls).form
    BY <1>0, <1>11, HeadTail DEF SignReply, Reply
  <2>2. calls' \in Seq(Calls)
    BY <1>0, <1>11, HeadTail DEF SignReply, Reply
  <2>3. Signed(f) \in Transactions
    BY DEF Transactions, Signed
  <2>4. hex' = None \/ hex' \in Hexes
    <3>1. CASE hex # None
      <4>1. hex' = withHex(hex, Signed(f))
        BY <1>11, <2>1, <3>1 DEF SignReply
      <4> QED
        BY <2>3, <3>1, <4>1 DEF withHex, TypeOK, Hexes
    <3>2. CASE hex = None
      BY <1>11, <3>2 DEF SignReply
    <3> QED
      BY <3>1, <3>2
  <2>5. signing' \in BOOLEAN /\ ready' \in BOOLEAN /\ dropped' \in BOOLEAN
    BY <1>11 DEF SignReply, TypeOK
  <2> QED
    BY <1>11, <2>2, <2>4, <2>5 DEF SignReply, Reply, TypeOK
<1>12. CASE SignRefused
  <2>1. calls' \in Seq(Calls)
    BY <1>0, <1>12, HeadTail DEF SignRefused, Reply
  <2> QED
    BY <1>12, <2>1 DEF SignRefused, Reply, TypeOK
<1>13. CASE CallFails
  <2>1. calls' \in Seq(Calls)
    BY <1>0, <1>13, HeadTail DEF CallFails
  <2>2. failures' \in 0..MaxFailures
    BY <1>0, <1>13, BoundsAssumption DEF CallFails
  <2> QED
    BY <1>13, <2>1, <2>2 DEF CallFails, TypeOK, form
<1>14. CASE Accepted
  BY <1>14 DEF Accepted, TypeOK, form
<1>15. CASE Refused
  <2>1. failures' \in 0..MaxFailures
    BY <1>0, <1>15, BoundsAssumption DEF Refused
  <2> QED
    BY <1>15, <2>1 DEF Refused, TypeOK, form
<1> QED
  BY <1>1, <1>2, <1>3, <1>4, <1>5, <1>6, <1>7, <1>8, <1>9, <1>10, <1>11, <1>12, <1>13, <1>14,
     <1>15 DEF Next

(* Every state is of these types.                                          *)
THEOREM SpecTypeOK == Spec => []TypeOK
<1>1. TypeOK /\ UNCHANGED vars => TypeOK'
  BY DEF TypeOK, vars, form
<1>2. TypeOK /\ [Next]_vars => TypeOK'
  BY <1>1, TypeStep
<1> QED
  BY InitType, <1>2, PTL DEF Spec

-----------------------------------------------------------------------------
(* No two calls sign, and neither a call that signs nor a submission runs  *)
(* beside another, or with the button enabled.                             *)
Alone ==
  /\ \A n, m \in Signs : n = m
  /\ Signs # {} => signing /\ sent = None /\ ~ready
  /\ sent # None => signing

(* Nobody touched the page: the call that signs is the last one, and signs *)
(* the form the page shows.                                                *)
SignLast == ~changed => \A n \in Signs : n = Len(calls) /\ calls[n].form = Form

(* Nobody touched the page: what can be submitted is that form, signed,    *)
(* and no call is under way that could replace it.                         *)
SignedShown == ready /\ ~changed => hex # None /\ hex.tx = Signed(Form) /\ calls = << >>

PageInv == TypeOK /\ Alone /\ SignLast /\ SignedShown

(* Calls that only make figures leave the calls that sign where they are.  *)
LEMMA CreatesOnly ==
  ASSUME \A n \in DOMAIN calls' : (n \in DOMAIN calls /\ calls'[n] = calls[n])
                                    \/ calls'[n].kind = "create"
  PROVE  \A n \in Signs' : n \in Signs
BY DEF Signs

(* An input or a refresh adds such calls only, and marks the page.         *)
LEMMA EditKeeps ==
  ASSUME PageInv, \A n \in Signs' : n \in Signs, changed' = TRUE, ready' = FALSE,
         signing' = signing, sent' = sent
  PROVE  (Alone /\ SignLast /\ SignedShown)'
BY DEF PageInv, Alone, SignLast, SignedShown

(* One answer: the calls that sign move to the front by one.               *)
LEMMA OneLess ==
  ASSUME calls \in Seq(Calls), calls # << >>, calls' = Tail(calls)
  PROVE  /\ \A n \in Signs' : n + 1 \in Signs /\ n \in Nat \ {0} /\ calls'[n] = calls[n + 1]
         /\ Len(calls') = Len(calls) - 1
         /\ Head(calls).kind = "sign" => 1 \in Signs
         /\ 1 = Len(calls) => calls' = << >>
<1>1. \A n \in Signs' : n + 1 \in Signs /\ n \in Nat \ {0} /\ calls'[n] = calls[n + 1]
  <2>1. ASSUME NEW n \in Signs' PROVE n + 1 \in Signs /\ n \in Nat \ {0} /\ calls'[n] = calls[n + 1]
    <3>1. n \in DOMAIN Tail(calls) /\ Tail(calls)[n].kind = "sign"
      BY <2>1 DEF Signs
    <3>2. n + 1 \in DOMAIN calls /\ Tail(calls)[n] = calls[n + 1]
      BY <3>1, HeadTail
    <3>3. n \in Nat \ {0}
      BY <3>1, HeadTail
    <3> QED
      BY <3>1, <3>2, <3>3 DEF Signs
  <2> QED
    BY <2>1
<1>2. Len(calls') = Len(calls) - 1
  BY HeadTail
<1>3. Head(calls).kind = "sign" => 1 \in Signs
  BY HeadTail DEF Signs
<1>4. 1 = Len(calls) => calls' = << >>
  BY HeadTail, <1>2, EmptySeq
<1> QED
  BY <1>1, <1>2, <1>3, <1>4

(* An answer that signs nothing, and fills in at most the amount of        *)
(* everything, which is not asked for by its text.                         *)
LEMMA AnswerKeeps ==
  ASSUME PageInv, calls # << >>, calls' = Tail(calls),
         UNCHANGED <<to, all, rate, sent, changed, signing, ready>>, all \/ text' = text
  PROVE  (Alone /\ SignLast /\ SignedShown)'
<1>0. calls \in Seq(Calls) /\ Len(calls) \in Nat
  BY DEF PageInv, TypeOK
<1>1. Form' = Form
  BY DEF Form
<1>2. Alone'
  <2>1. \A n, m \in Signs' : n = m
    <3>1. ASSUME NEW n \in Signs', NEW m \in Signs' PROVE n = m
      <4>1. n + 1 = m + 1 /\ n \in Nat /\ m \in Nat
        BY <1>0, <3>1, OneLess DEF PageInv, Alone
      <4> QED
        BY <4>1
    <3> QED
      BY <3>1
  <2>2. Signs' # {} => Signs # {}
    BY <1>0, OneLess
  <2> QED
    BY <2>1, <2>2 DEF PageInv, Alone
<1>3. SignLast'
  <2>1. ASSUME ~changed, NEW n \in Signs' PROVE n = Len(calls') /\ calls'[n].form = Form
    <3>1. n + 1 \in Signs /\ n \in Nat /\ calls'[n] = calls[n + 1] /\ Len(calls') = Len(calls) - 1
      BY <1>0, <2>1, OneLess
    <3>2. n + 1 = Len(calls) /\ calls[n + 1].form = Form
      BY <2>1, <3>1 DEF PageInv, SignLast
    <3>3. n = Len(calls')
      <4>1. \A a, b, c : a \in Nat /\ b \in Nat /\ a + 1 = b /\ c = b - 1 => a = c
        OBVIOUS
      <4> QED
        BY <1>0, <3>1, <3>2, <4>1, Zenon
    <3>4. calls'[n].form = Form
      BY <3>1, <3>2
    <3> QED
      BY <3>3, <3>4
  <2> QED
    BY <1>1, <2>1 DEF SignLast
<1>4. SignedShown'
  BY DEF PageInv, SignedShown
<1> QED
  BY <1>2, <1>3, <1>4

(* Approving asks for one signature, behind all other calls.               *)
LEMMA ApproveKeeps ==
  ASSUME PageInv, Approve
  PROVE  (Alone /\ SignLast /\ SignedShown)'
<1>0. calls \in Seq(Calls) /\ Len(calls) \in Nat
  BY DEF PageInv, TypeOK
<1>1. Signs = {} /\ sent' = None /\ signing' /\ ~ready' /\ Form' = Form
  BY DEF PageInv, Alone, Approve, Enabled, Form, form
<1>2. \A n \in Signs' : n = Len(calls') /\ calls'[n].form = Form
  <2>1. ASSUME NEW n \in Signs' PROVE n = Len(calls') /\ calls'[n].form = Form
    <3>1. CASE Complete
      <4>1. calls' = Append(calls, Sign(Form))
        BY <3>1 DEF Approve
      <4>2. n \in 1..(Len(calls) + 1) /\ calls'[n].kind = "sign" /\ Len(calls') = Len(calls) + 1
        BY <1>0, <2>1, <4>1 DEF Signs
      <4>3. ~(n \in 1..Len(calls))
        <5>1. ASSUME n \in 1..Len(calls) PROVE FALSE
          <6>1. calls'[n] = calls[n] /\ n \in DOMAIN calls
            BY <1>0, <4>1, <5>1
          <6> QED
            BY <1>1, <4>2, <6>1 DEF Signs
        <5> QED
          BY <5>1
      <4>4. n = Len(calls) + 1
        BY <1>0, <4>2, <4>3
      <4>5. calls'[n] = Sign(Form)
        BY <1>0, <4>1, <4>4
      <4> QED
        BY <4>2, <4>4, <4>5 DEF Sign
    <3>2. CASE ~Complete
      <4>1. calls' = calls
        BY <3>2 DEF Approve
      <4> QED
        BY <1>1, <2>1, <4>1 DEF Signs
    <3> QED
      BY <3>1, <3>2
  <2> QED
    BY <2>1
<1> QED
  BY <1>1, <1>2 DEF Alone, SignLast, SignedShown

(* Answering the one call that signs leaves none.                          *)
LEMMA NoSignLeft ==
  ASSUME PageInv, Reply("sign")
  PROVE  Signs' = {} /\ 1 \in Signs
<1>0. calls \in Seq(Calls) /\ calls # << >> /\ calls' = Tail(calls)
  BY DEF PageInv, TypeOK, Reply
<1>1. 1 \in Signs
  BY <1>0, OneLess DEF Reply
<1>2. ASSUME NEW n \in Signs' PROVE FALSE
  <2>1. n + 1 \in Signs /\ n \in Nat \ {0}
    BY <1>0, <1>2, OneLess
  <2>2. n + 1 = 1
    BY <1>1, <2>1 DEF PageInv, Alone
  <2> QED
    BY <2>1, <2>2
<1> QED
  BY <1>1, <1>2

(* The signed transaction of an untouched page is that of its form; no     *)
(* call is left.                                                           *)
LEMMA SignReplyKeeps ==
  ASSUME PageInv, Reply("sign"), UNCHANGED text,
         \/ UNCHANGED <<hex, signing, ready>>
         \/ /\ hex # None /\ hex' = withHex(hex, Signed(Head(calls).form))
            /\ signing' = FALSE /\ ready' = TRUE
  PROVE  (Alone /\ SignLast /\ SignedShown)'
<1>0. calls \in Seq(Calls) /\ Len(calls) \in Nat /\ calls # << >> /\ calls' = Tail(calls)
  BY DEF PageInv, TypeOK, Reply
<1>1. Form' = Form /\ UNCHANGED <<sent, changed>>
  BY DEF Form, Reply
<1>2. 1 \in Signs /\ signing /\ sent = None /\ ~ready
  BY NoSignLeft DEF PageInv, Alone
<1>3. Signs' = {}
  BY NoSignLeft
<1>4. SignedShown'
  <2>1. ASSUME ready', ~changed PROVE hex' # None /\ hex'.tx = Signed(Form) /\ calls' = << >>
    <3>1. 1 = Len(calls) /\ calls[1].form = Form
      BY <1>2, <2>1 DEF PageInv, SignLast
    <3>2. calls' = << >> /\ Head(calls).form = Form
      BY <1>0, <3>1, OneLess, HeadTail
    <3>3. hex' = withHex(hex, Signed(Form))
      BY <1>2, <2>1, <3>2
    <3>4. hex' \in Hexes
      <4>1. hex \in Hexes /\ Head(calls).form \in Forms
        BY <1>0, <1>2, <2>1, HeadTail DEF PageInv, TypeOK
      <4>2. Signed(Form) \in Transactions
        BY <3>2, <4>1 DEF Signed, Transactions
      <4> QED
        BY <3>3, <4>1, <4>2 DEF withHex, Hexes
    <3>5. hex'.tx = Signed(Form)
      BY <3>3 DEF withHex
    <3> QED
      BY <3>2, <3>4, <3>5, NullAssumption
  <2> QED
    BY <1>1, <2>1 DEF SignedShown
<1> QED
  BY <1>1, <1>2, <1>3, <1>4 DEF Alone, SignLast

-----------------------------------------------------------------------------
(* Every step keeps the page's invariant.                                  *)
LEMMA PageStep ==
  ASSUME PageInv, Next
  PROVE  (Alone /\ SignLast /\ SignedShown)'
<1>0. calls \in Seq(Calls) /\ text \in Amounts /\ to \in Addresses \cup {None}
      /\ rate \in Rates \cup {None} /\ TypeOK
  BY DEF PageInv, TypeOK
<1>1. ASSUME CreateHex, Edit, to' \in Addresses \cup {None}, rate' \in Rates \cup {None},
             text' \in Amounts
      PROVE  (Alone /\ SignLast /\ SignedShown)'
  <2>1. \A n \in Signs' : n \in Signs
    BY <1>0, <1>1, CreateHexType, CreatesOnly
  <2> QED
    BY <1>1, <2>1, EditKeeps DEF Edit
<1>2. ASSUME NEW a \in Addresses, PickAddress(a) PROVE (Alone /\ SignLast /\ SignedShown)'
  BY <1>0, <1>1, <1>2 DEF PickAddress
<1>3. ASSUME NEW a \in Addresses, AddAddress(a) PROVE (Alone /\ SignLast /\ SignedShown)'
  BY <1>3 DEF AddAddress, PageInv, Alone, SignLast, SignedShown, Signs
<1>4. ASSUME NEW amount \in Amounts, TypeAmount(amount) PROVE (Alone /\ SignLast /\ SignedShown)'
  BY <1>0, <1>1, <1>4 DEF TypeAmount
<1>5. ASSUME NEW every \in BOOLEAN, SelectAmountType(every)
      PROVE  (Alone /\ SignLast /\ SignedShown)'
  BY <1>0, <1>1, <1>5 DEF SelectAmountType
<1>6. ASSUME NEW r \in Rates, SelectLevel(r) PROVE (Alone /\ SignLast /\ SignedShown)'
  BY <1>0, <1>1, <1>6 DEF SelectLevel
<1>7. ASSUME NEW r \in Rates, Refresh(r) PROVE (Alone /\ SignLast /\ SignedShown)'
  <2>1. \A n \in Signs' : n \in Signs
    BY <1>0, <1>7, RefreshHexType, CreatesOnly DEF Refresh
  <2> QED
    BY <1>7, <2>1, EditKeeps DEF Refresh, Edit
<1>8. ASSUME NEW r \in Rates, FeeTooLow(r) PROVE (Alone /\ SignLast /\ SignedShown)'
  <2>1. \A n \in Signs' : n \in Signs
    BY <1>0, <1>8, RefreshHexType, CreatesOnly DEF FeeTooLow
  <2>2. Signs = {}
    BY <1>8 DEF FeeTooLow, PageInv, Alone
  <2> QED
    BY <1>8, <2>1, <2>2 DEF FeeTooLow, Alone, SignLast, SignedShown
<1>9. CASE Approve
  BY <1>9, ApproveKeeps
<1>10. CASE Submit
  <2>1. Signs = {} /\ Signs' = Signs /\ Form' = Form /\ signing'
    BY <1>10 DEF Submit, Enabled, PageInv, Alone, Signs, Form, form
  <2> QED
    BY <1>10, <2>1 DEF Submit, PageInv, Alone, SignLast, SignedShown
<1>11. CASE CreateReply
  <2>1. all \/ text' = text
    BY <1>11 DEF CreateReply
  <2> QED
    BY <1>11, <2>1, AnswerKeeps DEF CreateReply, Reply
<1>12. CASE SignReply
  BY <1>12, SignReplyKeeps DEF SignReply
<1>13. CASE SignRefused
  BY <1>13, SignReplyKeeps DEF SignRefused
<1>14. CASE CallFails
  BY <1>14, AnswerKeeps DEF CallFails, form
<1>15. ASSUME UNCHANGED <<form, hex, ready, calls, changed>>, sent # None, sent' = None,
              signing' = signing
       PROVE  (Alone /\ SignLast /\ SignedShown)'
  BY <1>15 DEF PageInv, Alone, SignLast, SignedShown, Signs, Form, form
<1>16. CASE Accepted
  BY <1>15, <1>16 DEF Accepted
<1>17. CASE Refused
  BY <1>15, <1>17 DEF Refused
<1> QED
  BY <1>2, <1>3, <1>4, <1>5, <1>6, <1>7, <1>8, <1>9, <1>10, <1>11, <1>12, <1>13, <1>14, <1>16,
     <1>17 DEF Next

(* The invariant holds at the start and after every step.                  *)
LEMMA SpecPageInv == Spec => []PageInv
<1>1. Init => PageInv
  <2>1. Init => Alone /\ SignLast /\ SignedShown
    BY DEF Init, Alone, SignLast, SignedShown, Signs
  <2> QED
    BY <2>1, InitType DEF PageInv
<1>2. PageInv /\ Next => PageInv'
  BY PageStep, TypeStep DEF PageInv
<1>3. PageInv /\ UNCHANGED vars => PageInv'
  BY DEF PageInv, TypeOK, Alone, SignLast, SignedShown, Signs, Form, vars, form
<1>4. PageInv /\ [Next]_vars => PageInv'
  BY <1>2, <1>3
<1> QED
  BY <1>1, <1>4, PTL DEF Spec

(* What is submitted from a page nobody touched since Approve, and that no *)
(* refresh changed, is the signed transaction of the form it shows.        *)
THEOREM SpecReadyMatchesPage == Spec => []ReadyMatchesPage
<1>1. PageInv => ReadyMatchesPage
  BY DEF PageInv, SignedShown, ReadyMatchesPage
<1> QED
  BY <1>1, SpecPageInv, PTL

(* The page never has two transactions to sign or to submit.               *)
THEOREM SpecOneAtATime == Spec => []OneAtATime
<1>1. ASSUME PageInv PROVE OneAtATime
  <2>1. Cardinality(Signs) <= 1
    <3>1. CASE Signs = {}
      BY <3>1, FS_EmptySet
    <3>2. CASE Signs # {}
      <4>1. PICK n \in Signs : TRUE
        BY <3>2
      <4>2. Signs = {n}
        BY <1>1, <4>1 DEF PageInv, Alone
      <4> QED
        <5>1. Cardinality({n}) = 1
          BY FS_Singleton
        <5> QED
          BY <4>2, <5>1
    <3> QED
      BY <3>1, <3>2
  <2> QED
    BY <1>1, <2>1 DEF PageInv, Alone, OneAtATime
<1> QED
  BY <1>1, SpecPageInv, PTL

(* What the explorer is sent of a page nobody touched since Approve, and   *)
(* that no refresh changed, is the form the page shows, signed: nothing    *)
(* that is answered between Approve, Submit and the explorer's answer      *)
(* takes its place.                                                        *)
SubmitsWhatIsShown == sent # None /\ ~changed => sent = Signed(Form)

(* It is what is ready, which is still there.                              *)
SentIsReady == sent # None /\ ~changed => ready /\ hex # None /\ sent = hex.tx

LEMMA SentStep ==
  ASSUME PageInv, SentIsReady, Next
  PROVE  SentIsReady'
<1> SUFFICES ASSUME sent' # None, ~changed' PROVE ready' /\ hex' # None /\ sent' = hex'.tx
  BY DEF SentIsReady
<1>1. CASE Submit
  BY <1>1 DEF Submit, Enabled
<1>2. CASE CreateReply \/ SignReply \/ SignRefused \/ CallFails
  <2>1. calls # << >> /\ UNCHANGED <<sent, changed>>
    BY <1>2 DEF CreateReply, SignReply, SignRefused, CallFails, Reply
  <2>2. ready
    BY <2>1 DEF SentIsReady
  <2> QED
    BY <2>1, <2>2 DEF PageInv, SignedShown
<1>3. ~Approve
  BY DEF Approve, Enabled, PageInv, Alone
<1>4. \/ Approve \/ Submit \/ CreateReply \/ SignReply \/ SignRefused \/ CallFails
  BY DEF Next, PickAddress, AddAddress, TypeAmount, SelectAmountType, SelectLevel, Refresh,
         Edit, FeeTooLow, Accepted, Refused
<1> QED
  BY <1>1, <1>2, <1>3, <1>4

THEOREM SpecSubmitsWhatIsShown == Spec => []SubmitsWhatIsShown
<1>1. Init => SentIsReady
  BY DEF Init, SentIsReady
<1>2. PageInv /\ SentIsReady /\ [Next]_vars => SentIsReady'
  <2>1. SentIsReady /\ UNCHANGED vars => SentIsReady'
    BY DEF SentIsReady, vars
  <2> QED
    BY <2>1, SentStep
<1>3. PageInv /\ SentIsReady => SubmitsWhatIsShown
  BY DEF PageInv, SignedShown, SentIsReady, SubmitsWhatIsShown
<1> QED
  BY <1>1, <1>2, <1>3, SpecPageInv, PTL DEF Spec

-----------------------------------------------------------------------------
(* What the page waits for.  While the button is away, somebody owes the   *)
(* page an answer: a call that signs, or the explorer.  Only an answer     *)
(* that was lost, or a native call that failed, takes that away.           *)
AnswerAwaited == signing /\ open /\ ~dropped /\ failures = 0 => Signs # {} \/ sent # None

(* The button is away and nobody will bring it back.                       *)
Locked == signing /\ Signs = {} /\ sent = None
DroppedLocks == dropped => Locked

(* No input, refresh or answer brings it back: there is no way on but to   *)
(* leave the page.                                                         *)
LockedForGood == [][Locked => Locked']_vars

(* A call that is appended leaves those that sign where they are.          *)
LEMMA AppendKeepsSigns ==
  ASSUME calls \in Seq(Calls), NEW call \in Calls, calls' = Append(calls, call)
  PROVE  /\ Signs \subseteq Signs'
         /\ call.kind = "sign" => Signs' # {}
<1>1. /\ Len(calls) \in Nat
      /\ \A n \in DOMAIN calls : n \in DOMAIN calls' /\ calls'[n] = calls[n]
      /\ Len(calls) + 1 \in DOMAIN calls' /\ calls'[Len(calls) + 1] = call
  OBVIOUS
<1> QED
  BY <1>1 DEF Signs

(* Figures made anew leave every call that signs.                          *)
LEMMA CreateHexKeepsSigns ==
  ASSUME calls \in Seq(Calls), to' \in Addresses \cup {None}, rate' \in Rates \cup {None},
         text' \in Amounts, CreateHex
  PROVE  Signs \subseteq Signs'
<1>1. CASE Complete'
  <2>1. Form' \in Forms
    BY <1>1 DEF Complete, Form, Forms
  <2>2. PICK f \in Forms : f = Form'
    BY <2>1
  <2>3. PICK call \in Calls : call = Create(f)
    BY DEF Calls, Create
  <2>4. calls' = Append(calls, call)
    BY <1>1, <2>2, <2>3 DEF CreateHex
  <2> QED
    BY <2>4, AppendKeepsSigns
<1>2. CASE ~Complete'
  BY <1>2 DEF CreateHex, Signs
<1> QED
  BY <1>1, <1>2

LEMMA RefreshKeepsSigns ==
  ASSUME TypeOK, NEW r \in Rates, RefreshHex(r)
  PROVE  Signs \subseteq Signs'
<1>1. CASE UNCHANGED calls
  BY <1>1 DEF Signs
<1>2. CASE CreateHex
  <2>1. calls \in Seq(Calls) /\ to' \in Addresses \cup {None} /\ rate' \in Rates \cup {None}
        /\ text' \in Amounts
    BY DEF TypeOK, RefreshHex
  <2> QED
    BY <1>2, <2>1, CreateHexKeepsSigns
<1> QED
  BY <1>1, <1>2 DEF RefreshHex

(* The answer to a call that makes figures leaves every call that signs.   *)
LEMMA CreateReplyKeepsSigns ==
  ASSUME PageInv, Reply("create"), Signs # {}
  PROVE  Signs' # {}
<1>1. calls \in Seq(Calls) /\ calls # << >> /\ calls' = Tail(calls) /\ Head(calls).kind = "create"
  BY DEF PageInv, TypeOK, Reply
<1>2. PICK n \in DOMAIN calls : calls[n].kind = "sign"
  BY DEF Signs
<1>3. n \in 1 .. Len(calls) /\ n # 1 /\ Len(calls) \in Nat
  <2>1. Head(calls) = calls[1]
    BY <1>1, HeadTail
  <2> QED
    BY <1>1, <1>2, <2>1
<1>4. n - 1 \in DOMAIN Tail(calls) /\ Tail(calls)[n - 1] = calls[n]
  BY <1>1, <1>3
<1> QED
  BY <1>1, <1>2, <1>4 DEF Signs

(* Nobody's step unlocks the page.                                         *)
LEMMA LockedStep ==
  ASSUME PageInv, Locked, Next
  PROVE  Locked'
<1>0. calls \in Seq(Calls) /\ text \in Amounts /\ to \in Addresses \cup {None}
      /\ rate \in Rates \cup {None} /\ TypeOK
  BY DEF PageInv, TypeOK
<1>1. ASSUME CreateHex, Edit, to' \in Addresses \cup {None}, rate' \in Rates \cup {None},
             text' \in Amounts
      PROVE  Locked'
  <2>1. \A n \in Signs' : n \in Signs
    BY <1>0, <1>1, CreateHexType, CreatesOnly
  <2> QED
    BY <1>1, <2>1 DEF Edit, Locked
<1>2. ASSUME NEW a \in Addresses, PickAddress(a) PROVE Locked'
  BY <1>0, <1>1, <1>2 DEF PickAddress
<1>3. ASSUME NEW a \in Addresses, AddAddress(a) PROVE Locked'
  BY <1>3 DEF AddAddress, Locked, Signs
<1>4. ASSUME NEW amount \in Amounts, TypeAmount(amount) PROVE Locked'
  BY <1>0, <1>1, <1>4 DEF TypeAmount
<1>5. ASSUME NEW every \in BOOLEAN, SelectAmountType(every) PROVE Locked'
  BY <1>0, <1>1, <1>5 DEF SelectAmountType
<1>6. ASSUME NEW r \in Rates, SelectLevel(r) PROVE Locked'
  BY <1>0, <1>1, <1>6 DEF SelectLevel
<1>7. ASSUME NEW r \in Rates, Refresh(r) PROVE Locked'
  <2>1. \A n \in Signs' : n \in Signs
    BY <1>0, <1>7, RefreshHexType, CreatesOnly DEF Refresh
  <2> QED
    BY <1>7, <2>1 DEF Refresh, Edit, Locked
<1>8. ASSUME calls # << >>, calls' = Tail(calls), UNCHANGED <<signing, sent>> PROVE Locked'
  <2>1. \A n \in Signs' : n + 1 \in Signs
    BY <1>0, <1>8, OneLess
  <2> QED
    BY <1>8, <2>1 DEF Locked
<1>9. CASE CreateReply \/ CallFails
  BY <1>8, <1>9 DEF CreateReply, Reply, CallFails
<1>10. ~SignReply /\ ~SignRefused
  BY NoSignLeft DEF SignReply, SignRefused, Locked
<1>11. ~Approve /\ ~Submit /\ ~Accepted /\ ~Refused /\ \A r \in Rates : ~FeeTooLow(r)
  BY DEF Locked, Approve, Submit, Enabled, Accepted, Refused, FeeTooLow
<1> QED
  BY <1>2, <1>3, <1>4, <1>5, <1>6, <1>7, <1>9, <1>10, <1>11 DEF Next

(* A lost answer was the only one due.                                     *)
LEMMA DroppedStep ==
  ASSUME PageInv, ~dropped, dropped', Next
  PROVE  Locked'
<1>1. CASE Approve
  <2>1. Signs = {} /\ sent = None /\ calls' = calls
    BY <1>1 DEF Approve, Enabled, PageInv, Alone
  <2> QED
    BY <1>1, <2>1 DEF Approve, Locked, Signs
<1>2. CASE Submit
  <2>1. Signs = {} /\ calls' = calls
    BY <1>2 DEF Submit, Enabled, PageInv, Alone
  <2> QED
    BY <1>2, <2>1 DEF Submit, Locked, Signs
<1>3. CASE SignReply \/ SignRefused
  <2>1. Signs' = {} /\ signing /\ sent = None
    BY <1>3, NoSignLeft DEF SignReply, SignRefused, PageInv, Alone
  <2> QED
    BY <1>3, <2>1 DEF SignReply, SignRefused, Reply, Locked
<1>4. CASE Refused
  <2>1. Signs = {} /\ signing /\ calls' = calls
    BY <1>4 DEF Refused, PageInv, Alone
  <2> QED
    BY <1>4, <2>1 DEF Refused, Locked, Signs
<1>5. \/ Approve \/ Submit \/ SignReply \/ SignRefused \/ Refused
  BY DEF Next, PickAddress, AddAddress, TypeAmount, SelectAmountType, SelectLevel, Refresh,
         Edit, FeeTooLow, CreateReply, CallFails, Accepted
<1> QED
  BY <1>1, <1>2, <1>3, <1>4, <1>5

(* What is awaited stays so until it is answered, lost or fails.           *)
LEMMA AwaitedStep ==
  ASSUME PageInv, AnswerAwaited, Next
  PROVE  AnswerAwaited'
<1> SUFFICES ASSUME signing', open', ~dropped', failures' = 0
             PROVE  Signs' # {} \/ sent' # None
  BY DEF AnswerAwaited
<1>0. calls \in Seq(Calls) /\ text \in Amounts /\ to \in Addresses \cup {None}
      /\ rate \in Rates \cup {None} /\ failures \in Nat /\ TypeOK
  BY BoundsAssumption DEF PageInv, TypeOK
<1>1. ASSUME Signs # {} => Signs' # {}, UNCHANGED <<signing, open, sent, failures, dropped>>
      PROVE  Signs' # {} \/ sent' # None
  BY <1>1 DEF AnswerAwaited
<1>2. ASSUME CreateHex, Edit, to' \in Addresses \cup {None}, rate' \in Rates \cup {None},
             text' \in Amounts
      PROVE  Signs' # {} \/ sent' # None
  <2>1. Signs \subseteq Signs'
    BY <1>0, <1>2, CreateHexKeepsSigns
  <2> QED
    BY <1>1, <1>2, <2>1 DEF Edit
<1>3. ASSUME NEW a \in Addresses, PickAddress(a) PROVE Signs' # {} \/ sent' # None
  BY <1>0, <1>2, <1>3 DEF PickAddress
<1>4. ASSUME NEW a \in Addresses, AddAddress(a) PROVE Signs' # {} \/ sent' # None
  BY <1>1, <1>4 DEF AddAddress, Signs
<1>5. ASSUME NEW amount \in Amounts, TypeAmount(amount) PROVE Signs' # {} \/ sent' # None
  BY <1>0, <1>2, <1>5 DEF TypeAmount
<1>6. ASSUME NEW every \in BOOLEAN, SelectAmountType(every) PROVE Signs' # {} \/ sent' # None
  BY <1>0, <1>2, <1>6 DEF SelectAmountType
<1>7. ASSUME NEW r \in Rates, SelectLevel(r) PROVE Signs' # {} \/ sent' # None
  BY <1>0, <1>2, <1>7 DEF SelectLevel
<1>8. ASSUME NEW r \in Rates, Refresh(r) PROVE Signs' # {} \/ sent' # None
  BY <1>0, <1>1, <1>8, RefreshKeepsSigns DEF Refresh, Edit
<1>9. ~Accepted /\ ~Refused /\ ~SignReply /\ ~SignRefused /\ \A r \in Rates : ~FeeTooLow(r)
  BY DEF Accepted, Refused, SignReply, SignRefused, FeeTooLow
<1>10. ~CallFails
  <2>1. CallFails => failures + 1 = 0
    BY DEF CallFails
  <2> QED
    BY <1>0, <2>1
<1>11. CASE Approve
  <2>1. Complete
    BY <1>11 DEF Approve
  <2>2. PICK f \in Forms : f = Form
    <3>1. Form \in Forms
      BY <1>0, <2>1 DEF Complete, Form, Forms, TypeOK
    <3> QED
      BY <3>1
  <2>3. PICK call \in Calls : call = Sign(f) /\ call.kind = "sign"
    <3>1. Sign(f) \in Calls /\ Sign(f).kind = "sign"
      BY DEF Calls, Sign
    <3> QED
      BY <3>1
  <2>4. calls' = Append(calls, call)
    BY <1>11, <2>1, <2>2, <2>3 DEF Approve
  <2> QED
    BY <1>0, <2>3, <2>4, AppendKeepsSigns
<1>12. CASE Submit
  <2>1. hex.tx # Empty /\ sent' = hex.tx
    BY <1>12 DEF Submit
  <2>2. hex.tx \in Transactions
    BY <1>0, <1>12 DEF Submit, Enabled, TypeOK, Hexes
  <2> QED
    BY <2>1, <2>2, NullAssumption
<1>13. CASE CreateReply
  BY <1>1, <1>13, CreateReplyKeepsSigns DEF CreateReply, Reply
<1> QED
  BY <1>3, <1>4, <1>5, <1>6, <1>7, <1>8, <1>9, <1>10, <1>11, <1>12, <1>13 DEF Next

(* The button is away only while an answer is awaited, unless one was lost *)
(* or a call failed.                                                       *)
THEOREM SpecAnswerAwaited == Spec => []AnswerAwaited
<1>1. Init => AnswerAwaited
  BY DEF Init, AnswerAwaited
<1>2. PageInv /\ AnswerAwaited /\ [Next]_vars => AnswerAwaited'
  <2>1. AnswerAwaited /\ UNCHANGED vars => AnswerAwaited'
    BY DEF AnswerAwaited, Signs, vars
  <2> QED
    BY <2>1, AwaitedStep
<1> QED
  BY <1>1, <1>2, SpecPageInv, PTL DEF Spec

(* A lost answer locks the page, and a page once locked stays locked.      *)
THEOREM LostAnswerLocks == Spec => []DroppedLocks /\ LockedForGood
<1>1. Init => DroppedLocks
  BY DEF Init, DroppedLocks
<1>2. PageInv /\ [Next]_vars => [Locked => Locked']_vars
  BY LockedStep
<1>3. PageInv /\ DroppedLocks /\ [Next]_vars => DroppedLocks'
  <2>1. DroppedLocks /\ UNCHANGED vars => DroppedLocks'
    BY DEF DroppedLocks, Locked, Signs, vars
  <2>2. PageInv /\ DroppedLocks /\ Next => DroppedLocks'
    BY LockedStep, DroppedStep DEF DroppedLocks
  <2> QED
    BY <2>1, <2>2
<1> QED
  BY <1>1, <1>2, <1>3, SpecPageInv, PTL DEF Spec, LockedForGood

=============================================================================
