------------------------------ MODULE SendPage ------------------------------
(***************************************************************************)
(* The page that makes, signs and submits a transaction:                   *)
(* frontend/lib/create_transaction.dart and its calls of                   *)
(* util/transaction.dart.                                                  *)
(*                                                                         *)
(* Dart runs one handler at a time: a step is an input of the user, a      *)
(* refresh of the fees, or a reply.  The native side works on its calls in *)
(* the order they were made and answers in that order.  A form is what a   *)
(* call is made with: the address, the amount and the fee rate (that of    *)
(* the selected level, times _feeMultiple).  The page that replaces a      *)
(* transaction, whose form is fixed, is not modelled, nor is the user      *)
(* leaving the page before the transaction is accepted.                    *)
(***************************************************************************)
EXTENDS Integers, Sequences, FiniteSets

CONSTANTS
  Addresses,    (* addresses that can be paid                              *)
  Amounts,      (* amounts the user can type, or the page can fill in      *)
  Zero,         (* no amount, or one that is not a number above 0          *)
  Everything,   (* the amount All fills in                                 *)
  Costly,       (* <<amount, rate>> that the utxos do not pay for          *)
  All,          (* what is asked for when All is selected: 0 in the code   *)
  Rates,        (* fee rates, those of the levels at all times             *)
  None,         (* null, for an address, a rate or a transaction           *)
  MaxCalls,     (* bound: inputs wait while that many native calls pend    *)
  MaxFailures   (* bound: calls that fail for no reason in the form        *)

ASSUME NamesAssumption == /\ None \notin Addresses /\ None \notin Rates
                          /\ All \notin Amounts
ASSUME AmountsAssumption == /\ Zero \in Amounts /\ Everything \in Amounts \ {Zero}
                            /\ Costly \subseteq (Amounts \ {Zero}) \X Rates
ASSUME BoundsAssumption == MaxCalls \in Nat \ {0} /\ MaxFailures \in Nat

VARIABLES
  to,        (* _toAddress                                                 *)
  all,       (* _selectedAmountTypes: All is selected                      *)
  text,      (* the text of _amountController                              *)
  rate,      (* _recommendedFees at _level                                 *)
  hex,       (* _hex: the form its figures are of, whether it says that    *)
             (* the funds do not suffice, and the transaction it holds     *)
  signing,   (* _signing                                                   *)
  ready,     (* _readyToSubmit                                             *)
  calls,     (* calls of the native side, [kind, form], oldest first       *)
  sent,      (* the transaction being submitted                            *)
  open,      (* the page is there                                          *)
  failures,  (* calls that failed so far                                   *)
  changed,   (* history: the form changed, or was refreshed, since Approve *)
  dropped    (* history: Approve or Submit was pressed and nothing will    *)
             (* tell the page that it is over                              *)

form == <<to, all, text, rate>>
vars == <<form, hex, signing, ready, calls, sent, open, failures, changed, dropped>>

Forms == [to : Addresses, amount : Amounts \cup {All}, rate : Rates]
Create(f) == [kind |-> "create", form |-> f]
Sign(f) == [kind |-> "sign", form |-> f]
Calls == [kind : {"create", "sign"}, form : Forms]

(* A transaction in hex; "" when there is none.                            *)
Empty == [kind |-> "empty"]
Unsigned(f) == [kind |-> "unsigned", form |-> f]
Signed(f) == [kind |-> "signed", form |-> f]
Transactions == {Empty} \cup [kind : {"unsigned", "signed"}, form : Forms]

(* A _hex that is there; null is none.                                     *)
Hexes == [figures : Forms, insufficient : BOOLEAN, tx : Transactions]
ASSUME NullAssumption == None \notin Hexes /\ None \notin Transactions

(* withHex keeps the figures, and forgets that the funds did not suffice.  *)
withHex(h, tx) == [figures |-> h.figures, insufficient |-> FALSE, tx |-> tx]

-----------------------------------------------------------------------------
Init ==
  /\ to = None /\ all = FALSE /\ text = Zero /\ rate = None
  /\ hex = None
  /\ signing = FALSE /\ ready = FALSE
  /\ calls = << >>
  /\ sent = None
  /\ open = TRUE
  /\ failures = 0
  /\ changed = FALSE /\ dropped = FALSE

ValidAmount(every, typed) == every \/ typed # Zero
Form == [to |-> to, amount |-> IF all THEN All ELSE text, rate |-> rate]
Complete == to # None /\ rate # None /\ ValidAmount(all, text)

(* createTransactionHex, with the fields as the handler leaves them.       *)
(* Mutant: it does not look whether the form is complete.                  *)
Mutant_CreateHex == calls' = Append(calls, Create(Form'))
CreateHex ==
  calls' = IF Complete' THEN Append(calls, Create(Form')) ELSE calls

(* An input or a refresh: what was signed is not to be submitted.          *)
Edit ==
  /\ open
  /\ Len(calls) < MaxCalls
  /\ ready' = FALSE
  /\ changed' = TRUE
  /\ UNCHANGED <<signing, sent, open, failures, dropped>>

PickAddress(a) ==
  /\ Edit
  /\ to' = a
  /\ UNCHANGED <<all, text, rate, hex>>
  /\ CreateHex

(* The dialog selects the address it adds and leaves everything else alone *)
AddAddress(a) ==
  /\ open
  /\ to' = a
  /\ changed' = TRUE
  /\ UNCHANGED <<all, text, rate, hex, signing, ready, calls, sent, open,
                 failures, dropped>>

TypeAmount(amount) ==
  /\ Edit
  /\ ~all
  /\ text' = amount
  /\ hex' = IF ValidAmount(all, amount) THEN hex ELSE None
  /\ UNCHANGED <<to, all, rate>>
  /\ CreateHex

SelectAmountType(every) ==
  /\ Edit
  /\ all' = every
  /\ UNCHANGED <<to, text, rate, hex>>
  /\ CreateHex

SelectLevel(r) ==
  /\ Edit
  /\ rate # None
  /\ rate' = r
  /\ UNCHANGED <<to, all, text, hex>>
  /\ CreateHex

(* New fees, or a new mempool: _hex is emptied and made again if there is  *)
(* one, but not if the first one is still being made.                      *)
RefreshHex(r) ==
  /\ rate' = r
  /\ UNCHANGED <<to, all, text>>
  /\ \/ hex = None /\ UNCHANGED <<hex, calls>>
     \/ hex # None /\ hex' = withHex(hex, Empty) /\ CreateHex

Refresh(r) == Edit /\ RefreshHex(r)

-----------------------------------------------------------------------------
(* The button, enabled while there is a _hex that does not say the funds   *)
(* are insufficient and nothing is being signed or submitted.              *)
(* Mutant: it stays enabled during signing.                                *)
Mutant_Enabled == open /\ hex # None /\ ~hex.insufficient
Enabled == open /\ hex # None /\ ~hex.insufficient /\ ~signing

(* signTransactionHex returns at once when the form is not complete.       *)
(* Mutant: what is signed is what the figures shown were computed for.     *)
Mutant_Approve ==
  /\ Enabled
  /\ ~ready
  /\ Len(calls) < MaxCalls
  /\ signing' = TRUE
  /\ calls' = IF Complete THEN Append(calls, Sign(hex.figures)) ELSE calls
  /\ dropped' = ~Complete
  /\ changed' = FALSE
  /\ UNCHANGED <<form, hex, ready, sent, open, failures>>

Approve ==
  /\ Enabled
  /\ ~ready
  /\ Len(calls) < MaxCalls
  /\ signing' = TRUE
  /\ calls' = IF Complete THEN Append(calls, Sign(Form)) ELSE calls
  /\ dropped' = ~Complete
  /\ changed' = FALSE
  /\ UNCHANGED <<form, hex, ready, sent, open, failures>>

(* submitTransaction returns at once when there is nothing to submit.      *)
Submit ==
  /\ Enabled
  /\ ready
  /\ signing' = TRUE
  /\ sent' = IF hex.tx = Empty THEN None ELSE hex.tx
  /\ dropped' = (hex.tx = Empty)
  /\ UNCHANGED <<form, hex, ready, calls, open, failures, changed>>

(* Nothing else of the page depends on the first call answered.            *)
Reply(kind) ==
  /\ open
  /\ calls # << >>
  /\ Head(calls).kind = kind
  /\ calls' = Tail(calls)
  /\ UNCHANGED <<to, all, rate, sent, open, failures, changed>>

(* The funds do not suffice for the amount and its fees.  All of them do.  *)
TooMuch(f) == <<f.amount, f.rate>> \in Costly

(* A new _hex; the amount of everything is written into the form.          *)
CreateReply ==
  LET f == Head(calls).form
      costly == TooMuch(f)
  IN /\ Reply("create")
     /\ hex' = [ figures |-> f, insufficient |-> costly,
                 tx |-> IF costly THEN Empty ELSE Unsigned(f) ]
     /\ text' = IF ~all THEN text
                ELSE CASE costly -> Zero
                       [] f.amount = All -> Everything
                       [] OTHER -> f.amount
     /\ UNCHANGED <<signing, ready, dropped>>

(* The signed transaction goes into whatever _hex there is now; the error  *)
(* when there is none leaves _signing set.                                 *)
(* Mutant: _signing is not reset.                                          *)
Mutant_SignReply ==
  /\ Reply("sign")
  /\ ~TooMuch(Head(calls).form)
  /\ \/ /\ hex # None
        /\ hex' = withHex(hex, Signed(Head(calls).form))
        /\ ready' = TRUE
        /\ UNCHANGED <<signing, dropped>>
     \/ /\ hex = None
        /\ dropped' = TRUE
        /\ UNCHANGED <<hex, ready, signing>>
  /\ UNCHANGED text

SignReply ==
  /\ Reply("sign")
  /\ ~TooMuch(Head(calls).form)
  /\ \/ /\ hex # None
        /\ hex' = withHex(hex, Signed(Head(calls).form))
        /\ signing' = FALSE
        /\ ready' = TRUE
        /\ UNCHANGED dropped
     \/ /\ hex = None
        /\ dropped' = TRUE
        /\ UNCHANGED <<hex, ready, signing>>
  /\ UNCHANGED text

(* Insufficient funds are an error when signing, and nothing catches it.   *)
SignRefused ==
  /\ Reply("sign")
  /\ TooMuch(Head(calls).form)
  /\ dropped' = TRUE
  /\ UNCHANGED <<text, hex, ready, signing>>

CallFails ==
  /\ open
  /\ calls # << >>
  /\ failures < MaxFailures
  /\ failures' = failures + 1
  /\ calls' = Tail(calls)
  /\ UNCHANGED <<form, hex, signing, ready, sent, open, changed, dropped>>

-----------------------------------------------------------------------------
(* The explorer takes a signed transaction: back to the wallet.            *)
Accepted ==
  /\ open
  /\ sent # None /\ sent.kind = "signed"
  /\ open' = FALSE
  /\ sent' = None
  /\ UNCHANGED <<form, hex, signing, ready, calls, failures, changed, dropped>>

(* It wants a higher fee: the fees are multiplied and the page starts over *)
FeeTooLow(r) ==
  /\ open
  /\ sent # None
  /\ Len(calls) < MaxCalls
  /\ sent' = None
  /\ signing' = FALSE
  /\ ready' = FALSE
  /\ changed' = TRUE
  /\ RefreshHex(r)
  /\ UNCHANGED <<open, failures, dropped>>

(* It refuses for another reason, as it does what is not signed, or is not *)
(* reached: a message, and _signing stays set.                             *)
Refused ==
  /\ open
  /\ sent # None
  /\ sent.kind = "signed" => failures < MaxFailures
  /\ failures' = IF sent.kind = "signed" THEN failures + 1 ELSE failures
  /\ sent' = None
  /\ dropped' = TRUE
  /\ UNCHANGED <<form, hex, signing, ready, calls, open, changed>>

Next ==
  \/ \E a \in Addresses : PickAddress(a) \/ AddAddress(a)
  \/ \E amount \in Amounts : TypeAmount(amount)
  \/ \E every \in BOOLEAN : SelectAmountType(every)
  \/ \E r \in Rates : SelectLevel(r) \/ Refresh(r) \/ FeeTooLow(r)
  \/ Approve
  \/ Submit
  \/ CreateReply
  \/ SignReply
  \/ SignRefused
  \/ CallFails
  \/ Accepted
  \/ Refused

(* Calls are answered; the user need not do anything.                      *)
Fairness ==
  /\ WF_vars(CreateReply) /\ WF_vars(SignReply \/ SignRefused)
  /\ WF_vars(Accepted \/ Refused)

Spec == Init /\ [][Next]_vars /\ Fairness

-----------------------------------------------------------------------------
(* Types of the variables.                                                 *)
TypeOK ==
  /\ to \in Addresses \cup {None}
  /\ all \in BOOLEAN
  /\ text \in Amounts
  /\ rate \in Rates \cup {None}
  /\ hex = None \/ hex \in Hexes
  /\ signing \in BOOLEAN
  /\ ready \in BOOLEAN
  /\ calls \in Seq(Calls)
  /\ sent \in Transactions \cup {None}
  /\ open \in BOOLEAN
  /\ failures \in 0 .. MaxFailures
  /\ changed \in BOOLEAN
  /\ dropped \in BOOLEAN

(* What is submitted from a page nobody touched since Approve, and no      *)
(* refresh, is the signed transaction of the form the page shows.          *)
ReadyMatchesPage ==
  ready /\ ~changed => hex # None /\ hex.tx = Signed(Form)

(* _signing keeps the native side and the explorer from having more than   *)
(* one transaction of the page to sign or to take.                         *)
Signs == {n \in DOMAIN calls : calls[n].kind = "sign"}
OneAtATime ==
  /\ Cardinality(Signs) <= 1
  /\ Signs # {} => signing /\ sent = None /\ ~ready
  /\ sent # None => signing

(* The button comes back after Approve or Submit, or the page closes,      *)
(* unless one of the errors that nothing handles took the answer.          *)
ButtonComesBack == signing ~> (~signing \/ ~open \/ dropped \/ failures > 0)

-----------------------------------------------------------------------------
(* create_transaction.dart:399: what can be submitted, and copied, is      *)
(* shown as the "Signed Transaction".                                      *)
ShownAsSigned == ready => hex # None /\ hex.tx.kind = "signed"

=============================================================================
