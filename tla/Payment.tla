------------------------------ MODULE Payment ------------------------------
(***************************************************************************)
(* What CreateTransaction promises a caller (the comment and the returned  *)
(* fields of leafy.go): one step from the question to the answer, which is *)
(* either a transaction whose figures add up or a refusal with a true      *)
(* reason.  CoinSelection implements it.                                   *)
(***************************************************************************)
EXTENDS Integers

VARIABLES
  funds,     (* value of all the utxos passed in                           *)
  amount,    (* the amount asked for, 0 to spend everything                *)
  feeRate,
  outcome,   (* "pending", "built" or "refused"                            *)
  reason,    (* the error of a refusal                                     *)
  fee,       (* TxFeeAmt                                                   *)
  input,     (* TxInputAmt                                                 *)
  sent,      (* value of the destination output                            *)
  back       (* TxChangeAmt                                                *)

asked == <<funds, amount, feeRate>>
answer == <<outcome, reason, fee, input, sent, back>>

Init ==
  /\ funds \in Nat /\ amount \in Nat /\ feeRate \in Int
  /\ answer = <<"pending", "none", 0, 0, 0, 0>>

BuildAmount ==
  /\ amount > 0
  /\ funds >= amount + fee'
  /\ sent' = amount
  /\ input' = sent' + fee' + back'

(* Spending everything has no test that the fee leaves something to send.  *)
BuildAll ==
  /\ amount = 0
  /\ input' = funds
  /\ back' = 0
  /\ sent' = funds - fee'

Build ==
  /\ outcome = "pending"
  /\ outcome' = "built"
  /\ reason' = "none"
  /\ feeRate > 0
  /\ fee' \in Nat \ {0} /\ input' \in Nat /\ back' \in Nat
  /\ BuildAmount \/ BuildAll
  /\ UNCHANGED asked

Refuse ==
  /\ outcome = "pending"
  /\ outcome' = "refused"
  /\ fee' \in Nat
  /\ \/ reason' = "feeRate" /\ feeRate <= 0
     \/ reason' = "funds" /\ funds < amount
     \/ reason' = "fees" /\ amount > 0 /\ funds < amount + fee'
     \/ reason' = "script"
  /\ UNCHANGED <<asked, input, sent, back>>

Next == Build \/ Refuse

Spec == Init /\ [][Next]_<<asked, answer>>

=============================================================================
