-------------------------- MODULE TimelockRecovery --------------------------
(***************************************************************************)
(* The page that recovers a wallet whose remote account is gone:           *)
(* frontend/lib/timelock_recovery.dart.  It takes every output of the      *)
(* wallet that is older than the timelock, with the first mnemonic only.   *)
(*                                                                         *)
(* Dart runs one handler at a time; the native side answers its calls in   *)
(* their order, the explorer answers requests in any order.  An output     *)
(* confirms at a height drawn at the start.  The transactions signal that  *)
(* they can be replaced, by the sequence number of the timelock.  Another  *)
(* copy of the wallet spends nothing meanwhile, blocks are not undone, and *)
(* the owner stays on the page.                                            *)
(***************************************************************************)
EXTENDS Integers, Sequences, FiniteSets

CONSTANTS
  Outputs,      (* unspent or spent outputs of the wallet                  *)
  Addresses,    (* addresses of earlier recoveries, or that are added      *)
  Levels,       (* levels of the fee rate                                  *)
  Affordable,   (* <<inputs, level>> that are worth more than their fees   *)
  Timelock,     (* timelock: blocks until an output can be recovered       *)
  Opened,       (* the height at which the page is opened                  *)
  None,         (* no address                                              *)
  MaxTip,       (* bound: the height of the chain                          *)
  MaxCalls,     (* bound: inputs wait while that many calls pend           *)
  MaxFailures   (* bound: native calls that throw                          *)

ASSUME HeightsAssumption == /\ Timelock \in Nat \ {0} /\ Opened \in Nat \ {0}
                            /\ MaxTip \in Nat /\ Opened <= MaxTip
ASSUME AffordableAssumption == Affordable \subseteq (SUBSET Outputs) \X Levels
ASSUME NoneAssumption == None \notin Addresses
ASSUME BoundsAssumption == MaxCalls \in Nat \ {0} /\ MaxFailures \in Nat

VARIABLES
  height,         (* the chain: where each output confirms                 *)
  tip,            (* its height                                            *)
  blocks,         (* outputs spent in it                                   *)
  mempool,        (* inputs of the recoveries that wait for a block        *)
  utxos,          (* _utxos: the height of their status, 0 if unconfirmed  *)
  shown,          (* _currentBlockHeight                                   *)
  fees,           (* _recommendedFees have been loaded                     *)
  level,          (* _level                                                *)
  dest,           (* _destAddress                                          *)
  feesPaid,       (* _feesPaid is not 0                                    *)
  loading,        (* _loadingAddresses                                     *)
  signing,        (* _signing                                              *)
  calls,          (* calls of the native side, oldest first                *)
  sent,           (* transactions being submitted                          *)
  failures,       (* native calls that failed so far                       *)
  dropped         (* history: Recover was pressed and nothing will tell    *)
                  (* the page that it is over                              *)

chain == <<height, tip, blocks, mempool>>
page == <<utxos, shown, fees, level, dest, feesPaid, loading>>
vars == <<chain, page, signing, calls, sent, failures, dropped>>

Forms == [inputs : SUBSET Outputs, dest : Addresses, level : Levels]
Calls == [kind : {"figures", "create", "sign"}, form : Forms]

-----------------------------------------------------------------------------
(* The chain.                                                              *)
Unspent == Outputs \ (blocks \cup UNION mempool)
Status(output, at) == IF height[output] <= at THEN height[output] ELSE 0

Mine ==
  /\ tip < MaxTip
  /\ tip' = tip + 1
  /\ \E confirmed \in SUBSET mempool :
       /\ blocks' = blocks \cup UNION confirmed
       /\ mempool' = mempool \ confirmed
  /\ UNCHANGED <<height, page, signing, calls, sent, failures, dropped>>

(* A spend of an output needs that many confirmations in the next block.   *)
Mature(output) == height[output] <= tip /\ tip + 1 - height[output] >= Timelock

-----------------------------------------------------------------------------
(* An unconfirmed output has no confirmations.                             *)
Confirmations(status, from) == IF status = 0 THEN 0 ELSE from - status + 1
(* Mutant: as generous as the reminder of the wallet page.                 *)
Mutant_needLivelinessCheck(status, from) == Confirmations(status, from + 1) >= Timelock
needLivelinessCheck(status, from) == Confirmations(status, from) >= Timelock
Recoverable == {output \in DOMAIN utxos : needLivelinessCheck(utxos[output], shown)}

Init ==
  /\ height \in [Outputs -> 1..MaxTip] /\ tip = Opened
  /\ blocks \in SUBSET {output \in Outputs : height[output] <= tip}
  /\ mempool \in SUBSET {{output} : output \in {o \in Outputs \ blocks : Mature(o)}}
  /\ utxos = << >> /\ shown = 0
  /\ fees = FALSE /\ level \in Levels /\ dest = None
  /\ feesPaid = FALSE /\ loading = TRUE /\ signing = FALSE
  /\ calls = << >> /\ sent = << >>
  /\ failures = 0 /\ dropped = FALSE

Room == Len(calls) + Len(sent) < MaxCalls

FeesReply ==
  /\ ~fees
  /\ fees' = TRUE
  /\ UNCHANGED <<chain, utxos, shown, level, dest, feesPaid, loading,
                 signing, calls, sent, failures, dropped>>

(* The figures of the page; without fees the null check throws.            *)
CreateTransaction(inputs, to, rate) ==
  calls' = IF fees
           THEN Append(calls, [kind |-> "figures",
                               form |-> [inputs |-> inputs, dest |-> to, level |-> rate]])
           ELSE calls

(* The data loader calls the page back: with some of the outputs while it  *)
(* pages, with any height since the page was opened once it has one.  An   *)
(* output that is there already keeps its status.                          *)
DataLoaderCallback ==
  /\ Room
  /\ \E paging \in {FALSE, loading}, found \in SUBSET Unspent, at \in Opened..tip,
        from \in {0} \cup Opened..tip :
       /\ paging \/ found = Unspent
       /\ from = 0 => shown = 0
       /\ utxos' = [output \in DOMAIN utxos \cup found |->
                      IF output \in DOMAIN utxos THEN utxos[output] ELSE Status(output, at)]
       /\ shown' = from
       /\ loading' = paging
  /\ IF dest = None /\ Outputs # Unspent
     THEN dest' \in Addresses \cup {None}
     ELSE dest' = dest
  /\ IF ~feesPaid /\ dest' # None
     THEN CreateTransaction(Recoverable', dest', level)
     ELSE calls' = calls
  /\ UNCHANGED <<chain, fees, level, feesPaid, signing, sent, failures, dropped>>

PickAddress ==
  /\ Room /\ utxos # << >>
  /\ dest' \in Addresses
  /\ CreateTransaction(Recoverable, dest', level)
  /\ UNCHANGED <<chain, utxos, shown, fees, level, feesPaid, loading,
                 signing, sent, failures, dropped>>

(* The dialog sets the address and makes no transaction.                   *)
AddAddress ==
  /\ utxos # << >>
  /\ dest' \in Addresses
  /\ UNCHANGED <<chain, utxos, shown, fees, level, feesPaid, loading,
                 signing, calls, sent, failures, dropped>>

SelectLevel ==
  /\ Room /\ utxos # << >>
  /\ level' \in Levels
  /\ IF dest # None THEN CreateTransaction(Recoverable, dest, level') ELSE calls' = calls
  /\ UNCHANGED <<chain, utxos, shown, fees, dest, feesPaid, loading,
                 signing, sent, failures, dropped>>

(* The button.                                                             *)
(* Mutant: the fees are not looked at.                                     *)
Mutant_Recover ==
  /\ Room
  /\ ~signing /\ dest # None /\ ~loading
  /\ signing' = TRUE
  /\ calls' = Append(calls, [kind |-> "create",
                             form |-> [inputs |-> Recoverable, dest |-> dest,
                                       level |-> IF fees THEN level ELSE None]])
  /\ UNCHANGED <<chain, page, sent, failures, dropped>>
Recover ==
  /\ Room
  /\ ~signing /\ dest # None /\ ~loading /\ Recoverable # {}
  /\ signing' = TRUE
  /\ IF fees
     THEN /\ calls' = Append(calls, [kind |-> "create",
                                     form |-> [inputs |-> Recoverable, dest |-> dest, level |-> level]])
          /\ UNCHANGED dropped
     ELSE /\ dropped' = TRUE
          /\ UNCHANGED calls
  /\ UNCHANGED <<chain, page, sent, failures>>

-----------------------------------------------------------------------------
(* Replies of the native side.                                             *)
Reply(kind) == calls # << >> /\ Head(calls).kind = kind

(* A recovery spends everything it has inputs for: the native side checks  *)
(* no funds then, and refuses none, whatever is left for the destination.  *)
(* Mutant: a creation is taken for one that is refused.                    *)
Mutant_HandleTransactionCreated == feesPaid' = TRUE /\ signing' = FALSE
HandleTransactionCreated == feesPaid' = TRUE /\ UNCHANGED signing

FiguresReply ==
  /\ Reply("figures")
  /\ HandleTransactionCreated
  /\ calls' = Tail(calls)
  /\ UNCHANGED <<chain, utxos, shown, fees, level, dest, loading, sent, failures, dropped>>

CreateReply ==
  /\ Reply("create")
  /\ HandleTransactionCreated
  /\ calls' = Append(Tail(calls), [kind |-> "sign", form |-> Head(calls).form])
  /\ UNCHANGED <<chain, utxos, shown, fees, level, dest, loading, sent, failures, dropped>>

SignReply ==
  /\ Reply("sign")
  /\ calls' = Tail(calls)
  /\ sent' = Append(sent, Head(calls).form)
  /\ UNCHANGED <<chain, page, signing, failures, dropped>>

(* Only a submission catches what goes wrong.                              *)
CallFails ==
  /\ calls # << >> /\ failures < MaxFailures
  /\ failures' = failures + 1
  /\ calls' = Tail(calls)
  /\ dropped' = (dropped \/ Head(calls).kind # "figures")
  /\ UNCHANGED <<chain, page, signing, sent>>

-----------------------------------------------------------------------------
(* Answers of the explorer.                                                *)
Answered(n) == sent' = [m \in 1..(Len(sent) - 1) |-> IF m < n THEN sent[m] ELSE sent[m + 1]]

(* What is in a block cannot be spent again, what is in the mempool can be *)
(* replaced; an output of less than nothing is none.                       *)
Accepted ==
  \E n \in 1..Len(sent) :
    /\ <<sent[n].inputs, sent[n].level>> \in Affordable
    /\ sent[n].inputs \cap blocks = {}
    /\ mempool' = {waiting \in mempool : waiting \cap sent[n].inputs = {}} \cup {sent[n].inputs}
    /\ Answered(n)
    /\ signing' = FALSE
    /\ UNCHANGED <<height, tip, blocks, page, calls, failures, dropped>>

(* Mutant: the button stays away.                                          *)
Mutant_Refused ==
  \E n \in 1..Len(sent) :
    /\ Answered(n)
    /\ UNCHANGED <<chain, page, signing, calls, failures, dropped>>
Refused ==
  \E n \in 1..Len(sent) :
    /\ Answered(n)
    /\ signing' = FALSE
    /\ UNCHANGED <<chain, page, calls, failures, dropped>>

-----------------------------------------------------------------------------
User == PickAddress \/ AddAddress \/ SelectLevel \/ Recover
Native == FiguresReply \/ CreateReply \/ SignReply \/ CallFails
Explorer == Accepted \/ Refused

Next == Mine \/ FeesReply \/ DataLoaderCallback \/ User \/ Native \/ Explorer

(* The native side answers or throws, and so does a submission.            *)
Spec == Init /\ [][Next]_vars /\ WF_vars(Native) /\ WF_vars(Explorer)

-----------------------------------------------------------------------------
(* Types.                                                                  *)
TypeOK ==
  /\ height \in [Outputs -> 1..MaxTip] /\ tip \in Opened..MaxTip
  /\ blocks \subseteq Outputs /\ mempool \subseteq SUBSET Outputs
  /\ DOMAIN utxos \subseteq Outputs
  /\ \A output \in DOMAIN utxos : utxos[output] \in {0, height[output]}
  /\ shown \in {0} \cup Opened..tip
  /\ level \in Levels /\ dest \in Addresses \cup {None}
  /\ {fees, feesPaid, loading, signing, dropped} \subseteq BOOLEAN
  /\ calls \in Seq(Calls) /\ sent \in Seq(Forms)
  /\ failures \in 0..MaxFailures

(* The next block can take every recovery that is submitted, waits or will *)
(* be signed: its inputs are older than the timelock on the chain, however *)
(* late the height and the status are that the page went by.               *)
OnlyMature ==
  /\ \A n \in DOMAIN calls : \A output \in calls[n].form.inputs : Mature(output)
  /\ \A n \in DOMAIN sent : \A output \in sent[n].inputs : Mature(output)
  /\ \A inputs \in mempool : \A output \in inputs : Mature(output)

(* One recovery at a time is created, signed or submitted, through the     *)
(* answers to all else the page asks for; and the button is away only as   *)
(* long as one is, or since an answer was lost.                            *)
Pressed == {n \in DOMAIN calls : calls[n].kind # "figures"}
Idle == Pressed = {} /\ sent = << >>
OneAtATime ==
  /\ \A m, n \in Pressed : m = n
  /\ Len(sent) <= 1 /\ (Pressed = {} \/ sent = << >>)
  /\ Idle <=> (~signing \/ dropped)

(* Once Recover is pressed the button comes back, also after a recovery    *)
(* that the explorer refuses since its outputs do not pay for the fees or  *)
(* are spent, unless the fee rates were not there yet, or creating or      *)
(* signing the transaction threw.                                          *)
ButtonComesBack == signing ~> (~signing \/ dropped)

=============================================================================
