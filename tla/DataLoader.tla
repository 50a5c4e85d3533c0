----------------------------- MODULE DataLoader -----------------------------
(***************************************************************************)
(* The DataLoader of frontend/lib/util/data_loader.dart and the wallet     *)
(* page that shows what it loads.                                          *)
(*                                                                         *)
(* Dart runs one handler at a time: a step is what runs between two        *)
(* awaits, so that a timer tick, a reply of the native side (addresses) or *)
(* a reply of the block explorer (the rest) finds the fields as the last   *)
(* handler left them.  An address is its index.  What is loaded about an   *)
(* address is whether it has transactions; prices and block heights, which *)
(* share no field with the loading of addresses, are left out.             *)
(***************************************************************************)
EXTENDS Integers, Sequences, FiniteSets

CONSTANTS
  LoadAmount,   (* _loadAmount: addresses asked for at once, 5             *)
  StopAmount,   (* _addressWithoutTransactionStopAmount, 3                 *)
  Receivable,   (* bound: the addresses that may get transactions          *)
  MaxPending,   (* bound: the timer waits for calls when that many pend    *)
  MaxFailures   (* bound: calls that fail                                  *)

ASSUME AmountAssumption == LoadAmount \in Nat \ {0} /\ StopAmount \in Nat \ {0}
ASSUME ChainAssumption == Receivable \subseteq Nat
ASSUME BoundAssumption == MaxPending \in Nat \ {0} /\ MaxFailures \in Nat

VARIABLES
  timer,      (* "off" before init, "on", and "cancelled" by dispose       *)
  addresses,  (* _addresses                                                *)
  startIndex, (* _startIndex                                               *)
  paging,     (* _continuePaging                                           *)
  loading,    (* _loadingAddressInfos                                      *)
  calls,      (* the first index of each getAddresses under way, in order  *)
  load,       (* the _loadAddressInfoForAddresses under way                *)
  page,       (* what the wallet page got from the callback                *)
  used,       (* the addresses that have transactions, on the chain        *)
  failures,   (* calls that failed so far                                  *)
  overlapped  (* history: a getAddresses was made while another pended     *)

vars == <<timer, addresses, startIndex, paging, loading, calls, load, page,
          used, failures, overlapped>>

NoAddress == -1
Batch(start) == [k \in 1 .. LoadAmount |-> start + k - 1]
Idle == [at |-> "idle", copied |-> << >>, unused |-> << >>, counted |-> << >>]

-----------------------------------------------------------------------------
Init ==
  /\ timer = "off"
  /\ addresses = << >>
  /\ startIndex = 0
  /\ paging = TRUE
  /\ loading = FALSE
  /\ calls = << >>
  /\ load = Idle
  /\ page = [counted |-> << >>, receive |-> NoAddress, finished |-> FALSE]
  /\ used \in SUBSET Receivable
  /\ failures = 0
  /\ overlapped = FALSE

(* The page builds again and again; only the first call of init acts.      *)
(* Mutant: every build loads the first addresses again.                    *)
Mutant_Start ==
  /\ timer # "cancelled"
  /\ Len(calls) < MaxPending
  /\ timer' = "on"
  /\ calls' = Append(calls, startIndex)
  /\ UNCHANGED <<addresses, startIndex, paging, loading, load, page, used,
                 failures, overlapped>>

Start ==
  /\ timer = "off"
  /\ timer' = "on"
  /\ calls' = Append(calls, startIndex)
  /\ UNCHANGED <<addresses, startIndex, paging, loading, load, page, used,
                 failures, overlapped>>

(* The page is left: the timer stops, what is under way does not.          *)
Dispose ==
  /\ timer = "on"
  /\ timer' = "cancelled"
  /\ UNCHANGED <<addresses, startIndex, paging, loading, calls, load, page,
                 used, failures, overlapped>>

(* _handleDataLoad, while the page is mounted.                             *)
Show(new) == page' = IF timer = "cancelled" THEN page ELSE new

(* _loadAddressInfoForAddresses until its first await, with the addresses  *)
(* it finds.                                                               *)
(* Mutant: a load begins though another one is under way.                  *)
Mutant_BeginLoad(found) ==
  /\ load' = IF found = << >> THEN load ELSE [Idle EXCEPT !.at = "mempool"]
  /\ loading' = (found # << >>)
  /\ UNCHANGED page

BeginLoad(found) ==
  \/ /\ found = << >>
     /\ Show([page EXCEPT !.finished = ~paging])
     /\ UNCHANGED <<load, loading>>
  \/ /\ found # << >> /\ loading
     /\ UNCHANGED <<load, loading, page>>
  \/ /\ found # << >> /\ ~loading
     /\ load' = [Idle EXCEPT !.at = "mempool"]
     /\ loading' = TRUE
     /\ UNCHANGED page

(* _load, by the timer or by forceLoad when the page is shown again.       *)
Reload ==
  /\ timer = "on"
  /\ Len(calls) < MaxPending
  /\ BeginLoad(addresses)
  /\ UNCHANGED <<timer, addresses, startIndex, paging, calls, used, failures,
                 overlapped>>

(* getAddresses answers, in the order of the calls.                        *)
(* Mutant: _startIndex is not moved on.                                    *)
Mutant_AddressesReply ==
  /\ calls # << >>
  /\ addresses' = addresses \o Batch(Head(calls))
  /\ startIndex' = startIndex
  /\ calls' = Tail(calls)
  /\ BeginLoad(addresses')
  /\ UNCHANGED <<timer, paging, used, failures, overlapped>>

AddressesReply ==
  /\ calls # << >>
  /\ addresses' = addresses \o Batch(Head(calls))
  /\ startIndex' = startIndex + LoadAmount
  /\ calls' = Tail(calls)
  /\ BeginLoad(addresses')
  /\ UNCHANGED <<timer, paging, used, failures, overlapped>>

(* Nothing catches the error getAddresses throws.                          *)
AddressesFail ==
  /\ calls # << >>
  /\ failures < MaxFailures
  /\ calls' = Tail(calls)
  /\ failures' = failures + 1
  /\ UNCHANGED <<timer, addresses, startIndex, paging, loading, load, page,
                 used, overlapped>>

-----------------------------------------------------------------------------
(* The end of a load: decide on paging, show what was read, let the next   *)
(* load begin.                                                             *)
(* Mutants: every address counts for the stop amount; the flag is left set *)
(* when there is more to page; the next batch is asked for past the one    *)
(* that comes next.                                                        *)
Mutant_EndLoad_first(ld) ==
  LET more == paging /\ Len(ld.copied) < StopAmount
  IN /\ paging' = more
     /\ calls' = IF more THEN Append(calls, startIndex) ELSE calls
     /\ overlapped' = (overlapped \/ (more /\ calls # << >>))
     /\ Show([counted |-> ld.counted, finished |-> ~more,
              receive |-> IF ld.unused = << >> THEN NoAddress ELSE Head(ld.unused)])
     /\ load' = Idle
     /\ loading' = FALSE

Mutant_EndLoad_flag(ld) ==
  LET more == paging /\ Len(ld.unused) < StopAmount
  IN /\ paging' = more
     /\ calls' = IF more THEN Append(calls, startIndex) ELSE calls
     /\ overlapped' = (overlapped \/ (more /\ calls # << >>))
     /\ Show([counted |-> ld.counted, finished |-> ~more,
              receive |-> IF ld.unused = << >> THEN NoAddress ELSE Head(ld.unused)])
     /\ load' = Idle
     /\ loading' = more

Mutant_EndLoad_next(ld) ==
  LET more == paging /\ Len(ld.unused) < StopAmount
  IN /\ paging' = more
     /\ calls' = IF more THEN Append(calls, startIndex + LoadAmount) ELSE calls
     /\ overlapped' = (overlapped \/ (more /\ calls # << >>))
     /\ Show([counted |-> ld.counted, finished |-> ~more,
              receive |-> IF ld.unused = << >> THEN NoAddress ELSE Head(ld.unused)])
     /\ load' = Idle
     /\ loading' = FALSE

EndLoad(ld) ==
  LET more == paging /\ Len(ld.unused) < StopAmount
  IN /\ paging' = more
     /\ calls' = IF more THEN Append(calls, startIndex) ELSE calls
     /\ overlapped' = (overlapped \/ (more /\ calls # << >>))
     /\ Show([counted |-> ld.counted, finished |-> ~more,
              receive |-> IF ld.unused = << >> THEN NoAddress ELSE Head(ld.unused)])
     /\ load' = Idle
     /\ loading' = FALSE

(* The loop goes on with the next address, or the load ends.               *)
Position(ld) == Len(ld.unused) + Len(ld.counted)

(* Mutant: the loop runs one address too far.                              *)
Mutant_GoOn(ld) ==
  \/ /\ Position(ld) > Len(ld.copied)
     /\ EndLoad(ld)
  \/ /\ Position(ld) <= Len(ld.copied)
     /\ load' = ld
     /\ UNCHANGED <<paging, loading, calls, page, overlapped>>

GoOn(ld) ==
  \/ /\ Position(ld) = Len(ld.copied)
     /\ EndLoad(ld)
  \/ /\ Position(ld) < Len(ld.copied)
     /\ load' = ld
     /\ UNCHANGED <<paging, loading, calls, page, overlapped>>

(* The first reply: the list is copied, whatever was appended meanwhile.   *)
MempoolReply ==
  /\ load.at = "mempool"
  /\ load' = [load EXCEPT !.at = "info", !.copied = addresses]
  /\ UNCHANGED <<timer, addresses, startIndex, paging, loading, calls, page,
                 used, failures, overlapped>>

Current == load.copied[Position(load) + 1]

(* getAddressInfo answers for an address without transactions.             *)
UnusedReply ==
  /\ load.at = "info"
  /\ Current \notin used
  /\ GoOn([load EXCEPT !.unused = Append(@, Current)])
  /\ UNCHANGED <<timer, addresses, startIndex, used, failures>>

(* It answers for one with transactions, which are asked for next.         *)
UsedReply ==
  /\ load.at = "info"
  /\ Current \in used
  /\ load' = [load EXCEPT !.at = "transactions"]
  /\ UNCHANGED <<timer, addresses, startIndex, paging, loading, calls, page,
                 used, failures, overlapped>>

(* Its transactions, and what of them is unspent, have been read.  The     *)
(* balance counts the address once for each time it is in the list.        *)
TransactionsReply ==
  /\ load.at = "transactions"
  /\ GoOn([load EXCEPT !.at = "info", !.counted = Append(@, Current)])
  /\ UNCHANGED <<timer, addresses, startIndex, used, failures>>

(* Any of the replies is an error: the load is gone, its flag stays set.   *)
LoadFail ==
  /\ load.at # "idle"
  /\ failures < MaxFailures
  /\ failures' = failures + 1
  /\ load' = Idle
  /\ UNCHANGED <<timer, addresses, startIndex, paging, loading, calls, page,
                 used, overlapped>>

(* The chain: an address gets a transaction; the only transaction of an    *)
(* address is replaced in the mempool by one that does not pay to it.      *)
Receive(a) ==
  /\ a \notin used
  /\ used' = used \cup {a}
  /\ UNCHANGED <<timer, addresses, startIndex, paging, loading, calls, load,
                 page, failures, overlapped>>

Replaced(a) ==
  /\ a \in used
  /\ used' = used \ {a}
  /\ UNCHANGED <<timer, addresses, startIndex, paging, loading, calls, load,
                 page, failures, overlapped>>

-----------------------------------------------------------------------------
Next ==
  \/ Start
  \/ Dispose
  \/ Reload
  \/ AddressesReply
  \/ AddressesFail
  \/ MempoolReply
  \/ UnusedReply
  \/ UsedReply
  \/ TransactionsReply
  \/ LoadFail
  \/ \E a \in Receivable : Receive(a) \/ Replaced(a)

(* A call is answered or fails, and the timer ticks.                       *)
Fairness == /\ WF_vars(Start) /\ WF_vars(Reload) /\ WF_vars(AddressesReply)
            /\ WF_vars(MempoolReply) /\ WF_vars(UnusedReply \/ UsedReply)
            /\ WF_vars(TransactionsReply)
Spec == Init /\ [][Next]_vars /\ Fairness

-----------------------------------------------------------------------------
(* Types of the variables.                                                 *)
TypeOK ==
  /\ timer \in {"off", "on", "cancelled"}
  /\ addresses \in Seq(Nat)
  /\ startIndex \in Nat
  /\ paging \in BOOLEAN
  /\ loading \in BOOLEAN
  /\ calls \in Seq(Nat)
  /\ load \in [ at : {"idle", "mempool", "info", "transactions"},
                copied : Seq(Nat), unused : Seq(Nat), counted : Seq(Nat) ]
  /\ load.at = "mempool" => Position(load) = 0 /\ addresses # << >>
  /\ load.at \in {"info", "transactions"} => Position(load) < Len(load.copied)
  /\ page \in [ counted : Seq(Nat), receive : Nat \cup {NoAddress},
                finished : BOOLEAN ]
  /\ used \subseteq Receivable
  /\ failures \in 0 .. MaxFailures
  /\ overlapped \in BOOLEAN

(* A batch may repeat one that is there already, and so be behind its      *)
(* place in the list, but it is never ahead of it: _startIndex, which the  *)
(* next call starts from, is what was appended, whenever it was asked for. *)
NeverAhead ==
  /\ startIndex = Len(addresses)
  /\ \A n \in DOMAIN calls : calls[n] <= startIndex
  /\ \A n \in DOMAIN addresses : addresses[n] <= n - 1

(* The list is the first addresses of the wallet, each once and in order,  *)
(* unless a load ended and asked for more while more was still on its way. *)
InOrderUnlessOverlapped ==
  ~overlapped =>
    /\ addresses = [n \in 1 .. startIndex |-> n - 1]
    /\ calls \in {<< >>, <<startIndex>>}

(* The balance the page shows counts no address twice, and the address it  *)
(* offers to receive at is not one that it counts.                         *)
PageCountsOnce ==
  ~overlapped =>
    /\ \A m, n \in DOMAIN page.counted :
         page.counted[m] = page.counted[n] => m = n
    /\ \A n \in DOMAIN page.counted : page.counted[n] # page.receive

(* Nothing the loader does can be the last it does: the flag that keeps    *)
(* loads apart is set without a load under way, or there is neither an     *)
(* address nor a call for one, only after a call failed.                   *)
FlagLost == loading /\ load.at = "idle"
Stranded == timer = "on" /\ addresses = << >> /\ calls = << >>
StuckNeedsFailure == FlagLost \/ Stranded => failures > 0

(* Paging stops at the end of a load that found StopAmount addresses       *)
(* without transactions, which are different ones unless calls overlapped. *)
Different(s) == Cardinality({s[n] : n \in DOMAIN s})
FoundUnused == IF load.at = "info" THEN Append(load.unused, Current) ELSE load.unused
PagingStops ==
  [][paging /\ ~paging' =>
       /\ Len(FoundUnused) >= StopAmount
       /\ ~overlapped => Different(FoundUnused) >= StopAmount]_vars

(* When the chain stops moving the page comes to show it: it counts the    *)
(* addresses with transactions among all it has, and says it is finished.  *)
(* The exceptions are a page that is left and a loader a failure stopped.  *)
Shown == {page.counted[n] : n \in DOMAIN page.counted}
Loaded == {addresses[n] : n \in DOMAIN addresses}
PageCatchesUp ==
  <>[][used' = used]_used =>
    \/ <>[](page.finished /\ Shown = used \cap Loaded)
    \/ <>[](FlagLost \/ Stranded \/ timer = "cancelled")

-----------------------------------------------------------------------------
(* data_loader.dart:158: "page until at least 3 addresses without txs      *)
(* found".                                                                 *)
PagesUntilEnoughFound ==
  [][paging /\ ~paging' => Different(FoundUnused) >= StopAmount]_vars

=============================================================================
