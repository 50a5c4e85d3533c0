------------------------------- MODULE Backup -------------------------------
(***************************************************************************)
(* What the custody of a wallet promises (sections 1 and 2.a of the        *)
(* repository's README): a wallet is kept by a phone only once its second  *)
(* seed is deposited with the remote account, a companion only holds what  *)
(* a phone held, and an address is shown only of the wallet the phone      *)
(* keeps.  Custody implements it.                                          *)
(***************************************************************************)
CONSTANTS Wallets, NoWallet

VARIABLES
  deposited,  (* wallets whose second seed the remote account holds        *)
  phone,      (* the wallet the phone keeps whole, or NoWallet             *)
  companion,  (* the wallet the companion holds, or NoWallet               *)
  shown,      (* the wallet an address of which is shown, or NoWallet      *)
  mixed       (* an open page may be of another wallet than the phone's   *)

vars == <<deposited, phone, companion, shown, mixed>>

Init ==
  /\ deposited = {} /\ shown = NoWallet
  /\ phone = NoWallet /\ companion = NoWallet
  /\ mixed = FALSE

Deposit(w) ==
  /\ deposited' = deposited \cup {w}
  /\ UNCHANGED <<phone, companion, shown, mixed>>

(* By a setup, or by a recovery.                                           *)
Keep(w) ==
  /\ w \in deposited
  /\ phone' = w
  /\ UNCHANGED <<deposited, companion, shown, mixed>>

(* The phone is lost, or its wallet makes room for another.                *)
Forget ==
  /\ phone' = NoWallet
  /\ mixed' \in {mixed, FALSE} /\ shown' \in {shown, NoWallet}
  /\ UNCHANGED <<deposited, companion>>

(* Writes of another wallet were cut, or come behind an open page; or a    *)
(* page is closed.                                                         *)
Part ==
  /\ mixed' \in BOOLEAN /\ shown' \in {shown, NoWallet}
  /\ UNCHANGED <<deposited, phone, companion>>

Share(w) ==
  /\ w \in deposited
  /\ companion' = w
  /\ UNCHANGED <<deposited, phone, shown, mixed>>

LoseCompanion ==
  /\ companion' = NoWallet
  /\ UNCHANGED <<deposited, phone, shown, mixed>>

Show(w) ==
  /\ w \in deposited /\ (mixed \/ phone = w)
  /\ shown' = w
  /\ UNCHANGED <<deposited, phone, companion, mixed>>

Next ==
  \/ \E w \in Wallets : Deposit(w) \/ Keep(w) \/ Share(w) \/ Show(w)
  \/ Forget \/ Part \/ LoseCompanion

Spec == Init /\ [][Next]_vars

=============================================================================
