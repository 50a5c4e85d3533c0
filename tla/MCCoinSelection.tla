-------------------------- MODULE MCCoinSelection --------------------------
(***************************************************************************)
(* CoinSelection on lists of at most MaxSize utxos whose amounts are taken *)
(* from a few values around the dust limit, the fee and the request.       *)
(***************************************************************************)
EXTENDS CoinSelection, TLC

CONSTANTS UtxoAmounts, MaxSize, Undecodable

(* The running totals of every list of n amounts.                          *)
TotalsOf[n \in 0 .. MaxSize] ==
  IF n = 0
    THEN { 0 :> 0 }
    ELSE { t @@ (n :> t[n - 1] + a) : t \in TotalsOf[n - 1], a \in UtxoAmounts }

MCWallets ==
  UNION { { [size |-> n, total |-> t, undecodable |-> bad] :
              t \in TotalsOf[n],
              bad \in {b \in {{}, {Undecodable}} : b \subseteq 1 .. n} } :
          n \in 0 .. MaxSize }

=============================================================================
