----------------------------- MODULE MCSendPage -----------------------------
(***************************************************************************)
(* One amount is beyond the funds at every fee rate; what All filled in at *)
(* the lowest rate is at the others, once it is typed text.                *)
(***************************************************************************)
EXTENDS SendPage

CONSTANTS every, big

MCCostly == ({big} \X Rates) \cup ({every} \X (Rates \ {1}))

=============================================================================
