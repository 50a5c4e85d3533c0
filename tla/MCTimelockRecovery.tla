------------------------- MODULE MCTimelockRecovery -------------------------
(***************************************************************************)
(* Two outputs, and two levels: the outputs pay for the fees of the slow   *)
(* one each, and for those of the fast one only together.                  *)
(***************************************************************************)
EXTENDS TimelockRecovery

CONSTANTS slow, fast

MCLevels == {slow, fast}
MCOutputs == {1, 2}
MCAffordable == {<<{1}, slow>>, <<{2}, slow>>, <<{1, 2}, slow>>, <<{1, 2}, fast>>}

=============================================================================
