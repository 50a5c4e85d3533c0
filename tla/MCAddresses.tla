---------------------------- MODULE MCAddresses ----------------------------
(***************************************************************************)
(* Addresses over the integers modulo a small prime, whose points are the  *)
(* multiples of 3, with hashes that mix what they are given.  The start    *)
(* indices lie on both sides of every boundary of a uint32 path.           *)
(***************************************************************************)
EXTENDS Addresses

CONSTANT Prime

MCScalar == 0 .. Prime - 1
MCAdd(k, l) == (k + l) % Prime
MCMinus(k) == (Prime - k) % Prime
MCPub(k) == (3 * k) % Prime
MCEvenY(P) == P % 2 = 0
MCDigest == 0 .. 60
MCSha256(k) == 2 * k + 1
MCTapLeafHash(leaf) == (leaf.key * leaf.key + leaf.older) % 61
MCTapTweak(P, root) == (P * root + root * root + 2) % Prime
MCChildTweak(P, path) == (P + 2 * path * path + 1) % Prime
MCHardenedTweak(k, path) == (k * k + path) % Prime
MCSeeds == {1, 2}
MCStarts == {-1, 0, 1, HardenedKeyStart - 2, HardenedKeyStart - 1, HardenedKeyStart,
             2 * HardenedKeyStart - 2, 2 * HardenedKeyStart - 1, 2 * HardenedKeyStart}
MCNums == {-1, 0, 1, 3, MaxUint8, MaxUint8 + 1}
(* One index of one of the wallets has no second key.                      *)
MCBadChild == {<<ChangeKey(1).point, 2>>}

=============================================================================
