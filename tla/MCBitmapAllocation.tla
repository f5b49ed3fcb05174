-------------------------- MODULE MCBitmapAllocation --------------------------
(* Two addresses, so that one is reused while the other is in flight; a    *)
(* ring that fills up.                                                     *)
EXTENDS BitmapAllocation, TLC

CONSTANTS p1, p2

MCPtrs == {p1, p2}
MCSizes == {1, 2}
MCOneSize == {1}
MCResidue == {0, 2}

(* Addresses are only compared with one another.                           *)
AddressSymmetry == Permutations(MCPtrs)
===============================================================================
