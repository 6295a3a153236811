---------------------------- MODULE MCRegionApply ----------------------------
(* Instantiation of RegionApply for TLC.                                    *)
EXTENDS RegionApply, TLC

CONSTANTS t1, t2, a1

MCTxns == {t1, t2}
MCAutos == {a1}

\* Transaction ids are interchangeable: nothing in region.cpp orders them.
MCSymmetry == Permutations(MCTxns)
=============================================================================
