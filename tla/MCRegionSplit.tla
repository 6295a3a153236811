---------------------------- MODULE MCRegionSplit ----------------------------
(* Three autocommit writers, two with a key at or above the meta's split   *)
(* key and one below it, against one split, normal or tail, with the      *)
(* code's three add-version tries.  A tail split's key lands above         *)
(* whichever rows were applied before it, so every position of the split  *)
(* key among the three keys occurs.                                        *)
EXTENDS RegionSplit, TLC

CONSTANTS w1, w2, w3

MCWriters == {w1, w2, w3}
MCKeyOf == (w1 :> 3) @@ (w2 :> 2) @@ (w3 :> 1)
MCSplitKey == 2
MCAddVersionTries == 3
====
