---------------------------- MODULE MCRegionMerge ----------------------------
(* Two writers on S's key range against one merge of S into D, with the    *)
(* code's three VERSION_OLD retries.                                       *)
EXTENDS RegionMerge

CONSTANTS w1, w2

MCWriters == {w1, w2}
MCMaxRetry == 3
====
