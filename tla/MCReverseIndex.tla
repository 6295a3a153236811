---------------------------- MODULE MCReverseIndex ----------------------------
(* ReverseIndex for TLC: two terms, two documents.                        *)
EXTENDS ReverseIndex

MCTerms == 1..2
MCPks == {"d1", "d2"}
====
