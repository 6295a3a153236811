--------------------------- MODULE ReverseIndexSpec ---------------------------
(***************************************************************************)
(* What an inverted index promises, whatever its levels: for each term, the *)
(* set of documents whose last write for that term was an insert.  A write *)
(* (insert_reverse / delete_reverse) is the only step that changes it, and *)
(* each write is counted; merges between levels and readers leave both     *)
(* alone.                                                                  *)
(***************************************************************************)
EXTENDS Naturals

CONSTANTS Terms, Pks

VARIABLES
    docs,   \* docs[t]: the primary keys the term t finds
    n       \* writes so far

Init == docs = [t \in Terms |-> {}] /\ n = 0

\* A write of the node of document pk for term t: "N" adds the document,
\* "D" removes it.
Write(t, pk, f) ==
    /\ n' = n + 1
    /\ docs' = [docs EXCEPT ![t] = IF f = "N" THEN @ \cup {pk} ELSE @ \ {pk}]

Next == \E t \in Terms, pk \in Pks, f \in {"N", "D"} : Write(t, pk, f)

Spec == Init /\ [][Next]_<<docs, n>>
====
