------------------------------ MODULE MCTxnSeq ------------------------------
(* Three DML statements, two calls per statement. *)
EXTENDS TxnSeq

MCNDml == 3
MCMaxTries == 2
====
