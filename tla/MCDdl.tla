-------------------------------- MODULE MCDdl --------------------------------
(* Ddl for TLC: one peer, two backfill bthread slots.  Scans see a primary *)
(* key (a, b), a fulltext index on c, and the DDL's KEY index on (b, c),   *)
(* in lists of up to three possible indexes.                               *)
EXTENDS DdlScan, TLC

CONSTANTS p1

MCOnePeer == {p1}
MCSlots == 1..2
MCCatalog == ("pk" :> [type |-> "PRIMARY", fields |-> <<"a", "b">>])
             @@ ("ft" :> [type |-> "FULLTEXT", fields |-> <<"c">>])
MCDdlInfo == [type |-> "KEY", fields |-> <<"b", "c">>]
====
