-------------------------------- MODULE DdlScan --------------------------------
(***************************************************************************)
(* Scans on a region peer while an index is added or dropped: the store's *)
(* choose_index (SelectIndex) reads the index state from the peer's own    *)
(* SchemaFactory, which is sstate[p] of Ddl.  The planner's possible       *)
(* indexes are any list of distinct known indexes, each with any used      *)
(* prefix and with or without a matching sort.                             *)
(***************************************************************************)
EXTENDS Ddl, SelectIndex

CONSTANTS
    Catalog,     \* the table's other indexes: id -> [type, fields], PUBLIC
    DdlIndex,    \* the id of the index the DDL job adds or drops
    DdlInfo,     \* its [type, fields]
    MaxCands,    \* longest list of possible indexes
    PrimaryOffered  \* the planner always offers the primary key

ASSUME DdlIndex \notin DOMAIN Catalog

\* SchemaFactory's view on a peer whose schema has the DDL index in state s.
Infos(s) ==
    [i \in DOMAIN Catalog \cup (IF s = Absent THEN {} ELSE {DdlIndex}) |->
        IF i = DdlIndex THEN [type |-> DdlInfo.type, fields |-> DdlInfo.fields,
                              state |-> s]
                        ELSE [type |-> Catalog[i].type,
                              fields |-> Catalog[i].fields, state |-> "PUBLIC"]]

IndexIds == DOMAIN Catalog \cup {DdlIndex}
FieldsOf(i) == IF i = DdlIndex THEN DdlInfo.fields ELSE Catalog[i].fields

Candidate == UNION {[id : {i}, cnt : 0..Len(FieldsOf(i)), sort : BOOLEAN] :
                    i \in IndexIds}

\* The planner's lists of possible indexes: distinct indexes, in any order.
\* The planner (IndexSelector) is not in the repository; with
\* PrimaryOffered every list holds the primary key.
Candidates ==
    UNION {{c \in [1..n -> Candidate] :
              /\ \A x, y \in 1..n : x # y => c[x].id # c[y].id
              /\ PrimaryOffered =>
                   \E x \in 1..n : c[x].id \in DOMAIN Catalog
                                  /\ Catalog[c[x].id].type = "PRIMARY"} :
           n \in 1..MaxCands}

\* For each state of the DDL index in a peer's schema: does some scan pick
\* it?  (A constant: TLC computes it once.)
PicksDdlIndex ==
    [s \in States \cup {Absent} |->
        \E c \in Candidates : c[ChooseIndex(c, Infos(s))].id = DdlIndex]

\* The index the peer's schema holds has all of this peer's rows: no add
\* is under way, the job is a drop of an index an earlier add built, or
\* the peer ran the running add's backfill to its end.
IndexBuiltOn(p) == job = NoJob \/ job.op = "DROP" \/ job.jid \in built[p]

\* A scan on a peer reads through the DDL index only once that peer has
\* backfilled it: select_index skips every index that is not IS_PUBLIC in
\* the store's schema, and a peer's schema reaches PUBLIC only after the
\* meta saw every peer finish the backfill (process_ddl_heartbeat_for_store
\* and ddlwork_process).  Otherwise a query would miss the rows written
\* before the index existed.
ScanReadsBuiltIndex ==
    \A p \in Peers : PicksDdlIndex[sstate[p]] => IndexBuiltOn(p)

-----------------------------------------------------------------------------
(* The choice spec.md (4.4, "Index choice") describes, for the lists with  *)
(* no FULLTEXT or RECOMMEND index: the highest score among the PUBLIC      *)
(* candidates, a UNIQ or KEY index whose used prefix lies in the primary   *)
(* key's used prefix discarded, a sort-matching index only breaking ties.  *)
(* Not checked by a run: MCDdl_spec.cfg shows where the code differs.      *)

PkUsed(c, infos) ==
    UNION {{infos[c[x].id].fields[j] : j \in 1..c[x].cnt} :
           x \in {y \in DOMAIN c : infos[c[y].id].type = "PRIMARY"}}

SpecKept(c, infos) ==
    {x \in DOMAIN c :
        /\ c[x].id \in DOMAIN infos
        /\ infos[c[x].id].state = "PUBLIC"
        /\ ~(/\ infos[c[x].id].type \in {"UNIQ", "KEY"}
             /\ \A j \in 1..c[x].cnt : infos[c[x].id].fields[j] \in PkUsed(c, infos))}

ScoreAt(c, x, infos) == IndexScore(c[x].cnt, infos[c[x].id])

\* The index a scan uses has the highest score of the candidates spec.md
\* keeps (choose_index over select_index).
ChoiceHasTopScore ==
    \A s \in States, c \in Candidates :
        LET infos == Infos(s)
            kept  == SpecKept(c, infos)
            x     == ChooseIndex(c, infos)
        IN (/\ kept # {}
            /\ \A y \in kept : infos[c[y].id].type \notin {"FULLTEXT", "RECOMMEND"})
           => \A y \in kept : ScoreAt(c, x, infos) >= ScoreAt(c, y, infos)
====
