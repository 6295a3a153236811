------------------------------ MODULE SelectIndex ------------------------------
(***************************************************************************)
(* The scan node's choice of an index (src/src/exec/rocksdb_scan_node.cpp):*)
(* RocksdbScanNode::select_index walks the planner's possible indexes in  *)
(* order, and choose_index lets a fulltext index override its answer.      *)
(*                                                                         *)
(* A candidate (pb::PossibleIndex) is a record                             *)
(*   [id |-> index id, cnt |-> the largest left/right_field_cnt of its     *)
(*    ranges, sort |-> has_sort_index]                                     *)
(* and infos is what SchemaFactory knows: a function from index ids to     *)
(* [type, fields, state]; an id outside its domain is a nullptr info.      *)
(* Positions are 1-based: the code's position 0 is position 1 here.        *)
(***************************************************************************)
EXTENDS Naturals, Sequences

IndexTypes == {"PRIMARY", "UNIQ", "KEY", "FULLTEXT", "RECOMMEND"}

\* prefix_ratio * 10 truncated to uint16.  For indexes of at most four
\* fields the float quotient truncates exactly as integer division does.
PrefixRatioRound(cnt, info) == (cnt * 10) \div Len(info.fields)

\* index_priority: PRIMARY 300, UNIQ 200, KEY 100 + field_count, others 0.
IndexPriority(cnt, info) ==
    CASE info.type = "PRIMARY" -> 300
      [] info.type = "UNIQ"    -> 200
      [] info.type = "KEY"     -> 100 + cnt
      [] OTHER                 -> 0

\* (prefix_ratio_round << 16) | index_priority; the priority is below 2^16.
IndexScore(cnt, info) ==
    PrefixRatioRound(cnt, info) * 65536 + IndexPriority(cnt, info)

\* The loop's locals: sort_index (0 for -1), prefix_ratio_id_mapping as a
\* set of <<score, position>>, primary_fields, multi_reverse_index, and the
\* position returned early (0: none).
NoSelection == [sort |-> 0, kept |-> {}, pk |-> {}, reverse |-> <<>>,
                ret |-> 0]

\* One pass of the loop body for the candidate c at position i: skip an
\* unknown or non-PUBLIC index; a PRIMARY candidate adds its used prefix to
\* primary_fields; a UNIQ or KEY candidate whose used prefix lies in
\* primary_fields (as collected so far) is skipped; otherwise the score is
\* recorded, a FULLTEXT index is set aside, a RECOMMEND index returns at
\* once, and a sort index with a used prefix becomes sort_index.
Visit(c, i, infos, acc) ==
    IF c.id \notin DOMAIN infos \/ infos[c.id].state # "PUBLIC" THEN acc
    ELSE LET info == infos[c.id]
             pk   == IF info.type = "PRIMARY"
                       THEN acc.pk \cup {info.fields[j] : j \in 1..c.cnt}
                       ELSE acc.pk
             covered == /\ info.type \in {"UNIQ", "KEY"}
                        /\ \A j \in 1..c.cnt : info.fields[j] \in pk
         IN IF covered THEN [acc EXCEPT !.pk = pk]
            ELSE [acc EXCEPT
                    !.pk = pk,
                    !.kept = @ \cup {<<IndexScore(c.cnt, info), i>>},
                    !.reverse = IF info.type = "FULLTEXT" THEN Append(@, i)
                                ELSE @,
                    !.ret = IF info.type = "RECOMMEND" THEN i ELSE 0,
                    !.sort = IF info.type # "RECOMMEND" /\ c.sort /\ c.cnt > 0
                             THEN i ELSE @]

\* The for loop over the possible indexes, left by the early return.
RECURSIVE SelectLoop(_, _, _, _)
SelectLoop(cands, infos, i, acc) ==
    IF i > Len(cands) \/ acc.ret # 0 THEN acc
    ELSE SelectLoop(cands, infos, i + 1, Visit(cands[i], i, infos, acc))

\* The entry of the multimap that crbegin reaches: the highest score, and
\* of equal scores the one inserted last.
HighestScored(kept) ==
    CHOOSE e \in kept : \A f \in kept :
        e[1] > f[1] \/ (e[1] = f[1] /\ e[2] >= f[2])

\* select_index: the early return, else sort_index, else the best score,
\* else position 0; multi_reverse_index is its output parameter.
SelectIndex(cands, infos) ==
    LET acc == SelectLoop(cands, infos, 1, NoSelection)
    IN [sel |-> CASE acc.ret # 0   -> acc.ret
                  [] acc.sort # 0  -> acc.sort
                  [] acc.kept # {} -> HighestScored(acc.kept)[2]
                  [] OTHER         -> 1,
        reverse |-> acc.reverse]

\* choose_index: the first fulltext index set aside wins over the answer.
ChooseIndex(cands, infos) ==
    LET r == SelectIndex(cands, infos)
    IN IF r.reverse # <<>> THEN r.reverse[1] ELSE r.sel
====
