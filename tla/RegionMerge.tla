----------------------------- MODULE RegionMerge -----------------------------
(***************************************************************************)
(* Merge of an empty region S into its right neighbour D                  *)
(* (src/src/store/region.cpp), with the meta server's start-key map        *)
(* (src/src/meta_server/table_manager.cpp) that routes writers.            *)
(*                                                                         *)
(*   start_process_merge       on S: IDLE -> DOING, raise the write        *)
(*                             barrier, drain writers, refuse if anything  *)
(*                             was applied since the last cycle, check the *)
(*                             ranges, send OP_ADJUSTKEY_AND_ADD_VERSION   *)
(*                             to D (retry on VERSION_OLD), then propose   *)
(*                             its own OP_ADJUSTKEY (start == end)         *)
(*   adjustkey_and_add_version_query / adjustkey_and_add_version           *)
(*                             on D: validate_version, then start_key =    *)
(*                             S's start, version + 1                      *)
(*   check_update_region / add_update_region / get_update_region_requests  *)
(*   / get_merge_regions / update_startkey_regionid_map                    *)
(*                             on meta: a region whose range grew is       *)
(*                             published only with the emptied regions it  *)
(*                             swallowed                                   *)
(*   get_next_region_id        on meta: the merge_status flags             *)
(*                                                                         *)
(* Keys: "a" is S's range [a, b), "b" is D's [b, c); "c" stands for the    *)
(* empty end_key (+infinity).  Writers write key "a".                     *)
(***************************************************************************)
EXTENDS Naturals, FiniteSets

CONSTANTS
    Writers,       \* autocommit DML requests on key "a"
    MaxRetry,      \* start_process_merge: ++retry_times > 3
    AtomicBarrier, \* TRUE: a writer passes _disable_write_cond and joins
                   \* _real_writing_cond in one step
    NoInfo

ASSUME MaxRetry \in Nat /\ AtomicBarrier \in BOOLEAN
ASSUME NoInfo \notin [start : {"a", "b", "c"}, end_ : {"a", "b", "c"},
                      ver : Nat]

Regions == {"S", "D"}
Keys == {"a", "b", "c"}
KeyRank == [k \in Keys |-> IF k = "a" THEN 0 ELSE IF k = "b" THEN 1 ELSE 2]
\* end_key_compare: the empty end key ("c") is +infinity.
KeyLess(k, l) == KeyRank[k] < KeyRank[l]

Info == [start : Keys, end_ : Keys, ver : 1..2]

VARIABLES
    \* stores
    start, end_,      \* _region_info.start_key / end_key
    version,          \* _region_info.version
    s_status,         \* S's _region_control
    disable_write,    \* S's _disable_write_cond
    rows,             \* rows in each region's RocksDB range
    applied,          \* S's _applied_index (writes only)
    lastcycle,        \* S's _applied_index_lastcycle
    quiet,            \* S had no rows at the last cycle
    \* the merge on S
    ms,               \* step of start_process_merge
    resp,             \* the meta server's merge response (dst region)
    req_ver,          \* region_version of the request to D
    retry,            \* retry_times
    \* writers
    wpc, wreg, wver,
    \* meta server
    m_info,           \* RegionManager's master region info
    none_map,         \* id_noneregion_map: reported empty regions
    key_map,          \* id_keyregion_map: reported changed ranges
    owner_a,          \* startkey_regiondesc_map entry "a" (entry "b"
                      \* exists exactly while owner_a = "S")
    merge_status      \* RegionDesc.merge_status

store  == <<start, end_, version, s_status, disable_write, rows, applied,
            lastcycle, quiet>>
merge  == <<ms, resp, req_ver, retry>>
writer == <<wpc, wreg, wver>>
meta   == <<m_info, none_map, key_map, owner_a, merge_status>>
vars   == <<store, merge, writer, meta>>

InfoOf(r) == [start |-> start[r], end_ |-> end_[r], ver |-> version[r]]
Empty(r) == start[r] = end_[r]

TypeOK ==
    /\ start \in [Regions -> Keys] /\ end_ \in [Regions -> Keys]
    /\ version \in [Regions -> 1..2]
    /\ s_status \in {"IDLE", "DOING"}
    /\ disable_write \in BOOLEAN
    /\ rows \in [Regions -> SUBSET Writers]
    /\ applied \in 0..Cardinality(Writers)
    /\ lastcycle \in 0..Cardinality(Writers)
    /\ quiet \in BOOLEAN
    /\ ms \in {"Idle", "Asked", "Waiting", "Send", "Propose", "Done"}
    /\ resp \in Info \cup {NoInfo}
    /\ req_ver \in 0..2
    /\ retry \in 0..MaxRetry
    /\ wpc \in [Writers -> {"Idle", "Routed", "Passed", "Counted", "Acked",
                            "Failed"}]
    /\ wreg \in [Writers -> Regions] /\ wver \in [Writers -> 0..2]
    /\ m_info \in [Regions -> Info]
    /\ none_map \in [Regions -> Info \cup {NoInfo}]
    /\ key_map \in [Regions -> Info \cup {NoInfo}]
    /\ owner_a \in Regions
    /\ merge_status \in [Regions -> {"IDLE", "SRC", "DST"}]

Init ==
    /\ start = [r \in Regions |-> IF r = "S" THEN "a" ELSE "b"]
    /\ end_ = [r \in Regions |-> IF r = "S" THEN "b" ELSE "c"]
    /\ version = [r \in Regions |-> 1]
    /\ s_status = "IDLE"
    /\ disable_write = FALSE
    /\ rows = [r \in Regions |-> {}]
    /\ applied = 0 /\ lastcycle = 0 /\ quiet = TRUE
    /\ ms = "Idle" /\ resp = NoInfo /\ req_ver = 0 /\ retry = 0
    /\ wpc = [w \in Writers |-> "Idle"]
    /\ wreg = [w \in Writers |-> "S"] /\ wver = [w \in Writers |-> 0]
    /\ m_info = [r \in Regions |-> InfoOf(r)]
    /\ none_map = [r \in Regions |-> NoInfo]
    /\ key_map = [r \in Regions |-> NoInfo]
    /\ owner_a = "S"
    /\ merge_status = [r \in Regions |-> "IDLE"]

\* Writers counted by S's _real_writing_cond.
RealWriting == {w \in Writers : wreg[w] = "S" /\ wpc[w] = "Counted"}

-----------------------------------------------------------------------------
(* Writers: route key "a" through the start-key map, then                  *)
(* exec_out_txn_query on that region (see RegionSplit for the barrier).    *)

WriterRoute(w) ==
    /\ wpc[w] = "Idle"
    /\ wpc' = [wpc EXCEPT ![w] = "Routed"]
    /\ wreg' = [wreg EXCEPT ![w] = owner_a]
    /\ wver' = [wver EXCEPT ![w] = m_info[owner_a].ver]
    /\ UNCHANGED <<store, merge, meta>>

\* _disable_write_cond.timed_wait; only S raises a barrier in this model.
\* The _real_writing_cond.increase() is the next statement; with
\* AtomicBarrier it is taken in the same step.
WriterPass(w) ==
    /\ wpc[w] = "Routed"
    /\ ~(wreg[w] = "S" /\ disable_write)
    /\ wpc' = [wpc EXCEPT ![w] = IF AtomicBarrier THEN "Counted" ELSE "Passed"]
    /\ UNCHANGED <<store, merge, meta, wreg, wver>>

WriterTimeout(w) ==
    /\ wpc[w] = "Routed"
    /\ wreg[w] = "S" /\ disable_write
    /\ wpc' = [wpc EXCEPT ![w] = "Failed"]
    /\ UNCHANGED <<store, merge, meta, wreg, wver>>

\* _real_writing_cond.increase()
WriterCount(w) ==
    /\ wpc[w] = "Passed"
    /\ wpc' = [wpc EXCEPT ![w] = "Counted"]
    /\ UNCHANGED <<store, merge, meta, wreg, wver>>

\* validate_version before _node.apply (dml_1pc checks no version), the
\* row applied, and the DMLClosure answering and decreasing
\* _real_writing_cond, taken as one step: the writer's entry is applied
\* before any entry the source proposes after the check.  A merged-away
\* region (start == end) has a higher version, so old requests get
\* VERSION_OLD.
WriterApply(w) ==
    /\ wpc[w] = "Counted"
    /\ LET r == wreg[w]
           ok == ~(wver[w] < version[r])
       IN /\ rows' = IF ok THEN [rows EXCEPT ![r] = @ \cup {w}] ELSE rows
          /\ applied' = IF ok /\ r = "S" THEN applied + 1 ELSE applied
          /\ wpc' = [wpc EXCEPT ![w] = IF ok THEN "Acked" ELSE "Failed"]
    /\ UNCHANGED <<start, end_, version, s_status, disable_write, lastcycle,
                   quiet, merge, meta, wreg, wver>>

-----------------------------------------------------------------------------
(* The store's periodic task and the merge request (outside src/).         *)

\* The store's periodic task records _applied_index_lastcycle; a region that
\* was empty at that point is reported as a merge candidate, and the
\* meta server's answer starts start_process_merge before the next cycle
\* (the code checks "nothing applied since the last cycle" only, so it
\* relies on the candidate being judged at the cycle it compares with).
Cycle ==
    /\ ms \in {"Idle", "Done"}
    /\ <<lastcycle, quiet>> # <<applied, rows["S"] = {}>>
    /\ lastcycle' = applied
    /\ quiet' = (rows["S"] = {})
    /\ UNCHANGED <<start, end_, version, s_status, disable_write, rows,
                   applied, merge, writer, meta>>

\* get_next_region_id: the entry after S's start key must start at S's
\* end key; both regions are flagged MERGE_SRC / MERGE_DST, or already are
\* ("merge again").  The answer carries D's master region info.
GetNextRegionId ==
    /\ ms = "Idle"
    /\ quiet /\ ~Empty("S")
    /\ owner_a = "S" /\ end_["S"] = "b"
    /\ \/ merge_status = [r \in Regions |-> "IDLE"]
       \/ merge_status = [r \in Regions |-> IF r = "S" THEN "SRC" ELSE "DST"]
    /\ merge_status' = [r \in Regions |-> IF r = "S" THEN "SRC" ELSE "DST"]
    /\ resp' = m_info["D"]
    /\ ms' = "Asked"
    /\ UNCHANGED <<store, req_ver, retry, writer, m_info, none_map, key_map,
                   owner_a>>

-----------------------------------------------------------------------------
(* start_process_merge on S.                                               *)

\* ScopeMergeStatus's destructor on every early return.
MergeFail ==
    /\ ms' = "Idle"
    /\ s_status' = "IDLE"
    /\ disable_write' = FALSE

\* The range checks before the first request and after VERSION_OLD.
CanMerge(d) ==
    /\ ~Empty("S")
    /\ d.start # d.end_
    /\ ~KeyLess(end_["S"], d.start)
    /\ ~KeyLess(d.start, start["S"])
    /\ ~KeyLess(d.end_, end_["S"])

\* IDLE -> DOING and _disable_write_cond.increase().
StartProcessMerge ==
    /\ ms = "Asked"
    /\ s_status = "IDLE"
    /\ s_status' = "DOING"
    /\ disable_write' = TRUE
    /\ ms' = "Waiting"
    /\ UNCHANGED <<start, end_, version, rows, applied, lastcycle, quiet,
                   resp, req_ver, retry, writer, meta>>

\* _real_writing_cond.timed_wait returned 0.  If anything was applied
\* since the last cycle the region is no longer known to be empty and the
\* merge stops; so does it if the ranges do not fit.
MergeWait ==
    /\ ms = "Waiting"
    /\ RealWriting = {}
    /\ \/ /\ applied # lastcycle \/ ~CanMerge(resp)
          /\ MergeFail
          /\ UNCHANGED <<req_ver, retry>>
       \/ /\ applied = lastcycle /\ CanMerge(resp)
          /\ ms' = "Send" /\ req_ver' = resp.ver /\ retry' = 0
          /\ UNCHANGED <<s_status, disable_write>>
    /\ UNCHANGED <<start, end_, version, rows, applied, lastcycle, quiet,
                   resp, writer, meta>>

MergeWaitTimeout ==
    /\ ms = "Waiting"
    /\ RealWriting # {}
    /\ MergeFail
    /\ UNCHANGED <<start, end_, version, rows, applied, lastcycle, quiet,
                   resp, req_ver, retry, writer, meta>>

\* D's adjustkey_and_add_version_query: its status goes IDLE -> DOING, then
\* validate_version; a current request is proposed and applied by
\* adjustkey_and_add_version: start_key = S's start, version + 1.
DAdjust ==
    /\ start' = [start EXCEPT !["D"] = start["S"]]
    /\ version' = [version EXCEPT !["D"] = @ + 1]

\* The answer is VERSION_OLD with D's region info.  More than MaxRetry of
\* them, or a D that no longer fits, end the merge; a D that already starts
\* at S's start key means an earlier request was applied: go on as if it
\* had succeeded; otherwise retry with D's current version.
OnVersionOld ==
    LET d == InfoOf("D") IN
    IF retry + 1 > MaxRetry \/ ~CanMerge(d)
      THEN MergeFail /\ UNCHANGED <<req_ver, retry>>
      ELSE /\ retry' = retry + 1
           /\ UNCHANGED <<s_status, disable_write>>
           /\ IF start["S"] = d.start
                THEN ms' = "Propose" /\ UNCHANGED req_ver
                ELSE req_ver' = d.ver /\ UNCHANGED ms

\* Variant for mutation analysis: D applies the request without
\* validate_version.
MergeSendMut ==
    /\ ms = "Send"
    /\ \E lost \in BOOLEAN :
         /\ DAdjust
         /\ IF lost THEN MergeFail
                    ELSE ms' = "Propose" /\ UNCHANGED <<s_status, disable_write>>
         /\ UNCHANGED <<req_ver, retry>>
    /\ UNCHANGED <<end_, rows, applied, lastcycle, quiet, resp, writer, meta>>

\* One attempt of the do-while loop: send_request_for_leader("query") with
\* OP_ADJUSTKEY_AND_ADD_VERSION.  The RPC may fail after D applied the
\* request; any failure other than VERSION_OLD returns from the merge.
MergeSend ==
    /\ ms = "Send"
    /\ \E lost \in BOOLEAN :
         \/ /\ ~(req_ver < version["D"])
            /\ DAdjust
            /\ IF lost THEN MergeFail
                       ELSE ms' = "Propose" /\ UNCHANGED <<s_status, disable_write>>
            /\ UNCHANGED <<req_ver, retry>>
         \/ /\ req_ver < version["D"]
            /\ IF lost THEN MergeFail /\ UNCHANGED <<req_ver, retry>>
                       ELSE OnVersionOld
            /\ UNCHANGED <<start, version>>
    /\ UNCHANGED <<end_, rows, applied, lastcycle, quiet, resp, writer, meta>>

\* The answer must name D with S's start key; then S proposes its own
\* OP_ADJUSTKEY_AND_ADD_VERSION with start_key == end_key == its start and
\* version + 1, and adjustkey_and_add_version applies it.  merge_status is
\* reset() and handed to the MergeClosure, so S stays DOING and
\* write-disabled: requests now fail on version.
\* (Both ways into "Propose" leave D starting at S's start key, so the
\* code's "get dst region fail" return is not reachable here.)
MergePropose ==
    /\ ms = "Propose"
    /\ start["D"] = start["S"]
    /\ end_' = [end_ EXCEPT !["S"] = start["S"]]
    /\ version' = [version EXCEPT !["S"] = @ + 1]
    /\ ms' = "Done"
    /\ UNCHANGED <<s_status, disable_write, start, rows, applied, lastcycle, quiet, resp, req_ver,
                   retry, writer, meta>>

-----------------------------------------------------------------------------
(* Meta server: a leader's heartbeat with a newer region version.          *)

\* The start-key map as (key, region) pairs: "b" is present while S still
\* owns "a".
StartKeyMap ==
    IF owner_a = "S" THEN {<<"a", "S">>, <<"b", "D">>} ELSE {<<"a", "D">>}
MapKeys == {e[1] : e \in StartKeyMap}

\* add_update_region: an empty region goes to id_noneregion_map, any other
\* to id_keyregion_map, unless the map already holds a version as new.
AddUpdate(map, r) ==
    IF map[r] # NoInfo /\ ~(version[r] > map[r].ver) THEN map
    ELSE [map EXCEPT ![r] = InfoOf(r)]

\* get_merge_regions(new_start_key, origin_start_key): walking the
\* start-key map from the new start up to the origin start, every region
\* met must have reported itself empty.
GetMergeRegionsMut(new, orig, none) ==
    \/ new = orig
    \/ /\ KeyLess(new, orig)
       /\ new \in MapKeys /\ orig \in MapKeys

GetMergeRegions(new, orig, none) ==
    \/ new = orig
    \/ /\ KeyLess(new, orig)
       /\ new \in MapKeys /\ orig \in MapKeys
       /\ \A e \in StartKeyMap :
            ~KeyLess(e[1], new) /\ KeyLess(e[1], orig) => none[e[2]] # NoInfo

\* get_update_region_requests for one id_keyregion_map entry: newer than
\* the master, the merged regions found, and (get_split_regions) the end
\* key unchanged.
Publishable(r, none, key) ==
    /\ key[r] # NoInfo
    /\ key[r].ver > m_info[r].ver
    /\ GetMergeRegions(key[r].start, m_info[r].start, none)
    /\ key[r].end_ = m_info[r].end_

\* OP_UPDATE_REGION: the master infos of r and of the empty regions, and
\* update_startkey_regionid_map from r's start key; the new entries are
\* MERGE_IDLE.  recycle_update_region then drops both temporary maps.
Publish(r, none) ==
    /\ m_info' = [x \in Regions |-> IF x = r THEN InfoOf(r)
                                    ELSE IF none[x] # NoInfo THEN none[x]
                                    ELSE m_info[x]]
    /\ owner_a' = IF start[r] = "a" THEN r ELSE owner_a
    /\ merge_status' = [x \in Regions |-> "IDLE"]
    /\ none_map' = [x \in Regions |-> NoInfo]
    /\ key_map' = [x \in Regions |-> NoInfo]

\* check_update_region for region r: add_update_region, then
\* get_update_region_requests over the whole id_keyregion_map.
\* Variant for mutation analysis: only the reporting region's entry is
\* looked at.
CheckUpdateRegionMut(r) ==
    /\ version[r] > m_info[r].ver
    /\ LET none == IF Empty(r) THEN AddUpdate(none_map, r) ELSE none_map
           key  == IF Empty(r) THEN key_map ELSE AddUpdate(key_map, r)
           ready == {x \in {r} : Publishable(x, none, key)}
       IN /\ <<none, key>> # <<none_map, key_map>>
          /\ IF ready = {}
               THEN /\ none_map' = none /\ key_map' = key
                    /\ UNCHANGED <<m_info, owner_a, merge_status>>
               ELSE \E x \in ready : Publish(x, none)
    /\ UNCHANGED <<store, merge, writer>>

CheckUpdateRegion(r) ==
    /\ version[r] > m_info[r].ver
    /\ LET none == IF Empty(r) THEN AddUpdate(none_map, r) ELSE none_map
           key  == IF Empty(r) THEN key_map ELSE AddUpdate(key_map, r)
           ready == {x \in Regions : Publishable(x, none, key)}
       IN /\ <<none, key>> # <<none_map, key_map>>
          /\ IF ready = {}
               THEN /\ none_map' = none /\ key_map' = key
                    /\ UNCHANGED <<m_info, owner_a, merge_status>>
               ELSE \E x \in ready : Publish(x, none)
    /\ UNCHANGED <<store, merge, writer>>

-----------------------------------------------------------------------------
WriterSteps == \E w \in Writers :
    WriterRoute(w) \/ WriterPass(w) \/ WriterTimeout(w) \/ WriterCount(w)
    \/ WriterApply(w)

MergeSteps == StartProcessMerge \/ MergeWait \/ MergeWaitTimeout
              \/ MergeSend \/ MergePropose

Next ==
    \/ WriterSteps
    \/ Cycle
    \/ GetNextRegionId
    \/ MergeSteps
    \/ \E r \in Regions : CheckUpdateRegion(r)

\* The merge runs in one bthread until it returns; a writer past the
\* barrier goes on to apply; every leader sends a heartbeat each cycle.
\* New requests, the periodic cycle and merge requests are left to chance.
Fairness ==
    /\ WF_vars(MergeSteps)
    /\ \A w \in Writers : WF_vars(WriterCount(w) \/ WriterApply(w))
    /\ \A r \in Regions : WF_vars(CheckUpdateRegion(r))

Spec == Init /\ [][Next]_vars /\ Fairness

-----------------------------------------------------------------------------
(* Properties.                                                             *)

\* The region that serves key "a": S until it has merged away, then D.
Serving == IF Empty("S") THEN "D" ELSE "S"

\* A write answered SUCCESS is in the region that serves its key: no write
\* lands in S once S has passed the point where it gives its range away.
\* This is what the barrier, the drain of _real_writing_cond and the
\* _applied_index_lastcycle check of start_process_merge must ensure.
AckedWritesReadable ==
    \A w \in Writers : wpc[w] = "Acked" => w \in rows[Serving]

\* The meta server routes key "a" to D only once S has merged away, and
\* then with the versions the stores hold: get_update_region_requests
\* publishes a grown range only together with the regions it swallowed.
MetaRoutesToLive ==
    owner_a = "D" => /\ Empty("S")
                     /\ m_info["D"] = InfoOf("D")
                     /\ m_info["S"].ver = version["S"]

\* Once S has merged away, the meta server eventually routes its range to
\* D (heartbeats of both leaders reach check_update_region).
MergeRouted == Empty("S") ~> owner_a = "D"

\* Outside a running merge on S, D never covers S's live range: the two
\* regions' ranges stay disjoint.
RangesDisjoint ==
    (start["D"] = start["S"] /\ ~Empty("S")) => s_status = "DOING"
====
