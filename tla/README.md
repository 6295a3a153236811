# TLA+ models of BaikalDB

This directory holds TLA+ specifications of parts of BaikalDB (`src/` of this
repository), TLC configurations that check them, and `PROJECT.json`. That
file lists every component, run, mutant, hazard and finding, and maps every
modelled definition to the source lines it translates.

## The system and how its parts interact

BaikalDB stores each table as a set of **regions**, which are contiguous
key ranges. Each region is a braft (Raft) group of store replicas.

* The **leader side of a region** (`Region::exec_in_txn_query`,
  `exec_out_txn_query` in `src/src/store/region.cpp`) handles SQL requests
  from the front end.
  * Autocommit DML is proposed to raft as one entry.
  * Statements of a multi-statement transaction run on the leader first.
    On `OP_PREPARE` they are packed, together with the transaction's cached
    plans, into one raft entry.
  * `OP_COMMIT` and `OP_ROLLBACK` are proposed as entries of their own.
  * A PREPARE may carry `optimize_1pc`, and is then committed at once.
* The **apply side** (`on_apply`, `apply_txn_request`, `dml_1pc`,
  `dml_2pc`) runs committed entries on every replica. Progress is kept in
  RocksDB in the meta column family:
  * `applied_index`;
  * `num_table_lines`;
  * one `pre_commit` sentinel per transaction;
  * the `log_index` of each prepared transaction's PREPARE entry.
* **Snapshots and restart.** `on_snapshot_save` and `Region::snapshot` take
  snapshots. `on_snapshot_load` runs at restart or when a snapshot is
  installed. At restart it:
  * finalises transactions that stopped between their commit and their
    meta write;
  * replays the PREPARE entries of transactions still prepared;
  * hands back to braft, which re-delivers the log after the snapshot.
* **Split and merge** change region ranges and versions.
  * They are coordinated with writers through a write barrier:
    `_disable_write_cond` and `_real_writing_cond`.
  * They use special raft entries: `OP_VALIDATE_AND_ADD_VERSION`,
    `OP_ADD_VERSION_FOR_SPLIT_REGION` and `OP_ADJUSTKEY_AND_ADD_VERSION`.
  * They report to the meta server, whose table manager
    (`src/src/meta_server/table_manager.cpp`) keeps the start-key to region
    map.
* **Online DDL** (add or drop index) is driven by the meta server's
  table manager. It is carried out region by region
  (`write_local_rocksdb_for_ddl`, `delete_local_rocksdb_for_ddl`).
* **Inverted indexes** (`src/include/reverse/reverse_index.hpp`) keep three
  levels of posting lists per term.
  * Writers append to level 1.
  * A background merge folds level 1 into level 2, and level 2 into level 3.
  * Readers merge all three levels, and cache long level-3 lists.
* **Query execution** (`rocksdb_scan_node.cpp` index selection,
  `insert_node.cpp`, `delete_planner.cpp`, `packet_node.h`,
  `table_iterator.h`, `expr_value.h`) turns plans into row reads and writes.
  The scan node runs on the store and picks its index with the store's own
  schema, so its choice depends on where that peer's DDL stands.

## Modules

### `RegionApply` (core): the apply path of one replica and its crash recovery

The module models one region replica over its raft log.

**State.**
* **braft:**
  * `log`: the committed raft log;
  * `raft_next`: the next index handed to `on_apply`;
  * `snapshot_index`.
* **Volatile state of `Region`:**
  * `applied_index`, `num_table_lines`;
  * `txn_pool`: `_txn_pool`;
  * `apply_step`: how far the running handler got;
  * `replay`: what `on_snapshot_load` still has to replay.
* **Durable RocksDB state:**
  * `kv`: how often each statement's write was committed;
  * `prepared`: the RocksDB transactions in the prepared state;
  * the meta keys: `meta_applied_index`, `meta_num_table_lines`,
    `pre_commit`, `txn_log_index`.

**The environment.** The actions `ProposeDml`, `ProposePrepare`,
`ProposeEnd` and `ProposeRollbackUnprepared` append entries in the orders
`exec_in_txn_query` and `exec_out_txn_query` can produce.

**Handlers and durable writes.** Each handler is split at its durable
writes, because a crash may fall between any two of them:

| Action | Code it models |
|---|---|
| `Deliver`, `SkipApplied` | `on_apply`: set `_applied_index`, or skip an index `<= _applied_index` |
| `ApplyDml` | `dml_1pc` with `txn_id == 0`: data and meta keys in one RocksDB txn |
| `ApplyPrepare` | `apply_txn_request` on PREPARE: `write_meta_before_prepared` |
| `PrepareTxn` | `dml_2pc(OP_PREPARE)`: the RocksDB txn is prepared and kept in the pool |
| `OnePcPreCommit` / `OnePcCommit` | `dml_1pc` for an `optimize_1pc` PREPARE: `write_pre_commit`, then `txn->commit()` |
| `ApplyEnd` / `CommitTxn` | `dml_2pc` COMMIT/ROLLBACK: `write_pre_commit`, then commit or rollback, then `_num_table_lines` |
| `ApplyRollbackNoTxn` | `apply_txn_request`: rollback of a txn this replica never prepared |
| `WriteMetaAfterCommit` | `write_meta_after_commit` from `dml_1pc` and `dml_2pc` |
| `TakeSnapshot` | `Region::snapshot` plus `on_snapshot_save` |
| `Crash` | the process dies; memory is lost, RocksDB and the raft log survive |
| `Restart` | `on_snapshot_load_for_restart` and the read-back of `applied_index` / `num_table_lines` |
| `ReplayPrepared` | the replay loop of `on_snapshot_load` through `apply_txn_request` |
| `FinishRecovery` | `update_apply_index`, then braft re-delivers from `snapshot_index + 1` |

**Data abstraction.** Every statement or transaction writes one row of its
own. `kv[w]` counts how often that write was committed. Statements are
treated as non-idempotent (an `UPDATE x = x + 1`), so applying one twice is
visible as `kv[w] = 2`.

**Properties:**
* `ExactlyOnce`: no write is committed twice.
* `StateMatchesLog`: between entries, the committed writes, the txn pool,
  the prepared RocksDB txns, and the in-memory and durable
  `num_table_lines` are exactly what the delivered log prefix says.
* `AllApplied`: every proposed entry is eventually applied, and recovery
  never wedges.
* `TypeOK`.

### `RegionSplit`: a split of one region against concurrent writers

The module models the leader of the parent region, the child region it
creates, and autocommit writers that run `exec_out_txn_query` during the
split, for a normal split and for a tail split (`tail_split`, the last
region of a table splitting off an empty child above its last row). Keys
are small naturals in RocksDB's order, and each writer inserts one row.
The child owns the keys at or above `split_key` (`InChild`).

**State.**
* **Parent:** `plog`, `p_applied`, `p_data`, `p_version`, and `p_split`
  (`end_key` has become the split key); `region_status`; `disable_write`
  (`_disable_write_cond`).
* **Writers:** `wpc[w]`, how far the request got. `RealWriting` is the set
  that `_real_writing_cond` counts: from its `increase()` until the
  `DMLClosure` runs after the entry is applied.
* **Split coordinator (`_split_param`):** `sp` (the step), and
  `split_start_index`, `split_end_index`, `ship_next`, `snap`, `tries`,
  `split_key` (0 is the empty key).
* **Child:** `c_state` (None, New at version 0, Legal at version 1,
  Illegal, Removed) and `c_data`.

| Action | Code it models |
|---|---|
| `WriterPass`, `WriterTimeout` | `_disable_write_cond.timed_wait` |
| `WriterCount` | `_real_writing_cond.increase()`, which is a separate statement |
| `WriterPropose` | `validate_version`, then `_node.apply` |
| `ApplyWrite` | `on_apply`'s DML case: `dml_1pc` writes the row (it checks no version) and the `DMLClosure` answers SUCCESS |
| `StartProcessSplit` | `start_process_split`: take the meta's split key (normal split only), create the child, then propose `OP_START_SPLIT`, or for a tail split raise the write barrier in `get_split_key_for_tail_split` |
| `WaitWritersForTail` | `get_split_key_for_tail_split`: wait for counted writers, then propose `OP_START_SPLIT_FOR_TAIL`; on timeout give up |
| `ApplyStartSplitForTail` | `start_split_for_tail`: `split_end_index` is this entry, the split key is the last row's key followed by `0xFF` (one above the largest key); with no row the split fails |
| `ApplyStartSplit` | `start_split`: the start index and the RocksDB snapshot |
| `WriteLocalRocksdbForSplit` | copy the snapshot's upper half to the child |
| `SendLogEntries` / `DisableWrite` / `WaitWriters` / `WaitWritersTimeout` | `send_log_entry_to_new_region_for_split`: the catch-up passes, the barrier, the wait for writers, and the last pass that fixes `split_end_index` |
| `SplitAbort` | the early returns of the split steps (not leader, RPC failure), in both paths |
| `SendComplete` | one attempt of `send_complete_to_new_region_for_split`. The child's `add_version_for_split_region` (or `VERSION_OLD` on a retry) may be applied with the reply lost; after 3 failures the child is removed |
| `ApplyValidate` / `RejectSplit` | `validate_and_add_version`: the entry must directly follow `split_end_index` |
| `CompleteSplit` | `complete_split`: status IDLE, writes allowed |
| `ChildTimeout` | `check_region_legal_complete`: a child still at version 0 becomes illegal |
| `SplitFail` | `ScopeProcStatus`'s destructor |

**Properties:**
* `ChildOwnsRange`: the parent takes the new range only when the child is
  legal.
* `SplitSettles`: every split ends with the barrier lifted, the status IDLE,
  and the child legal exactly when the split succeeded.
* `TypeOK`.

`AckedWritesReadable` (a write answered SUCCESS is in the region that now
owns its key) is defined too, and it does not hold.
`MCRegionSplit_race.cfg` reproduces the violation in 12 states:
1. A writer returns from `_disable_write_cond.timed_wait` (line 683)
   before the split raises the barrier.
2. The split's wait finds no counted writers.
3. The writer runs `_real_writing_cond.increase()` (684).
4. `send_complete_to_new_region_for_split` proposes
   `OP_VALIDATE_AND_ADD_VERSION`.
5. The writer passes `validate_version` (703) with the old version and
   proposes its row.

The validate entry is applied first, and the index check of
`validate_and_add_version` only looks at entries before it. The row is
then applied to the parent above its new `end_key`, and the client has
been told SUCCESS. The run cap keeps this out of the runs. The same gap is
reported for merge as finding 3 (`regionmerge_race`). The pass run checks
the other properties over all these interleavings.

### `RegionMerge`: a merge of an empty region and the meta server's routing

The module models the merge of an empty region S into its right neighbour
D (`region.cpp`), and the part of the meta server (`table_manager.cpp`)
that turns the leaders' heartbeats into a new start-key map. Keys are
three model values: "a" starts S, "b" starts D, and "c" stands for the
empty end key. Each writer writes key "a", routed through the meta
server's map.

**State.**
* **Stores:** `start`, `end_`, `version` per region; S's `s_status`,
  `disable_write`, `applied` and `lastcycle` (`_applied_index_lastcycle`);
  the rows per region.
* **Merge (`start_process_merge` on S):** `ms` (the step), `resp` (the
  meta server's answer), `req_ver` and `retry`.
* **Writers:** `wpc`, `wreg` (the region routed to) and `wver` (the version
  the request carries).
* **Meta server:** `m_info` (the master region infos), `none_map`
  (`id_noneregion_map`), `key_map` (`id_keyregion_map`), `owner_a` (the
  start-key map) and `merge_status`.

| Action | Code it models |
|---|---|
| `WriterRoute` | the front end's routing by start key (not in the repository) |
| `WriterPass` / `WriterTimeout` / `WriterCount` | `exec_out_txn_query`'s barrier, as in `RegionSplit` |
| `WriterApply` | `validate_version`, `_node.apply`, `dml_1pc` (no version check) and the `DMLClosure`, as one step |
| `Cycle` | the store's periodic task that records `_applied_index_lastcycle` (not in the repository) |
| `GetNextRegionId` | `get_next_region_id`: find D and flag both regions |
| `StartProcessMerge` | the CAS to DOING and `_disable_write_cond.increase()` |
| `MergeWait` / `MergeWaitTimeout` | the drain of `_real_writing_cond`, the `_applied_index_lastcycle` check and the range checks |
| `MergeSend` | one pass of the retry loop: D's `adjustkey_and_add_version_query`, a lost reply, `VERSION_OLD` with its retry or its "already applied" exit |
| `MergePropose` | S's own `OP_ADJUSTKEY_AND_ADD_VERSION` (start == end) |
| `CheckUpdateRegion` | `check_update_region`: `add_update_region`, then `get_update_region_requests` with `get_merge_regions` and `get_split_regions`, and the publication of `update_startkey_regionid_map` |

**Properties:**
* `AckedWritesReadable`: a write answered SUCCESS is in the region that
  serves its key.
* `MetaRoutesToLive`: the meta server routes "a" to D only once S has
  merged away, and then with the versions the stores hold.
* `MergeRouted`: once S has merged away, the meta server eventually
  routes its range to D.
* `RangesDisjoint`: outside a running merge, D never covers S's live
  range.
* `TypeOK`.

**Assumptions about code outside the repository.** The store's periodic
task and the merge request that starts `start_process_merge` are in
`store.cpp`, which the repository does not have. `Cycle` runs only while
no merge is in flight: the `_applied_index_lastcycle` check compares with
the cycle at which the region was judged empty, and that judgment must
not be renewed in the middle of the merge. Routing is modelled from the
spec (`spec_modelled` in `PROJECT.json`).

### `Ddl`: online add and drop of an index

The module models one table's DDL job on the meta server
(`table_manager.cpp`) and the ddlwork of each region peer (`region.cpp`).
They talk only through heartbeats: a store reports its ddlwork, the meta
server records it and answers with the job. An index state advances when
every region reports the state the job expects.

**State.**
* **Meta server:** `idx` (the index's state in the schema, or absent),
  `iid` (its `index_id`: a re-add of an index that `check_index` does not
  let be rebuilt gets a new id from `++max_table_id`), `job` (the `_table_ddlinfo_map` entry, with its `begin_timestamp` in
  seconds), `ws` (each region's reported state) and `clock`.
* **Peer:** `sstate` and `sid` (the index state and id of the local
  schema; `ddl_schema_state` looks the ddlwork's `index_id` up there and
  finds nothing when the ids differ), `work`
  (`_region_ddl_info.ddlwork_infos(0)`), `status` (`_region_control`), the
  `_ddl_param` fields `is_start`, `pts` (`begin_timestamp`) and `dcount`
  (`disconnect_count`), the backfill bthreads `bf` / `bf_ok`, the drop
  bthread `dbf`, and `resp` (the heartbeat answer in flight).
* **Ghosts:** `bjid` (the job whose ddlwork a backfill runs on) and
  `built` (the jobs whose backfill ran to its end); `other` (a split or
  merge holds the status).

| Action | Code it models |
|---|---|
| `AddIndex` / `DropIndex` | `add_index` (with `check_index`, `init_ddlwork`) and `drop_index` |
| `Heartbeat` | `process_ddl_heartbeat_for_store`: `init_ddlwork_for_store`, the rollback mark and state report of `common_update_ddlwork_info_heartbeat_for_store`, then the job's step (`process_ddl_update_job_index`, `rollback_ddlwork`) |
| `SchemaSync` | `process_schema_heartbeat_for_store` |
| `DdlworkProcess` | `ddlwork_process`: `ddlwork_common_init_process`, then `ddlwork_add_index_process` or `ddlwork_del_index_process` |
| `LoseResp` | a lost heartbeat answer |
| `StartAddIndex`, `BackfillAcquire`, `BackfillRow`, `BackfillExit` | `start_add_index` and `write_local_rocksdb_for_ddl`; the rows are one pass that succeeds or fails (`ddlwork_rollback`) |
| `StartDropIndex` / `DeleteLocal` | `start_drop_index` and `delete_local_rocksdb_for_ddl` |
| `FinishCheck` | `ddlwork_finish_check_process`, reading the schema state through `ddl_schema_state` |
| `OtherStart` / `OtherEnd` | a split's status CAS (`start_process_split`) and `ScopeProcStatus` |

**Properties:**
* `PublicAfterBackfill`: the meta server makes an index PUBLIC only after
  every peer ran that job's backfill to its end.
* `JobEnds`: every job is eventually deleted.
* `GateHeld`: no DDL step hands the region status back while a split
  holds it.
* `TypeOK`.

**Assumptions about code outside the repository.** `DdlHelper`
(`can_init_ddlwork`, `ddlwork_is_finish`) and `DdlParam::reset` are not in
the repository; they are modelled from their use and their comments
(`spec_modelled`). `update_index_status` goes through the meta server's
raft; it is applied in the step that decides it.

**Not modelled.** `BackfillRow` takes every region as holding rows: the
early exit of `write_local_rocksdb_for_ddl` for an empty region (lines
4299-4300) is left out, which only removes a path to the same exit.

**Reproduced, not a run.** `MCDdl_stale.cfg` (three jobs) finds
`PublicAfterBackfill` violated in 56 states:
1. An ADD's backfill fails.
2. The next answer starts a second `start_add_index` bthread, which waits
   in its loop.
3. The meta server rolls the ADD back into a DROP, and the peer takes up
   the DROP ddlwork.
4. The waiting bthread leaves its loop and copies the `index_id` and
   `begin_timestamp` of whatever ddlwork is held (4528-4552). It is the
   DROP, so it writes rows.
5. Before it reaches its scope exit, the drop finishes and the finish
   check deletes the ddlwork.
6. A re-add (a new `index_id`) is taken up and reaches WRITE_LOCAL.
7. The scope exit (4265-4272) sets the held ddlwork, now the re-add's, to
   IS_PUBLIC with no check that it is the one the rows were written for.
8. The meta server makes the new index PUBLIC without its backfill.

The window is a stall of one bthread between its last row and its exit.
`JobEnds` is not checked beyond two jobs, for two reasons:
* A second DROP that starts at DELETE_LOCAL, after a DROP rolled back
  there, is a job that `can_init_ddlwork` (modelled from its use, not
  from code) never lets a peer without a ddlwork take up.
* That helper is not in the repository.

### `ReverseIndex`: the levels of an inverted index, its merge and its cache

`ReverseIndex.tla` models one `ReverseIndex` of one region
(`src/include/reverse/reverse_index.hpp`). It has one writer, one merge
thread and one reader, over a set of terms and a set of documents.
* A posting list is a function from documents to `"N"` (an insert
  node), `"D"` (a delete node) or `"-"` (absent).
* `LevelMerge(new, old, isDel)` is `level_merge`: the newer node wins,
  and `isDel` drops delete nodes (the level-2 to level-3 merge).
  `level_merge` is not in the repository, so this definition is
  modelled from its use (`spec_modelled`).

**State.**
* **Data:** `l1`, `l2` and `l3` (the three levels of each term), `cache`
  (`_cache`, a list or `Miss`) and `nw` (writes so far).
* **Merge thread:** `mpc`, `msnap` (the level-1 iterator of the pass),
  `mtodo` (the terms still to merge), `mnew2` (the new level-2 list
  between the two transactions) and `mkeys` (`_cache_keys`).
* **Reader:** `rpc`, `rterm`, `rl1`, `rnew` (`list_new_ptr`) and `rold`
  (`list_old_ptr`).
* **Ghost:** `rchg`, the documents whose contents in the term being read
  changed while the read ran. A write or a merge step can change them.

| Action | Code it models |
|---|---|
| `Write` | `handle_reverse` / `_insert_one_reverse_node`: a level-1 node |
| `MergeStart` | `reverse_merge_func` up to the loop: the iterator, `_cache_keys.clear()`, the early return on an empty level 1 |
| `MergeL12` | the first transaction of `_reverse_merge_to_second_level`: level 1 merged into level 2, the level-1 keys deleted |
| `MergeL23` | `txn_level2`: level 2 merged into level 3 with delete nodes dropped, level 2 deleted, the key pushed to `_cache_keys` |
| `MergeFail` | any `return -1` of a merge transaction (failed get, put or commit, e.g. a lock timeout), which ends the pass before the eviction |
| `MergeEvict` | the `_cache.del` loop |
| `ReadL1`, `ReadL2`, `ReadL3`, `FillCache`, `ReadDone` | the non-fast `get_reverse_list_two`, with `_get_level_reverse_list(3, ..., true)` looking in `_cache` and adding lists of at least `_cached_list_length` nodes |

**Constants.**
* `IsOverCache` is `_is_over_cache`. It is FALSE for a FULLTEXT index
  ("common need not cache", `region.cpp` 139) and TRUE for a RECOMMEND
  index.
* `SecondLen` is `FLAGS_reverse_level2_len`, and `CachedLen` is
  `_cached_list_length`.

The merge deletes and merges the level-1 nodes of the iterator it creates
at the start of the pass (line 40). That is before, and outside, the
per-term transactions (lines 278-281). The model does the same: `msnap`
is read in `MergeStart` and used by `MergeL12`.

**Abstract specification and refinement.** `ReverseIndexSpec.tla` states
what an index promises: per term, the set of documents whose last write
was an insert, changed only by counted writes.
* `ReverseIndex` maps to it by
  `docs <- Contents, n <- nw`, where `Contents` merges the three levels as
  a reader would.
* `Refines == Abs!Spec` is the PROPERTY of the `reverse_lost` run, and it
  does not hold (finding 6).
  1. A write of document d is made.
  2. The merge creates its iterator.
  3. d is written again under the same level-1 key.
  4. The term's transaction deletes the key, which now holds the newer
     node, and merges the older one.

  The second write is gone, and the levels no longer say what the writes
  said.

**Properties of the passing run:**
* `ReadCorrect`: a completed read returns exactly the documents the three
  levels hold for its term, for every document whose contents did not
  change while it read.
  * It compares the read with the levels, not with the writes, so it
    holds beside the lost write above.
  * It catches a reader that misses or misorders a level, or a stale
    cache.
* `L1Drains`: level 1 is eventually empty for good.
* `TypeOK`.

### `TxnSeq`: the statement sequence of one transaction on a region leader

The statements of a multi-statement transaction run on the region's
leader, one call per statement. They reach followers only inside the
PREPARE entry. The module covers one transaction on one region: the
current leader, one follower, and the front end's client.

**The client** is the front end, which is not in this repository. It is
modelled from the protocol description (spec.md, "Transactions"):
* seq_id 1 is BEGIN, then come `NDml` DML statements, then PREPARE;
* each call carries `start_seq_id`, the cache plans of the statements
  that succeeded from there on, and `need_rollback_seq` (the statements
  that failed);
* a timeout calls the same statement again, up to `MaxTries` calls, and
  a PREPARE that times out is given up;
* `TXN_FOLLOW_UP` resends from `last_seq_id + 1`.

Requests are a set: they arrive late, in any order, or not at all, and
they outlive a leader change. Replies can be lost, and a reply to an
earlier call is ignored.

**State.** `ltx` and `ftx` are the leader's and the follower's view of the
`Transaction`. Each holds:
* whether the pool has it, and `seq_id`;
* the rows of each statement, as a count (`eff`);
* `cache_plan_map`, the savepoint stack and `err_code`;
* whether it is prepared.

`plog` is the PREPARE entry in the raft log. `Outcomes(s)` is `BOOLEAN`:
any run of a statement may fail. `root->open` fails on a duplicate key as
on a lock wait timeout, so a second run on a new leader need not end like
the first.

| Action / operator | Code (`region.cpp`) |
|---|---|
| `ExecDml` | `exec_in_txn_query` for INSERT/DELETE/UPDATE: `Early` (the `last_seq >= seq_id` idempotence answer with `err_code`, and `FollowUp`), then `Caught` (`execute_cached_cmd` when `last_seq < seq_id - 1`), then `dml` / `dml_2pc` |
| `ExecPrepare` | the PREPARE branch: the same checks, `execute_cached_cmd`, `PrepareEntry` (the txn's `cache_plan_map`, then the request's plans after `cur_seq_id`), `_node.apply` |
| `ExecCached` / `ExecCachedFrom` | `execute_cached_cmd`: the plans after `last_seq`, which is read once before the loop |
| `Dml2pc`, `RollbackSeqs`, `BeginTxn`, `PrepareTxn` | `dml_2pc`: the `need_rollback_seq` loop, largest first; a listed statement is not run; `set_seq_id` before execution; the savepoint; `err_code`; the cache plan only on success |
| `ApplyLeader` / `ApplyFollower` | `apply_txn_request` for PREPARE: `execute_cached_cmd` from the replica's own `last_seq`, then `dml_2pc(OP_PREPARE)`; on the leader the closure answers the call |
| `LeaderChange` | `on_leader_stop`: `on_leader_stop_rollback` drops the unprepared txn; the new leader has none |
| `Send`, `Receive`, `Timeout`, `Retry` | the client (not in the repository) |

**Assumptions about code that is not in the repository.**
* `RollbackTo` is `Transaction::rollback_to_point`. It undoes every
  statement from the savepoint of that seq on, and drops their cache
  plans. If the seq has no savepoint, it does nothing.
* A failed statement may have written part of its rows (`eff` 1). They
  stay until a later statement rolls them back through
  `need_rollback_seq`.

`FollowUp` is the `TXN_FOLLOW_UP` check of line 498, which is made only
while `last_seq == 0`. The general form that spec.md states is commented
out at line 497.

The `NOT_LEADER` answer of `dml_2pc` for a missing txn is in the model,
but no state reaches it. The follow-up check makes sure that a call that
finds no txn starts at BEGIN.

**Properties:**
* `TypeOK` is the property of the passing run. It includes that no
  statement's rows are in a txn twice (`eff` in 0..1), through timeouts,
  retries, stale calls and leader changes.
* `PrepareComplete`: once the leader has applied PREPARE, its txn holds
  the rows of exactly the statements the client was told succeeded, each
  once.
  * It does not hold. `MCTxnSeq_gap.cfg` reproduces the violation.
* `ReplicasAgree`: a follower that replays the PREPARE entry holds the
  same rows as the leader.
  * It does not hold. `MCTxnSeq_retry.cfg` reproduces the violation.

### `SelectIndex` and `DdlScan`: the scan node's index choice during a DDL

`SelectIndex` has no state. It translates `RocksdbScanNode::select_index`
and the choice in `choose_index` into operators:

| Operator | Code it models |
|---|---|
| `Visit` | one pass of the loop body: skip an unknown or non-`IS_PUBLIC` index, collect `primary_fields`, skip a UNIQ/KEY index whose used prefix is in them, record the score, set a FULLTEXT index aside, return a RECOMMEND index, remember a sort index |
| `SelectLoop` | the `for` loop and its early return (RECURSIVE) |
| `IndexScore`, `PrefixRatioRound`, `IndexPriority` | `(prefix_ratio_round << 16) \| index_priority` |
| `HighestScored` | `crbegin` of the multimap: the best score, and of equal scores the last inserted |
| `SelectIndex` | the early return, else `sort_index`, else the best score, else position 0 |
| `ChooseIndex` | `choose_index`: the first fulltext index wins over that answer |

A candidate is `[id, cnt, sort]`: the index, the largest
`left/right_field_cnt` of its ranges, and `has_sort_index`. For indexes of
at most four fields the float `prefix_ratio * 10` truncates as integer
division does, so the score is computed on naturals.

`DdlScan` extends `Ddl` and `SelectIndex`. A peer's `SchemaFactory` is
`Infos(sstate[p])`: the table's other indexes are PUBLIC, and the DDL's
index has the peer's state (or is unknown while `Absent`). `Candidates`
holds every list of up to `MaxCands` distinct indexes, each with any used
prefix and sort flag. When `PrimaryOffered` is TRUE every list contains
the primary key. The planner is not in the repository, so that is an
assumption. `PicksDdlIndex[s]` says whether some list makes the scan use the
DDL's index when the peer's schema has it in state `s`. It is a constant
table, which TLC computes once.

**No run.** `ScanReadsBuiltIndex` is defined: a scan on a peer reads
through the index under DDL only when that peer has backfilled it.
* While the planner offers the primary key, it follows from
  `select_index`'s `IS_PUBLIC` skip and from the DDL step that makes the
  index PUBLIC. `PublicAfterBackfill` in the `ddl` run checks that step,
  so no pass run repeats it.
* `MCDdl_fallback.cfg` drops the primary key from the lists. The scan
  then falls back to position 0, and `choose_index` checks only that the
  index info exists. The scan reaches the half-built index (section "Two
  cases of the index choice").
* `MCDdl_spec.cfg` checks `ChoiceHasTopScore` against the choice spec.md
  describes.

`MCDdl` gives the table a primary key on (a, b) and a fulltext index on
c, and makes the DDL's index a KEY on (b, c). Lists have up to three
candidates. That covers:
* a KEY index discarded as covered by the primary key, or kept because it
  comes before the primary key in the list;
* a sort index overriding the score;
* a fulltext index overriding everything.

## Runs

| Run | Config | Expect | What it shows |
|---|---|---|---|
| `regionapply` | `MCRegionApply.cfg` | pass | Two transactions, one autocommit statement, a log of up to 4 entries, and up to 2 crashes at any point except inside the two windows below. All four properties hold (about 59,000 distinct states). |
| `regionapply_1pc` | `MCRegionApply_1pc.cfg` | violation of `StateMatchesLog` | Also allows a crash between `dml_1pc`'s `write_pre_commit` and `txn->commit()`. |
| `regionapply_replay` | `MCRegionApply_replay.cfg` | violation of `ExactlyOnce` | Also allows a crash during the replay of `on_snapshot_load`. |
| `regionsplit` | `MCRegionSplit.cfg` | pass | One split, normal or tail, against three writers (two at or above the meta's split key, one below), with 3 add-version tries, early returns, timeouts and lost replies. `TypeOK`, `ChildOwnsRange` and `SplitSettles` hold (25,811 distinct states). |
| `regionmerge` | `MCRegionMerge.cfg` | pass | One merge against two writers, with the barrier as the code has it, lost replies, `VERSION_OLD` retries and the meta server's heartbeats. `MetaRoutesToLive` and `MergeRouted` hold (about 1,100 distinct states). |
| `regionmerge_race` | `MCRegionMerge_race.cfg` | violation of `AckedWritesReadable` | The barrier as the code has it. |
| `regionmerge_lostreply` | `MCRegionMerge_lostreply.cfg` | violation of `RangesDisjoint` | D applies the adjust-key request and the reply to S is lost. |
| `ddl` | `MCDdl.cfg` | pass | One peer, two requests in two seconds, two backfill bthreads, lost answers, failing backfills and range deletes, and one split. `TypeOK`, `PublicAfterBackfill` and `JobEnds` hold (21,676 distinct states). |
| `ddl_gate` | `MCDdl_gate.cfg` | violation of `GateHeld` | One add and one split. |
| `reverse` | `MCReverseIndex.cfg` | pass | Two terms, two documents, three writes, `SecondLen` 2, a FULLTEXT index, merges that can fail at every transaction, and the merge's level-1 iterator created before its transactions, as in the code. `TypeOK`, `ReadCorrect` and `L1Drains` hold (121,986 distinct states). |
| `reverse_lost` | `MCReverseIndex_lost.cfg` | violation of `Refines` | The same bounds: a merge deletes a level-1 node written after its iterator. |
| `txnseq` | `MCTxnSeq.cfg` | pass | Three DML statements, two calls per statement, two leader changes before PREPARE, lost and late calls and replies, and any run of a statement may fail. `TypeOK` holds: no statement's rows are in a txn twice (about 275,000 distinct states). |

**Why these bounds are enough.** Four log entries are enough for every
combination the properties distinguish:
* a 2PC transaction prepared and committed or rolled back, interleaved
  with an autocommit statement;
* a 1PC transaction;
* a rollback of an unprepared transaction.

Two crashes allow a crash during the recovery of a previous crash.

For `RegionSplit`, three writers are enough for the interesting cases:
* one writer can be inside the window between the disable wait and the
  count;
* another can be already proposed;
* the third is below the split key.

The keys are 3, 2 and 1 with the meta's split key 2. A tail split takes
its key above whichever of these rows were applied first, so it lands
between any two of them or above all three.

The tries are the code's own 3.
Snapshots may be taken between any two entries, so re-delivery starts at
every possible point.

For `RegionMerge`, two writers are enough: one can sit in the barrier
window while the other is routed after the merge. `MaxRetry` is the code's
own 3. Two regions are enough: the merge, the meta server's
`get_merge_regions` walk and the start-key map involve exactly S and D.

For `Ddl`, one peer: every step of the job needs the reports of all
peers, and the hazards are between one peer's heartbeat answers, its
bthreads and its finish check. Two peers with one request already give
more than 6 million states. Two requests allow an add followed by a drop
or a rollback; two seconds allow two jobs with equal and with different
`begin_timestamp`s; two slots allow a second backfill bthread after a
discarded ddlwork. A third request is needed only for the re-add of
`MCDdl_stale.cfg`.

For `ReverseIndex`, two terms let a merge pass go on to a second term
after the first one's level-2 to level-3 merge, so a failure can fall
between a committed merge and the eviction. Two documents let level 3
hold one document while another sits in level 1 or 2. Three writes let a
write land between the iterator and the merge transaction after an
earlier write was merged. `SecondLen` 2 exercises both branches of the
`second_level_size >= _second_level_length` test. The two windows below
need `SecondLen` 1, so that level 3 changes twice within three writes.
The lost write of `reverse_lost` needs two writes of one document around
one `MergeStart`.

For `TxnSeq`, three DML statements are enough for a stale call to move a
new leader's `last_seq` past one statement while the client is two ahead.
They also give a failed statement with successful ones on both sides. Two
calls per statement let a retry race the first call. Two leader changes
let a stale call from the first leader's time reach the third leader.

**Fairness.** Weak fairness applies to the apply steps, because braft keeps
handing committed entries to `on_apply`. It also applies to the recovery
steps, because a dead store is restarted by its supervisor. Proposals
and crashes get no fairness.

In `RegionSplit` the split steps of both paths are weakly fair: they run in a bthread
that goes on until it returns. The writer steps after the barrier are
weakly fair, and so is the child's `check_region_legal_complete` loop,
which wakes every 10 s. Starting a split, new requests and the early
returns get no fairness.

In `RegionMerge` the merge steps are weakly fair (one bthread), and so are
a writer's steps after the barrier. `CheckUpdateRegion` is weakly fair for
each region, because every leader sends a heartbeat each cycle. New
requests, the periodic cycle and the meta server's merge answer get none.

In `Ddl` heartbeats, schema heartbeats, the finish check and the
bthreads are weakly fair: each is a periodic task or a bthread that runs
to its end. The processing of a heartbeat answer is strongly fair: a lost
answer disables it, and not every answer is lost. Requests, the clock,
losses and splits get none.

In `ReverseIndex` the start of a merge pass is weakly fair:
`Region::reverse_merge` is run periodically. Its eviction is weakly fair:
it runs as soon as the loop ends. The two merge transactions are strongly
fair, because a lock timeout (`lock_timeout = 100`) may fail any one of
them, but not every one. Writes and the reader get no fairness.

**Deadlock checking.** It is off (`CHECK_DEADLOCK FALSE`). The log is
bounded, so a replica that has applied everything has nothing left to do,
just as a real idle region has. Wedging is caught by `AllApplied` instead. `RegionMerge` likewise ends quiet once S has merged away and the writers are done. `RegionSplit` has finitely many
writers and one split, so its behaviours also end in a quiet region.
`SplitSettles` checks that they end properly. `Ddl` has a bounded
number of requests, and a table with no job and no ddlwork is idle;
`JobEnds` checks that jobs do not wedge. `ReverseIndex` has a bounded
number of writes, and an index with an empty level 1 and no reader is idle.
`TxnSeq` ends when the client is done or has given up and the network has
drained. It checks no liveness and assumes no fairness.

## Findings

1. **Restart treats a 1PC transaction whose write was lost as committed.**
   * Run: `regionapply_1pc`.
   * `dml_1pc` writes the `pre_commit` sentinel of an `optimize_1pc`
     PREPARE before `txn->commit()`, and that RocksDB transaction was never
     prepared.
   * After a crash in between, `on_snapshot_load_for_restart` finds a
     sentinel and no prepared transaction. It takes the transaction as
     committed.
   * `applied_index` moves past the entry and `num_table_lines` counts its
     rows, but the write is gone.
2. **A crash during replay re-applies entries.**
   * Run: `regionapply_replay`.
   * Each replayed PREPARE lowers the durable `applied_index` through
     `write_meta_before_prepared`. The value is restored only after the
     last replay.
   * A crash during the replay lets braft re-deliver entries that are
     already in RocksDB, and an autocommit statement is applied twice.
3. **A write can land in a merged-away region.**
   * Run: `regionmerge_race`.
   * `start_process_merge` raises `_disable_write_cond` (line 2859) and
     waits for `_real_writing_cond` (2862).
   * A writer that returned from the disable wait (683) just before the
     barrier went up is counted (684) only after that wait returned. It
     passes `validate_version` and is applied in S before S's own
     adjust-key entry, after the `_applied_index_lastcycle` check.
   * S then gives its range away, and the acknowledged row stays in a
     region that no longer covers its key. Split has the index check of
     `validate_and_add_version` against this window; merge has none.
4. **A lost reply leaves D's range overlapping S's.**
   * Run: `regionmerge_lostreply`.
   * When the RPC to D fails after D applied the adjust-key request,
     `start_process_merge` returns (2952). `ScopeMergeStatus` re-opens S
     with its full range, while D already starts at S's start key.
   * Nothing undoes D's change. The ranges meet again only if a later
     merge finds S still empty and quiet (the `VERSION_OLD` branch at
     2944).

5. **The finish check hands the status gate back under a split.**
   * Run: `ddl_gate`.
   * After an ADD finishes, the peer keeps the finished ddlwork until
     `ddlwork_finish_check_process` runs.
   * A split that starts in between takes the status IDLE -> DOING
     (line 3033).
   * The finish check deletes the ddlwork and sets DOING -> IDLE (4569)
     while the split still runs, so a second structural operation can
     start. The discard branch of `ddlwork_common_init_process` (4462) and
     the backfill's scope exit reset the status the same way.
6. **A merge deletes a level-1 node written after its iterator.**
   * Run: `reverse_lost`. `Refines` fails after 5 steps.
   * `reverse_merge_func` creates the level-1 iterator once, outside any
     transaction (`reverse_index.hpp` line 40).
   * Each term is then merged in its own transaction, begun later
     (278-285), without a snapshot. `FirstLevelMSIterator` is given
     `del = true` and that transaction.
   * A newer node for the same term and document, written after line 40,
     is deleted without being merged, and the older node goes to level 2.
     A delete is lost and the document comes back, or an insert is lost.
   * This assumes that `FirstLevelMSIterator` (not in the repository)
     deletes the keys it returns, whatever they hold by then.
### A stale cache fill on a RECOMMEND index

The passing `reverse` run is a FULLTEXT index, which has no level-3
cache. `MCReverseIndex_read.cfg` (`IsOverCache` TRUE, `SecondLen` 1)
finds `ReadCorrect` violated in 18 states. It is listed as a hazard, not
as a run:
* On a RECOMMEND index, a reader that misses the cache reads level 3
  from the database (418) and adds it to `_cache` (434).
* When a level-2 to level-3 merge commits and is evicted (64-69)
  between those two lines, the old list is cached after the eviction.
* It stays until the next level-2 to level-3 merge of that term. Level 2
  is already deleted, so later readers miss the moved documents.
* A merge pass that fails on a later term (`return -1`, line 55) skips
  the eviction altogether, with the same effect.

### Two windows of the transaction sequence

Both are listed as hazards, not as runs.

**A later gap in seq ids is not followed up.**
* `MCTxnSeq_gap.cfg`: `PrepareComplete` fails in 18 states.
* spec.md (line 113) says a gap in seq ids gets `TXN_FOLLOW_UP`.
  `region.cpp` line 498 checks only while `last_seq == 0`; the
  general check is commented out at 497.
* The first call of statement 2 is delayed, and its retry fails.
  Statement 3 fails, and statement 4 succeeds. The client sends
  PREPARE, with 2 and 3 in `need_rollback_seq`, and the leader changes.
* The delayed call (`start_seq_id` 1, with BEGIN) reaches the new
  leader. The new leader creates the txn and runs statement 2, so
  `last_seq` is 2.
* PREPARE (`start_seq_id` 5) then passes the check. Statements 2 and
  3 are rolled back, and nothing else is run. The txn is prepared
  without statement 4, which the client was told succeeded.

**A stale call that fails on a new leader.**
* `MCTxnSeq_retry.cfg`: `ReplicasAgree` fails in 18 states.
* A statement succeeds on the old leader, and the client moves on.
* A stale call of it reaches the new leader with BEGIN and runs it
  again. This time it fails, for example on a lock wait timeout.
* Its rows stay in the leader's txn, because the client never lists it
  in `need_rollback_seq`. It is also not in `cache_plan_map` (line 1147
  returns before the cache).
* The PREPARE entry leaves it out, so the follower prepares a txn without
  rows that the leader has.

### A stale backfill exit, and the split barrier

Two more windows are reproduced by cfgs. They are listed as hazards, not
as runs:
* `MCDdl_stale.cfg`: a backfill's scope exit marks the next job's
  ddlwork PUBLIC (see `Ddl` above).
* `MCRegionSplit_race.cfg`: the split has the barrier gap of finding 3
  (see `RegionSplit` above).

### The merge barrier with the wait and the count in one step

`MCRegionMerge_atomic.cfg` sets `AtomicBarrier` TRUE: a writer's disable
wait and its count on `_real_writing_cond` are taken in one step. With
that, `AckedWritesReadable` holds, so finding 3's window is the only way
the merge loses an acknowledged write. The cfg is kept as a check of that
fix. It is not a run of `PROJECT.json`.

### Two cases of the index choice

These are reproduction cfgs, not runs of `PROJECT.json`.

* **`MCDdl_fallback.cfg` sets `PrimaryOffered` FALSE.**
  * Take a list holding only the DDL's index, which is not yet PUBLIC on
    the peer.
  * Every candidate is skipped, and `select_index` returns position 0
    (line 112).
  * `choose_index` checks only that the index info exists.
  * So the scan reads through the half-built index, and
    `ScanReadsBuiltIndex` fails in the first state where the peer has the
    index.
  * A planner that always offers the primary key never reaches this.
* **`MCDdl_spec.cfg` checks `ChoiceHasTopScore`.** This is the choice
  spec.md 4.4 describes: the best score among the kept candidates, with a
  sort-matching index only breaking ties.
  * The code returns `sort_index` whatever its score.
  * Take the DDL's KEY index using both its fields (score 10, 102) and
    the primary key using one field with a matching sort (score 5, 300).
  * The code scans the primary key; the spec picks the KEY index.
  * spec.md also says a composite index covered by the primary key is
    discarded. The code discards it only if the primary key comes earlier
    in the list, but with this catalog that never changes the choice.

## Mutants

Each property of the passing run is broken by a plausible bug in the code
it is about. `PROJECT.json` lists them, and each mutant is an operator
`...Mut` defined next to its original:

| Property | Mutated definition | The bug |
|---|---|---|
| `ExactlyOnce` | `Deliver` | an off-by-one in the `index <= _applied_index` skip |
| `StateMatchesLog` | `Restart` | no `exist_prepared_log` check |
| `AllApplied` | `ReplayPrepared` | 1PC PREPAREs are never replayed |
| `TypeOK` | `CommitTxn` | ROLLBACK subtracts rows |
| `TypeOK` (split) | `SendComplete` | an off-by-one in `retry_times < 3` |
| `ChildOwnsRange` | `SendComplete` | `SPLIT_TIMEOUT` taken for success |
| `SplitSettles` | `SplitFail` | the barrier is not lifted on an early return |
| `TypeOK` (merge) | `MergeSend` | D applies the request without `validate_version` |
| `MetaRoutesToLive` | `GetMergeRegions` | the swallowed regions are not required to have reported empty |
| `MergeRouted` | `CheckUpdateRegion` | only the reporting region's entry is looked at |
| `TypeOK` (DDL) | `FollowSchema` | the `ddl_schema_state` result is not checked |
| `PublicAfterBackfill` | `StepOf` | an ADD at WRITE_LOCAL waits for WRITE_LOCAL reports, not PUBLIC |
| `JobEnds` | `RollbackDdlwork` | a rolled-back DROP job is not deleted |
| `TypeOK` (reverse) | `ReadL3` | the result of `_cache.find` is not checked |
| `ReadCorrect` | `ReadL2` | `level_merge` called with level 1 and level 2 swapped |
| `L1Drains` | `MergeL12` (`MergeL12Keep`) | the level-1 iterator built with `del = false` |
| `TypeOK` (txn) | `Repeated` | `last_seq > seq_id` instead of `>=`: a retry whose first call ran runs again |

## Not modelled, and why

* **Leader change during a split or merge, and the
  `MergeClosure`/`SplitClosure`.** The closures are not in the
  repository; a leader change is an early return in both models.
* **Prepared transactions carried to a tail split's child**
  (`replay_txn_for_recovery`). `RegionSplit` has autocommit writers only.
* **`get_split_key`** (the middle key of a normal split). Nothing under
  `src/` calls it; the meta's split key is a constant of `RegionSplit`.
* **D's own status CAS in `adjustkey_and_add_version_query`.** With one
  merge at a time it always succeeds.

* **The rest of `choose_index` and the planner.** Decoding range records
  into key bounds and extracting fulltext words transform the data of one
  request. The planner (`IndexSelector`) that builds the candidate list
  is not in the repository.

* **DDL details.** `is_waiting`, the wait of `start_add_index` for
  in-flight DELETE_ONLY/NONE transactions, the fulltext reverse index
  (`add_reverse_index`), DDL on a region created by a split after the job
  began (`add_ddl_region_info`, `check_delete_ddl_region_info`), and
  several peers of one table (out of TLC's reach in five minutes).

* **Installing a snapshot sent by the leader** (`ingest_sst`,
  `clear_data`, the `doing_snapshot` mark). Not modelled yet; it is
  planned next to `RegionApply`.
* **`OP_KV_BATCH` (storage/compute separation) and `OP_TRUNCATE_TABLE`.**
  Not modelled yet.
* **Row execution** (`insert_node.cpp`, `delete_planner.cpp`,
  `packet_node.h`, `table_iterator.h`, `expr_value.h`). It is per-statement
  data transformation with no concurrency or persistence of its own. Its
  effect on a region is the single committed write per statement above.
* **Inverted index details.** Segmentation and the segment cache, the
  fast read path (level 2 only), the boolean executors built on the
  lists, the key-range filter of the merge iterators and the prefix-0
  migration. They transform data inside one step and add no interleaving
  of their own.

* **Leader-side details of a transaction.**
  * SELECT inside a txn.
  * `validate_version` on PREPARE; the region version does not change in
    `TxnSeq`.
  * The tail-split `start_key`.
  * The finished-txn answer for calls after COMMIT or ROLLBACK.
  * A PREPARE retried by the client: how the front end retries it is not
    in the repository.
  * Two handler threads on one txn: `Transaction` and its locking are not
    in the repository, and `TxnSeq` runs each call in one step.
  * The failure return of `apply_txn_request` when `write_meta` fails
    (2144-2150). `AfterApply` takes the meta write as succeeding.

* **braft itself and the RocksDB store.** They are outside this repository.
  They are assumed to do two things:
  * deliver committed entries in order;
  * roll back prepared transactions when the DB is opened, as
    `on_snapshot_load_for_restart`'s comment describes.
