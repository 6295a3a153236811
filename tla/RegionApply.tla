----------------------------- MODULE RegionApply -----------------------------
(***************************************************************************)
(* The apply side of one region replica (src/src/store/region.cpp):        *)
(* Region::on_apply dispatching committed raft entries to dml_1pc,         *)
(* apply_txn_request and dml_2pc, the durable meta each step writes        *)
(* (applied_index, num_table_lines, the pre_commit sentinel of a txn and   *)
(* the log index of its PREPARE), a crash at any point between two         *)
(* durable writes, and the restart path on_snapshot_load_for_restart /     *)
(* on_snapshot_load that finalises or replays prepared transactions.       *)
(*                                                                         *)
(* The leader and its clients are the environment: they append entries    *)
(* to the raft log in an order exec_in_txn_query / exec_out_txn_query can  *)
(* produce.  Each statement or transaction writes one row of its own, and  *)
(* kv[w] counts how many times w's write was committed to RocksDB, so a    *)
(* statement executed twice (an UPDATE applied twice) shows as kv[w] = 2.  *)
(***************************************************************************)
EXTENDS Naturals, Sequences, FiniteSets, Functions

CONSTANTS
    Txns,              \* multi-statement transactions (txn_id # 0)
    Autos,             \* autocommit statements (txn_id = 0, OP_INSERT ...)
    MaxLog,            \* bound on the length of the raft log
    MaxCrashes,        \* bound on process crashes
    CrashInOnePcCommit,\* may the process die between dml_1pc's
                       \* write_pre_commit and txn->commit()?
    CrashInRecovery,   \* may the process die while on_snapshot_load
                       \* is replaying prepared entries?
    NoTxn              \* model value: no transaction

Writers == Txns \cup Autos

ASSUME Txns \cap Autos = {} /\ NoTxn \notin Writers
ASSUME MaxLog \in Nat /\ MaxCrashes \in Nat
ASSUME CrashInOnePcCommit \in BOOLEAN /\ CrashInRecovery \in BOOLEAN

NoIndex == 0   \* "no log_index key" in the meta column family

\* A raft entry: its op type, the statement or txn it belongs to, and for a
\* PREPARE whether the client asked for optimize_1pc.
Entry == [op : {"DML", "PREPARE", "COMMIT", "ROLLBACK"}, w : Writers,
          onepc : BOOLEAN]
PreCommit == [ntl : Nat, ai : Nat]
NoPreCommit == [ntl |-> 0, ai |-> 0]

VARIABLES
    log,                  \* committed raft log (durable, kept by braft)
    raft_next,            \* index of the next entry braft hands to on_apply
    snapshot_index,       \* last_included_index of braft's latest snapshot
    \* volatile state of Region
    status,               \* "Running" | "Down" | "Recovering"
    applied_index,        \* _applied_index
    num_table_lines,      \* _num_table_lines
    txn_pool,             \* txns held in _txn_pool (all of them prepared)
    apply_step,           \* how far the handler of entry applied_index got
    replay,               \* prepared entries on_snapshot_load still replays
    \* durable state in RocksDB
    kv,                   \* committed writes, per writer
    prepared,             \* RocksDB transactions in the prepared state
    meta_applied_index,   \* applied_index key of the meta column family
    meta_num_table_lines, \* num_table_lines key
    pre_commit,           \* pre_commit key per txn
    txn_log_index,        \* log_index key per txn (PREPARE's raft index)
    crashes

vars == <<log, raft_next, snapshot_index, status, applied_index, num_table_lines, txn_pool,
          apply_step, replay, kv, prepared, meta_applied_index,
          meta_num_table_lines, pre_commit, txn_log_index, crashes>>
durable == <<kv, prepared, meta_applied_index, meta_num_table_lines,
             pre_commit, txn_log_index>>

TypeOK ==
    /\ log \in Seq(Entry) /\ Len(log) <= MaxLog
    /\ raft_next \in 1..MaxLog + 1
    /\ snapshot_index \in 0..MaxLog
    /\ status \in {"Running", "Down", "Recovering"}
    /\ applied_index \in 0..MaxLog
    /\ num_table_lines \in Nat
    /\ txn_pool \subseteq Txns
    /\ apply_step \in {"Idle", "Prepared", "PreCommitted", "Committed"}
    /\ replay \subseteq Txns
    /\ kv \in [Writers -> Nat]
    /\ prepared \subseteq Txns
    /\ meta_applied_index \in 0..MaxLog
    /\ meta_num_table_lines \in Nat
    /\ pre_commit \in [Txns -> PreCommit]
    /\ txn_log_index \in [Txns -> 0..MaxLog]
    /\ crashes \in 0..MaxCrashes

Init ==
    /\ log = <<>>
    /\ raft_next = 1
    /\ snapshot_index = 0
    /\ status = "Running"
    /\ applied_index = 0
    /\ num_table_lines = 0
    /\ txn_pool = {}
    /\ apply_step = "Idle"
    /\ replay = {}
    /\ kv = [w \in Writers |-> 0]
    /\ prepared = {}
    /\ meta_applied_index = 0
    /\ meta_num_table_lines = 0
    /\ pre_commit = [t \in Txns |-> NoPreCommit]
    /\ txn_log_index = [t \in Txns |-> NoIndex]
    /\ crashes = 0

-----------------------------------------------------------------------------
(* The environment: what the leader proposes.                              *)

InLog(w) == \E i \in DOMAIN log : log[i].w = w
IsTwoPcPrepare(e) == e.op = "PREPARE" /\ ~e.onepc
Propose(e) ==
    /\ Len(log) < MaxLog
    /\ log' = Append(log, e)
    /\ UNCHANGED <<raft_next, snapshot_index, status, applied_index, num_table_lines,
                   txn_pool, apply_step, replay, durable, crashes>>

\* exec_dml_out_txn_query: an autocommit statement is proposed as one entry.
ProposeDml(a) ==
    /\ ~InLog(a)
    /\ Propose([op |-> "DML", w |-> a, onepc |-> FALSE])

\* exec_in_txn_query, OP_PREPARE: all cache plans of the txn, from BEGIN
\* on, are packed into one entry; optimize_1pc is the client's choice.
ProposePrepare(t, onepc) ==
    /\ ~InLog(t)
    /\ Propose([op |-> "PREPARE", w |-> t, onepc |-> onepc])

\* exec_in_txn_query, OP_COMMIT / OP_ROLLBACK after a 2PC PREPARE.
ProposeEnd(t, op) ==
    /\ \E i \in DOMAIN log : log[i].w = t /\ IsTwoPcPrepare(log[i])
    /\ ~\E i \in DOMAIN log : log[i].w = t /\ log[i].op \in {"COMMIT", "ROLLBACK"}
    /\ Propose([op |-> op, w |-> t, onepc |-> FALSE])

\* The leader rolls back a txn whose PREPARE was never proposed; followers
\* hold no handle for it.
ProposeRollbackUnprepared(t) ==
    /\ ~InLog(t)
    /\ Propose([op |-> "ROLLBACK", w |-> t, onepc |-> FALSE])

-----------------------------------------------------------------------------
(* Region::on_apply and the handlers it dispatches to.                     *)

Cur == log[applied_index]           \* the entry whose handler is running
Running == status = "Running" /\ apply_step = "Idle"

\* on_apply: an entry at or below _applied_index has been executed before.
SkipApplied ==
    /\ Running
    /\ raft_next <= Len(log)
    /\ raft_next <= applied_index
    /\ raft_next' = raft_next + 1
    /\ UNCHANGED <<log, snapshot_index, status, applied_index, num_table_lines, txn_pool,
                   apply_step, replay, durable, crashes>>

\* Variant for mutation analysis: on_apply's "index <= _applied_index"
\* check written as "index < _applied_index".
DeliverMut(op) ==
    /\ Running
    /\ raft_next <= Len(log)
    /\ raft_next >= applied_index /\ raft_next > 0
    /\ log[raft_next].op = op
    /\ applied_index' = raft_next
    /\ raft_next' = raft_next + 1

\* on_apply sets _applied_index before it dispatches the entry.
Deliver(op) ==
    /\ Running
    /\ raft_next <= Len(log)
    /\ raft_next > applied_index
    /\ log[raft_next].op = op
    /\ applied_index' = raft_next
    /\ raft_next' = raft_next + 1

\* OP_INSERT/DELETE/UPDATE -> dml_1pc with txn_id = 0: the write, the
\* applied_index and the num_table_lines keys commit in one RocksDB txn.
ApplyDml ==
    /\ Deliver("DML")
    /\ LET w == log[raft_next].w IN
       /\ kv' = [kv EXCEPT ![w] = @ + 1]
       /\ num_table_lines' = num_table_lines + 1
       /\ meta_applied_index' = raft_next
       /\ meta_num_table_lines' = num_table_lines + 1
    /\ UNCHANGED <<log, snapshot_index, status, txn_pool, apply_step, replay, prepared,
                   pre_commit, txn_log_index, crashes>>

\* apply_txn_request on OP_PREPARE: execute_cached_cmd rebuilds the txn from
\* its cache plans (nothing durable), then write_meta_before_prepared puts
\* applied_index = index and log_index(txn) = index in one batch.
ApplyPrepare ==
    /\ Deliver("PREPARE")
    /\ LET t == log[raft_next].w IN
       /\ meta_applied_index' = raft_next
       /\ txn_log_index' = [txn_log_index EXCEPT ![t] = raft_next]
    /\ apply_step' = "Prepared"
    /\ UNCHANGED <<log, snapshot_index, status, num_table_lines, txn_pool, replay, kv,
                   prepared, meta_num_table_lines, pre_commit, crashes>>

\* dml -> dml_2pc(OP_PREPARE): the RocksDB txn is prepared (durable) and
\* stays in the pool.
PrepareTxn ==
    /\ status = "Running" /\ apply_step = "Prepared" /\ ~Cur.onepc
    /\ prepared' = prepared \cup {Cur.w}
    /\ txn_pool' = txn_pool \cup {Cur.w}
    /\ apply_step' = "Idle"
    /\ UNCHANGED <<log, raft_next, snapshot_index, status, applied_index, num_table_lines,
                   replay, kv, meta_applied_index, meta_num_table_lines,
                   pre_commit, txn_log_index, crashes>>

\* dml -> dml_1pc for an optimize_1pc PREPARE: after the plan ran,
\* write_pre_commit(txn, num_table_lines + rows, index) under
\* _commit_meta_mutex.
OnePcPreCommit ==
    /\ status = "Running" /\ apply_step = "Prepared" /\ Cur.onepc
    /\ pre_commit' = [pre_commit EXCEPT ![Cur.w] =
                        [ntl |-> num_table_lines + 1, ai |-> applied_index]]
    /\ apply_step' = "PreCommitted"
    /\ UNCHANGED <<log, raft_next, snapshot_index, status, applied_index, num_table_lines,
                   txn_pool, replay, kv, prepared, meta_applied_index,
                   meta_num_table_lines, txn_log_index, crashes>>

\* apply_txn_request on OP_COMMIT/OP_ROLLBACK with a txn handle ->
\* dml_2pc: write_pre_commit(txn, num_table_lines (+ rows if COMMIT),
\* index) under _commit_meta_mutex, before the plan commits.
ApplyEnd(op) ==
    /\ Deliver(op)
    /\ log[raft_next].w \in txn_pool
    /\ LET t == log[raft_next].w IN
       pre_commit' = [pre_commit EXCEPT ![t] =
          [ntl |-> num_table_lines + (IF op = "COMMIT" THEN 1 ELSE 0),
           ai  |-> raft_next]]
    /\ apply_step' = "PreCommitted"
    /\ UNCHANGED <<log, snapshot_index, status, num_table_lines, txn_pool, replay, kv,
                   prepared, meta_applied_index, meta_num_table_lines,
                   txn_log_index, crashes>>

\* apply_txn_request: "rollback a not started txn" is skipped; nothing is
\* written, not even applied_index.
ApplyRollbackNoTxn ==
    /\ Deliver("ROLLBACK")
    /\ log[raft_next].w \notin txn_pool
    /\ UNCHANGED <<log, snapshot_index, status, num_table_lines, txn_pool, apply_step,
                   replay, durable, crashes>>

\* Variant for mutation analysis: ROLLBACK also applies the txn's rows,
\* with the sign of a delete.
CommitTxnMut ==
    /\ status = "Running" /\ apply_step = "PreCommitted"
    /\ Cur.op \in {"COMMIT", "ROLLBACK"}
    /\ IF Cur.op = "COMMIT"
         THEN /\ kv' = [kv EXCEPT ![Cur.w] = @ + 1]
              /\ num_table_lines' = num_table_lines + 1
         ELSE /\ num_table_lines' = num_table_lines - 1
              /\ UNCHANGED kv
    /\ prepared' = prepared \ {Cur.w}
    /\ txn_pool' = txn_pool \ {Cur.w}
    /\ apply_step' = "Committed"
    /\ UNCHANGED <<log, raft_next, snapshot_index, status, applied_index, replay,
                   meta_applied_index, meta_num_table_lines, pre_commit,
                   txn_log_index, crashes>>

\* dml_2pc, OP_COMMIT/OP_ROLLBACK: the plan's transaction node commits or
\* rolls back the prepared RocksDB txn, the txn leaves the pool, and
\* _num_table_lines += the txn's num_increase_rows on COMMIT.
CommitTxn ==
    /\ status = "Running" /\ apply_step = "PreCommitted"
    /\ Cur.op \in {"COMMIT", "ROLLBACK"}
    /\ IF Cur.op = "COMMIT"
         THEN /\ kv' = [kv EXCEPT ![Cur.w] = @ + 1]
              /\ num_table_lines' = num_table_lines + 1
         ELSE UNCHANGED <<kv, num_table_lines>>
    /\ prepared' = prepared \ {Cur.w}
    /\ txn_pool' = txn_pool \ {Cur.w}
    /\ apply_step' = "Committed"
    /\ UNCHANGED <<log, raft_next, snapshot_index, status, applied_index, replay,
                   meta_applied_index, meta_num_table_lines, pre_commit,
                   txn_log_index, crashes>>

\* dml_1pc with txn_id # 0: txn->commit() of a never-prepared RocksDB txn,
\* _num_table_lines = tmp_num_table_lines, and the scope guard removes the
\* txn from the pool.
OnePcCommit ==
    /\ status = "Running" /\ apply_step = "PreCommitted"
    /\ Cur.op = "PREPARE"
    /\ kv' = [kv EXCEPT ![Cur.w] = @ + 1]
    /\ num_table_lines' = num_table_lines + 1
    /\ txn_pool' = txn_pool \ {Cur.w}
    /\ apply_step' = "Committed"
    /\ UNCHANGED <<log, raft_next, snapshot_index, status, applied_index, replay, prepared,
                   meta_applied_index, meta_num_table_lines, pre_commit,
                   txn_log_index, crashes>>

\* write_meta_after_commit(num_table_lines, index, txn), called by both
\* dml_2pc and dml_1pc: applied_index and num_table_lines are written and
\* the pre_commit and log_index keys of the txn erased, in one batch.
WriteMetaAfterCommit ==
    /\ status = "Running" /\ apply_step = "Committed"
    /\ meta_applied_index' = applied_index
    /\ meta_num_table_lines' = num_table_lines
    /\ pre_commit' = [pre_commit EXCEPT ![Cur.w] = NoPreCommit]
    /\ txn_log_index' = [txn_log_index EXCEPT ![Cur.w] = NoIndex]
    /\ apply_step' = "Idle"
    /\ UNCHANGED <<log, raft_next, snapshot_index, status, applied_index, num_table_lines,
                   txn_pool, replay, kv, prepared, crashes>>

\* Region::snapshot decides a snapshot is due (interval, log and row-count
\* thresholds, region IDLE) and braft calls on_snapshot_save between two
\* entries: the snapshot covers every entry handed to on_apply so far.
TakeSnapshot ==
    /\ Running
    /\ snapshot_index < raft_next - 1
    /\ snapshot_index' = raft_next - 1
    /\ UNCHANGED <<log, raft_next, status, applied_index, num_table_lines,
                   txn_pool, apply_step, replay, durable, crashes>>

-----------------------------------------------------------------------------
(* Crash and restart.                                                      *)

\* The store process dies: everything in memory is lost, braft's log and
\* RocksDB (data and meta column family) survive.
Crash ==
    /\ status # "Down"
    /\ crashes < MaxCrashes
    /\ CrashInOnePcCommit \/ ~(apply_step = "PreCommitted" /\ Cur.op = "PREPARE")
    /\ CrashInRecovery \/ status = "Running"
    /\ status' = "Down"
    /\ crashes' = crashes + 1
    /\ applied_index' = 0
    /\ num_table_lines' = 0
    /\ txn_pool' = {}
    /\ apply_step' = "Idle"
    /\ replay' = {}
    /\ raft_next' = 1
    /\ UNCHANGED <<log, snapshot_index, durable>>

\* Variant for mutation analysis: a pre_commit key alone is taken as proof
\* that the txn committed (no exist_prepared_log check).
RestartMut ==
    LET logged   == {t \in Txns : txn_log_index[t] # NoIndex}
        finished == {t \in logged : pre_commit[t] # NoPreCommit}
    IN
    /\ status = "Down"
    /\ \E last \in IF finished = {} THEN {NoTxn} ELSE finished :
         LET m == IF last = NoTxn
                    THEN [ntl |-> meta_num_table_lines, ai |-> meta_applied_index]
                    ELSE pre_commit[last]
         IN /\ meta_applied_index' = m.ai
            /\ meta_num_table_lines' = m.ntl
            /\ applied_index' = m.ai
            /\ num_table_lines' = m.ntl
    /\ pre_commit' = [t \in Txns |-> IF t \in finished THEN NoPreCommit
                                                        ELSE pre_commit[t]]
    /\ txn_log_index' = [t \in Txns |-> IF t \in finished THEN NoIndex
                                                           ELSE txn_log_index[t]]
    /\ prepared' = {}
    /\ replay' = logged \ finished
    /\ status' = "Recovering"
    /\ UNCHANGED <<log, raft_next, snapshot_index, txn_pool, apply_step, kv, crashes>>

\* on_snapshot_load with _restart and no doing_snapshot mark calls
\* on_snapshot_load_for_restart: _txn_pool.clear(); a txn with a log_index
\* key, a pre_commit key and no prepared RocksDB txn (exist_prepared_log)
\* "stopped between commit and write_meta" and is finalised by
\* write_meta_after_commit with the sentinel's values; every other one is
\* queued for replay from its PREPARE entry.  on_snapshot_load then reads
\* applied_index and num_table_lines back.  The store rolled back every
\* prepared RocksDB txn when it opened the DB.
Restart ==
    LET logged   == {t \in Txns : txn_log_index[t] # NoIndex}
        finished == {t \in logged : pre_commit[t] # NoPreCommit
                                    /\ t \notin prepared}
    IN
    /\ status = "Down"
    \* finished txns are finalised in unordered_map order: the last
    \* write_meta_after_commit decides applied_index and num_table_lines
    /\ \E last \in IF finished = {} THEN {NoTxn} ELSE finished :
         LET m == IF last = NoTxn
                    THEN [ntl |-> meta_num_table_lines, ai |-> meta_applied_index]
                    ELSE pre_commit[last]
         IN /\ meta_applied_index' = m.ai
            /\ meta_num_table_lines' = m.ntl
            /\ applied_index' = m.ai
            /\ num_table_lines' = m.ntl
    /\ pre_commit' = [t \in Txns |-> IF t \in finished THEN NoPreCommit
                                                        ELSE pre_commit[t]]
    /\ txn_log_index' = [t \in Txns |-> IF t \in finished THEN NoIndex
                                                           ELSE txn_log_index[t]]
    /\ prepared' = {}
    /\ replay' = logged \ finished
    /\ status' = "Recovering"
    /\ UNCHANGED <<log, raft_next, snapshot_index, txn_pool, apply_step, kv, crashes>>

\* Variant for mutation analysis: only 2PC PREPARE entries are accepted for
\* replay, so an optimize_1pc one is never replayed.
ReplayPreparedMut ==
    /\ status = "Recovering"
    /\ replay # {}
    /\ LET t == CHOOSE x \in replay :
                  \A y \in replay : txn_log_index[x] <= txn_log_index[y]
           p == txn_log_index[t]
       IN /\ ~log[p].onepc
          /\ replay' = replay \ {t}
          /\ meta_applied_index' = p
          /\ prepared' = prepared \cup {t}
          /\ txn_pool' = txn_pool \cup {t}
          /\ UNCHANGED <<kv, num_table_lines, meta_num_table_lines,
                         txn_log_index>>
    /\ UNCHANGED <<log, raft_next, snapshot_index, status, applied_index, apply_step,
                   pre_commit, crashes>>

\* on_snapshot_load replays the queued PREPARE entries in log-index order
\* through apply_txn_request(entry, NULL, log_index, 0): execute_cached_cmd,
\* write_meta_before_prepared(log_index) and dml.  A 2PC PREPARE is
\* prepared again; an optimize_1pc one runs dml_1pc to the end.
ReplayPrepared ==
    /\ status = "Recovering"
    /\ replay # {}
    /\ LET t == CHOOSE x \in replay :
                  \A y \in replay : txn_log_index[x] <= txn_log_index[y]
           p == txn_log_index[t]
       IN /\ replay' = replay \ {t}
          /\ meta_applied_index' = p
          /\ IF log[p].onepc
               THEN /\ kv' = [kv EXCEPT ![t] = @ + 1]
                    /\ num_table_lines' = num_table_lines + 1
                    /\ meta_num_table_lines' = num_table_lines + 1
                    /\ txn_log_index' = [txn_log_index EXCEPT ![t] = NoIndex]
                    /\ UNCHANGED <<prepared, txn_pool>>
               ELSE /\ prepared' = prepared \cup {t}
                    /\ txn_pool' = txn_pool \cup {t}
                    /\ UNCHANGED <<kv, num_table_lines, meta_num_table_lines,
                                   txn_log_index>>
    /\ UNCHANGED <<log, raft_next, snapshot_index, status, applied_index, apply_step,
                   pre_commit, crashes>>

\* "如果有回放请求，apply_index会被覆盖，所以需要重新写入": the applied_index
\* read before the replays is written back (when nothing was replayed it
\* already equals the key).  braft then delivers the log from the entry
\* after its last snapshot.
FinishRecovery ==
    /\ status = "Recovering"
    /\ replay = {}
    /\ meta_applied_index' = applied_index
    /\ raft_next' = snapshot_index + 1
    /\ status' = "Running"
    /\ UNCHANGED <<log, snapshot_index, applied_index, num_table_lines, txn_pool, apply_step,
                   replay, kv, prepared, meta_num_table_lines, pre_commit,
                   txn_log_index, crashes>>

-----------------------------------------------------------------------------

Next ==
    \/ \E a \in Autos : ProposeDml(a)
    \/ \E t \in Txns :
          \/ \E onepc \in BOOLEAN : ProposePrepare(t, onepc)
          \/ \E op \in {"COMMIT", "ROLLBACK"} : ProposeEnd(t, op)
          \/ ProposeRollbackUnprepared(t)
    \/ SkipApplied
    \/ ApplyDml
    \/ ApplyPrepare
    \/ PrepareTxn
    \/ OnePcPreCommit
    \/ \E op \in {"COMMIT", "ROLLBACK"} : ApplyEnd(op)
    \/ ApplyRollbackNoTxn
    \/ CommitTxn
    \/ OnePcCommit
    \/ WriteMetaAfterCommit
    \/ TakeSnapshot
    \/ Crash
    \/ Restart
    \/ ReplayPrepared
    \/ FinishRecovery

\* braft keeps handing committed entries to on_apply, and a dead store
\* process is restarted; the environment and crashes get no fairness.
ApplySteps ==
    \/ SkipApplied \/ ApplyDml \/ ApplyPrepare \/ PrepareTxn
    \/ OnePcPreCommit \/ \E op \in {"COMMIT", "ROLLBACK"} : ApplyEnd(op)
    \/ ApplyRollbackNoTxn \/ CommitTxn \/ OnePcCommit \/ WriteMetaAfterCommit
RecoverySteps == Restart \/ ReplayPrepared \/ FinishRecovery

Spec == Init /\ [][Next]_vars /\ WF_vars(ApplySteps) /\ WF_vars(RecoverySteps)

-----------------------------------------------------------------------------
(* What the log prefix 1..k says the region holds.                         *)

Commits(e) == e.op \in {"DML", "COMMIT"} \/ (e.op = "PREPARE" /\ e.onepc)
CommittedBy(k) == {log[i].w : i \in {j \in 1..k : Commits(log[j])}}
PreparedBy(k) ==
    {log[i].w : i \in {j \in 1..k : IsTwoPcPrepare(log[j])}}
      \ {log[i].w : i \in {j \in 1..k : log[j].op \in {"COMMIT", "ROLLBACK"}}}

\* No write is committed twice: neither the raft re-delivery after a
\* restart (on_apply's index <= _applied_index check) nor the replay of
\* prepared entries in on_snapshot_load executes an entry whose write is
\* already in RocksDB.
ExactlyOnce == \A w \in Writers : kv[w] <= 1

\* The last entry on_apply has been handed: entries up to a snapshot that
\* are below _applied_index are skipped, so this is the larger of the two.
Delivered == IF raft_next - 1 > applied_index THEN raft_next - 1
                                              ELSE applied_index

\* Whenever on_apply is between entries, the region is exactly what the
\* log up to the last delivered entry says: the committed writes are those
\* of the committed entries, the txn pool and the prepared RocksDB txns are
\* the 2PC txns prepared and not yet ended, and both the in-memory and the
\* durable num_table_lines count the committed rows.  This has to survive
\* crashes at every point of dml_1pc / dml_2pc and the restart path.
StateMatchesLog ==
    status = "Running" /\ apply_step = "Idle" =>
        /\ {w \in Writers : kv[w] > 0} = CommittedBy(Delivered)
        /\ txn_pool = PreparedBy(Delivered)
        /\ prepared = txn_pool
        /\ num_table_lines = SumFunction(kv)
        /\ meta_num_table_lines = num_table_lines

\* Every entry the leader proposed is eventually handed to on_apply and
\* its handler finishes, however the process crashed: recovery never
\* wedges on a txn it cannot finish.
AllApplied ==
    <>[](status = "Running" /\ apply_step = "Idle" /\ raft_next = Len(log) + 1)
=============================================================================
