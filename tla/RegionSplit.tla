----------------------------- MODULE RegionSplit -----------------------------
(***************************************************************************)
(* Mid-split of a region (src/src/store/region.cpp), seen from the leader *)
(* of the parent region, the child region it creates, and the writers that *)
(* keep sending autocommit DML while the split runs.                       *)
(*                                                                         *)
(*   start_process_split            create the child (version 0), propose  *)
(*                                  OP_START_SPLIT                         *)
(*   start_split (on apply)         split_start_index, RocksDB snapshot    *)
(*   write_local_rocksdb_for_split  copy the snapshot's upper half         *)
(*   send_log_entry_to_new_region_for_split                                *)
(*                                  ship log entries, raise the write      *)
(*                                  barrier, drain writers, ship the rest  *)
(*                                  up to split_end_index                  *)
(*   send_complete_to_new_region_for_split                                 *)
(*                                  OP_ADD_VERSION_FOR_SPLIT_REGION to the *)
(*                                  child (3 tries), propose               *)
(*                                  OP_VALIDATE_AND_ADD_VERSION            *)
(*   validate_and_add_version       the entry must be split_end_index + 1  *)
(*   complete_split                 lift the barrier, status IDLE          *)
(*   check_region_legal_complete    a child still at version 0 when the    *)
(*                                  split duration ends removes itself     *)
(*                                                                         *)
(* A tail split (tail_split) takes another path after the child is       *)
(* created:                                                                *)
(*                                                                         *)
(*   get_split_key_for_tail_split   raise the write barrier, drain        *)
(*                                  writers, propose OP_START_SPLIT_FOR_TAIL *)
(*   start_split_for_tail (apply)   split_end_index, split_key = the last *)
(*                                  row's key followed by 0xFF             *)
(*                                                                         *)
(* and then joins the normal path at send_complete_to_new_region_for_split.*)
(*                                                                         *)
(* Keys are small naturals ordered as RocksDB orders them; each writer     *)
(* inserts one row under its key.  The child owns the keys at or above     *)
(* split_key.                                                              *)
(***************************************************************************)
EXTENDS Naturals, Sequences, FiniteSets, FiniteSetsExt

CONSTANTS
    Writers,          \* autocommit DML requests (one row each)
    KeyOf,            \* [Writers -> Nat \ {0}]: the row's key
    SplitKey,         \* split_key the meta sends for a normal split
    AddVersionTries,  \* send_complete_to_new_region_for_split: retry_times < 3
    NoWriter

ASSUME KeyOf \in [Writers -> Nat \ {0}]
ASSUME SplitKey \in Nat \ {0}
ASSUME AddVersionTries \in Nat \ {0}
ASSUME NoWriter \notin Writers

\* Version every request carries: the parent's version before the split.
RequestVersion == 1

LogEntry == [t : {"W", "START", "TAIL", "VALIDATE"}, w : Writers \cup {NoWriter},
             end : Nat]

VARIABLES
    \* parent region (leader replica)
    plog,             \* its raft log
    p_applied,        \* _applied_index
    p_data,           \* rows in its RocksDB key range
    p_version,        \* _region_info.version()
    p_split,          \* end_key has become the split key
    region_status,    \* _region_control: "IDLE" | "DOING"
    disable_write,    \* _disable_write_cond raised by the split
    \* writers
    wpc,              \* how far each request got in exec_out_txn_query
    \* split coordinator (_split_param and the step it is at)
    sp,
    split_start_index,
    split_end_index,
    ship_next,        \* first log index not yet shipped to the child
    snap,             \* rows of the RocksDB snapshot taken by start_split
    tries,            \* failed OP_ADD_VERSION_FOR_SPLIT_REGION attempts
    split_key,        \* _split_param.split_key (0: the empty key)
    \* child region
    c_state,          \* "None" | "New" (version 0) | "Legal" (version 1)
                      \* | "Illegal" (split timeout) | "Removed"
    c_data

vars == <<plog, p_applied, p_data, p_version, p_split, region_status,
          disable_write, wpc, sp, split_start_index, split_end_index,
          ship_next, snap, tries, split_key, c_state, c_data>>
parent == <<plog, p_applied, p_data, p_version, p_split>>
split  == <<sp, split_start_index, split_end_index, ship_next, snap, tries,
           split_key>>
child  == <<c_state, c_data>>

Steps == {"Idle", "StartProposed", "Started", "Catchup", "Disabled",
          "AddVersion", "ValidateProposed", "Validated", "Rejected",
          "Done", "Failed", "TailDisabled", "TailProposed"}

TypeOK ==
    /\ plog \in Seq(LogEntry)
    /\ p_applied \in 0..Len(plog)
    /\ p_data \subseteq Writers
    /\ p_version \in {RequestVersion, RequestVersion + 1}
    /\ p_split \in BOOLEAN
    /\ region_status \in {"IDLE", "DOING"}
    /\ disable_write \in BOOLEAN
    /\ wpc \in [Writers -> {"Idle", "Passed", "Counted", "Proposed",
                            "Acked", "Failed"}]
    /\ sp \in Steps
    /\ split_start_index \in Nat /\ split_end_index \in Nat
    /\ ship_next \in Nat
    /\ snap \subseteq Writers
    /\ tries \in 0..AddVersionTries - 1
    /\ split_key \in Nat
    /\ c_state \in {"None", "New", "Legal", "Illegal", "Removed"}
    /\ c_data \subseteq Writers

Init ==
    /\ plog = <<>>
    /\ p_applied = 0
    /\ p_data = {}
    /\ p_version = RequestVersion
    /\ p_split = FALSE
    /\ region_status = "IDLE"
    /\ disable_write = FALSE
    /\ wpc = [w \in Writers |-> "Idle"]
    /\ sp = "Idle"
    /\ split_start_index = 0 /\ split_end_index = 0 /\ ship_next = 0
    /\ snap = {}
    /\ tries = 0
    /\ split_key = 0
    /\ c_state = "None"
    /\ c_data = {}

\* Writers counted by _real_writing_cond: from increase() on.  An early
\* return decreases it through the ScopeGuard; a proposed request releases
\* the guard (auto_decrease.release()) and its DMLClosure decreases it
\* after the entry is applied.
RealWriting == {w \in Writers : wpc[w] \in {"Counted", "Proposed"}}

\* A row whose key is at or above the split key belongs to the child.
InChild(w) == KeyOf[w] >= split_key

NextEntry == plog[p_applied + 1]
CanApply == p_applied < Len(plog)

-----------------------------------------------------------------------------
(* Writers: exec_out_txn_query for OP_INSERT/DELETE/UPDATE.                *)

\* _disable_write_cond.timed_wait returns at once while no split holds the
\* barrier.  The increase of _real_writing_cond is the next statement, a
\* separate step: the split may raise the barrier and drain the writers in
\* between.
WriterPass(w) ==
    /\ wpc[w] = "Idle"
    /\ ~disable_write
    /\ wpc' = [wpc EXCEPT ![w] = "Passed"]
    /\ UNCHANGED <<parent, region_status, disable_write, split, child>>

\* The barrier is up and stays up for the whole wait: DISABLE_WRITE_TIMEOUT
\* (the increase and the scope guard's decrease cancel out).
WriterTimeout(w) ==
    /\ wpc[w] = "Idle"
    /\ disable_write
    /\ wpc' = [wpc EXCEPT ![w] = "Failed"]
    /\ UNCHANGED <<parent, region_status, disable_write, split, child>>

\* _real_writing_cond.increase() after the wait returned.
WriterCount(w) ==
    /\ wpc[w] = "Passed"
    /\ wpc' = [wpc EXCEPT ![w] = "Counted"]
    /\ UNCHANGED <<parent, region_status, disable_write, split, child>>

\* validate_version: VERSION_OLD when the request's version is below the
\* region's (the ScopeGuard decreases _real_writing_cond); otherwise the
\* request is proposed (_node.apply) and stays counted.
WriterPropose(w) ==
    /\ wpc[w] = "Counted"
    /\ IF RequestVersion < p_version
         THEN /\ wpc' = [wpc EXCEPT ![w] = "Failed"]
              /\ UNCHANGED plog
         ELSE /\ plog' = Append(plog, [t |-> "W", w |-> w, end |-> 0])
              /\ wpc' = [wpc EXCEPT ![w] = "Proposed"]
    /\ UNCHANGED <<p_applied, p_data, p_version, p_split, region_status,
                   disable_write, split, child>>

-----------------------------------------------------------------------------
(* Parent apply (on_apply).                                                *)

\* on_apply -> dml_1pc: the row is written (dml_1pc checks no version)
\* and the DMLClosure answers SUCCESS; the closure also decreases
\* _real_writing_cond.
ApplyWrite ==
    /\ CanApply
    /\ NextEntry.t = "W"
    /\ p_data' = p_data \cup {NextEntry.w}
    /\ wpc' = [wpc EXCEPT ![NextEntry.w] = "Acked"]
    /\ p_applied' = p_applied + 1
    /\ UNCHANGED <<plog, p_version, p_split, region_status, disable_write,
                   split, child>>

\* start_split: split_start_index = index + 1, the split term and a RocksDB
\* snapshot of everything applied so far.
ApplyStartSplit ==
    /\ CanApply
    /\ NextEntry.t = "START"
    /\ split_start_index' = p_applied + 2
    /\ snap' = p_data
    /\ sp' = "Started"
    /\ p_applied' = p_applied + 1
    /\ UNCHANGED <<plog, p_data, p_version, p_split, region_status,
                   disable_write, wpc, split_end_index, ship_next, tries,
                   split_key, child>>

\* start_split_for_tail on the leader: split_end_index is this entry's
\* index and the split key is the last row's key followed by 0xFF, so every
\* row applied so far stays in the parent.  With no row the SplitClosure
\* gets ret = -1; otherwise its next step is
\* send_complete_to_new_region_for_split.
ApplyStartSplitForTail ==
    /\ CanApply
    /\ NextEntry.t = "TAIL"
    /\ split_end_index' = p_applied + 1
    /\ IF p_data = {}
         THEN /\ sp' = "Rejected"
              /\ UNCHANGED split_key
         ELSE /\ split_key' = Max({KeyOf[w] : w \in p_data}) + 1
              /\ sp' = "AddVersion"
    /\ p_applied' = p_applied + 1
    /\ UNCHANGED <<plog, p_data, p_version, p_split, region_status,
                   disable_write, wpc, split_start_index, ship_next, snap,
                   tries, child>>

\* validate_and_add_version: only if this entry directly follows
\* split_end_index (in the split term) does the parent take the new
\* version and end_key = split_key; otherwise the child is removed.
ApplyValidate ==
    /\ CanApply
    /\ NextEntry.t = "VALIDATE"
    /\ IF NextEntry.end + 1 = p_applied + 1
         THEN /\ p_version' = p_version + 1
              /\ p_split' = TRUE
              /\ sp' = "Validated"
              /\ UNCHANGED c_state
         ELSE /\ sp' = "Rejected"
              /\ c_state' = "Removed"
              /\ UNCHANGED <<p_version, p_split>>
    /\ p_applied' = p_applied + 1
    /\ UNCHANGED <<plog, p_data, region_status, disable_write, wpc,
                   split_start_index, split_end_index, ship_next, snap,
                   tries, split_key, c_data>>
-----------------------------------------------------------------------------
(* The split coordinator on the parent's leader.                           *)

\* Variant for mutation analysis: the barrier is not lifted on failure.
SplitFailMut ==
    /\ sp' = "Failed"
    /\ region_status' = "IDLE"
    /\ UNCHANGED disable_write

\* ScopeProcStatus's destructor on every early return: region status back
\* to IDLE and the write barrier lifted.
SplitFail ==
    /\ sp' = "Failed"
    /\ region_status' = "IDLE"
    /\ disable_write' = FALSE

\* start_process_split: IDLE -> DOING; a normal split takes the meta's
\* split_key; init_region_to_store creates the child (version 0, status
\* DOING).  A normal split then proposes OP_START_SPLIT; a tail split calls
\* get_split_key_for_tail_split, which raises the write barrier
\* (_disable_write_cond.increase).  If the child cannot be created the
\* split stops there.
StartProcessSplit ==
    /\ sp = "Idle"
    /\ region_status = "IDLE"
    /\ \E tail_split \in BOOLEAN :
         /\ split_key' = IF tail_split THEN split_key ELSE SplitKey
         /\ \/ /\ region_status' = "DOING"
               /\ c_state' = "New"
               /\ \/ /\ ~tail_split
                     /\ plog' = Append(plog, [t |-> "START", w |-> NoWriter,
                                              end |-> 0])
                     /\ sp' = "StartProposed"
                     /\ UNCHANGED disable_write
                  \/ /\ tail_split
                     /\ disable_write' = TRUE
                     /\ sp' = "TailDisabled"
                     /\ UNCHANGED plog
            \/ /\ SplitFail
               /\ UNCHANGED <<plog, c_state>>
    /\ UNCHANGED <<p_applied, p_data, p_version, p_split, wpc,
                   split_start_index, split_end_index, ship_next, snap,
                   tries, c_data>>

\* get_split_key_for_tail_split: _real_writing_cond.timed_wait under the
\* barrier; with no writer counted, OP_START_SPLIT_FOR_TAIL is proposed,
\* on timeout ScopeProcStatus cleans up.
WaitWritersForTail ==
    /\ sp = "TailDisabled"
    /\ \/ /\ RealWriting = {}
          /\ plog' = Append(plog, [t |-> "TAIL", w |-> NoWriter, end |-> 0])
          /\ sp' = "TailProposed"
          /\ UNCHANGED <<region_status, disable_write>>
       \/ /\ RealWriting # {}
          /\ SplitFail
          /\ UNCHANGED plog
    /\ UNCHANGED <<p_applied, p_data, p_version, p_split, wpc,
                   split_start_index, split_end_index, ship_next, snap,
                   tries, split_key, child>>

\* write_local_rocksdb_for_split: the rows of the snapshot that lie in the
\* child's range are written to the child; shipping starts at
\* split_start_index.
WriteLocalRocksdbForSplit ==
    /\ sp = "Started"
    /\ c_data' = {w \in snap : InChild(w)}
    /\ ship_next' = split_start_index
    /\ sp' = "Catchup"
    /\ UNCHANGED <<parent, region_status, disable_write, wpc,
                   split_start_index, split_end_index, snap, tries, split_key, c_state>>

\* get_log_entry_for_split reads the parent's log from a start index to its
\* end; the child executes each entry and keeps the rows in its range.
Shipped(from) ==
    {plog[i].w : i \in {j \in from..Len(plog) :
                          plog[j].t = "W" /\ InChild(plog[j].w)}}

\* send_log_entry_to_new_region_for_split, one pass of the catch-up loop
\* that runs before writes are disabled.
SendLogEntries ==
    /\ sp = "Catchup"
    /\ ship_next <= Len(plog)
    /\ c_data' = c_data \cup Shipped(ship_next)
    /\ ship_next' = Len(plog) + 1
    /\ UNCHANGED <<parent, region_status, disable_write, wpc, sp,
                   split_start_index, split_end_index, snap, tries, split_key, c_state>>

\* End of the catch-up loop: _disable_write_cond.increase().
DisableWrite ==
    /\ sp = "Catchup"
    /\ disable_write' = TRUE
    /\ sp' = "Disabled"
    /\ UNCHANGED <<parent, region_status, wpc, split_start_index,
                   split_end_index, ship_next, snap, tries, split_key, child>>

\* Variant for mutation analysis: the split does not wait for the writers
\* counted by _real_writing_cond.
WaitWritersMut ==
    /\ sp = "Disabled"
    /\ c_data' = c_data \cup Shipped(ship_next)
    /\ split_end_index' = Len(plog)
    /\ ship_next' = Len(plog) + 1
    /\ sp' = "AddVersion"
    /\ UNCHANGED <<parent, region_status, disable_write, wpc,
                   split_start_index, snap, tries, split_key, c_state>>

\* _real_writing_cond.timed_wait returned 0: no writer is between its
\* increase and its closure.  The rest of the log is read and shipped and
\* its last index becomes split_end_index.
WaitWriters ==
    /\ sp = "Disabled"
    /\ RealWriting = {}
    /\ c_data' = c_data \cup Shipped(ship_next)
    /\ split_end_index' = Len(plog)
    /\ ship_next' = Len(plog) + 1
    /\ sp' = "AddVersion"
    /\ UNCHANGED <<parent, region_status, disable_write, wpc,
                   split_start_index, snap, tries, split_key, c_state>>

\* _real_writing_cond.timed_wait timed out with writers still counted.
WaitWritersTimeout ==
    /\ sp = "Disabled"
    /\ RealWriting # {}
    /\ SplitFail
    /\ UNCHANGED <<parent, wpc, split_start_index, split_end_index,
                   ship_next, snap, tries, split_key, child>>

\* A step of the coordinator returns early (not leader, RPC to the child
\* failed, no snapshot): ScopeProcStatus cleans up; the child is left at
\* version 0 for check_region_legal_complete.
SplitAbort ==
    /\ sp \in {"Started", "Catchup", "Disabled", "TailDisabled"}
    /\ SplitFail
    /\ UNCHANGED <<parent, wpc, split_start_index, split_end_index,
                   ship_next, snap, tries, split_key, child>>

\* One attempt of the loop in send_complete_to_new_region_for_split.  The
\* child's query first runs validate_version (a child already at version 1
\* answers VERSION_OLD), otherwise it applies OP_ADD_VERSION_FOR_SPLIT_REGION:
\* compare_and_set_legal_for_split fails with SPLIT_TIMEOUT once
\* check_region_legal_complete has made it illegal.  The RPC may fail after
\* the child applied the request.
AddVersionResult(applied) ==
    IF applied /\ c_state = "New" THEN "Legal" ELSE c_state

\* SUCCESS and VERSION_OLD both end the loop; then OP_VALIDATE_AND_ADD_VERSION
\* is proposed with split_end_index.  After the last failed attempt the child
\* is removed (start_thread_to_remove_region) and ScopeProcStatus cleans up.
\* Variant for mutation analysis: an off-by-one in retry_times < 3.
SendCompleteMut ==
    /\ sp = "AddVersion"
    /\ \E applied, replied \in BOOLEAN :
         LET cs == AddVersionResult(applied) IN
         \/ /\ replied /\ cs = "Legal"
            /\ c_state' = cs
            /\ plog' = Append(plog, [t |-> "VALIDATE", w |-> NoWriter,
                                     end |-> split_end_index])
            /\ sp' = "ValidateProposed"
            /\ UNCHANGED <<tries, region_status, disable_write>>
         \/ /\ ~(replied /\ cs = "Legal")
            /\ tries + 1 <= AddVersionTries
            /\ c_state' = cs
            /\ tries' = tries + 1
            /\ UNCHANGED <<plog, sp, region_status, disable_write>>
         \/ /\ ~(replied /\ cs = "Legal")
            /\ tries + 1 > AddVersionTries
            /\ c_state' = "Removed"
            /\ SplitFail
            /\ UNCHANGED <<plog, tries>>
    /\ UNCHANGED <<p_applied, p_data, p_version, p_split, wpc,
                   split_start_index, split_end_index, ship_next, snap, split_key, c_data>>

\* Variant for mutation analysis: any answer of the child ends the loop
\* (SPLIT_TIMEOUT taken for success).
SendCompleteAnyReply ==
    /\ sp = "AddVersion"
    /\ \E applied, replied \in BOOLEAN :
         LET cs == AddVersionResult(applied) IN
         \/ /\ replied
            /\ c_state' = cs
            /\ plog' = Append(plog, [t |-> "VALIDATE", w |-> NoWriter,
                                     end |-> split_end_index])
            /\ sp' = "ValidateProposed"
            /\ UNCHANGED <<tries, region_status, disable_write>>
         \/ /\ ~replied
            /\ tries + 1 < AddVersionTries
            /\ c_state' = cs
            /\ tries' = tries + 1
            /\ UNCHANGED <<plog, sp, region_status, disable_write>>
         \/ /\ ~replied
            /\ tries + 1 = AddVersionTries
            /\ c_state' = "Removed"
            /\ SplitFail
            /\ UNCHANGED <<plog, tries>>
    /\ UNCHANGED <<p_applied, p_data, p_version, p_split, wpc,
                   split_start_index, split_end_index, ship_next, snap, split_key, c_data>>

SendComplete ==
    /\ sp = "AddVersion"
    /\ \E applied, replied \in BOOLEAN :
         LET cs == AddVersionResult(applied) IN
         \/ /\ replied /\ cs = "Legal"
            /\ c_state' = cs
            /\ plog' = Append(plog, [t |-> "VALIDATE", w |-> NoWriter,
                                     end |-> split_end_index])
            /\ sp' = "ValidateProposed"
            /\ UNCHANGED <<tries, region_status, disable_write>>
         \/ /\ ~(replied /\ cs = "Legal")
            /\ tries + 1 < AddVersionTries
            /\ c_state' = cs
            /\ tries' = tries + 1
            /\ UNCHANGED <<plog, sp, region_status, disable_write>>
         \/ /\ ~(replied /\ cs = "Legal")
            /\ tries + 1 = AddVersionTries
            /\ c_state' = "Removed"
            /\ SplitFail
            /\ UNCHANGED <<plog, tries>>
    /\ UNCHANGED <<p_applied, p_data, p_version, p_split, wpc,
                   split_start_index, split_end_index, ship_next, snap, split_key, c_data>>

\* complete_split: the ScopeProcStatus taken over from the earlier steps is
\* destroyed: status IDLE, writes allowed again.
CompleteSplit ==
    /\ sp = "Validated"
    /\ sp' = "Done"
    /\ region_status' = "IDLE"
    /\ disable_write' = FALSE
    /\ UNCHANGED <<parent, wpc, split_start_index, split_end_index,
                   ship_next, snap, tries, split_key, child>>

\* validate_and_add_version rejected the entry, or start_split_for_tail
\* found no row: the SplitClosure gets ret = -1 and the split ends.
RejectSplit ==
    /\ sp = "Rejected"
    /\ SplitFail
    /\ UNCHANGED <<parent, wpc, split_start_index, split_end_index,
                   ship_next, snap, tries, split_key, child>>

-----------------------------------------------------------------------------
(* The child region.                                                       *)

\* check_region_legal_complete: split_duration passed and the version is
\* still 0, so compare_and_set_illegal succeeds and the region removes
\* itself.
ChildTimeout ==
    /\ c_state = "New"
    /\ c_state' = "Illegal"
    /\ UNCHANGED <<parent, region_status, disable_write, wpc, split, c_data>>

-----------------------------------------------------------------------------
WriterSteps == \E w \in Writers : WriterPass(w) \/ WriterTimeout(w)
                                  \/ WriterCount(w) \/ WriterPropose(w)

ApplySteps == ApplyWrite \/ ApplyStartSplit \/ ApplyStartSplitForTail
              \/ ApplyValidate

SplitSteps == WriteLocalRocksdbForSplit \/ SendLogEntries \/ DisableWrite
              \/ WaitWriters \/ WaitWritersTimeout \/ WaitWritersForTail
              \/ SendComplete
              \/ CompleteSplit \/ RejectSplit

Next ==
    \/ WriterSteps
    \/ ApplySteps
    \/ StartProcessSplit
    \/ SplitSteps
    \/ SplitAbort
    \/ ChildTimeout

\* braft keeps applying committed entries; the split runs in its own
\* bthread until it returns; a writer's bthread, once past the barrier, goes
\* on to _node.apply; the child's check_region_legal_complete loop wakes up
\* every 10 s.  Starting a split, new requests and the early returns of the
\* split steps are left to chance.
Fairness ==
    /\ WF_vars(ApplySteps)
    /\ WF_vars(WriteLocalRocksdbForSplit \/ SendLogEntries \/ DisableWrite)
    /\ WF_vars(WaitWriters \/ WaitWritersTimeout \/ WaitWritersForTail)
    /\ WF_vars(SendComplete)
    /\ WF_vars(CompleteSplit \/ RejectSplit)
    /\ WF_vars(ChildTimeout)
    /\ \A w \in Writers : WF_vars(WriterCount(w) \/ WriterPropose(w))

Spec == Init /\ [][Next]_vars /\ Fairness

-----------------------------------------------------------------------------
(* Properties.                                                             *)

\* A write answered SUCCESS can be read where the key now lives: in the
\* parent, or, for a key above the split key once the parent's end_key has
\* moved, in the child.  This is what the write barrier, the shipping of
\* the log up to split_end_index, the index check of
\* validate_and_add_version and the second validate_version in dml_1pc
\* together must guarantee.
AckedWritesReadable ==
    \A w \in Writers :
        wpc[w] = "Acked" =>
            w \in (IF InChild(w) /\ p_split THEN c_data ELSE p_data)

\* Once the parent has given up the upper half of its range, the child
\* holds it as a legal region: it never timed out or was removed.
ChildOwnsRange == p_split => c_state = "Legal"

\* Every split that started ends, the write barrier and region status are
\* released, and the child is legal exactly when the split succeeded.
SplitSettles ==
    sp # "Idle" ~>
        /\ sp \in {"Done", "Failed"}
        /\ ~disable_write
        /\ region_status = "IDLE"
        /\ (c_state = "Legal" <=> sp = "Done")
====
