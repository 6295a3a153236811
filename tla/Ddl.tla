--------------------------------- MODULE Ddl ---------------------------------
(***************************************************************************)
(* Online add / drop of a secondary index on one table: the meta server's *)
(* DDL job (src/src/meta_server/table_manager.cpp) and each region peer's *)
(* ddlwork (src/src/store/region.cpp), which talk through store           *)
(* heartbeats.                                                             *)
(*                                                                         *)
(*   add_index / drop_index       create the job (one per table), with     *)
(*                                begin_timestamp = the current second     *)
(*   process_ddl_heartbeat_for_store                                       *)
(*                                record each peer's reported job_state;   *)
(*                                when every region reports the expected   *)
(*                                state, move the index one state on       *)
(*                                (update_index_status); answer with the   *)
(*                                job; a reported rollback deletes the job *)
(*                                and, for an add, drops the index         *)
(*   ddlwork_process              on a peer: adopt or discard the job by   *)
(*                                begin_timestamp, take the region status  *)
(*                                IDLE -> DOING, follow the index state of *)
(*                                the local schema, start the backfill at  *)
(*                                WRITE_LOCAL / the range delete at        *)
(*                                DELETE_LOCAL                             *)
(*   start_add_index / write_local_rocksdb_for_ddl                         *)
(*   start_drop_index / delete_local_rocksdb_for_ddl                       *)
(*                                the two background bthreads              *)
(*   ddlwork_finish_check_process drop a ddlwork the meta no longer has    *)
(*                                                                         *)
(* Rows are abstracted to one backfill step that succeeds or fails; a     *)
(* split or merge of the region is an "other" structural operation that   *)
(* takes the same status gate.                                             *)
(***************************************************************************)
EXTENDS Integers, FiniteSets

CONSTANTS
    Peers,       \* region peers of the table (one store each)
    MaxJobs,     \* add_index / drop_index requests accepted
    MaxTs,       \* seconds the clock may advance (begin_timestamp)
    MaxOther,    \* splits / merges started on each peer
    Slots,       \* start_add_index bthreads that may run at once on a peer
    NoJob, NoWork, NoResp

ASSUME MaxJobs \in Nat /\ MaxTs \in Nat /\ MaxOther \in Nat

States == {"NONE", "DELETE_ONLY", "WRITE_ONLY", "WRITE_LOCAL", "PUBLIC",
           "DELETE_LOCAL"}
Absent == "ABSENT"       \* the index is not in the schema
Ops == {"ADD", "DROP"}
Ts == 1..MaxTs
Jids == 1..MaxJobs + 1
Iids == 1..MaxJobs       \* index ids handed out (max_table_id)

\* A ddlwork as the store keeps it and the heartbeat response carries it,
\* with the index_id it is about.  jid names the meta job it was copied
\* from (not a field of the code).
Work == [op : Ops, ts : Ts, js : States, rb : BOOLEAN, iid : Iids, jid : Jids]

VARIABLES
    \* meta server
    idx,         \* the index's state in the table's schema_pb
    iid,         \* its index_id (the last one handed out; 0: none yet)
    job,         \* _table_ddlinfo_map entry: the DdlWorkMem
    ws,          \* its region_ddl_infos: each peer's reported workstate
    clock,       \* time(nullptr) in seconds
    njobs,
    \* region peers
    sstate,      \* the index state in the peer's SchemaFactory
    sid,         \* the index_id it has there
    work,        \* _region_ddl_info.ddlwork_infos(0)
    status,      \* _region_control
    is_start,    \* _ddl_param.is_start
    pts,         \* _ddl_param.begin_timestamp (0 after reset())
    dcount,      \* _ddl_param.disconnect_count (3 stands for > 2)
    bf,          \* the start_add_index bthread
    bf_ok,       \* its is_success
    bjid,        \* the job whose backfill it runs
    built,       \* jobs whose backfill ran to the end on the peer
    dbf,         \* the start_drop_index bthread
    resp,        \* the heartbeat response on its way to the peer
    other,       \* a split or merge holds the status
    nother

meta  == <<idx, iid, job, ws, clock, njobs>>
store == <<sstate, sid, work, status, is_start, pts, dcount, bf, bf_ok, bjid,
           built, dbf, resp, other, nother>>
vars  == <<meta, store>>

\* DdlWorkMem.work_info.  Its job_state always equals idx here, since
\* update_index_status is applied in the same step that decides it.
Job == [op : Ops, ts : Ts, rollback : BOOLEAN, iid : Iids, jid : Jids]

TypeOK ==
    /\ idx \in States \cup {Absent} /\ iid \in 0..MaxJobs
    /\ job \in Job \cup {NoJob}
    /\ ws \in [Peers -> States \cup {"UNKNOWN"}]
    /\ clock \in Ts /\ njobs \in 0..MaxJobs + 1
    /\ sstate \in [Peers -> States \cup {Absent}]
    /\ sid \in [Peers -> 0..MaxJobs]
    /\ work \in [Peers -> Work \cup {NoWork}]
    /\ status \in [Peers -> {"IDLE", "DOING"}]
    /\ is_start \in [Peers -> BOOLEAN]
    /\ pts \in [Peers -> {0} \cup Ts]
    /\ dcount \in [Peers -> 0..3]
    /\ bf \in [Peers -> [Slots -> {"None", "Start", "Acquire", "Row", "Exit"}]]
    /\ bf_ok \in [Peers -> [Slots -> BOOLEAN]]
    /\ bjid \in [Peers -> [Slots -> {0} \cup Jids]]
    /\ built \in [Peers -> SUBSET Jids]
    /\ dbf \in [Peers -> {"None", "Start", "Run"}]
    /\ resp \in [Peers -> Work \cup {NoResp}]
    /\ other \in [Peers -> BOOLEAN]
    /\ nother \in [Peers -> 0..MaxOther]

\* A table with no index being built: the first request creates it.
Init ==
    /\ idx = Absent /\ iid = 0 /\ job = NoJob /\ ws = [p \in Peers |-> "UNKNOWN"]
    /\ clock = 1 /\ njobs = 0
    /\ sstate = [p \in Peers |-> Absent] /\ sid = [p \in Peers |-> 0]
    /\ work = [p \in Peers |-> NoWork]
    /\ status = [p \in Peers |-> "IDLE"]
    /\ is_start = [p \in Peers |-> FALSE]
    /\ pts = [p \in Peers |-> 0]
    /\ dcount = [p \in Peers |-> 0]
    /\ bf = [p \in Peers |-> [k \in Slots |-> "None"]]
    /\ bf_ok = [p \in Peers |-> [k \in Slots |-> FALSE]]
    /\ bjid = [p \in Peers |-> [k \in Slots |-> 0]]
    /\ built = [p \in Peers |-> {}]
    /\ dbf = [p \in Peers |-> "None"]
    /\ resp = [p \in Peers |-> NoResp]
    /\ other = [p \in Peers |-> FALSE] /\ nother = [p \in Peers |-> 0]

\* DdlHelper (not in the repository): a peer may take up a job only before
\* its working state (WRITE_LOCAL / DELETE_LOCAL); a drop of an index in
\* DELETE_ONLY or NONE needs no store work (drop_index's comment).
CanInitDdlwork(op, s) ==
    IF op = "ADD" THEN s \in {"NONE", "DELETE_ONLY", "WRITE_ONLY"}
                  ELSE s \in {"PUBLIC", "WRITE_LOCAL", "WRITE_ONLY"}

DdlworkIsFinish(op, s) ==
    IF op = "ADD" THEN s = "PUBLIC" ELSE s = "NONE"

-----------------------------------------------------------------------------
(* Meta server: requests.                                                  *)

Unknown == [p \in Peers |-> "UNKNOWN"]

\* init_ddlwork / init_region_ddlwork: begin_timestamp is the current
\* second, every region of the table starts at IS_UNKNOWN.
NewJob(op, id) == [op |-> op, ts |-> clock, rollback |-> FALSE, iid |-> id,
                   jid |-> njobs + 1]

\* check_index: an index of the same name and fields may be rebuilt, with
\* its index_id, only from NONE, DELETE_ONLY or DELETE_LOCAL (1); in any
\* other state the request is refused (-1); an index not in the schema is
\* new (0).
CheckIndex ==
    CASE idx \in {"NONE", "DELETE_ONLY", "DELETE_LOCAL"} -> 1
      [] idx = Absent                                    -> 0
      [] OTHER                                           -> -1

\* add_index: refused while the table has a job or when check_index
\* refuses; a rebuild keeps the index_id, a new index gets
\* ++max_table_id.  The index starts at NONE.
AddIndex ==
    /\ njobs < MaxJobs
    /\ job = NoJob
    /\ CheckIndex # -1
    /\ iid' = IF CheckIndex = 1 THEN iid ELSE iid + 1
    /\ job' = NewJob("ADD", iid')
    /\ njobs' = njobs + 1
    /\ idx' = "NONE"
    /\ ws' = Unknown
    /\ UNCHANGED <<clock, store>>

\* drop_index with no job on the table: an index in DELETE_ONLY or NONE is
\* deleted from the schema at once; any other gets a DROP job that starts
\* at the index's state.
DropIndexJob ==
    IF idx \in {"DELETE_ONLY", "NONE"}
      THEN /\ idx' = Absent /\ job' = NoJob
           /\ UNCHANGED <<ws, njobs>>
      ELSE /\ job' = NewJob("DROP", iid) /\ njobs' = njobs + 1
           /\ ws' = Unknown
           /\ UNCHANGED idx

DropIndex ==
    /\ njobs < MaxJobs
    /\ job = NoJob
    /\ idx # Absent
    /\ DropIndexJob
    /\ UNCHANGED <<iid, clock, store>>

Tick ==
    /\ clock < MaxTs
    /\ clock' = clock + 1
    /\ UNCHANGED <<idx, iid, job, ws, njobs, store>>

-----------------------------------------------------------------------------
(* Meta server: a store heartbeat carrying peer p's ddlwork.               *)

\* process_ddl_common_init: the job as a new store takes it up.
JobInfo(j) == [op |-> j.op, ts |-> j.ts, js |-> idx, rb |-> FALSE,
               iid |-> j.iid, jid |-> j.jid]

\* Mutant: an ADD at WRITE_LOCAL waits for WRITE_LOCAL, not PUBLIC, reports.
StepOfMut(op, s) ==
    IF op = "ADD"
      THEN CASE s = "NONE"         -> <<"NONE", "DELETE_ONLY">>
             [] s = "DELETE_LOCAL" -> <<"DELETE_LOCAL", "WRITE_ONLY">>
             [] s = "DELETE_ONLY"  -> <<"DELETE_ONLY", "WRITE_ONLY">>
             [] s = "WRITE_ONLY"   -> <<"WRITE_ONLY", "WRITE_LOCAL">>
             [] s = "WRITE_LOCAL"  -> <<"WRITE_LOCAL", "PUBLIC">>
      ELSE CASE s = "PUBLIC"       -> <<"PUBLIC", "WRITE_ONLY">>
             [] s = "WRITE_LOCAL"  -> <<"WRITE_LOCAL", "WRITE_ONLY">>
             [] s = "WRITE_ONLY"   -> <<"WRITE_ONLY", "DELETE_ONLY">>
             [] s = "DELETE_ONLY"  -> <<"DELETE_ONLY", "DELETE_LOCAL">>
             [] s = "DELETE_LOCAL" -> <<"NONE", "NONE">>

\* process_ddl_add_index_process / process_ddl_del_index_process: for the
\* current index state, the state every region must report and the state
\* the index then moves to.
StepOf(op, s) ==
    IF op = "ADD"
      THEN CASE s = "NONE"         -> <<"NONE", "DELETE_ONLY">>
             [] s = "DELETE_LOCAL" -> <<"DELETE_LOCAL", "WRITE_ONLY">>
             [] s = "DELETE_ONLY"  -> <<"DELETE_ONLY", "WRITE_ONLY">>
             [] s = "WRITE_ONLY"   -> <<"WRITE_ONLY", "WRITE_LOCAL">>
             [] s = "WRITE_LOCAL"  -> <<"PUBLIC", "PUBLIC">>
      ELSE CASE s = "PUBLIC"       -> <<"PUBLIC", "WRITE_ONLY">>
             [] s = "WRITE_LOCAL"  -> <<"WRITE_LOCAL", "WRITE_ONLY">>
             [] s = "WRITE_ONLY"   -> <<"WRITE_ONLY", "DELETE_ONLY">>
             [] s = "DELETE_ONLY"  -> <<"DELETE_ONLY", "DELETE_LOCAL">>
             [] s = "DELETE_LOCAL" -> <<"NONE", "NONE">>

\* States in which the job has a step.  At the others an ADD only logs and
\* a DROP is deleted with its index (process_ddl_del_index_process, IS_NONE);
\* neither is reached here, since the last step deletes the job.
Stepping(op, s) ==
    s \in IF op = "ADD" THEN States \ {"PUBLIC"} ELSE States \ {"NONE"}

\* process_ddl_update_job_index: if every region reports the expected
\* state the index moves on (update_index_status); the answer carries the
\* index state unless the job is finished.  At the last step the job is
\* deleted (OP_DELETE_DDLWORK), and a finished drop deletes the index.
ProcessJob(p, j, w) ==
    LET st   == StepOf(j.op, idx)
        done == \A q \in Peers : w[q] = st[1]
        next == IF done THEN st[2] ELSE idx
        fin  == done /\ DdlworkIsFinish(j.op, st[2])
    IN /\ idx' = IF fin /\ j.op = "DROP" THEN Absent ELSE next
       /\ job' = IF fin THEN NoJob ELSE j
       /\ ws'  = IF fin THEN Unknown ELSE w
       /\ resp' = IF fin THEN resp
                  ELSE [resp EXCEPT ![p] = [op |-> j.op, ts |-> j.ts, js |-> next,
                                            rb |-> j.rollback, iid |-> j.iid,
                                            jid |-> j.jid]]

\* Mutant: a rolled-back DROP job is never deleted.
RollbackDdlworkMut(j) ==
    /\ IF j.op = "ADD"
         THEN DropIndexJob
         ELSE UNCHANGED <<job, ws, idx, njobs>>
    /\ UNCHANGED resp

\* rollback_ddlwork: delete the job; an ADD is undone by drop_index.
RollbackDdlwork(j) ==
    /\ IF j.op = "ADD"
         THEN DropIndexJob
         ELSE /\ job' = NoJob /\ ws' = Unknown /\ UNCHANGED <<idx, njobs>>
    /\ UNCHANGED resp

\* process_ddl_heartbeat_for_store for one peer: init_ddlwork_for_store
\* for a peer that reports no work, common_update_ddlwork_info_heartbeat_
\* for_store (a reported rollback marks the job, a reported state is
\* recorded), then the job's own step.  The answer is sent back as resp.
Heartbeat(p) ==
    /\ job # NoJob
    /\ resp[p] = NoResp
    /\ LET rep  == work[p]
           same == rep # NoWork /\ rep.ts = job.ts
           j1   == IF same /\ rep.rb THEN [job EXCEPT !.rollback = TRUE] ELSE job
           w1   == IF same /\ ~rep.rb THEN [ws EXCEPT ![p] = rep.js] ELSE ws
       IN \/ /\ rep = NoWork
             /\ resp' = IF CanInitDdlwork(job.op, idx)
                          THEN [resp EXCEPT ![p] = JobInfo(job)] ELSE resp
             /\ UNCHANGED <<idx, job, ws, njobs>>
          \/ /\ rep # NoWork /\ ~same
             /\ resp' = [resp EXCEPT ![p] = JobInfo(job)]
             /\ UNCHANGED <<idx, job, ws, njobs>>
          \/ /\ same /\ j1.rollback
             /\ RollbackDdlwork(j1)
          \/ /\ same /\ ~j1.rollback
             /\ \/ /\ Stepping(j1.op, idx)
                   /\ ProcessJob(p, j1, w1)
                \/ /\ ~Stepping(j1.op, idx) /\ j1.op = "ADD"
                   /\ ws' = w1
                   /\ UNCHANGED <<idx, job, resp>>
                \/ /\ ~Stepping(j1.op, idx) /\ j1.op = "DROP"
                   /\ idx' = Absent /\ job' = NoJob /\ ws' = Unknown
                   /\ UNCHANGED resp
             /\ UNCHANGED njobs
    /\ UNCHANGED <<iid, clock, sstate, sid, work, status, is_start, pts, dcount, bf,
                   bf_ok, bjid, built, dbf, other, nother>>

\* The schema heartbeat (process_schema_heartbeat_for_store): a peer whose
\* table version is older receives the whole current schema.
SchemaSync(p) ==
    /\ sstate[p] # idx \/ sid[p] # iid
    /\ sstate' = [sstate EXCEPT ![p] = idx]
    /\ sid' = [sid EXCEPT ![p] = iid]
    /\ UNCHANGED <<meta, work, status, is_start, pts, dcount, bf, bf_ok, bjid,
                   built, dbf, resp, other, nother>>

-----------------------------------------------------------------------------
(* Region peer: ddlwork_process on a heartbeat response.                   *)

\* _ddl_param.reset(): is_start, begin_timestamp and disconnect_count.
ResetDdlParam(p) ==
    /\ is_start' = [is_start EXCEPT ![p] = FALSE]
    /\ pts' = [pts EXCEPT ![p] = 0]
    /\ dcount' = [dcount EXCEPT ![p] = 0]

\* ddl_schema_state: the state, in the peer's schema, of the index whose
\* index_id the held ddlwork names; Absent (return -1) when the schema has
\* no index of that id.
SchemaState(p, id) == IF sid[p] = id THEN sstate[p] ELSE Absent

\* Mutant: the local schema state is used without checking that
\* ddl_schema_state found the index.
FollowSchemaMut(p, op, w, started) ==
    LET s    == sstate[p]
        done == IF op = "ADD" THEN w.js = "PUBLIC" ELSE w.js = "NONE"
        go   == ~done
        kick == go /\ ~started /\ s = IF op = "ADD" THEN "WRITE_LOCAL"
                                                   ELSE "DELETE_LOCAL"
    IN /\ work' = [work EXCEPT ![p] = IF go THEN [w EXCEPT !.js = s] ELSE w]
       /\ is_start' = [is_start EXCEPT ![p] = started \/ kick]
       /\ \/ /\ kick /\ op = "ADD"
             /\ \E k \in Slots :
                  /\ bf[p][k] = "None"
                  /\ bf' = [bf EXCEPT ![p][k] = "Start"]
             /\ UNCHANGED dbf
          \/ /\ kick /\ op = "DROP"
             /\ dbf[p] = "None"
             /\ dbf' = [dbf EXCEPT ![p] = "Start"]
             /\ UNCHANGED bf
          \/ /\ ~kick
             /\ UNCHANGED <<bf, dbf>>

\* ddlwork_add_index_process / ddlwork_del_index_process on the held
\* ddlwork w: follow the local schema's state of w's index and start the
\* background work when it reaches WRITE_LOCAL / DELETE_LOCAL.  Neither
\* looks at w's rollback flag.
FollowSchema(p, op, w, started) ==
    LET s    == SchemaState(p, w.iid)
        done == IF op = "ADD" THEN w.js = "PUBLIC" ELSE w.js = "NONE"
        go   == ~done /\ s # Absent
        kick == go /\ ~started /\ s = IF op = "ADD" THEN "WRITE_LOCAL"
                                                   ELSE "DELETE_LOCAL"
    IN /\ work' = [work EXCEPT ![p] = IF go THEN [w EXCEPT !.js = s] ELSE w]
       /\ is_start' = [is_start EXCEPT ![p] = started \/ kick]
       /\ \/ /\ kick /\ op = "ADD"
             /\ \E k \in Slots :
                  /\ bf[p][k] = "None"
                  /\ bf' = [bf EXCEPT ![p][k] = "Start"]
             /\ UNCHANGED dbf
          \/ /\ kick /\ op = "DROP"
             /\ dbf[p] = "None"
             /\ dbf' = [dbf EXCEPT ![p] = "Start"]
             /\ UNCHANGED bf
          \/ /\ ~kick
             /\ UNCHANGED <<bf, dbf>>

\* ddlwork_process -> ddlwork_common_init_process, then the process of
\* the response's op.  A response with another begin_timestamp discards
\* the peer's ddlwork and sets the status back to IDLE; a new ddlwork is
\* adopted only if DdlHelper allows it and the status CAS IDLE -> DOING
\* succeeds (else _ddl_param.is_waiting).
DdlworkProcess(p) ==
    /\ resp[p] # NoResp
    /\ resp' = [resp EXCEPT ![p] = NoResp]
    /\ LET r == resp[p] IN
       \/ /\ work[p] # NoWork /\ r.ts # work[p].ts
          /\ work' = [work EXCEPT ![p] = NoWork]
          /\ ResetDdlParam(p)
          /\ status' = [status EXCEPT ![p] = "IDLE"]
          /\ UNCHANGED <<bf, dbf>>
       \/ /\ work[p] = NoWork
          /\ ~CanInitDdlwork(r.op, r.js) \/ status[p] # "IDLE"
          /\ UNCHANGED <<work, status, is_start, pts, dcount, bf, dbf>>
       \/ /\ work[p] = NoWork
          /\ CanInitDdlwork(r.op, r.js) /\ status[p] = "IDLE"
          /\ status' = [status EXCEPT ![p] = "DOING"]
          /\ pts' = [pts EXCEPT ![p] = 0]
          /\ dcount' = [dcount EXCEPT ![p] = 0]
          /\ FollowSchema(p, r.op, r, FALSE)
       \/ /\ work[p] # NoWork /\ r.ts = work[p].ts
          /\ FollowSchema(p, r.op, work[p], is_start[p])
          /\ UNCHANGED <<status, pts, dcount>>
    /\ UNCHANGED <<meta, sstate, sid, bf_ok, bjid, built, other, nother>>

\* The heartbeat response is lost.
LoseResp(p) ==
    /\ resp[p] # NoResp
    /\ resp' = [resp EXCEPT ![p] = NoResp]
    /\ UNCHANGED <<meta, sstate, sid, work, status, is_start, pts, dcount, bf,
                   bf_ok, bjid, built, dbf, other, nother>>

-----------------------------------------------------------------------------
(* Region peer: the background bthreads.                                  *)

StoreRest(p) == UNCHANGED <<meta, sstate, sid, resp, other, nother>>

\* start_add_index, after its wait for in-flight DELETE_ONLY / NONE
\* transactions: copy the ddlwork's begin_timestamp into _ddl_param, or
\* return if the ddlwork is gone.
StartAddIndex(p, k) ==
    /\ bf[p][k] = "Start"
    /\ IF work[p] = NoWork
         THEN /\ bf' = [bf EXCEPT ![p][k] = "None"]
              /\ UNCHANGED <<pts, bjid>>
         ELSE /\ bf' = [bf EXCEPT ![p][k] = "Acquire"]
              /\ pts' = [pts EXCEPT ![p] = work[p].ts]
              /\ bjid' = [bjid EXCEPT ![p][k] = work[p].jid]
    /\ UNCHANGED <<work, status, is_start, dcount, bf_ok, built, dbf>>
    /\ StoreRest(p)

\* write_local_rocksdb_for_ddl: ddl_work_concurrency.increase_wait(), the
\* snapshot, and the scope exit that will publish the result.
BackfillAcquire(p, k) ==
    /\ bf[p][k] = "Acquire"
    /\ bf' = [bf EXCEPT ![p][k] = "Row"]
    /\ bf_ok' = [bf_ok EXCEPT ![p][k] = TRUE]
    /\ UNCHANGED <<work, status, is_start, pts, dcount, bjid, built, dbf>>
    /\ StoreRest(p)

\* One pass of the row loop: stop (is_success = false) if the ddlwork is
\* gone or its begin_timestamp is not _ddl_param's; otherwise write the
\* index entry, or fail (duplicate unique key, lock or commit error) and
\* ddlwork_rollback, which marks the ddlwork for the meta server.
SameWork(p) == work[p] # NoWork /\ pts[p] = work[p].ts

BackfillRow(p, k) ==
    /\ bf[p][k] = "Row"
    /\ bf' = [bf EXCEPT ![p][k] = "Exit"]
    /\ \/ /\ ~SameWork(p)
          /\ bf_ok' = [bf_ok EXCEPT ![p][k] = FALSE]
          /\ UNCHANGED <<work, built>>
       \/ /\ SameWork(p)
          /\ built' = [built EXCEPT ![p] = @ \cup {bjid[p][k]}]
          /\ UNCHANGED <<work, bf_ok>>
       \/ /\ SameWork(p)
          /\ work' = [work EXCEPT ![p].rb = TRUE]
          /\ bf_ok' = [bf_ok EXCEPT ![p][k] = FALSE]
          /\ UNCHANGED built
    /\ UNCHANGED <<status, is_start, pts, dcount, bjid, dbf>>
    /\ StoreRest(p)

\* The scope exit: a successful pass sets whatever ddlwork the peer holds
\* now to PUBLIC; the status goes back to IDLE and _ddl_param is reset.
BackfillExit(p, k) ==
    /\ bf[p][k] = "Exit"
    /\ bf' = [bf EXCEPT ![p][k] = "None"]
    /\ work' = IF work[p] # NoWork /\ bf_ok[p][k]
                 THEN [work EXCEPT ![p].js = "PUBLIC"] ELSE work
    /\ status' = [status EXCEPT ![p] = "IDLE"]
    /\ ResetDdlParam(p)
    /\ UNCHANGED <<bf_ok, bjid, built, dbf>>
    /\ StoreRest(p)

\* start_drop_index after its wait: copy the begin_timestamp, or return.
StartDropIndex(p) ==
    /\ dbf[p] = "Start"
    /\ IF work[p] = NoWork
         THEN /\ dbf' = [dbf EXCEPT ![p] = "None"] /\ UNCHANGED pts
         ELSE /\ dbf' = [dbf EXCEPT ![p] = "Run"]
              /\ pts' = [pts EXCEPT ![p] = work[p].ts]
    /\ UNCHANGED <<work, status, is_start, dcount, bf, bf_ok, bjid, built>>
    /\ StoreRest(p)

\* delete_local_rocksdb_for_ddl: remove the index's key range; on success
\* the ddlwork held now goes to NONE, on failure ddlwork_rollback.  The
\* status goes back to IDLE either way.
DeleteLocal(p) ==
    /\ dbf[p] = "Run"
    /\ dbf' = [dbf EXCEPT ![p] = "None"]
    /\ \E ok \in BOOLEAN :
         work' = IF work[p] = NoWork THEN work
                 ELSE IF ok THEN [work EXCEPT ![p].js = "NONE"]
                 ELSE [work EXCEPT ![p].rb = TRUE]
    /\ status' = [status EXCEPT ![p] = "IDLE"]
    /\ UNCHANGED <<is_start, pts, dcount, bf, bf_ok, bjid, built>>
    /\ StoreRest(p)

\* ddlwork_finish_check_process, for a table the meta server no longer has
\* a job for: count the disconnection; a ddlwork that is finished by the
\* local schema, or missed for more than 2 checks, is deleted and the
\* status goes DOING -> IDLE.  If the ddlwork's index is gone from the
\* local schema nothing is deleted.
FinishCheck(p) ==
    /\ work[p] # NoWork /\ job = NoJob
    /\ LET n == IF dcount[p] < 3 THEN dcount[p] + 1 ELSE 3 IN
       LET s == SchemaState(p, work[p].iid) IN
       IF s # Absent /\ (DdlworkIsFinish(work[p].op, s) \/ n > 2)
         THEN /\ work' = [work EXCEPT ![p] = NoWork]
              /\ ResetDdlParam(p)
              /\ status' = [status EXCEPT ![p] = "IDLE"]
         ELSE /\ n # dcount[p]
              /\ dcount' = [dcount EXCEPT ![p] = n]
              /\ UNCHANGED <<work, status, is_start, pts>>
    /\ UNCHANGED <<bf, bf_ok, bjid, built, dbf>>
    /\ StoreRest(p)

\* A split or merge takes the status gate IDLE -> DOING and its scope
\* guard sets it back to IDLE.
OtherStart(p) ==
    /\ nother[p] < MaxOther
    /\ status[p] = "IDLE"
    /\ status' = [status EXCEPT ![p] = "DOING"]
    /\ other' = [other EXCEPT ![p] = TRUE]
    /\ nother' = [nother EXCEPT ![p] = @ + 1]
    /\ UNCHANGED <<meta, sstate, sid, work, is_start, pts, dcount, bf, bf_ok, bjid,
                   built, dbf, resp>>

OtherEnd(p) ==
    /\ other[p]
    /\ status' = [status EXCEPT ![p] = "IDLE"]
    /\ other' = [other EXCEPT ![p] = FALSE]
    /\ UNCHANGED <<meta, sstate, sid, work, is_start, pts, dcount, bf, bf_ok, bjid,
                   built, dbf, resp, nother>>

-----------------------------------------------------------------------------
Backfill(p, k) ==
    StartAddIndex(p, k) \/ BackfillAcquire(p, k) \/ BackfillRow(p, k)
    \/ BackfillExit(p, k)

PeerSteps(p) ==
    \/ Heartbeat(p) \/ SchemaSync(p) \/ DdlworkProcess(p) \/ LoseResp(p)
    \/ \E k \in Slots : Backfill(p, k)
    \/ StartDropIndex(p) \/ DeleteLocal(p)
    \/ FinishCheck(p) \/ OtherStart(p) \/ OtherEnd(p)

Next ==
    \/ AddIndex \/ DropIndex \/ Tick
    \/ \E p \in Peers : PeerSteps(p)

\* Heartbeats and schema heartbeats are periodic; a response is processed
\* unless lost, and not every response is lost (strong fairness, since a
\* loss disables the processing); bthreads run to their end; a split or
\* merge finishes.  Requests, the clock, losses and new splits are not
\* fair.
Fairness ==
    \A p \in Peers :
        /\ WF_vars(Heartbeat(p)) /\ WF_vars(SchemaSync(p))
        /\ SF_vars(DdlworkProcess(p))
        /\ \A k \in Slots : WF_vars(Backfill(p, k))
        /\ WF_vars(StartDropIndex(p) \/ DeleteLocal(p))
        /\ WF_vars(FinishCheck(p)) /\ WF_vars(OtherEnd(p))

Spec == Init /\ [][Next]_vars /\ Fairness

-----------------------------------------------------------------------------
(* Properties.                                                             *)

\* A split or merge keeps the region status DOING until its own scope guard
\* resets it: no DDL step (a discarded ddlwork, a backfill's scope exit,
\* the end of a range delete, the finish check) hands the gate back while
\* another structural operation holds it.
GateHeld == \A p \in Peers : other[p] => status[p] = "DOING"

\* process_ddl_update_job_index makes an index PUBLIC only when every peer
\* has run the backfill of that job to its end.
PublicAfterBackfill ==
    [][idx # "PUBLIC" /\ idx' = "PUBLIC" => \A p \in Peers : job.jid \in built[p]]_vars

\* Every DDL job ends: the meta server deletes it after its last state or
\* after a rollback.
JobEnds == job # NoJob ~> job = NoJob

====
