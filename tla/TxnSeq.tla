------------------------------- MODULE TxnSeq -------------------------------
(***************************************************************************)
(* The leader side of one multi-statement transaction on one region        *)
(* (src/src/store/region.cpp): exec_in_txn_query with its idempotence and  *)
(* TXN_FOLLOW_UP checks, execute_cached_cmd, the seq_id, savepoint and     *)
(* need_rollback_seq handling of dml_2pc, the packing of the PREPARE entry *)
(* and its replay by apply_txn_request on the leader and on a follower.    *)
(*                                                                         *)
(* The client is the front end (not in this repository), modelled from    *)
(* the description of the protocol: statement seq_id 1 is BEGIN, then      *)
(* NDml DML statements, then PREPARE.  It keeps the cache plans of the     *)
(* statements that succeeded, sends each statement with start_seq_id and   *)
(* the plans from there on, retries on a timeout, resends from            *)
(* last_seq_id + 1 on TXN_FOLLOW_UP, and lists failed statements in        *)
(* need_rollback_seq.  Requests are delivered late and in any order, and   *)
(* requests and replies can be lost.  A leader change rolls the leader's   *)
(* unprepared txn back; the new leader has no txn.                         *)
(*                                                                         *)
(* The rows of a statement are abstracted to one counter per statement in  *)
(* each replica's RocksDB txn.                                             *)
(***************************************************************************)
EXTENDS Naturals, Sequences, FiniteSets, FiniteSetsExt, Functions

CONSTANTS
    NDml,             \* DML statements of the txn
    MaxTries,         \* calls the client makes for one statement
    MaxLeaderChanges  \* bound on leader changes

ASSUME NDml \in Nat \ {0} /\ MaxTries \in Nat \ {0}
ASSUME MaxLeaderChanges \in Nat

Begin   == 1
Dmls    == 2..NDml + 1
PrepSeq == NDml + 2
Plans   == 1..NDml + 1           \* statements that have a cache plan

\* One replica's view of the txn: whether _txn_pool holds it, txn->seq_id(),
\* the rows of each statement in the RocksDB txn, cache_plan_map, the
\* savepoint stack, err_code, and whether it is prepared.
Txn == [has : BOOLEAN, seq : 0..PrepSeq, eff : [Dmls -> 0..1],
        cache : SUBSET (1..PrepSeq), sp : Seq(Dmls), err : {"OK", "FAIL"},
        prep : BOOLEAN]
NoTxn == [has |-> FALSE, seq |-> 0, eff |-> [s \in Dmls |-> 0], cache |-> {},
          sp |-> <<>>, err |-> "OK", prep |-> FALSE]

Request == [seq : 2..PrepSeq, start : 1..PrepSeq, plans : SUBSET Plans,
            rb : SUBSET Dmls, try : 1..MaxTries]
Reply == [seq : 2..PrepSeq, try : 1..MaxTries,
          code : {"OK", "FAIL", "FOLLOW_UP", "NOT_LEADER"}, last : 0..PrepSeq]
Entry == [plans : SUBSET (1..PrepSeq), rb : SUBSET Dmls, try : 1..MaxTries]
None == [none |-> TRUE]

VARIABLES
    ltx,       \* the leader's txn
    ftx,       \* the follower's txn
    net,       \* requests in flight
    rep,       \* replies in flight
    plog,      \* the PREPARE entry in the raft log, or None
    lapplied,  \* the leader applied it
    fapplied,  \* the follower applied it
    cpc,       \* client: "Send", "Wait", "Done" or "Aborted"
    cseq,      \* client: the statement being sent
    cstart,    \* client: its start_seq_id
    ctry,      \* client: the call for it
    ok,        \* client: statements told SUCCESS, and BEGIN
    rb,        \* client: need_rollback_seq
    lc         \* leader changes so far

vars == <<ltx, ftx, net, rep, plog, lapplied, fapplied, cpc, cseq, cstart,
          ctry, ok, rb, lc>>
client == <<cpc, cseq, cstart, ctry, ok, rb>>

\* The rows of a statement are never in a replica's txn twice.
TypeOK ==
    /\ ltx \in Txn /\ ftx \in Txn
    /\ net \subseteq Request /\ rep \subseteq Reply
    /\ plog \in Entry \cup {None}
    /\ lapplied \in BOOLEAN /\ fapplied \in BOOLEAN
    /\ cpc \in {"Send", "Wait", "Done", "Aborted"}
    /\ cseq \in 2..PrepSeq /\ cstart \in 1..PrepSeq /\ ctry \in 1..MaxTries
    /\ ok \subseteq Plans /\ rb \subseteq Dmls
    /\ lc \in 0..MaxLeaderChanges

Init ==
    /\ ltx = NoTxn /\ ftx = NoTxn
    /\ net = {} /\ rep = {}
    /\ plog = None /\ lapplied = FALSE /\ fapplied = FALSE
    /\ cpc = "Send" /\ cseq = 2 /\ cstart = Begin /\ ctry = 1
    /\ ok = {Begin} /\ rb = {}
    /\ lc = 0

-----------------------------------------------------------------------------
(* The txn record of one replica (Transaction, not in this repository).    *)

\* txn->seq_id(), read as last_seq; 0 while _txn_pool has no txn.
LastSeq(t) == IF t.has THEN t.seq ELSE 0

\* rollback_to_point(s): if s has a savepoint, undo every statement from it
\* on and drop their cache plans; otherwise nothing.
RollbackTo(t, s) ==
    IF \E i \in DOMAIN t.sp : t.sp[i] = s
    THEN LET i    == CHOOSE i \in DOMAIN t.sp : t.sp[i] = s
             gone == Range(SubSeq(t.sp, i, Len(t.sp)))
         IN [t EXCEPT !.eff   = [x \in Dmls |-> IF x \in gone THEN 0 ELSE @[x]],
                      !.cache = @ \ gone,
                      !.sp    = SubSeq(t.sp, 1, i - 1)]
    ELSE t

\* The loop of dml_2pc over need_rollback_seq, largest seq first.
RECURSIVE RollbackSeqs(_, _)
RollbackSeqs(t, seqs) ==
    IF seqs = {} THEN t
    ELSE RollbackSeqs(RollbackTo(t, Max(seqs)), seqs \ {Max(seqs)})

\* dml_2pc for OP_BEGIN: the txn is created and its plan cached.
BeginTxn == [NoTxn EXCEPT !.has = TRUE, !.seq = Begin, !.cache = {Begin}]

\* dml_2pc for DML statement s on a txn that exists: roll back
\* need_rollback_seq; a statement listed there is not executed; otherwise
\* seq_id is set before execution, a savepoint is pushed, and the statement
\* runs.  One that fails may have written part of its rows; it sets err_code
\* EXEC_FAIL and is not cached.
Dml2pc(t, s, seqs, succeeds) ==
    LET r == RollbackSeqs(t, seqs) IN
    IF s \in seqs THEN [r EXCEPT !.seq = s]
    ELSE [r EXCEPT !.seq   = s,
                   !.sp    = Append(@, s),
                   !.eff[s] = @ + 1,
                   !.err   = IF succeeds THEN "OK" ELSE "FAIL",
                   !.cache = IF succeeds THEN @ \cup {s} ELSE @]

\* execute_cached_cmd: the plans after last_seq, read once before the loop,
\* in seq order.  A cached plan ran on another replica, so it succeeds.
RECURSIVE ExecCachedFrom(_, _, _, _)
ExecCachedFrom(t, plans, seqs, last) ==
    IF plans = {} THEN t
    ELSE LET p == Min(plans)
             u == IF p <= last THEN t
                  ELSE IF p = Begin THEN BeginTxn
                  ELSE Dml2pc(t, p, seqs, TRUE)
         IN ExecCachedFrom(u, plans \ {p}, seqs, last)
ExecCached(t, plans, seqs) == ExecCachedFrom(t, plans, seqs, LastSeq(t))

\* The TXN_FOLLOW_UP check of exec_in_txn_query, made only while the
\* replica has no txn (the general form is commented out above it).
FollowUp(last, start) == last = 0 /\ start > last + 1

\* The raft entry of PREPARE: the txn's cache plans, then the request's plans
\* after the last of them (cur_seq_id).
PrepareEntry(t, r) ==
    LET cur == IF t.cache = {} THEN 0 ELSE Max(t.cache)
    IN [plans |-> t.cache \cup {p \in r.plans : p > cur}, rb |-> r.rb,
        try |-> r.try]

\* dml_2pc for OP_PREPARE, run by apply_txn_request: need_rollback_seq is
\* rolled back, seq_id set, and the txn prepared and its plan cached.
PrepareTxn(t, seqs) ==
    [RollbackSeqs(t, seqs) EXCEPT !.seq = PrepSeq, !.err = "OK",
                                  !.cache = @ \cup {PrepSeq}, !.prep = TRUE]

-----------------------------------------------------------------------------
(* The client (the front end, modelled from the protocol description).     *)

\* The call for the current statement: its start_seq_id, the cache plans
\* from there to the statement before it, and need_rollback_seq.
Send ==
    /\ cpc = "Send"
    /\ net' = net \cup {[seq |-> cseq, start |-> cstart, rb |-> rb, try |-> ctry,
                         plans |-> {p \in ok : cstart <= p /\ p < cseq}]}
    /\ cpc' = "Wait"
    /\ UNCHANGED <<ltx, ftx, rep, plog, lapplied, fapplied, cseq, cstart, ctry,
                   ok, rb, lc>>

\* Call the same statement again, from start_seq_id 'start'; give up after
\* MaxTries calls.
Retry(start) ==
    /\ cstart' = start
    /\ IF ctry < MaxTries THEN cpc' = "Send" /\ ctry' = ctry + 1
                         ELSE cpc' = "Aborted" /\ ctry' = ctry
    /\ UNCHANGED <<cseq, ok, rb>>

NextStmt ==
    /\ cseq' = cseq + 1 /\ cstart' = cseq + 1 /\ ctry' = 1 /\ cpc' = "Send"

\* The answer to the current call.  Every other reply in flight is to an
\* earlier call, which the client no longer waits for.
Receive(m) ==
    /\ cpc = "Wait" /\ m.seq = cseq /\ m.try = ctry
    /\ rep' = {}
    /\ \/ m.code = "OK" /\ cseq = PrepSeq
          /\ cpc' = "Done" /\ UNCHANGED <<cseq, cstart, ctry, ok, rb>>
       \/ m.code = "OK" /\ cseq # PrepSeq
          /\ ok' = ok \cup {cseq} /\ NextStmt /\ UNCHANGED rb
       \/ m.code = "FAIL" /\ cseq # PrepSeq
          /\ rb' = rb \cup {cseq} /\ NextStmt /\ UNCHANGED ok
       \/ m.code = "FOLLOW_UP" /\ Retry(m.last + 1)
       \/ m.code = "NOT_LEADER" /\ Retry(cstart)
    /\ UNCHANGED <<ltx, ftx, net, plog, lapplied, fapplied, lc>>

\* No answer in time: a DML is called again, PREPARE is given up.
Timeout ==
    /\ cpc = "Wait"
    /\ rep' = {}
    /\ IF cseq = PrepSeq THEN cpc' = "Aborted" /\ UNCHANGED <<cstart, ctry>>
                         ELSE Retry(cstart)
    /\ UNCHANGED <<cseq, ok, rb, ltx, ftx, net, plog, lapplied, fapplied, lc>>

-----------------------------------------------------------------------------
(* The leader: exec_in_txn_query and the raft apply of PREPARE.            *)

\* The results a run of statement s can have: root->open fails on a
\* duplicate key as on a lock wait timeout, so a run of a statement that
\* failed before may succeed, and the other way round.
Outcomes(s) == BOOLEAN

Answer(r, code, last) ==
    rep' = rep \cup {[seq |-> r.seq, try |-> r.try, code |-> code, last |-> last]}

\* The checks before execution: a seq_id at or below last_seq is answered
\* with the err_code the txn holds; a start_seq_id past the txn's state is
\* answered TXN_FOLLOW_UP with last_seq_id.
\* Mutant: last_seq > seq_id.
RepeatedMut(r) == ltx.has /\ LastSeq(ltx) > r.seq
Repeated(r) == ltx.has /\ LastSeq(ltx) >= r.seq
Early(r) ==
    \/ Repeated(r) /\ Answer(r, ltx.err, LastSeq(ltx))
    \/ ~Repeated(r) /\ FollowUp(LastSeq(ltx), r.start)
       /\ Answer(r, "FOLLOW_UP", LastSeq(ltx))

\* The txn after the cache plans of the request, run only when last_seq is
\* behind the statement before this one.
Caught(r) ==
    IF LastSeq(ltx) < r.seq - 1 THEN ExecCached(ltx, r.plans, r.rb) ELSE ltx

\* A DML statement: dml() runs dml_2pc on the leader's txn, which succeeds
\* or fails; with no txn dml_2pc answers NOT_LEADER.
ExecDml(r) ==
    /\ r \in net /\ r.seq \in Dmls
    /\ net' = net \ {r}
    /\ \/ Early(r) /\ UNCHANGED ltx
       \/ ~Repeated(r) /\ ~FollowUp(LastSeq(ltx), r.start)
          /\ \/ Caught(r).has
                /\ \E succeeds \in Outcomes(r.seq) :
                     /\ ltx' = Dml2pc(Caught(r), r.seq, r.rb, succeeds)
                     /\ Answer(r, IF succeeds THEN "OK" ELSE "FAIL", r.seq)
             \/ ~Caught(r).has
                /\ ltx' = Caught(r) /\ Answer(r, "NOT_LEADER", 0)
    /\ UNCHANGED <<ftx, plog, lapplied, fapplied, client, lc>>

\* PREPARE: the entry is packed and proposed; the answer comes with its
\* apply.  The closure keeps the call it answers.
ExecPrepare(r) ==
    /\ r \in net /\ r.seq = PrepSeq
    /\ net' = net \ {r}
    /\ \/ Early(r) /\ UNCHANGED <<ltx, plog>>
       \/ ~Repeated(r) /\ ~FollowUp(LastSeq(ltx), r.start) /\ plog = None
          /\ ltx' = Caught(r)
          /\ plog' = PrepareEntry(Caught(r), r)
          /\ UNCHANGED rep
    /\ UNCHANGED <<ftx, lapplied, fapplied, client, lc>>

\* apply_txn_request of the PREPARE entry: execute_cached_cmd from the
\* replica's last_seq, then dml() runs dml_2pc(OP_PREPARE), which answers
\* NOT_LEADER when the replica has no txn.  write_meta_before_prepared is
\* taken to succeed: its failure return (a RocksDB write error) is left out.
Applied(t) == ExecCached(t, plog.plans, plog.rb)
AfterApply(t) == IF Applied(t).has THEN PrepareTxn(Applied(t), plog.rb) ELSE Applied(t)

\* On the leader the closure answers the PREPARE call.
ApplyLeader ==
    /\ plog # None /\ ~lapplied
    /\ ltx' = AfterApply(ltx)
    /\ lapplied' = TRUE
    /\ Answer([seq |-> PrepSeq, try |-> plog.try],
              IF Applied(ltx).has THEN "OK" ELSE "NOT_LEADER", PrepSeq)
    /\ UNCHANGED <<ftx, net, plog, fapplied, client, lc>>

ApplyFollower ==
    /\ plog # None /\ ~fapplied
    /\ ftx' = AfterApply(ftx)
    /\ fapplied' = TRUE
    /\ UNCHANGED <<ltx, net, rep, plog, lapplied, client, lc>>

\* on_leader_stop: _txn_pool.on_leader_stop_rollback() rolls back the txn,
\* which is not yet prepared; the new leader has no txn.
LeaderChange ==
    /\ lc < MaxLeaderChanges /\ plog = None
    /\ ltx' = NoTxn
    /\ lc' = lc + 1
    /\ UNCHANGED <<ftx, net, rep, plog, lapplied, fapplied, client>>

LoseRequest(r) ==
    /\ r \in net /\ net' = net \ {r}
    /\ UNCHANGED <<ltx, ftx, rep, plog, lapplied, fapplied, client, lc>>

LoseReply(m) ==
    /\ m \in rep /\ rep' = rep \ {m}
    /\ UNCHANGED <<ltx, ftx, net, plog, lapplied, fapplied, client, lc>>

Next ==
    \/ Send \/ Timeout \/ \E m \in rep : Receive(m)
    \/ \E r \in net : ExecDml(r) \/ ExecPrepare(r) \/ LoseRequest(r)
    \/ ApplyLeader \/ ApplyFollower \/ LeaderChange
    \/ \E m \in rep : LoseReply(m)

Spec == Init /\ [][Next]_vars

-----------------------------------------------------------------------------
(* Properties.                                                             *)

\* When the leader has applied PREPARE, its txn holds the rows of exactly
\* the statements the client was told succeeded, each once: retried,
\* delayed and stale calls, TXN_FOLLOW_UP resends after a leader change and
\* need_rollback_seq together neither lose nor add a statement.
PrepareComplete ==
    lapplied /\ ltx.prep =>
        \A s \in Dmls : ltx.eff[s] = IF s \in ok THEN 1 ELSE 0

\* A follower that replays the PREPARE entry (its cache plans and
\* need_rollback_seq) ends with the rows the leader's txn holds.
ReplicasAgree ==
    lapplied /\ fapplied => ftx.eff = ltx.eff
====
