------------------------------ MODULE ReverseIndex ------------------------------
(***************************************************************************)
(* The three-level inverted index of one region's fulltext or recommend   *)
(* index (src/include/reverse/reverse_index.hpp).                          *)
(*                                                                         *)
(*   insert_reverse / delete_reverse  put one level-1 node per term and    *)
(*                                    document (_insert_one_reverse_node)  *)
(*   reverse_merge_func               the periodic merge: an iterator over *)
(*                                    level 1, then per term one           *)
(*                                    transaction level 1 -> level 2 and,  *)
(*                                    when level 2 is long, one more       *)
(*                                    level 2 -> level 3; at the end the   *)
(*                                    cached level-3 lists it rewrote are  *)
(*                                    evicted                              *)
(*   get_reverse_list_two             a reader: level 1, level 2, then     *)
(*                                    level 3 through the cache            *)
(*                                                                         *)
(* A posting list is a function from documents to a node: "N" (NORMAL),   *)
(* "D" (DELETE) or "-" (no node).  Segmentation, payloads, the key range  *)
(* and the legacy prefix 0 are left out.                                   *)
(***************************************************************************)
EXTENDS Naturals, FiniteSets

CONSTANTS
    Terms,        \* terms, merged in this order (the key order)
    Pks,          \* documents (primary keys)
    MaxWrites,    \* writes of level-1 nodes
    SecondLen,    \* _second_level_length
    CachedLen,    \* _cached_list_length
    IsOverCache,  \* _is_over_cache: TRUE for a recommend index
    Miss

ASSUME Terms \subseteq Nat /\ MaxWrites \in Nat /\ SecondLen \in Nat
ASSUME CachedLen \in Nat /\ IsOverCache \in BOOLEAN

Absent == "-"
Node == {"N", "D", Absent}
List == [Pks -> Node]
Empty == [pk \in Pks |-> Absent]

VARIABLES
    l1, l2, l3,   \* the three levels, per term
    cache,        \* _cache: a level-3 list per term, or Miss
    nw,
    \* reverse_merge_func
    mpc,          \* "Idle", "L12", "L23" or "Evict"
    msnap,        \* level 1 as the merge's iterator sees it
    mtodo,        \* terms the iterator has still to merge
    mnew2,        \* new_second_level_list of the term being merged
    mkeys,        \* _cache_keys
    \* a reader of get_reverse_list_two
    rpc,          \* "Idle", "L2", "L3", "Fill" or "Done"
    rterm, rl1, rnew, rold,
    \* ghost
    rchg          \* documents of rterm whose contents changed since the
                  \* read began

vars == <<l1, l2, l3, cache, nw, mpc, msnap, mtodo, mnew2, mkeys,
          rpc, rterm, rl1, rnew, rold, rchg>>

TypeOK ==
    /\ l1 \in [Terms -> List] /\ l2 \in [Terms -> List]
    /\ l3 \in [Terms -> List]
    /\ cache \in [Terms -> List \cup {Miss}]
    /\ nw \in 0..MaxWrites
    /\ mpc \in {"Idle", "L12", "L23", "Evict"}
    /\ msnap \in [Terms -> List] /\ mtodo \subseteq Terms
    /\ mnew2 \in List /\ mkeys \subseteq Terms
    /\ rpc \in {"Idle", "L2", "L3", "Fill", "Done"}
    /\ rterm \in Terms /\ rl1 \in List /\ rnew \in List /\ rold \in List
    /\ rchg \subseteq Pks

Init ==
    /\ l1 = [t \in Terms |-> Empty] /\ l2 = l1 /\ l3 = l1
    /\ cache = [t \in Terms |-> Miss]
    /\ nw = 0
    /\ mpc = "Idle" /\ msnap = l1 /\ mtodo = {} /\ mnew2 = Empty
    /\ mkeys = {}
    /\ rpc = "Idle" /\ rterm \in Terms /\ rl1 = Empty /\ rnew = Empty
    /\ rold = Empty
    /\ rchg = {}

\* reverse_nodes_size()
Size(l) == Cardinality({pk \in Pks : l[pk] # Absent})

\* level_merge (not in the repository): the newer list's node wins; with
\* is_del the DELETE nodes are dropped, as nothing older is left under them.
LevelMerge(new, old, isDel) ==
    [pk \in Pks |-> LET v == IF new[pk] # Absent THEN new[pk] ELSE old[pk]
                    IN IF isDel /\ v = "D" THEN Absent ELSE v]

\* What the levels hold together: a level's node hides the older levels'.
Contents == [t \in Terms |->
    {pk \in Pks : LevelMerge(l1[t], LevelMerge(l2[t], l3[t], FALSE), TRUE)[pk]
                    = "N"}]

\* Ghost: a step of the merge that changes what rterm holds while a read
\* is under way (it should not).
NoteChanges ==
    rchg' = IF rpc = "Idle" THEN rchg
            ELSE rchg \cup {pk \in Pks : pk \in Contents[rterm] <=>
                                         pk \notin Contents'[rterm]}

-----------------------------------------------------------------------------
(* Writers.                                                                *)

\* handle_reverse -> _insert_one_reverse_node: put the node at
\* prefix + term + \0 + pk, replacing a node of the same document.
Write(t, pk, f) ==
    /\ nw < MaxWrites
    /\ nw' = nw + 1
    /\ l1' = [l1 EXCEPT ![t][pk] = f]
    /\ rchg' = IF rpc # "Idle" /\ t = rterm THEN rchg \cup {pk} ELSE rchg
    /\ UNCHANGED <<l2, l3, cache, mpc, msnap, mtodo, mnew2, mkeys, rpc, rterm,
                   rl1, rnew, rold>>

-----------------------------------------------------------------------------
(* reverse_merge_func.  Its iterator over level 1 is created before, and  *)
(* outside, the transactions of the terms (the FirstLevelMSIterator reads  *)
(* through it and deletes each key it passes in the term's transaction).  *)

\* Create the iterator over level 1 and clear _cache_keys; with nothing in
\* level 1, return at once.
MergeStart ==
    /\ mpc = "Idle"
    /\ msnap' = l1
    /\ mtodo' = {t \in Terms : Size(l1[t]) > 0}
    /\ mkeys' = IF IsOverCache THEN {} ELSE mkeys
    /\ mpc' = IF mtodo' = {} THEN "Idle" ELSE "L12"
    /\ UNCHANGED <<l1, l2, l3, cache, nw, mnew2, rpc, rterm, rl1, rnew, rold,
                   rchg>>

\* The term the iterator is at.
MTerm == CHOOSE t \in mtodo : \A u \in mtodo : t <= u

\* After a term: the next one, or the eviction once the iterator is done
\* (and destroyed).
NextTerm(t) ==
    /\ mtodo' = mtodo \ {t}
    /\ mpc' = IF mtodo' = {} THEN "Evict" ELSE "L12"
    /\ msnap' = IF mtodo' = {} THEN [u \in Terms |-> Empty] ELSE msnap

\* Mutant: the level-1 iterator is built with del = false, so the merged
\* level-1 nodes stay in place.
MergeL12Keep ==
    /\ mpc = "L12"
    /\ LET t    == MTerm
           src  == msnap[t]
           new2 == LevelMerge(src, l2[t], FALSE)
       IN /\ l2' = [l2 EXCEPT ![t] = new2]
          /\ IF Size(new2) >= SecondLen
               THEN mpc' = "L23" /\ mnew2' = new2 /\ UNCHANGED <<mtodo, msnap>>
               ELSE NextTerm(t) /\ UNCHANGED mnew2
    /\ UNCHANGED <<l1, l3, cache, nw, mkeys, rpc, rterm, rl1, rnew, rold>>
    /\ NoteChanges

\* _reverse_merge_to_second_level, first transaction: the term's level-1
\* nodes as the iterator read them are merged over level 2 (DELETE nodes
\* kept), written as level 2 and deleted from level 1 in the same commit.
MergeL12 ==
    /\ mpc = "L12"
    /\ LET t    == MTerm
           src  == msnap[t]
           new2 == LevelMerge(src, l2[t], FALSE)
       IN /\ l2' = [l2 EXCEPT ![t] = new2]
          /\ l1' = [l1 EXCEPT ![t] = [pk \in Pks |->
                       IF src[pk] # Absent THEN Absent ELSE l1[t][pk]]]
          /\ IF Size(new2) >= SecondLen
               THEN mpc' = "L23" /\ mnew2' = new2 /\ UNCHANGED <<mtodo, msnap>>
               ELSE NextTerm(t) /\ UNCHANGED mnew2
    /\ UNCHANGED <<l3, cache, nw, mkeys, rpc, rterm, rl1, rnew, rold>>
    /\ NoteChanges

\* Second transaction: the new level 2 merged over level 3 from the
\* database (DELETE nodes dropped), level 3 written and level 2 deleted;
\* the level-3 key is remembered for eviction.
MergeL23 ==
    /\ mpc = "L23"
    /\ LET t == MTerm IN
       /\ l3' = [l3 EXCEPT ![t] = LevelMerge(mnew2, l3[t], TRUE)]
       /\ l2' = [l2 EXCEPT ![t] = Empty]
       /\ mkeys' = IF IsOverCache THEN mkeys \cup {t} ELSE mkeys
       /\ mnew2' = Empty
       /\ NextTerm(t)
    /\ UNCHANGED <<l1, cache, nw, rpc, rterm, rl1, rnew, rold,
                   rchg>>

\* A failed read, merge, put or commit (lock_timeout 100 ms): the
\* transaction is dropped and reverse_merge_func returns -1, before the
\* eviction.
MergeFail ==
    /\ mpc \in {"L12", "L23"}
    /\ mpc' = "Idle"
    /\ mtodo' = {} /\ msnap' = [t \in Terms |-> Empty] /\ mnew2' = Empty
    /\ UNCHANGED <<l1, l2, l3, cache, nw, mkeys, rpc, rterm,
                   rl1, rnew, rold, rchg>>

\* The end of reverse_merge_func: _cache.del of every key in _cache_keys.
MergeEvict ==
    /\ mpc = "Evict"
    /\ cache' = IF IsOverCache
                  THEN [t \in Terms |-> IF t \in mkeys THEN Miss ELSE cache[t]]
                  ELSE cache
    /\ mpc' = "Idle"
    /\ UNCHANGED <<l1, l2, l3, nw, msnap, mtodo, mnew2, mkeys, rpc, rterm, rl1,
                   rnew, rold, rchg>>

-----------------------------------------------------------------------------
(* get_reverse_list_two, not fast: each level is read at its own time.    *)

\* The level-1 iterator of the term.
ReadL1(t) ==
    /\ rpc = "Idle"
    /\ rterm' = t /\ rl1' = l1[t] /\ rchg' = {}
    /\ rpc' = "L2"
    /\ UNCHANGED <<l1, l2, l3, cache, nw, mpc, msnap, mtodo, mnew2, mkeys,
                   rnew, rold>>

\* Mutant: level_merge called with the two lists swapped.
ReadL2Mut ==
    /\ rpc = "L2"
    /\ rnew' = LevelMerge(l2[rterm], rl1, FALSE)
    /\ rl1' = Empty
    /\ rpc' = "L3"
    /\ UNCHANGED <<l1, l2, l3, cache, nw, mpc, msnap, mtodo, mnew2, mkeys,
                   rterm, rold, rchg>>

\* Level 2 from the database, merged under level 1 (list_new_ptr).
ReadL2 ==
    /\ rpc = "L2"
    /\ rnew' = LevelMerge(rl1, l2[rterm], FALSE)
    /\ rl1' = Empty
    /\ rpc' = "L3"
    /\ UNCHANGED <<l1, l2, l3, cache, nw, mpc, msnap, mtodo, mnew2, mkeys,
                   rterm, rold, rchg>>

\* Mutant: the result of _cache.find is not checked.
ReadL3Mut ==
    /\ rpc = "L3"
    /\ IF IsOverCache \/ cache[rterm] = Miss
         THEN rold' = cache[rterm] /\ rpc' = "Done"
         ELSE rold' = l3[rterm] /\ rpc' = "Fill"
    /\ UNCHANGED <<l1, l2, l3, cache, nw, mpc, msnap, mtodo, mnew2, mkeys,
                   rterm, rl1, rnew, rchg>>

\* _get_level_reverse_list(3, is_over_cache): a cached list is returned;
\* otherwise level 3 is read from the database.
ReadL3 ==
    /\ rpc = "L3"
    /\ IF IsOverCache /\ cache[rterm] # Miss
         THEN rold' = cache[rterm] /\ rpc' = "Done"
         ELSE rold' = l3[rterm] /\ rpc' = "Fill"
    /\ UNCHANGED <<l1, l2, l3, cache, nw, mpc, msnap, mtodo, mnew2, mkeys,
                   rterm, rl1, rnew, rchg>>

\* The list read from the database is added to the cache if it is long.
FillCache ==
    /\ rpc = "Fill"
    /\ cache' = IF IsOverCache /\ Size(rold) >= CachedLen
                  THEN [cache EXCEPT ![rterm] = rold] ELSE cache
    /\ rpc' = "Done"
    /\ UNCHANGED <<l1, l2, l3, nw, mpc, msnap, mtodo, mnew2, mkeys, rterm, rl1,
                   rnew, rold, rchg>>

\* The executor has consumed the lists, which are freed.
ReadDone ==
    /\ rpc = "Done"
    /\ rpc' = "Idle"
    /\ rnew' = Empty /\ rold' = Empty /\ rchg' = {}
    /\ UNCHANGED <<l1, l2, l3, cache, nw, mpc, msnap, mtodo, mnew2, mkeys,
                   rterm, rl1>>

-----------------------------------------------------------------------------
Next ==
    \/ \E t \in Terms, pk \in Pks, f \in {"N", "D"} : Write(t, pk, f)
    \/ MergeStart \/ MergeL12 \/ MergeL23 \/ MergeFail \/ MergeEvict
    \/ \E t \in Terms : ReadL1(t)
    \/ ReadL2 \/ ReadL3 \/ FillCache \/ ReadDone

\* The merge is periodic and runs each pass to its end; a transaction that
\* failed on a lock timeout succeeds on a later pass (strong fairness: a
\* failure disables the step).  Writers and readers need no fairness.
Fairness ==
    /\ WF_vars(MergeStart) /\ SF_vars(MergeL12) /\ SF_vars(MergeL23)
    /\ WF_vars(MergeEvict)

Spec == Init /\ [][Next]_vars /\ Fairness

-----------------------------------------------------------------------------
(* Properties.                                                             *)

\* The merges never change what the index finds: the levels implement
\* ReverseIndexSpec, with Contents as its docs and nw as its count of writes.
Abs == INSTANCE ReverseIndexSpec WITH docs <- Contents, n <- nw
Refines == Abs!Spec

\* A finished read of get_reverse_list_two (list_new_ptr over list_old_ptr)
\* finds exactly the documents the index holds, for every document whose
\* contents did not change while it read, however the merge's two
\* transactions and the cache eviction fall between its three reads (each
\* level is read at its own time, with no snapshot).
ReadResult == {pk \in Pks : LevelMerge(rnew, rold, TRUE)[pk] = "N"}

ReadCorrect ==
    rpc = "Done" =>
        \A pk \in Pks \ rchg : pk \in ReadResult <=> pk \in Contents[rterm]

\* Level 1 is eventually empty once writes stop: every node written is
\* merged down by a later pass of reverse_merge_func.
L1Drains == <>[](\A t \in Terms : Size(l1[t]) = 0)

====
