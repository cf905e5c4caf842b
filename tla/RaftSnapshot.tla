---------------------------- MODULE RaftSnapshot ----------------------------
(***************************************************************************)
(* The reference log compaction (disttest/examples/alg/raft.rs, topic      *)
(* raft-snapshot), beside a twin that receives the same commands and never *)
(* compacts.  Leaders' logs all start with the committed entries; what     *)
(* they send is external.                                                  *)
(***************************************************************************)
EXTENDS Integers, Sequences

CONSTANTS
    Committed,    \* the terms of the committed entries
    LeaderLogs,   \* logs of leaders, each Committed and more
    FirstLogs     \* logs `init` may start from

VARIABLES
    snap,     \* struct Snapshots
    twin      \* history: the log with nothing compacted away

vars == <<snap, twin>>

Init ==
    \E l \in FirstLogs :
        /\ snap = [log |-> l, snapshot_index |-> 0, snapshot_term |-> 0, commit_index |-> 0]
        /\ twin = l

FirstIndex == snap.snapshot_index + 1
LastIndex == snap.snapshot_index + Len(snap.log)

(* Faulty variant: the entry the snapshot ends with has no term any more. *)
TermWithoutBoundary(i) ==
    IF i \in FirstIndex .. LastIndex THEN snap.log[i - snap.snapshot_index] ELSE 0

(* Snapshots::term_at, snapshot boundary included; -1 for None. *)
TermAt(i) ==
    IF i = snap.snapshot_index THEN snap.snapshot_term
    ELSE IF i \in FirstIndex .. LastIndex THEN snap.log[i - snap.snapshot_index] ELSE -1

Drop(l, n) == SubSeq(l, n + 1, Len(l))

(* The loop over the entries of an AppendEntries that goes behind index    *)
(* prev of a log: a matching entry stays, the first other cuts the log.    *)
Merged(l, prev, entries) ==
    LET New == {k \in DOMAIN entries : prev + k > Len(l) \/ l[prev + k] # entries[k]}
        k == CHOOSE i \in New : \A j \in New : i <= j
    IN  IF New = {} THEN l
        ELSE SubSeq(l, 1, prev + k - 1) \o Drop(entries, k - 1)
-----------------------------------------------------------------------------
(* `commit`: at most the end of the log.  A leader only says so of entries *)
(* it has seen this log hold.                                              *)
Commit(i) ==
    /\ LET wanted == IF i <= LastIndex THEN i ELSE LastIndex
       IN  /\ SubSeq(twin, 1, wanted) = SubSeq(Committed, 1, wanted)
           /\ wanted > snap.commit_index
           /\ snap' = [snap EXCEPT !.commit_index = wanted]
    /\ UNCHANGED twin

(* `snapshot`: never past the commit index. *)
Snapshot(i) ==
    /\ i <= snap.commit_index /\ i > snap.snapshot_index
    /\ snap' = [snap EXCEPT !.log = Drop(@, i - snap.snapshot_index),
                            !.snapshot_index = i, !.snapshot_term = TermAt(i)]
    /\ UNCHANGED twin

(* Faulty variant: the entries behind the snapshot are always kept. *)
RetainAlways(i) == Drop(snap.log, i - snap.snapshot_index)

(* What `install` keeps of the log: the entries behind one it holds. *)
Retained(i) ==
    IF TermAt(i) = Committed[i] /\ i >= FirstIndex
    THEN Drop(snap.log, i - snap.snapshot_index) ELSE <<>>

(* `install`: stale when the commit index has got there. *)
Install(i) ==
    /\ i > snap.commit_index
    /\ snap' = [log |-> Retained(i), snapshot_index |-> i, snapshot_term |-> Committed[i],
                commit_index |-> i]
    /\ twin' = IF i <= Len(twin) /\ twin[i] = Committed[i] THEN twin
               ELSE SubSeq(Committed, 1, i)

(* `append`: not before the snapshot, not behind the end, and only where   *)
(* the previous terms agree.                                               *)
AppendEntries(l, prev, last) ==
    /\ snap.snapshot_index <= prev /\ prev <= LastIndex
    /\ TermAt(prev) = (IF prev = 0 THEN 0 ELSE l[prev])
    /\ LET entries == SubSeq(l, prev + 1, last)
       IN  /\ snap' = [snap EXCEPT !.log = Merged(@, prev - snap.snapshot_index, entries)]
           /\ twin' = Merged(twin, prev, entries)

Next ==
    \/ \E i \in 1 .. Len(Committed) : Commit(i) \/ Snapshot(i) \/ Install(i)
    \/ \E l \in LeaderLogs : \E prev \in 0 .. Len(l) : \E last \in prev .. Len(l) :
          AppendEntries(l, prev, last)

Spec == Init /\ [][Next]_vars
-----------------------------------------------------------------------------
(* Compaction hides nothing and loses nothing: snapshot and log together   *)
(* are the log that was never compacted, whatever leaders append, install  *)
(* or commit in between, and what was committed is in it.                  *)
CompactionIsInvisible ==
    /\ snap.log = Drop(twin, snap.snapshot_index)
    /\ snap.snapshot_index > 0 => snap.snapshot_term = twin[snap.snapshot_index]
    /\ snap.snapshot_index <= snap.commit_index /\ snap.commit_index <= LastIndex
    /\ SubSeq(twin, 1, snap.commit_index) = SubSeq(Committed, 1, snap.commit_index)
=============================================================================
