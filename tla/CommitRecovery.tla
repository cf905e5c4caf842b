--------------------------- MODULE CommitRecovery ---------------------------
(***************************************************************************)
(* The participants' write-ahead logs (disttest/examples/alg/commit.rs,    *)
(* topic commit-recovery) under one transaction of a coordinator: crashes  *)
(* between any two commands, and recovery from the log alone.              *)
(*                                                                         *)
(* The coordinator is external: it hears votes, commits when it has heard  *)
(* a yes from everyone, and aborts when it hears a no or gives up on one   *)
(* that is missing.                                                        *)
(***************************************************************************)
CONSTANT Participant

VARIABLES
    rm,      \* struct Recovery, per participant: its records of the transaction,
             \* whether its effect reached the store, and the volatile state
    coord    \* the votes the coordinator heard, and its decision

vars == <<rm, coord>>

Record == {"begin", "prepared", "commit", "abort"}

Init ==
    /\ rm = [p \in Participant |->
               [log |-> {}, applied |-> FALSE, state |-> "unknown", crashed |-> FALSE]]
    /\ coord = [heard |-> [p \in Participant |-> "none"], decision |-> "none"]

(* Faulty variant: a prepare record without a decision is an abort. *)
StateGuessed(log) == IF "commit" \in log THEN "committed" ELSE "aborted"

(* Recovery::state_from_log; only a transaction the log mentions has one.  *)
StateFromLog(log) ==
    CASE "commit" \in log -> "committed"
      [] "commit" \notin log /\ "abort" \in log -> "aborted"
      [] log \cap {"commit", "abort"} = {} /\ "prepared" \in log -> "prepared"
      [] OTHER -> "aborted"

Up(p, s) == ~rm[p].crashed /\ rm[p].state = s

(* One command: a record forced to the log, and the new volatile state. *)
Write(p, record, state) ==
    rm' = [rm EXCEPT ![p].log = @ \cup {record}, ![p].state = state]
-----------------------------------------------------------------------------
Begin(p) ==
    /\ Up(p, "unknown") /\ rm[p].log = {}
    /\ Write(p, "begin", "working")
    /\ UNCHANGED coord

(* `prepare`: the record is forced out before the vote is sent. *)
Prepare(p, v) ==
    /\ Up(p, "working")
    /\ IF v = "yes" THEN Write(p, "prepared", "prepared") ELSE Write(p, "abort", "aborted")
    /\ UNCHANGED coord

(* `vote-sent`: the vote of a participant that has logged it arrives. *)
VoteSent(p) ==
    /\ coord.heard[p] = "none"
    /\ \/ Up(p, "prepared") /\ coord' = [coord EXCEPT !.heard[p] = "yes"]
       \/ Up(p, "aborted") /\ coord' = [coord EXCEPT !.heard[p] = "no"]
    /\ UNCHANGED rm

Resolve ==
    /\ coord.decision = "none"
    /\ \/ /\ \A p \in Participant : coord.heard[p] = "yes"
          /\ coord' = [coord EXCEPT !.decision = "commit"]
       \/ /\ \E p \in Participant : coord.heard[p] # "yes"
          /\ coord' = [coord EXCEPT !.decision = "abort"]
    /\ UNCHANGED rm

(* `decide`: the coordinator's decision is logged, and applied later. *)
Decide(p) ==
    /\ Up(p, "prepared") /\ coord.decision # "none"
    /\ IF coord.decision = "commit" THEN Write(p, "commit", "committed")
                                    ELSE Write(p, "abort", "aborted")
    /\ UNCHANGED coord

(* `apply`: also the redo of a commit whose effect never landed. *)
Apply(p) ==
    /\ Up(p, "committed") /\ ~rm[p].applied
    /\ rm' = [rm EXCEPT ![p].applied = TRUE]
    /\ UNCHANGED coord

(* `crash`: the volatile state is gone. *)
Crash(p) ==
    /\ ~rm[p].crashed
    /\ rm' = [rm EXCEPT ![p].crashed = TRUE, ![p].state = "unknown"]
    /\ UNCHANGED coord

(* `recover`: reading the log writes nothing to it. *)
Recover(p) ==
    /\ rm[p].crashed
    /\ rm' = [rm EXCEPT ![p].crashed = FALSE,
                        ![p].state = IF rm[p].log = {} THEN "unknown"
                                     ELSE StateFromLog(rm[p].log)]
    /\ UNCHANGED coord

(* `coordinator-says`: the answer to a participant that asks, with the     *)
(* effect applied at once.                                                 *)
CoordinatorSays(p) ==
    /\ Up(p, "prepared") /\ coord.decision # "none"
    /\ LET commit == coord.decision = "commit"
       IN  rm' = [rm EXCEPT ![p].log = @ \cup {coord.decision},
                            ![p].state = IF commit THEN "committed" ELSE "aborted",
                            ![p].applied = @ \/ commit]
    /\ UNCHANGED coord

Next ==
    \/ Resolve
    \/ \E p \in Participant :
          \/ Begin(p) \/ VoteSent(p) \/ Decide(p) \/ Apply(p)
          \/ \E v \in {"yes", "no"} : Prepare(p, v)
          \/ Crash(p) \/ Recover(p) \/ CoordinatorSays(p)

Spec == Init /\ [][Next]_vars
-----------------------------------------------------------------------------
TypeOK ==
    /\ rm \in [Participant -> [log : SUBSET Record, applied : BOOLEAN, crashed : BOOLEAN,
            state : {"unknown", "working", "prepared", "committed", "aborted"}]]
    /\ coord \in [heard : [Participant -> {"none", "yes", "no"}],
                  decision : {"none", "commit", "abort"}]

(* A participant that voted yes never decides alone, whatever crashes it   *)
(* lives through: no state and no log goes against the coordinator, and an *)
(* effect in the store belongs to a logged commit.  A commit in the log of *)
(* a participant that is up is known to it, so that an effect that never   *)
(* landed is redone and not asked for again.                               *)
RecoveryKeepsPromise ==
    \A p \in Participant :
        /\ coord.decision = "commit" => rm[p].state # "aborted" /\ "abort" \notin rm[p].log
        /\ rm[p].state = "committed" \/ rm[p].applied \/ "commit" \in rm[p].log =>
               coord.decision = "commit"
        /\ rm[p].applied => "commit" \in rm[p].log
        /\ "commit" \in rm[p].log /\ ~rm[p].crashed => rm[p].state = "committed"
=============================================================================
