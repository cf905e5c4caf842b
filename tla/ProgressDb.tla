----------------------------- MODULE ProgressDb -----------------------------
(***************************************************************************)
(* The progress database of `byo` (byo/src/db.rs): one SQLite file shared  *)
(* by every `byo test`, `byo done`, `byo note`, `byo db reset` and by the  *)
(* workers of `byo site`.  Each action is one SQLite transaction, the unit *)
(* other processes can interleave with.                                    *)
(*                                                                         *)
(* Data kept: projects and runs are sequences, because ids are             *)
(* AUTOINCREMENT, rows are never deleted one by one, and `reset` also      *)
(* clears sqlite_sequence; a run keeps one result per stage instead of its *)
(* run_tests rows; 0 stands for SQL NULL in ids and timestamps.            *)
(***************************************************************************)
EXTENDS Integers, Sequences

CONSTANTS
    Track,      \* the registered tracks
    Stage,      \* the stage numbers of a track
    Path,       \* project directories
    Note,       \* the texts a note can hold
    NoNote,     \* SQL NULL in the note column
    MaxTests,   \* bound: tests of one stage that passed, or failed
    MaxRuns,    \* bound: rows of the runs table
    MaxClock    \* bound: distinct values of now()

ASSUME NoNoteAssumption == NoNote \notin Note
ASSUME BoundAssumption == MaxTests \in Nat /\ MaxRuns \in Nat /\ MaxClock \in Nat

VARIABLES
    clock,      \* db::now(), one second per tick
    projects,   \* the projects table; the index is the id
    runs,       \* the runs table; the index is the id
    progress,   \* the stage_progress table, one row per (track, stage)
    manual      \* history: cells whose state was last written by set_state

dbVars == <<clock, projects, runs, progress, manual>>

Cell == Track \X Stage
Derived == {"done", "in_progress", "failed"}
State == {"todo"} \cup Derived

(* What a report says of a stage: how many of its tests passed and failed. *)
Counts == [passed : 0 .. MaxTests, failed : 0 .. MaxTests]
Report == [validate : BOOLEAN, stages : [Stage -> Counts]]

Project == [track : Track, path : Path]
Run == [track : Track, project : Nat, started_at : Nat, validate : BOOLEAN,
        state : [Stage -> Derived \cup {"none"}]]
Row == [state : State \cup {"absent"}, done_at : Nat, last_run_id : Nat,
        note : Note \cup {NoNote}, updated_at : Nat]

(* A (track, stage) that stage_progress has no row for. *)
NoRow == [state |-> "absent", done_at |-> 0, last_run_id |-> 0,
          note |-> NoNote, updated_at |-> 0]

(* Faulty variant: a stage whose tests were all skipped is stored as todo. *)
StageStateSkippedIsTodo(c) ==
    CASE c.passed + c.failed = 0 -> "todo"
      [] c.failed = 0 /\ c.passed # 0 -> "done"
      [] c.failed # 0 /\ c.passed > 0 -> "in_progress"
      [] OTHER -> "failed"

(* The state a run gives a stage; "none" leaves stage_progress alone. *)
StageState(c) ==
    CASE c.passed + c.failed = 0 -> "none"
      [] c.failed = 0 /\ c.passed # 0 -> "done"
      [] c.failed # 0 /\ c.passed > 0 -> "in_progress"
      [] OTHER -> "failed"

(* Faulty variant: no COALESCE, every green run restarts the clock. *)
DoneAtLatest(old, done, ts) == IF done THEN ts ELSE 0

(* CASE WHEN done THEN COALESCE(done_at, ts) ELSE NULL END: a stage that   *)
(* stays done keeps the time it first turned done.                         *)
DoneAt(old, done, ts) ==
    IF done THEN (IF old # 0 THEN old ELSE ts) ELSE 0

(* The upsert of ingest: the note survives. *)
IngestRow(row, state, ts, id) ==
    [row EXCEPT !.state = state,
                !.done_at = DoneAt(row.done_at, state = "done", ts),
                !.last_run_id = id,
                !.updated_at = ts]

(* Faulty variant: un-doing a stage leaves its completion time behind. *)
SetStateKeepsDoneAt(row, done, ts) ==
    [row EXCEPT !.state = IF done THEN "done" ELSE "todo",
                !.done_at = DoneAt(row.done_at, done \/ row.done_at # 0, ts),
                !.updated_at = ts]

(* Faulty variant: DO UPDATE also takes the NULL last_run_id of the insert. *)
SetStateForgetsRun(row, done, ts) ==
    [row EXCEPT !.state = IF done THEN "done" ELSE "todo",
                !.done_at = DoneAt(row.done_at, done, ts),
                !.last_run_id = 0,
                !.updated_at = ts]

(* The upsert of set_state: the note and the last run survive. *)
SetStateRow(row, done, ts) ==
    [row EXCEPT !.state = IF done THEN "done" ELSE "todo",
                !.done_at = DoneAt(row.done_at, done, ts),
                !.updated_at = ts]

(* Faulty variant: DO UPDATE also takes the 'todo' of the insert. *)
SetNoteUndoes(row, note, ts) ==
    [row EXCEPT !.state = "todo", !.done_at = 0, !.note = note, !.updated_at = ts]

(* The upsert of set_note: a new row starts as todo, an old one keeps its  *)
(* state.                                                                  *)
SetNoteRow(row, note, ts) ==
    [row EXCEPT !.state = IF row.state = "absent" THEN "todo" ELSE row.state,
                !.note = note,
                !.updated_at = ts]
-----------------------------------------------------------------------------
DbInit ==
    /\ clock = 1
    /\ projects = <<>>
    /\ runs = <<>>
    /\ progress = [c \in Cell |-> NoRow]
    /\ manual = {}

Tick ==
    /\ clock < MaxClock
    /\ clock' = clock + 1
    /\ UNCHANGED <<projects, runs, progress, manual>>

(* Faulty variant: last_insert_rowid(), which an upsert that updates does  *)
(* not set.                                                                *)
LastInsertedId(t, p) ==
    IF \E i \in DOMAIN projects : projects[i] = [track |-> t, path |-> p]
    THEN Len(projects) ELSE Len(projects) + 1

(* The id of a registered project, or the one its row is about to get. *)
ProjectId(t, p) ==
    IF \E i \in DOMAIN projects : projects[i] = [track |-> t, path |-> p]
    THEN CHOOSE i \in DOMAIN projects : projects[i] = [track |-> t, path |-> p]
    ELSE Len(projects) + 1

(* Register a project, or refresh the row it already has. *)
UpsertProject(t, p) ==
    /\ projects' = IF ProjectId(t, p) \in DOMAIN projects
                   THEN projects
                   ELSE Append(projects, [track |-> t, path |-> p])
    /\ UNCHANGED <<clock, runs, progress, manual>>

(* The foreign key on runs.project_id: NULL, or a project that exists. *)
ForeignKeyOK(pid) == pid = 0 \/ pid \in DOMAIN projects

(* One ingest transaction: the run, its results, and the derived progress  *)
(* of every stage it ran.  A --validate run is recorded and moves nothing. *)
Ingest(t, pid, rep, started) ==
    /\ Len(runs) < MaxRuns
    /\ ForeignKeyOK(pid)
    /\ LET id == Len(runs) + 1
           state == [s \in Stage |-> StageState(rep.stages[s])]
           moved == {c \in Cell : /\ c[1] = t
                                  /\ ~rep.validate
                                  /\ state[c[2]] # "none"}
       IN  /\ runs' = Append(runs, [track |-> t, project |-> pid,
                                    started_at |-> started,
                                    validate |-> rep.validate,
                                    state |-> state])
           /\ progress' = [c \in Cell |->
                             IF c \in moved
                             THEN IngestRow(progress[c], state[c[2]], started, id)
                             ELSE progress[c]]
           /\ manual' = manual \ moved
    /\ UNCHANGED <<clock, projects>>

(* `byo done`, `byo undone` and the state half of POST /api/stages. *)
SetState(c, done) ==
    /\ progress' = [progress EXCEPT ![c] = SetStateRow(@, done, clock)]
    /\ manual' = manual \cup {c}
    /\ UNCHANGED <<clock, projects, runs>>

(* `byo note` and the note half of POST /api/stages. *)
SetNote(c, note) ==
    /\ progress' = [progress EXCEPT ![c] = SetNoteRow(@, note, clock)]
    /\ UNCHANGED <<clock, projects, runs, manual>>

(* `byo db reset`: every row and both id counters, in one transaction. *)
Reset ==
    /\ projects' = <<>>
    /\ runs' = <<>>
    /\ progress' = [c \in Cell |-> NoRow]
    /\ manual' = {}
    /\ UNCHANGED clock

DbNext ==
    \/ Tick
    \/ \E t \in Track, p \in Path : UpsertProject(t, p)
    \/ \E t \in Track, pid \in 0 .. Len(projects) + 1, rep \in Report,
          started \in 1 .. clock :
          Ingest(t, pid, rep, started)
    \/ \E c \in Cell, done \in BOOLEAN : SetState(c, done)
    \/ \E c \in Cell, note \in Note \cup {NoNote} : SetNote(c, note)
    \/ Reset

DbSpec == DbInit /\ [][DbNext]_dbVars
-----------------------------------------------------------------------------
TypeOK ==
    /\ clock \in Nat \ {0}
    /\ projects \in Seq(Project)
    /\ runs \in Seq(Run)
    /\ progress \in [Cell -> Row]
    /\ manual \in SUBSET Cell

(* The runs that moved a stage: not --validate, and they ran some test of  *)
(* it.                                                                     *)
Movers(c) ==
    {i \in DOMAIN runs : /\ runs[i].track = c[1]
                         /\ ~runs[i].validate
                         /\ runs[i].state[c[2]] # "none"}

(* `doneAt` is "null unless state is done", and never null when it is: the *)
(* three writers ingest, set_state and set_note keep the two columns in    *)
(* step whatever their order.                                              *)
DoneAtIffDone == \A c \in Cell : progress[c].done_at # 0 <=> progress[c].state = "done"

(* `lastRunId` is the newest run that ran the stage, and null exactly when *)
(* no recorded run did: no interleaving of ingests, manual marks and       *)
(* resets leaves it behind or dangling.                                    *)
LastRunIsNewestMover ==
    \A c \in Cell :
        LET last == progress[c].last_run_id
        IN  /\ Movers(c) = {} <=> last = 0
            /\ last # 0 => last \in Movers(c) /\ \A i \in Movers(c) : i <= last

(* API.md: done, in_progress and failed are what the latest run of the     *)
(* stage says, unless the user wrote the state by hand after it; todo is   *)
(* "never run, or explicitly un-done".                                     *)
StateFollowsLatestRun ==
    \A c \in Cell \ manual :
        IF progress[c].last_run_id = 0
        THEN progress[c].state \in {"absent", "todo"}
        ELSE progress[c].state = runs[progress[c].last_run_id].state[c[2]]

(* A stage that stays done keeps its completion time: re-running a green   *)
(* stage, or marking it done again, never moves the day the streak counts. *)
DoneAtStable ==
    [][\A c \in Cell :
          progress[c].state = "done" /\ progress'[c].state = "done"
            => progress'[c].done_at = progress[c].done_at]_dbVars
=============================================================================
