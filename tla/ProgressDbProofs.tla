-------------------------- MODULE ProgressDbProofs --------------------------
(***************************************************************************)
(* What ProgressDb promises for every set of tracks, stages, paths and     *)
(* notes and for every bound: types, the agreement of the columns of       *)
(* stage_progress with each other and with the runs table, and the         *)
(* stability of the completion time.                                       *)
(***************************************************************************)
EXTENDS ProgressDb, TLAPS

(* A stage's counts give one of the four values a run can store for it.    *)
LEMMA StageStateType ==
    ASSUME NEW c \in Counts
    PROVE  StageState(c) \in Derived \cup {"none"}
<1>1. c.passed \in Int /\ c.failed \in Int
  BY BoundAssumption DEF Counts
<1>2. QED
  BY <1>1 DEF StageState, Derived

(* The three upserts of stage_progress keep a row's type.                  *)
LEMMA RowTypes ==
    ASSUME NEW row \in Row, NEW ts \in Nat
    PROVE  /\ NoRow \in Row
           /\ \A s \in Derived, id \in Nat : IngestRow(row, s, ts, id) \in Row
           /\ \A done \in BOOLEAN : SetStateRow(row, done, ts) \in Row
           /\ \A note \in Note \cup {NoNote} : SetNoteRow(row, note, ts) \in Row
<1>1. NoRow \in Row
  BY DEF NoRow, Row
<1>2. ASSUME NEW s \in Derived, NEW id \in Nat
      PROVE  IngestRow(row, s, ts, id) \in Row
  BY DEF IngestRow, DoneAt, Row, State, Derived
<1>3. ASSUME NEW done \in BOOLEAN
      PROVE  SetStateRow(row, done, ts) \in Row
  BY DEF SetStateRow, DoneAt, Row, State, Derived
<1>4. ASSUME NEW note \in Note \cup {NoNote}
      PROVE  SetNoteRow(row, note, ts) \in Row
  BY DEF SetNoteRow, Row, State, Derived
<1>5. QED
  BY <1>1, <1>2, <1>3, <1>4

(* The states a report gives the stages, as ingest stores them.            *)
LEMMA ReportStates ==
    ASSUME NEW rep \in Report
    PROVE  /\ rep.validate \in BOOLEAN
           /\ \A s \in Stage : StageState(rep.stages[s]) \in Derived \cup {"none"}
<1>1. rep.validate \in BOOLEAN /\ rep.stages \in [Stage -> Counts]
  BY DEF Report
<1>2. QED
  BY <1>1, StageStateType
-----------------------------------------------------------------------------
(* A run that is recorded keeps the type of every table. *)
LEMMA IngestType ==
    ASSUME TypeOK, NEW t \in Track, NEW pid \in Nat, NEW rep \in Report,
           NEW started \in Nat, Ingest(t, pid, rep, started)
    PROVE  TypeOK'
<1> DEFINE id == Len(runs) + 1
           state == [s \in Stage |-> StageState(rep.stages[s])]
           moved == {c \in Cell : /\ c[1] = t
                                  /\ ~rep.validate
                                  /\ state[c[2]] # "none"}
           new == [track |-> t, project |-> pid, started_at |-> started,
                   validate |-> rep.validate, state |-> state]
<1>1. id \in Nat
  BY DEF TypeOK
<1>2. state \in [Stage -> Derived \cup {"none"}]
  BY ReportStates
<1>3. new \in Run
  BY <1>2, ReportStates DEF Run
<1>4. runs' = Append(runs, new)
  BY DEF Ingest
<1>5. runs' \in Seq(Run)
  BY <1>3, <1>4 DEF TypeOK
<1>6. progress' \in [Cell -> Row]
  <2>1. progress' = [c \in Cell |-> IF c \in moved
                                    THEN IngestRow(progress[c], state[c[2]], started, id)
                                    ELSE progress[c]]
    BY DEF Ingest
  <2>2. ASSUME NEW c \in moved
        PROVE  IngestRow(progress[c], state[c[2]], started, id) \in Row
    <3>1. c \in Cell /\ c[2] \in Stage
      BY DEF Cell
    <3>2. state[c[2]] \in Derived
      BY <1>2, <3>1
    <3>3. progress[c] \in Row
      BY <3>1 DEF TypeOK
    <3> HIDE DEF state, id, moved
    <3>4. QED
      BY <3>2, <3>3, <1>1, RowTypes
  <2>3. \A c \in Cell : progress[c] \in Row
    BY DEF TypeOK
  <2> HIDE DEF state, id, moved
  <2>4. QED
    BY <2>1, <2>2, <2>3
<1>7. manual' \in SUBSET Cell
  BY DEF Ingest, TypeOK
<1>8. QED
  BY <1>5, <1>6, <1>7 DEF Ingest, TypeOK

(* An empty database has its type. *)
LEMMA TypeInit == DbInit => TypeOK
<1> SUFFICES ASSUME DbInit PROVE TypeOK
  OBVIOUS
<1>1. NoRow \in Row
  BY DEF NoRow, Row
<1>2. QED
  BY <1>1 DEF DbInit, TypeOK

(* Every transaction, the clock's tick included, keeps the types. *)
LEMMA TypeNext == TypeOK /\ [DbNext]_dbVars => TypeOK'
<1> SUFFICES ASSUME TypeOK, [DbNext]_dbVars PROVE TypeOK'
  OBVIOUS
<1>1. CASE Tick
  BY <1>1 DEF Tick, TypeOK
<1>2. ASSUME NEW t \in Track, NEW p \in Path, UpsertProject(t, p)
      PROVE  TypeOK'
  <2>1. [track |-> t, path |-> p] \in Project
    BY DEF Project
  <2>2. projects' \in Seq(Project)
    BY <1>2, <2>1 DEF UpsertProject, TypeOK
  <2>3. QED
    BY <1>2, <2>2 DEF UpsertProject, TypeOK
<1>3. ASSUME NEW t \in Track, NEW pid \in 0 .. Len(projects) + 1, NEW rep \in Report,
             NEW started \in 1 .. clock, Ingest(t, pid, rep, started)
      PROVE  TypeOK'
  <2>1. pid \in Nat /\ started \in Nat
    BY DEF TypeOK
  <2>2. QED
    BY <1>3, <2>1, IngestType
<1>4. ASSUME NEW c \in Cell, NEW done \in BOOLEAN, SetState(c, done)
      PROVE  TypeOK'
  <2>1. SetStateRow(progress[c], done, clock) \in Row
    BY RowTypes DEF TypeOK
  <2>2. QED
    BY <1>4, <2>1 DEF SetState, TypeOK
<1>5. ASSUME NEW c \in Cell, NEW note \in Note \cup {NoNote}, SetNote(c, note)
      PROVE  TypeOK'
  <2>1. SetNoteRow(progress[c], note, clock) \in Row
    BY RowTypes DEF TypeOK
  <2>2. QED
    BY <1>5, <2>1 DEF SetNote, TypeOK
<1>6. CASE Reset
  <2>1. NoRow \in Row
    BY DEF NoRow, Row
  <2>2. QED
    BY <1>6, <2>1 DEF Reset, TypeOK
<1>7. CASE UNCHANGED dbVars
  BY <1>7 DEF dbVars, TypeOK
<1>8. QED
  BY <1>1, <1>2, <1>3, <1>4, <1>5, <1>6, <1>7 DEF DbNext

(* Every table keeps its columns' types, whatever order the transactions   *)
(* of `byo test`, `byo done`, `byo note`, `byo db reset` and the API take. *)
THEOREM TypeCorrect == DbSpec => []TypeOK
BY TypeInit, TypeNext, PTL DEF DbSpec
-----------------------------------------------------------------------------
(* The row half of the invariant: completion time and state agree.  It is  *)
(* inductive because every timestamp written is at least 1.                *)
LEMMA DoneAtInit == DbInit => DoneAtIffDone
BY DEF DbInit, DoneAtIffDone, NoRow

(* Every transaction sets doneAt with the state, or touches neither. *)
LEMMA DoneAtNext == TypeOK /\ DoneAtIffDone /\ [DbNext]_dbVars => DoneAtIffDone'
<1> SUFFICES ASSUME TypeOK, DoneAtIffDone, [DbNext]_dbVars,
                    NEW c \in Cell
             PROVE  progress'[c].done_at # 0 <=> progress'[c].state = "done"
  BY DEF DoneAtIffDone
<1> USE DEF DoneAtIffDone
<1>0. /\ progress[c] \in Row
      /\ clock # 0
      /\ progress[c].done_at # 0 <=> progress[c].state = "done"
  BY DEF TypeOK
<1>1. CASE Tick
  BY <1>0, <1>1 DEF Tick
<1>2. ASSUME NEW t \in Track, NEW p \in Path, UpsertProject(t, p)
      PROVE  progress'[c].done_at # 0 <=> progress'[c].state = "done"
  BY <1>0, <1>2 DEF UpsertProject
<1>3. ASSUME NEW t \in Track, NEW pid \in 0 .. Len(projects) + 1, NEW rep \in Report,
             NEW started \in 1 .. clock, Ingest(t, pid, rep, started)
      PROVE  progress'[c].done_at # 0 <=> progress'[c].state = "done"
  <2>1. \/ progress'[c] = progress[c]
        \/ \E st, id : progress'[c] = IngestRow(progress[c], st, started, id)
    BY <1>3 DEF Ingest
  <2>2. ASSUME NEW st, NEW id, progress'[c] = IngestRow(progress[c], st, started, id)
        PROVE  progress'[c].done_at # 0 <=> progress'[c].state = "done"
    <3>1. started # 0
      BY DEF TypeOK
    <3>2. /\ progress'[c].state = st
          /\ progress'[c].done_at = DoneAt(progress[c].done_at, st = "done", started)
      BY <1>0, <2>2 DEF IngestRow, Row
    <3>3. QED
      BY <3>1, <3>2 DEF DoneAt
  <2>3. QED
    BY <1>0, <2>1, <2>2
<1>4. ASSUME NEW d \in Cell, NEW done \in BOOLEAN, SetState(d, done)
      PROVE  progress'[c].done_at # 0 <=> progress'[c].state = "done"
  <2>1. CASE c # d
    BY <1>0, <1>4, <2>1 DEF SetState, TypeOK
  <2>2. CASE c = d
    <3>1. progress'[c] = SetStateRow(progress[c], done, clock)
      BY <1>4, <2>2 DEF SetState, TypeOK
    <3>2. /\ progress'[c].state = IF done THEN "done" ELSE "todo"
          /\ progress'[c].done_at = DoneAt(progress[c].done_at, done, clock)
      BY <1>0, <3>1 DEF SetStateRow, Row
    <3>3. QED
      BY <1>0, <3>2 DEF DoneAt
  <2>3. QED
    BY <2>1, <2>2
<1>5. ASSUME NEW d \in Cell, NEW note \in Note \cup {NoNote}, SetNote(d, note)
      PROVE  progress'[c].done_at # 0 <=> progress'[c].state = "done"
  <2>1. CASE c # d
    BY <1>0, <1>5, <2>1 DEF SetNote, TypeOK
  <2>2. CASE c = d
    <3>1. progress'[c] = SetNoteRow(progress[c], note, clock)
      BY <1>5, <2>2 DEF SetNote, TypeOK
    <3>2. /\ progress'[c].state =
                IF progress[c].state = "absent" THEN "todo" ELSE progress[c].state
          /\ progress'[c].done_at = progress[c].done_at
      BY <1>0, <3>1 DEF SetNoteRow, Row
    <3>3. QED
      BY <1>0, <3>2
  <2>3. QED
    BY <2>1, <2>2
<1>6. CASE Reset
  BY <1>6 DEF Reset, NoRow
<1>7. CASE UNCHANGED dbVars
  BY <1>0, <1>7 DEF dbVars
<1>8. QED
  BY <1>1, <1>2, <1>3, <1>4, <1>5, <1>6, <1>7 DEF DbNext

(* doneAt is null exactly when the stage is not done.                      *)
THEOREM DoneAtCorrect == DbSpec => []DoneAtIffDone
<1>1. DbInit => TypeOK /\ DoneAtIffDone
  BY TypeInit, DoneAtInit
<1>2. TypeOK /\ DoneAtIffDone /\ [DbNext]_dbVars => TypeOK' /\ DoneAtIffDone'
  BY TypeNext, DoneAtNext
<1>3. QED
  BY <1>1, <1>2, PTL DEF DbSpec

(* One step never moves the completion time of a stage that stays done.    *)
LEMMA DoneAtStep ==
    ASSUME TypeOK, DoneAtIffDone, DbNext, NEW c \in Cell,
           progress[c].state = "done", progress'[c].state = "done"
    PROVE  progress'[c].done_at = progress[c].done_at
<1>0. progress[c] \in Row /\ progress[c].done_at # 0
  BY DEF TypeOK, DoneAtIffDone
<1>1. CASE Tick
  BY <1>1 DEF Tick
<1>2. ASSUME NEW t \in Track, NEW p \in Path, UpsertProject(t, p)
      PROVE  progress'[c].done_at = progress[c].done_at
  BY <1>2 DEF UpsertProject
<1>3. ASSUME NEW t \in Track, NEW pid \in 0 .. Len(projects) + 1, NEW rep \in Report,
             NEW started \in 1 .. clock, Ingest(t, pid, rep, started)
      PROVE  progress'[c].done_at = progress[c].done_at
  <2>1. \/ progress'[c] = progress[c]
        \/ \E st, id : progress'[c] = IngestRow(progress[c], st, started, id)
    BY <1>3 DEF Ingest
  <2>2. ASSUME NEW st, NEW id, progress'[c] = IngestRow(progress[c], st, started, id)
        PROVE  progress'[c].done_at = progress[c].done_at
    <3>1. /\ progress'[c].state = st
          /\ progress'[c].done_at = DoneAt(progress[c].done_at, st = "done", started)
      BY <1>0, <2>2 DEF IngestRow, Row
    <3>2. QED
      BY <1>0, <3>1 DEF DoneAt
  <2>3. QED
    BY <2>1, <2>2
<1>4. ASSUME NEW d \in Cell, NEW done \in BOOLEAN, SetState(d, done)
      PROVE  progress'[c].done_at = progress[c].done_at
  <2>1. CASE c # d
    BY <1>4, <2>1 DEF SetState, TypeOK
  <2>2. CASE c = d
    <3>1. progress'[c] = SetStateRow(progress[c], done, clock)
      BY <1>4, <2>2 DEF SetState, TypeOK
    <3>2. /\ progress'[c].state = IF done THEN "done" ELSE "todo"
          /\ progress'[c].done_at = DoneAt(progress[c].done_at, done, clock)
      BY <1>0, <3>1 DEF SetStateRow, Row
    <3>3. QED
      BY <1>0, <3>2 DEF DoneAt
  <2>3. QED
    BY <2>1, <2>2
<1>5. ASSUME NEW d \in Cell, NEW note \in Note \cup {NoNote}, SetNote(d, note)
      PROVE  progress'[c].done_at = progress[c].done_at
  <2>1. CASE c # d
    BY <1>5, <2>1 DEF SetNote, TypeOK
  <2>2. CASE c = d
    <3>1. progress'[c] = SetNoteRow(progress[c], note, clock)
      BY <1>5, <2>2 DEF SetNote, TypeOK
    <3>2. QED
      BY <1>0, <3>1 DEF SetNoteRow, Row
  <2>3. QED
    BY <2>1, <2>2
<1>6. CASE Reset
  BY <1>6 DEF Reset, NoRow
<1>7. QED
  BY <1>1, <1>2, <1>3, <1>4, <1>5, <1>6 DEF DbNext

(* A stage that stays done keeps the time it first turned done.            *)
THEOREM DoneAtNeverMoves == DbSpec => DoneAtStable
<1>1. TypeOK /\ DoneAtIffDone /\ [DbNext]_dbVars
        => [\A c \in Cell :
               progress[c].state = "done" /\ progress'[c].state = "done"
                 => progress'[c].done_at = progress[c].done_at]_dbVars
  BY DoneAtStep
<1>2. QED
  BY <1>1, TypeCorrect, DoneAtCorrect, PTL DEF DbSpec, DoneAtStable
-----------------------------------------------------------------------------
(* The table half: last_run_id points at the newest run that moved the     *)
(* stage, and the state column is what that run said.  A cell that points  *)
(* at a run has a row: a note written later cannot turn it into todo.      *)
RowExists == \A c \in Cell : progress[c].last_run_id # 0 => progress[c].state # "absent"

RunsInv == LastRunIsNewestMover /\ StateFollowsLatestRun /\ RowExists

(* Nothing was run and no row exists in an empty database. *)
LEMMA RunsInit == DbInit => RunsInv
<1> SUFFICES ASSUME DbInit PROVE RunsInv
  OBVIOUS
<1>1. \A c \in Cell : Movers(c) = {}
  BY DEF DbInit, Movers
<1>2. \A c \in Cell : progress[c].last_run_id = 0 /\ progress[c].state = "absent"
  BY DEF DbInit, NoRow
<1>3. QED
  BY <1>1, <1>2 DEF RunsInv, LastRunIsNewestMover, StateFollowsLatestRun, RowExists

(* A step that leaves the runs and every last_run_id alone, and changes    *)
(* only the state of cells it marks as written by hand, or of cells that   *)
(* had no row, keeps the invariant.                                        *)
LEMMA RunsUnchanged ==
    ASSUME RunsInv, UNCHANGED runs, manual \subseteq manual',
           \A c \in Cell : progress'[c].last_run_id = progress[c].last_run_id,
           \A c \in Cell :
              \/ progress'[c].state = progress[c].state
              \/ c \in manual' /\ progress'[c].state # "absent"
              \/ progress[c].state = "absent" /\ progress'[c].state = "todo"
    PROVE  RunsInv'
<1>1. \A c \in Cell : Movers(c)' = Movers(c)
  BY DEF Movers
<1>2. LastRunIsNewestMover'
  BY <1>1 DEF RunsInv, LastRunIsNewestMover
<1>3. StateFollowsLatestRun'
  BY DEF RunsInv, StateFollowsLatestRun, RowExists
<1>4. RowExists'
  BY DEF RunsInv, RowExists
<1>5. QED
  BY <1>2, <1>3, <1>4 DEF RunsInv

(* Recording a run: the cells it moves point at it, the others keep the    *)
(* movers they had.                                                        *)
LEMMA RunsIngest ==
    ASSUME TypeOK, RunsInv, NEW t \in Track, NEW pid \in Nat, NEW rep \in Report,
           NEW started \in Nat, Ingest(t, pid, rep, started)
    PROVE  RunsInv'
<1> DEFINE id == Len(runs) + 1
           state == [s \in Stage |-> StageState(rep.stages[s])]
           moved == {c \in Cell : /\ c[1] = t
                                  /\ ~rep.validate
                                  /\ state[c[2]] # "none"}
           new == [track |-> t, project |-> pid, started_at |-> started,
                   validate |-> rep.validate, state |-> state]
<1>1. /\ runs' = Append(runs, new)
      /\ progress' = [c \in Cell |-> IF c \in moved
                                     THEN IngestRow(progress[c], state[c[2]], started, id)
                                     ELSE progress[c]]
      /\ manual' = manual \ moved
  BY DEF Ingest
<1>2. /\ id \in Nat \ {0}
      /\ id \notin DOMAIN runs
      /\ DOMAIN runs' = DOMAIN runs \cup {id}
      /\ runs'[id] = new
      /\ \A i \in DOMAIN runs : i < id /\ runs'[i] = runs[i]
  BY <1>1 DEF TypeOK
<1>3. /\ new.track = t
      /\ new.validate = rep.validate
      /\ new.state = state
  OBVIOUS
<1>4. ASSUME NEW c \in Cell
      PROVE  Movers(c)' = IF c \in moved THEN Movers(c) \cup {id} ELSE Movers(c)
  <2>1. \A i \in DOMAIN runs : i \in Movers(c)' <=> i \in Movers(c)
    BY <1>2 DEF Movers
  <2>2. id \in Movers(c)' <=> c \in moved
    BY <1>2, <1>3 DEF Movers
  <2>3. Movers(c)' \subseteq DOMAIN runs \cup {id}
    BY <1>2 DEF Movers
  <2>4. Movers(c) \subseteq DOMAIN runs
    BY DEF Movers
  <2> HIDE DEF moved, id
  <2>5. QED
    BY <1>2, <2>1, <2>2, <2>3, <2>4
<1>5. ASSUME NEW c \in moved
      PROVE  /\ progress'[c].last_run_id = id
             /\ progress'[c].state = state[c[2]]
             /\ state[c[2]] # "absent"
  <2>1. progress'[c] = IngestRow(progress[c], state[c[2]], started, id)
    BY <1>1
  <2>2. progress[c] \in Row /\ c[2] \in Stage
    BY DEF TypeOK, Cell
  <2>3. StageState(rep.stages[c[2]]) \in Derived \cup {"none"}
    BY <2>2, ReportStates
  <2>4. state[c[2]] # "absent"
    BY <2>2, <2>3 DEF Derived
  <2> HIDE DEF state, id
  <2>5. QED
    BY <2>1, <2>2, <2>4 DEF IngestRow, Row
<1>6. \A c \in Cell \ moved : progress'[c] = progress[c]
  BY <1>1
<1>7. moved \subseteq Cell
  OBVIOUS
<1> HIDE DEF state, moved, id, new
<1>8. LastRunIsNewestMover'
  <2> SUFFICES ASSUME NEW c \in Cell
               PROVE  LET last == progress'[c].last_run_id
                      IN  /\ Movers(c)' = {} <=> last = 0
                          /\ last # 0 => /\ last \in Movers(c)'
                                         /\ \A i \in Movers(c)' : i <= last
    BY DEF LastRunIsNewestMover
  <2>1. CASE c \in moved
    <3>1. Movers(c) \subseteq DOMAIN runs /\ DOMAIN runs \subseteq Nat
      BY DEF Movers, TypeOK
    <3>2. \A i \in Movers(c) : i <= id
      BY <1>2, <3>1
    <3>3. QED
      BY <1>2, <1>4, <1>5, <2>1, <3>2
  <2>2. CASE c \notin moved
    BY <1>4, <1>6, <2>2 DEF RunsInv, LastRunIsNewestMover
  <2>3. QED
    BY <2>1, <2>2
<1>9. StateFollowsLatestRun'
  <2> SUFFICES ASSUME NEW c \in Cell, c \notin manual'
               PROVE  IF progress'[c].last_run_id = 0
                      THEN progress'[c].state \in {"absent", "todo"}
                      ELSE progress'[c].state = runs'[progress'[c].last_run_id].state[c[2]]
    BY DEF StateFollowsLatestRun
  <2>1. CASE c \in moved
    BY <1>2, <1>3, <1>5, <2>1
  <2>2. CASE c \notin moved
    <3>1. c \notin manual
      BY <1>1, <2>2
    <3>2. progress[c].last_run_id # 0 => progress[c].last_run_id \in DOMAIN runs
      BY DEF RunsInv, LastRunIsNewestMover, Movers
    <3>3. QED
      BY <1>2, <1>6, <2>2, <3>1, <3>2 DEF RunsInv, StateFollowsLatestRun
  <2>3. QED
    BY <2>1, <2>2
<1>10. RowExists'
  BY <1>5, <1>6 DEF RunsInv, RowExists
<1>11. QED
  BY <1>8, <1>9, <1>10 DEF RunsInv

(* Every transaction keeps what runs and rows say of each other. *)
LEMMA RunsNext == TypeOK /\ RunsInv /\ [DbNext]_dbVars => RunsInv'
<1> SUFFICES ASSUME TypeOK, RunsInv, [DbNext]_dbVars PROVE RunsInv'
  OBVIOUS
<1>1. CASE Tick
  BY <1>1, RunsUnchanged DEF Tick
<1>2. ASSUME NEW t \in Track, NEW p \in Path, UpsertProject(t, p)
      PROVE  RunsInv'
  BY <1>2, RunsUnchanged DEF UpsertProject
<1>3. ASSUME NEW t \in Track, NEW pid \in 0 .. Len(projects) + 1, NEW rep \in Report,
             NEW started \in 1 .. clock, Ingest(t, pid, rep, started)
      PROVE  RunsInv'
  <2>1. pid \in Nat /\ started \in Nat
    BY DEF TypeOK
  <2>2. QED
    BY <1>3, <2>1, RunsIngest
<1>4. ASSUME NEW d \in Cell, NEW done \in BOOLEAN, SetState(d, done)
      PROVE  RunsInv'
  <2>1. /\ progress[d] \in Row
        /\ progress'[d] = SetStateRow(progress[d], done, clock)
        /\ \A c \in Cell \ {d} : progress'[c] = progress[c]
    BY <1>4 DEF SetState, TypeOK
  <2>2. /\ progress'[d].last_run_id = progress[d].last_run_id
        /\ progress'[d].state \in {"done", "todo"}
    BY <2>1 DEF SetStateRow, Row
  <2>3. QED
    BY <1>4, <2>1, <2>2, RunsUnchanged DEF SetState
<1>5. ASSUME NEW d \in Cell, NEW note \in Note \cup {NoNote}, SetNote(d, note)
      PROVE  RunsInv'
  <2>1. /\ progress[d] \in Row
        /\ progress'[d] = SetNoteRow(progress[d], note, clock)
        /\ \A c \in Cell \ {d} : progress'[c] = progress[c]
    BY <1>5 DEF SetNote, TypeOK
  <2>2. /\ progress'[d].last_run_id = progress[d].last_run_id
        /\ progress'[d].state =
              IF progress[d].state = "absent" THEN "todo" ELSE progress[d].state
    BY <2>1 DEF SetNoteRow, Row
  <2>3. QED
    BY <1>5, <2>1, <2>2, RunsUnchanged DEF SetNote
<1>6. CASE Reset
  <2>1. \A c \in Cell : Movers(c)' = {}
    BY <1>6 DEF Reset, Movers
  <2>2. \A c \in Cell : progress'[c].last_run_id = 0 /\ progress'[c].state = "absent"
    BY <1>6 DEF Reset, NoRow
  <2>3. QED
    BY <2>1, <2>2 DEF RunsInv, LastRunIsNewestMover, StateFollowsLatestRun, RowExists
<1>7. CASE UNCHANGED dbVars
  BY <1>7, RunsUnchanged DEF dbVars
<1>8. QED
  BY <1>1, <1>2, <1>3, <1>4, <1>5, <1>6, <1>7 DEF DbNext

(* Runs and rows agree in every reachable state. *)
LEMMA RunsCorrect == DbSpec => []RunsInv
<1>1. DbInit => TypeOK /\ RunsInv
  BY TypeInit, RunsInit
<1>2. TypeOK /\ RunsInv /\ [DbNext]_dbVars => TypeOK' /\ RunsInv'
  BY TypeNext, RunsNext
<1>3. QED
  BY <1>1, <1>2, PTL DEF DbSpec

(* lastRunId is the newest run that ran the stage, null when none did.     *)
THEOREM LastRunCorrect == DbSpec => []LastRunIsNewestMover
<1>1. RunsInv => LastRunIsNewestMover
  BY DEF RunsInv
<1>2. QED
  BY <1>1, RunsCorrect, PTL

(* The state column is what the newest run of the stage said, unless the   *)
(* user wrote it by hand since.                                            *)
THEOREM StateCorrect == DbSpec => []StateFollowsLatestRun
<1>1. RunsInv => StateFollowsLatestRun
  BY DEF RunsInv
<1>2. QED
  BY <1>1, RunsCorrect, PTL
=============================================================================
