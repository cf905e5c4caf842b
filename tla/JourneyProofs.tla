---------------------------- MODULE JourneyProofs ----------------------------
(***************************************************************************)
(* Whatever a tab of the site does, with its requests failing and crossing *)
(* commands, the database goes through ProgressDb's transactions only, and *)
(* its tables agree as ProgressDbProofs shows.                             *)
(***************************************************************************)
EXTENDS JourneyStore, ProgressDbProofs

siteAll == <<dbVars, siteVars>>

(* What is on its way to the server is an edit of a stage that exists: a   *)
(* state or a note.                                                        *)
IsEdit(r) ==
    /\ r.cell \in Cell
    /\ IsState(r.body) => r.body.state \in {"done", "todo"}
    /\ ~IsState(r.body) => r.body.note \in Note \cup {NoNote}

EditsSent ==
    /\ write = [w \in Write |-> write[w]]
    /\ \A w \in Write : write[w].pc = "sent" => IsEdit(write[w])

(* A note whose timer runs is one the user typed. *)
NotesTyped == typed \in [Cell -> Note \cup {NoNote, NothingTyped}]

TabInv == EditsSent /\ NotesTyped

(* What setStage posts. *)
LEMMA PostedIsEdit ==
    ASSUME NEW c \in Cell, NEW b, NEW r,
           \/ \E s \in {"done", "todo"} : b = [state |-> s]
           \/ \E n \in Note \cup {NoNote} : b = [note |-> n],
           r.cell = c, r.body = b
    PROVE  IsEdit(r)
<1>1. ASSUME NEW s \in {"done", "todo"}, b = [state |-> s] PROVE IsEdit(r)
  <2>1. DOMAIN b = {"state"} /\ b.state = s
    BY <1>1
  <2> QED BY <2>1 DEF IsEdit, IsState
<1>2. ASSUME NEW n \in Note \cup {NoNote}, b = [note |-> n] PROVE IsEdit(r)
  <2>1. DOMAIN b = {"note"} /\ b.note = n
    BY <1>2
  <2>2. "state" # "note"
    OBVIOUS
  <2> QED BY <2>1, <2>2 DEF IsEdit, IsState
<1> QED BY <1>1, <1>2

(* One call of setStage moves on. *)
LEMMA OneWrite ==
    ASSUME EditsSent, NEW w \in Write, NEW r, write' = [write EXCEPT ![w] = r],
           r.pc = "sent" => IsEdit(r)
    PROVE  EditsSent'
<1>1. \A x \in Write : write'[x] = IF x = w THEN r ELSE write[x]
  BY DEF EditsSent
<1>2. write' = [x \in Write |-> write'[x]]
  BY DEF EditsSent
<1> QED BY <1>1, <1>2 DEF EditsSent, IsEdit

(* A post carries what the user chose. *)
LEMMA PostStep ==
    ASSUME EditsSent, NEW w \in Write, NEW c \in Cell, NEW b, Post(w, c, b),
           \/ \E s \in {"done", "todo"} : b = [state |-> s]
           \/ \E n \in Note \cup {NoNote} : b = [note |-> n]
    PROVE  EditsSent'
<1>1. PICK r : r = [pc |-> "sent", cell |-> c, body |-> b, before |-> store.data[c]]
  OBVIOUS
<1>2. write' = [write EXCEPT ![w] = r] /\ r.cell = c /\ r.body = b
  BY <1>1 DEF Post
<1>3. IsEdit(r)
  BY <1>2, PostedIsEdit
<1> QED BY <1>2, <1>3, OneWrite

(* Every step keeps what the tab has on its way in shape. *)
LEMMA TabStep == TabInv /\ [Next]_siteAll => TabInv'
<1> SUFFICES ASSUME TabInv, [Next]_siteAll PROVE TabInv'
  OBVIOUS
<1>0. EditsSent /\ NotesTyped
  BY DEF TabInv
<1>1. ASSUME UNCHANGED <<write, typed>> PROVE TabInv'
  BY <1>0, <1>1 DEF TabInv, EditsSent, NotesTyped, IsEdit
<1>2. ASSUME EditsSent', typed' = typed PROVE TabInv'
  BY <1>0, <1>2 DEF TabInv, NotesTyped
<1>3. ASSUME NEW w \in Write, NEW c \in Cell, NEW s \in {"done", "todo"}, MarkStage(w, c, s)
      PROVE  TabInv'
  <2>1. Post(w, c, [state |-> s]) /\ typed' = typed
    BY <1>3 DEF MarkStage
  <2>2. EditsSent'
    BY <1>0, <2>1, PostStep
  <2> QED BY <1>2, <2>1, <2>2
<1>4. ASSUME NEW w \in Write, NEW c \in Cell, NoteTimer(w, c) PROVE TabInv'
  <2>1. /\ Post(w, c, [note |-> typed[c]]) /\ typed[c] \in Note \cup {NoNote}
        /\ typed' = [typed EXCEPT ![c] = NothingTyped]
    BY <1>0, <1>4 DEF NoteTimer, NotesTyped
  <2>2. EditsSent'
    BY <1>0, <2>1, PostStep
  <2>3. NotesTyped'
    BY <1>0, <2>1 DEF NotesTyped
  <2> QED BY <2>2, <2>3 DEF TabInv
<1>5. ASSUME NEW c \in Cell, NEW n \in Note \cup {NoNote}, TypeNote(c, n) PROVE TabInv'
  <2>1. typed' = [typed EXCEPT ![c] = n] /\ write' = write
    BY <1>5 DEF TypeNote
  <2>2. NotesTyped'
    BY <1>0, <2>1 DEF NotesTyped
  <2>3. EditsSent'
    BY <1>0, <2>1 DEF EditsSent, IsEdit
  <2> QED BY <2>2, <2>3 DEF TabInv
<1>6. ASSUME NEW w \in Write, WriteStep(w) PROVE TabInv'
  <2>1. ASSUME NEW r, write' = [write EXCEPT ![w] = r], r.pc # "sent" PROVE EditsSent'
    BY <1>0, <2>1, OneWrite
  <2>2. CASE ServePost(w)
    <3>1. PICK r : r = [pc |-> "answered", cell |-> write[w].cell, before |-> write[w].before,
                        row |-> Shown(progress'[write[w].cell])]
      OBVIOUS
    <3>2. write' = [write EXCEPT ![w] = r]
      BY <2>2, <3>1, Zenon DEF ServePost
    <3>3. r.pc # "sent" /\ typed' = typed
      BY <2>2, <3>1 DEF ServePost
    <3> QED BY <1>2, <2>1, <3>2, <3>3
  <2>3. CASE PostArrives(w) \/ PostFails(w)
    <3>1. PICK r : r = [pc |-> "over"]
      OBVIOUS
    <3> QED BY <1>2, <2>1, <2>3, <3>1 DEF PostArrives, PostFails
  <2> QED BY <1>6, <2>2, <2>3 DEF WriteStep
<1>7. CASE \/ Refresh \/ PollStep \/ SiteStops \/ SiteStarts \/ DbReset
  BY <1>1, <1>7 DEF Refresh, PollStep, HealthArrives, ServeRows, ServeIds, ProgressArrives,
                    LatestArrives, RunsArrive, PollFails, SiteStops, SiteStarts, DbReset, Command
<1>8. CASE \/ \E c \in Cell, d \in BOOLEAN : StageMarked(c, d)
           \/ \E t \in Track, rep \in Reports : RunRecorded(t, rep)
           \/ \E t \in Track, path \in Path : ProjectMade(t, path)
  BY <1>1, <1>8 DEF StageMarked, RunRecorded, ProjectMade, Command
<1>9. CASE UNCHANGED siteAll
  BY <1>1, <1>9 DEF siteAll, siteVars
<1> QED BY <1>3, <1>4, <1>5, <1>6, <1>7, <1>8, <1>9 DEF Next

(* A step of the tab, the server or a command is one transaction or none.  *)
LEMMA SiteTransaction == TypeOK /\ TabInv /\ [Next]_siteAll => [DbNext]_dbVars
<1> SUFFICES ASSUME TypeOK, TabInv, [Next]_siteAll PROVE DbNext \/ UNCHANGED dbVars
  OBVIOUS
<1>1. ASSUME NEW w \in Write, ServePost(w) PROVE DbNext
  <2>1. IsEdit(write[w])
    BY <1>1 DEF ServePost, TabInv, EditsSent
  <2>2. CASE IsState(write[w].body)
    <3>1. SetState(write[w].cell, write[w].body.state = "done")
      BY <1>1, <2>2 DEF ServePost
    <3>2. write[w].cell \in Cell /\ (write[w].body.state = "done") \in BOOLEAN
      BY <2>1 DEF IsEdit
    <3> QED BY <3>1, <3>2, Zenon DEF DbNext
  <2>3. CASE ~IsState(write[w].body)
    <3>1. SetNote(write[w].cell, write[w].body.note)
      BY <1>1, <2>3 DEF ServePost
    <3>2. write[w].cell \in Cell /\ write[w].body.note \in Note \cup {NoNote}
      BY <2>1, <2>3 DEF IsEdit
    <3> QED BY <3>1, <3>2, Zenon DEF DbNext
  <2> QED BY <2>2, <2>3
<1>2. ASSUME NEW w \in Write, WriteStep(w) PROVE DbNext \/ UNCHANGED dbVars
  BY <1>1, <1>2 DEF WriteStep, PostArrives, PostFails
<1>3. ASSUME NEW w \in Write, NEW c \in Cell,
             NoteTimer(w, c) \/ \E s \in {"done", "todo"} : MarkStage(w, c, s)
      PROVE  UNCHANGED dbVars
  BY <1>3 DEF NoteTimer, MarkStage
<1>4. ASSUME NEW c \in Cell, NEW n \in Note \cup {NoNote}, TypeNote(c, n)
      PROVE  UNCHANGED dbVars
  BY <1>4 DEF TypeNote
<1>5. CASE Refresh \/ PollStep \/ SiteStops \/ SiteStarts
  BY <1>5 DEF Refresh, PollStep, HealthArrives, ServeRows, ServeIds, ProgressArrives,
              LatestArrives, RunsArrive, PollFails, SiteStops, SiteStarts
<1>6. ASSUME NEW t \in Track, NEW rep \in Reports, RunRecorded(t, rep) PROVE DbNext
  <2>1. Ingest(t, 0, rep, clock)
    BY <1>6 DEF RunRecorded, Command
  <2>2. rep \in Report /\ clock \in 1 .. clock /\ 0 \in 0 .. Len(projects) + 1
    BY ReportsAssumption DEF TypeOK
  <2> QED BY <2>1, <2>2 DEF DbNext
<1>7. CASE \/ \E c \in Cell, d \in BOOLEAN : StageMarked(c, d)
           \/ \E t \in Track, path \in Path : ProjectMade(t, path)
           \/ DbReset
  BY <1>7 DEF StageMarked, ProjectMade, DbReset, Command, DbNext
<1>8. CASE UNCHANGED siteAll
  BY <1>8 DEF siteAll
<1> QED BY <1>2, <1>3, <1>4, <1>5, <1>6, <1>7, <1>8 DEF Next

(* The database under the site is ProgressDb's: a poll changes nothing, and*)
(* an edit of the tab is at most one set_state or set_note of a stage that *)
(* exists, whether or not its answer arrives.                              *)
THEOREM SiteImplementsProgressDb == Spec => DbSpec
<1>1. Init => DbInit /\ TypeOK /\ TabInv
  <2> SUFFICES ASSUME Init PROVE DbInit /\ TypeOK /\ TabInv
    OBVIOUS
  <2>1. DbInit /\ TypeOK
    BY TypeInit DEF Init
  <2>2. write = [w \in Write |-> [pc |-> "unused"]] /\ typed = [c \in Cell |-> NothingTyped]
    BY DEF Init
  <2>3. TabInv
    BY <2>2 DEF TabInv, EditsSent, NotesTyped
  <2> QED BY <2>1, <2>3
<1>2. TypeOK /\ TabInv /\ [Next]_siteAll => TypeOK' /\ TabInv' /\ [DbNext]_dbVars
  BY TabStep, SiteTransaction, TypeNext
<1>3. [][Next]_siteAll <=> [][Next]_<<dbVars, siteVars>>
  BY DEF siteAll
<1> QED BY <1>1, <1>2, <1>3, PTL DEF Spec, DbSpec

(* So a tab that polls and edits beside commands leaves the tables as they *)
(* should be: completion times, last runs and states agree.                *)
THEOREM TablesAgreeUnderEdits ==
    Spec => /\ [](DoneAtIffDone /\ LastRunIsNewestMover /\ StateFollowsLatestRun)
            /\ DoneAtStable
BY SiteImplementsProgressDb, DoneAtCorrect, DoneAtNeverMoves, LastRunCorrect, StateCorrect, PTL
=============================================================================
