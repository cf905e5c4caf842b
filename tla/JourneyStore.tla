---------------------------- MODULE JourneyStore ----------------------------
(***************************************************************************)
(* A browser tab of the site (site/src/lib/stores/journey.svelte.ts and    *)
(* the edits of progress.svelte.ts) over the progress database, through    *)
(* `byo site`: one poll at a time, user edits that are shown before they   *)
(* are saved, and a server that comes and goes.  `byo test` and the other  *)
(* commands write to the database in between.                              *)
(*                                                                         *)
(* A row on screen is its state and note; a stage without a row shows as   *)
(* todo.  JavaScript runs to the next await undisturbed, so that is what   *)
(* one action does.  Requests fail while the server is away.               *)
(***************************************************************************)
EXTENDS ProgressDb, FiniteSets

CONSTANTS
    TrackIds,    \* the tracks in the order of the registry
    Reports,     \* the reports `byo test` may bring meanwhile
    MaxWrites,   \* bound: edits made in the tab
    MaxCommands  \* bound: commands that write to the database meanwhile

ASSUME ReportsAssumption == Reports \subseteq Report

VARIABLES
    store,     \* class JourneyStore: status, health (probed, and the tracks that have a
               \* project), data, runs, latest, #latestIds
    poll,      \* the refresh() in flight: #inFlight, and where it waits
    write,     \* the setStage() calls
    typed,     \* per stage: the note whose save timer runs
    up,        \* does `byo site` answer?
    commands,  \* number of commands so far
    trouble    \* history: the database was reset, or a run's request failed

siteVars == <<store, poll, write, typed, up, commands, trouble>>

NothingTyped == "nothing"
NoRun == [id |-> 0]
NoPoll == [pc |-> "idle"]

Write == 1 .. MaxWrites

(* normalizeStageRow *)
Shown(row) == [state |-> IF row.state = "absent" THEN "todo" ELSE row.state,
               note |-> row.note]

(* db::latest_run_id; 0 when the track was never run. *)
LatestRunId(t) ==
    LET mine == {i \in DOMAIN runs : runs[i].track = t}
    IN  IF mine = {} THEN 0 ELSE CHOOSE i \in mine : \A j \in mine : j <= i

(* GET /api/runs/latest, and one line of GET /api/runs. *)
RunDoc(id) == IF id = 0 THEN NoRun ELSE [id |-> id, state |-> runs[id].state]
RunList == [i \in DOMAIN runs |-> RunDoc(i)]

Init ==
    /\ DbInit
    /\ store = [status |-> "probing", probed |-> FALSE, projects |-> {},
                data |-> [c \in Cell |-> Shown(NoRow)], runs |-> <<>>,
                latest |-> [t \in Track |-> NoRun], latestIds |-> [t \in Track |-> 0]]
    /\ poll = NoPoll
    /\ write = [w \in Write |-> [pc |-> "unused"]]
    /\ typed = [c \in Cell |-> NothingTyped]
    /\ up = TRUE /\ commands = 0 /\ trouble = FALSE

(* Connected enough to edit. *)
Connected == store.status \in {"connected", "reconnecting"}

(* What a failed request leaves the status at. *)
Lost == IF store.probed THEN "reconnecting" ELSE "offline"
-----------------------------------------------------------------------------
(* Health is probed again while anything about it could still change. *)
Stale ==
    \/ ~store.probed \/ store.status # "connected"
    \/ \E t \in Track : t \notin store.projects

(* The timer, or the tab becoming visible; one refresh at a time. *)
Refresh ==
    /\ poll.pc = "idle"
    /\ poll' = [pc |-> IF Stale THEN "health" ELSE "progress"]
    /\ UNCHANGED <<dbVars, store, write, typed, up, commands, trouble>>

HealthArrives ==
    /\ poll.pc = "health" /\ up
    /\ store' = [store EXCEPT !.probed = TRUE,
                              !.projects = {projects[i].track : i \in DOMAIN projects}]
    /\ poll' = [pc |-> "progress"]
    /\ UNCHANGED <<dbVars, write, typed, up, commands, trouble>>

(* GET /api/progress: the rows and the newest runs are read one after the  *)
(* other, in no common transaction.                                        *)
ServeRows ==
    /\ poll.pc = "progress" /\ up
    /\ poll' = [pc |-> "serving", rows |-> [c \in Cell |-> Shown(progress[c])]]
    /\ UNCHANGED <<dbVars, store, write, typed, up, commands, trouble>>

ServeIds ==
    /\ poll.pc = "serving" /\ up
    /\ poll' = [pc |-> "answered", rows |-> poll.rows,
                ids |-> [t \in Track |-> LatestRunId(t)]]
    /\ UNCHANGED <<dbVars, store, write, typed, up, commands, trouble>>

(* Faulty variant: the run list is asked for only while there is none. *)
RunsWantedOnce(s, changed) == s.runs = <<>>

(* Is the list of runs to be asked for, the latest runs being up to date?  *)
RunsWanted(s, changed) == changed \/ s.runs = <<>>

(* The loop over the tracks that are left, up to the next request: ids     *)
(* that are known are passed over, a track without runs is cleared, and    *)
(* the next other id is remembered before its run is asked for.            *)
NextRequest(s, rest, ids, changed) ==
    LET other == {k \in DOMAIN rest : ids[rest[k]] # s.latestIds[rest[k]]}
        ask == {k \in other : ids[rest[k]] # 0}
        at == IF ask = {} THEN Len(rest) + 1 ELSE CHOOSE k \in ask : \A j \in ask : k <= j
        passed == {rest[k] : k \in {j \in other : j <= at}}
        seen == [s EXCEPT !.latestIds = [t \in Track |-> IF t \in passed THEN ids[t] ELSE @[t]],
                          !.latest = [t \in Track |->
                                        IF t \in passed /\ ids[t] = 0 THEN NoRun ELSE @[t]]]
        moved == changed \/ passed # {}
    IN  /\ store' = seen
        /\ poll' = IF at <= Len(rest)
                   THEN [pc |-> "latest", track |-> rest[at], changed |-> moved,
                         rest |-> SubSeq(rest, at + 1, Len(rest)), ids |-> ids]
                   ELSE IF RunsWanted(seen, moved) THEN [pc |-> "runs"] ELSE NoPoll

(* The answer replaces everything on screen. *)
ProgressArrives ==
    /\ poll.pc = "answered"
    /\ NextRequest([store EXCEPT !.data = poll.rows, !.status = "connected"],
                   TrackIds, poll.ids, FALSE)
    /\ UNCHANGED <<dbVars, write, typed, up, commands, trouble>>

(* The newest run of the track now, which may be newer than the id. *)
LatestArrives ==
    /\ poll.pc = "latest" /\ up
    /\ NextRequest([store EXCEPT !.latest[poll.track] = RunDoc(LatestRunId(poll.track))],
                   poll.rest, poll.ids, poll.changed)
    /\ UNCHANGED <<dbVars, write, typed, up, commands, trouble>>

RunsArrive ==
    /\ poll.pc = "runs" /\ up
    /\ store' = [store EXCEPT !.runs = RunList]
    /\ poll' = NoPoll
    /\ UNCHANGED <<dbVars, write, typed, up, commands, trouble>>

(* Faulty variant: the flag of the refresh is not taken back. *)
StayInFlight == poll' = [pc |-> "stuck"]

EndPoll == poll' = NoPoll

(* A request of the refresh, or its answer, is lost. *)
PollFails ==
    /\ poll.pc \in {"health", "progress", "serving", "answered", "latest", "runs"} /\ ~up
    /\ store' = [store EXCEPT !.status = Lost]
    /\ EndPoll
    /\ trouble' = (trouble \/ poll.pc \in {"latest", "runs"})
    /\ UNCHANGED <<dbVars, write, typed, up, commands>>

PollStep ==
    \/ HealthArrives \/ ServeRows \/ ServeIds \/ ProgressArrives \/ LatestArrives \/ RunsArrive
    \/ PollFails
-----------------------------------------------------------------------------
Body == [state : {"done", "todo"}] \cup [note : Note \cup {NoNote}]
IsState(body) == DOMAIN body = {"state"}

(* setStage up to its request: the edit is on screen at once. *)
Post(w, c, body) ==
    /\ write[w].pc = "unused"
    /\ write' = [write EXCEPT ![w] = [pc |-> "sent", cell |-> c, body |-> body,
                                      before |-> store.data[c]]]
    /\ store' = [store EXCEPT !.data[c] =
                   IF IsState(body) THEN [@ EXCEPT !.state = body.state]
                                    ELSE [@ EXCEPT !.note = body.note]]

(* markDone and reset *)
MarkStage(w, c, state) ==
    /\ Connected
    /\ Post(w, c, [state |-> state])
    /\ UNCHANGED <<dbVars, poll, typed, up, commands, trouble>>

(* setNotes: on screen with every key, saved when the typing pauses. *)
TypeNote(c, note) ==
    /\ Connected
    /\ typed[c] = NothingTyped
    /\ Cardinality({d \in Cell : typed[d] # NothingTyped})
         < Cardinality({w \in Write : write[w].pc = "unused"})
    /\ typed' = [typed EXCEPT ![c] = note]
    /\ store' = [store EXCEPT !.data[c].note = note]
    /\ UNCHANGED <<dbVars, poll, write, up, commands, trouble>>

NoteTimer(w, c) ==
    /\ typed[c] # NothingTyped
    /\ Post(w, c, [note |-> typed[c]])
    /\ typed' = [typed EXCEPT ![c] = NothingTyped]
    /\ UNCHANGED <<dbVars, poll, up, commands, trouble>>

(* POST /api/stages/:track/:n at the server, with the row it answers. *)
ServePost(w) ==
    /\ write[w].pc = "sent" /\ up
    /\ IF IsState(write[w].body)
       THEN SetState(write[w].cell, write[w].body.state = "done")
       ELSE SetNote(write[w].cell, write[w].body.note)
    /\ write' = [write EXCEPT ![w] = [pc |-> "answered", cell |-> @.cell, before |-> @.before,
                                      row |-> Shown(progress'[@.cell])]]
    /\ UNCHANGED <<store, poll, typed, up, commands, trouble>>

PostArrives(w) ==
    /\ write[w].pc = "answered"
    /\ store' = [store EXCEPT !.data[write[w].cell] = write[w].row, !.status = "connected"]
    /\ write' = [write EXCEPT ![w] = [pc |-> "over"]]
    /\ UNCHANGED <<dbVars, poll, typed, up, commands, trouble>>

(* The request or its answer is lost: the row from before is put back. *)
PostFails(w) ==
    /\ write[w].pc \in {"sent", "answered"} /\ ~up
    /\ store' = [store EXCEPT !.data[write[w].cell] = write[w].before, !.status = Lost]
    /\ write' = [write EXCEPT ![w] = [pc |-> "over"]]
    /\ UNCHANGED <<dbVars, poll, typed, up, commands, trouble>>

WriteStep(w) == ServePost(w) \/ PostArrives(w) \/ PostFails(w)
-----------------------------------------------------------------------------
(* `byo site` stops and starts. *)
SiteStops == up /\ up' = FALSE /\ UNCHANGED <<dbVars, store, poll, write, typed, commands, trouble>>
SiteStarts == ~up /\ up' = TRUE /\ UNCHANGED <<dbVars, store, poll, write, typed, commands, trouble>>

Command(A) ==
    /\ commands < MaxCommands
    /\ commands' = commands + 1
    /\ A
    /\ UNCHANGED <<store, poll, write, typed, up>>

RunRecorded(t, rep) == Command(Ingest(t, 0, rep, clock) /\ UNCHANGED trouble)
ProjectMade(t, path) == Command(UpsertProject(t, path) /\ UNCHANGED trouble)
StageMarked(c, done) == Command(SetState(c, done) /\ UNCHANGED trouble)
DbReset == Command(Reset /\ trouble' = TRUE)

Next ==
    \/ Refresh \/ PollStep \/ SiteStops \/ SiteStarts
    \/ \E w \in Write :
          \/ \E c \in Cell :
                \/ \E state \in {"done", "todo"} : MarkStage(w, c, state)
                \/ NoteTimer(w, c)
          \/ WriteStep(w)
    \/ \E c \in Cell : \/ \E note \in Note \cup {NoNote} : TypeNote(c, note)
                       \/ \E done \in BOOLEAN : StageMarked(c, done)
    \/ \E t \in Track : \/ \E rep \in Reports : RunRecorded(t, rep)
                        \/ \E path \in Path : ProjectMade(t, path)
    \/ DbReset

(* The tab is visible, so its timer fires; every request is answered or    *)
(* fails in the end; typing pauses.                                        *)
Fairness ==
    /\ WF_siteVars(Refresh)
    /\ WF_siteVars(PollStep)
    /\ \A w \in Write : WF_siteVars(WriteStep(w))
    /\ WF_siteVars(\E w \in Write, c \in Cell : NoteTimer(w, c))

Spec == Init /\ [][Next]_<<dbVars, siteVars>> /\ Fairness
-----------------------------------------------------------------------------
(* The tab shows every row as the database has it. *)
InStep == store.status = "connected" /\ \A c \in Cell : store.data[c] = Shown(progress[c])

(* The tab shows the newest run of every track, and the list of runs. *)
RunsShown ==
    store.runs = RunList /\ \A t \in Track : store.latest[t] = RunDoc(LatestRunId(t))

(* "the single source of truth for progress": once the server stays up and *)
(* the edits are over, the tab comes back to what the database says and    *)
(* stays there, whatever answers crossed and whichever requests failed.    *)
ScreenCatchesUp == <>[]up => <>[]InStep

(* A run that `byo test` records is shown in the end, as long as neither   *)
(* a request for a run failed nor the database was reset: an id read       *)
(* before the run it stands for, or overtaken by a newer one, does no harm.*)
NewRunIsShown == <>[]up => <>(trouble \/ []RunsShown)

(* "picks up a new run within one poll, the way `byo test` finishing       *)
(* does": whatever failed before, polls that succeed show the newest run.  *)
RunGetsShown == <>[]up => <>[]RunsShown
=============================================================================
