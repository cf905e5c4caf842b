------------------------------ MODULE ByoTest -------------------------------
(***************************************************************************)
(* `byo test` processes (byo/src/runner.rs) and the POST handler of        *)
(* `byo site` (byo/src/api.rs) working on one progress database at the     *)
(* same time, next to the one-transaction commands `byo done`, `byo note`  *)
(* and `byo db reset`.                                                     *)
(*                                                                         *)
(* A `byo test` runs a tester, finds the JSON report it left, and records  *)
(* it in steps other processes can come between: read the report, open the *)
(* database, register the project, keep a copy of the report, ingest.  The *)
(* report is a temporary file of the process, or the file the user named   *)
(* with --json, which outlives it.                                         *)
(***************************************************************************)
EXTENDS ProgressDb, FiniteSets

CONSTANTS
    Proc,         \* concurrent `byo test` processes
    Reports,      \* the reports a tester can write
    UserJson,     \* may a process be given --json <the user's file>?
    CopyFails,    \* may copying the report into $BYO_HOME/reports fail?
    MaxTestRuns,  \* bound: invocations of `byo test`
    MaxPosts,     \* bound: API writes
    MaxEdits      \* bound: `byo done`, `byo note` and `byo db reset` commands

ASSUME ReportsAssumption == Reports \subseteq Report
ASSUME SwitchAssumption == UserJson \in BOOLEAN

VARIABLES
    proc,       \* the `byo test` processes
    temp,       \* temp[p]: the temporary report file of p
    user,       \* the user's report file
    kept,       \* kept[t]: $BYO_HOME/reports/<t>-latest.json
    post,       \* the POST /api/stages request that holds the connection mutex
    invocation, \* history: how many times `byo test` was started
    origin,     \* history: per recorded run, who recorded it and whose report
    posts,      \* history: how many POST requests were served
    edits       \* history: how many edit commands ran

fileVars == <<temp, user, kept>>
counters == <<invocation, posts, edits>>
vars == <<dbVars, proc, fileVars, post, origin, counters>>

(* A report file: nothing yet, half written, or whole.  `by` is history:   *)
(* the invocation whose tester wrote it.                                   *)
Empty == [status |-> "empty", by |-> 0]
Partial(i) == [status |-> "partial", by |-> i]
Whole(i, r) == [status |-> "whole", by |-> i, report |-> r]

Idle == [pc |-> "idle"]
NoPost == [pc |-> "none"]

Init ==
    /\ DbInit
    /\ proc = [p \in Proc |-> Idle]
    /\ temp = [p \in Proc |-> Empty]
    /\ user = Empty
    /\ kept = [t \in Track |-> Empty]
    /\ post = NoPost
    /\ invocation = 0 /\ posts = 0 /\ edits = 0
    /\ origin = <<>>

(* Faulty variant: some complete report of the temporary directory is read, *)
(* not the one inv.json names.                                              *)
SharedFile(p) == temp[CHOOSE q \in Proc : temp[q].status = "whole" \/ q = p]

(* The file inv.json names. *)
File(p) == IF proc[p].user THEN user ELSE temp[p]

WriteFile(p, content) ==
    IF proc[p].user
    THEN user' = content /\ UNCHANGED <<temp, kept>>
    ELSE temp' = [temp EXCEPT ![p] = content] /\ UNCHANGED <<user, kept>>

Goto(p, pc) == proc' = [proc EXCEPT ![p].pc = pc]

(* The process ends: the temporary file is deleted with it. *)
Exit(p) ==
    /\ proc' = [proc EXCEPT ![p] = Idle]
    /\ temp' = [temp EXCEPT ![p] = Empty]
-----------------------------------------------------------------------------
(* plan and test: the temporary file exists, empty, before the tester runs *)
Start(p, t, path, u) ==
    /\ proc[p].pc = "idle"
    /\ invocation < MaxTestRuns
    /\ invocation' = invocation + 1
    /\ proc' = [proc EXCEPT ![p] =
                  [pc |-> "tester", inv |-> invocation + 1, track |-> t,
                   path |-> path, user |-> u, started_at |-> clock]]
    /\ temp' = [temp EXCEPT ![p] = Empty]
    /\ UNCHANGED <<dbVars, user, kept, post, origin, posts, edits>>

(* The tester starts writing its report: the file is truncated first. *)
TesterOpensReport(p) ==
    /\ proc[p].pc = "tester"
    /\ WriteFile(p, Partial(proc[p].inv))
    /\ Goto(p, "writing")
    /\ UNCHANGED <<dbVars, post, origin, counters>>

TesterWritesReport(p, r) ==
    /\ proc[p].pc = "writing"
    /\ WriteFile(p, Whole(proc[p].inv, r))
    /\ Goto(p, "ingest_file")
    /\ UNCHANGED <<dbVars, post, origin, counters>>

(* `--list`: no report is expected, so none is read. *)
ListEnds(p) ==
    /\ proc[p].pc = "tester"
    /\ Exit(p)
    /\ UNCHANGED <<dbVars, user, kept, post, origin, counters>>

(* The tester exits without a report: a usage error, a panic, a signal,    *)
(* before it opened the file or half way through it.                       *)
TesterDies(p) ==
    /\ proc[p].pc \in {"tester", "writing"}
    /\ Goto(p, "ingest_file")
    /\ UNCHANGED <<dbVars, fileVars, post, origin, counters>>

(* Faulty variant: a file that is not whole yet is waited for.             *)
ReadWaits(p) ==
    /\ proc[p].pc = "ingest_file"
    /\ File(p).status = "empty"
    /\ Exit(p)
    /\ UNCHANGED <<dbVars, user, kept, post, origin, counters>>

(* ingest_file: a missing or empty file records nothing, a file that is    *)
(* not valid JSON is an error that records nothing either.                 *)
ReadNothing(p) ==
    /\ proc[p].pc = "ingest_file"
    /\ File(p).status # "whole"
    /\ Exit(p)
    /\ UNCHANGED <<dbVars, user, kept, post, origin, counters>>

ReadReport(p) ==
    /\ proc[p].pc = "ingest_file"
    /\ File(p).status = "whole"
    /\ proc' = [proc EXCEPT ![p] =
                  [pc |-> "register", inv |-> @.inv, track |-> @.track,
                   path |-> @.path, user |-> @.user, started_at |-> @.started_at,
                   report |-> File(p).report, by |-> File(p).by]]
    /\ UNCHANGED <<dbVars, fileVars, post, origin, counters>>

(* db::open, then upsert_project when the directory holds a byo.toml, which *)
(* is read here and not before: no byo.toml, no project.                    *)
Register(p, toml) ==
    /\ proc[p].pc = "register"
    /\ proc' = [proc EXCEPT ![p] =
                  [pc |-> "keep", inv |-> @.inv, track |-> @.track,
                   path |-> @.path, user |-> @.user, started_at |-> @.started_at,
                   report |-> @.report, by |-> @.by, wiped |-> FALSE,
                   project |-> IF toml THEN ProjectId(@.track, @.path) ELSE 0]]
    /\ IF toml THEN UpsertProject(proc[p].track, proc[p].path)
               ELSE UNCHANGED dbVars
    /\ UNCHANGED <<fileVars, post, origin, counters>>

(* kept_report_path: copy the report over the track's latest one. *)
KeepReport(p) ==
    /\ proc[p].pc = "keep"
    /\ kept' = [kept EXCEPT ![proc[p].track] = File(p)]
    /\ Goto(p, "ingest")
    /\ UNCHANGED <<dbVars, temp, user, post, origin, counters>>

(* The copy failed: the run is recorded without a json_path. *)
KeepFails(p) ==
    /\ CopyFails
    /\ proc[p].pc = "keep"
    /\ Goto(p, "ingest")
    /\ UNCHANGED <<dbVars, fileVars, post, origin, counters>>

(* Faulty variant: the process tries again although the commit succeeded.  *)
IngestAgain(p) ==
    /\ proc[p].pc = "ingest"
    /\ Ingest(proc[p].track, proc[p].project, proc[p].report, proc[p].started_at)
    /\ origin' = Append(origin, [inv |-> proc[p].inv, by |-> proc[p].by,
                                 path |-> proc[p].path, wiped |-> proc[p].wiped])
    /\ UNCHANGED <<proc, fileVars, post, counters>>

(* db::ingest, with the project id and the start time read before it.      *)
IngestRun(p) ==
    /\ proc[p].pc = "ingest"
    /\ Ingest(proc[p].track, proc[p].project, proc[p].report, proc[p].started_at)
    /\ origin' = Append(origin, [inv |-> proc[p].inv, by |-> proc[p].by,
                                 path |-> proc[p].path, wiped |-> proc[p].wiped])
    /\ Exit(p)
    /\ UNCHANGED <<user, kept, post, counters>>

(* "could not record this run": the project's row is gone, or the database *)
(* stayed locked past the busy timeout, or could not be opened.            *)
NotRecorded(p) ==
    /\ proc[p].pc \in {"register", "ingest"}
    /\ Exit(p)
    /\ UNCHANGED <<dbVars, user, kept, post, origin, counters>>

(* Ctrl-C or a crash of the process itself, at any point. *)
Killed(p) ==
    /\ proc[p].pc # "idle"
    /\ Exit(p)
    /\ UNCHANGED <<dbVars, user, kept, post, origin, counters>>
-----------------------------------------------------------------------------
(* respond locks the connection, so one request is handled at a time. *)
PostStage(c, body) ==
    /\ post.pc = "none"
    /\ posts < MaxPosts
    /\ posts' = posts + 1
    /\ post' = [pc |-> "state", cell |-> c, body |-> body]
    /\ UNCHANGED <<dbVars, proc, fileVars, origin, invocation, edits>>

(* Faulty variant: a body without a note clears it together with the state. *)
PostStateClearsNote ==
    /\ post.pc = "state"
    /\ progress' = [progress EXCEPT
                      ![post.cell] = SetNoteRow(SetStateRow(@, TRUE, clock), NoNote, clock)]
    /\ manual' = manual \cup {post.cell}
    /\ post' = [post EXCEPT !.pc = "note"]
    /\ UNCHANGED <<clock, projects, runs, proc, fileVars, origin, counters>>

(* set_state is a transaction of its own: other processes may write before *)
(* the note of the same request.  A state that is neither is refused.      *)
PostState ==
    /\ post.pc = "state"
    /\ CASE post.body.state \in {"done", "todo"} ->
              /\ SetState(post.cell, post.body.state = "done")
              /\ post' = [post EXCEPT !.pc = "note"]
         [] post.body.state = "missing" ->
              /\ UNCHANGED dbVars
              /\ post' = [post EXCEPT !.pc = "note"]
         [] post.body.state = "bad" ->
              /\ UNCHANGED dbVars
              /\ post' = NoPost
    /\ UNCHANGED <<proc, fileVars, origin, counters>>

(* A note that is no string is refused after the state was written. *)
PostNote ==
    /\ post.pc = "note"
    /\ IF post.body.note \in Note \cup {NoNote}
       THEN SetNote(post.cell, post.body.note) ELSE UNCHANGED dbVars
    /\ post' = NoPost
    /\ UNCHANGED <<proc, fileVars, origin, counters>>
-----------------------------------------------------------------------------
Edit(A) ==
    /\ edits < MaxEdits
    /\ edits' = edits + 1
    /\ A
    /\ UNCHANGED <<fileVars, post, invocation, posts>>

MarkCommand(c, done) == Edit(SetState(c, done) /\ UNCHANGED <<proc, origin>>)

NoteCommand(c, note) == Edit(SetNote(c, note) /\ UNCHANGED <<proc, origin>>)

(* byo db reset.  `wiped` is history: a project id read before it is stale. *)
ResetCommand ==
    Edit(/\ Reset
         /\ origin' = <<>>
         /\ proc' = [p \in Proc |->
                       IF proc[p].pc \in {"keep", "ingest"}
                       THEN [proc[p] EXCEPT !.wiped = TRUE] ELSE proc[p]])

TickCommand == Tick /\ UNCHANGED <<proc, fileVars, post, origin, counters>>

(* What a POST body asks for; a note of "" clears the column. *)
Body == [state : {"done", "todo", "missing", "bad"},
         note : Note \cup {NoNote} \cup {"missing", "bad"}]

TestStep(p) ==
    \/ TesterOpensReport(p)
    \/ \E r \in Reports : TesterWritesReport(p, r)
    \/ ListEnds(p)
    \/ TesterDies(p)
    \/ ReadNothing(p)
    \/ ReadReport(p)
    \/ \E toml \in BOOLEAN : Register(p, toml)
    \/ KeepReport(p)
    \/ KeepFails(p)
    \/ IngestRun(p)
    \/ NotRecorded(p)

PostStep == PostState \/ PostNote

Next ==
    \/ \E p \in Proc :
          \/ \E t \in Track, path \in Path, u \in {FALSE, UserJson} : Start(p, t, path, u)
          \/ TestStep(p)
          \/ Killed(p)
    \/ \E c \in Cell, body \in Body : PostStage(c, body)
    \/ PostStep
    \/ \E c \in Cell, done \in BOOLEAN : MarkCommand(c, done)
    \/ \E c \in Cell, note \in Note \cup {NoNote} : NoteCommand(c, note)
    \/ ResetCommand
    \/ TickCommand

(* A tester always ends, because every test it runs has a timeout, and the *)
(* steps after it are straight-line code; a request handler runs to its    *)
(* response.                                                               *)
Fairness == (\A p \in Proc : WF_vars(TestStep(p))) /\ WF_vars(PostStep)

Spec == Init /\ [][Next]_vars /\ Fairness
-----------------------------------------------------------------------------
(* "the tester wrote no JSON report; nothing was recorded": every recorded *)
(* run carries the report its own tester wrote.                            *)
RunHasItsOwnReport == \A i \in DOMAIN origin : origin[i].by = origin[i].inv

(* A recorded run names a project that exists, and it is the project it    *)
(* was run in, unless a reset came between upsert_project, which looked    *)
(* the id up, and ingest, which uses it.  Ids restart with a reset, so     *)
(* then it may be another project registered since; a row that is gone is  *)
(* never named.                                                            *)
RunKeepsItsProject ==
    \A i \in DOMAIN runs :
        runs[i].project # 0 =>
            /\ runs[i].project \in DOMAIN projects
            /\ \/ origin[i].wiped
               \/ projects[runs[i].project] = [track |-> runs[i].track,
                                               path |-> origin[i].path]

(* One invocation records at most one run. *)
RecordedOnce ==
    \A i, j \in DOMAIN origin : origin[i].inv = origin[j].inv => i = j

(* README: reports/ holds "the raw JSON report of the latest run per       *)
(* track" (byo/README.md:71): once every invocation has ended and was      *)
(* recorded, the kept report is the one of the newest run.                 *)
KeptReportIsLatest ==
    \A t \in Track :
        LET mine == {i \in DOMAIN runs : runs[i].track = t}
            last == CHOOSE i \in mine : \A j \in mine : j <= i
        IN  mine # {} /\ Len(runs) = invocation
              => kept[t].status = "whole" /\ kept[t].by = origin[last].inv

(* Every `byo test` ends and every request is answered. *)
EveryTestEnds ==
    /\ \A p \in Proc : proc[p].pc # "idle" ~> proc[p].pc = "idle"
    /\ post.pc # "none" ~> post.pc = "none"

(* The database seen through every interleaving is the one ProgressDb      *)
(* specifies: each step is one of its transactions or leaves it alone.     *)
RefinesProgressDb == DbSpec
=============================================================================
