---------------------------- MODULE ByoTestProofs ----------------------------
(***************************************************************************)
(* What concurrent `byo test` processes, API writes and edit commands      *)
(* leave in the progress database, for any number of processes, reports,   *)
(* projects and requests: one run per invocation, under the project it was *)
(* run in, with the report of its own tester; and every interleaving is a  *)
(* sequence of the transactions of ProgressDb.                             *)
(***************************************************************************)
EXTENDS ByoTest, ProgressDbProofs

(* A `byo test` process: not started, before it has read its report, with  *)
(* the report in hand, and with the project looked up as well.             *)
Waiting == [pc : {"idle"}]
Testing == [pc : {"tester", "writing", "ingest_file"}, inv : Nat, track : Track,
            path : Path, user : BOOLEAN, started_at : Nat]
Reading == [pc : {"register"}, inv : Nat, track : Track, path : Path,
            user : BOOLEAN, started_at : Nat, report : Report, by : Nat]
Recording == [pc : {"keep", "ingest"}, inv : Nat, track : Track, path : Path,
              user : BOOLEAN, started_at : Nat, report : Report, by : Nat,
              wiped : BOOLEAN, project : Nat]
ProcState == Waiting \cup Testing \cup Reading \cup Recording

FileState == [status : {"empty", "partial"}, by : Nat]
             \cup [status : {"whole"}, by : Nat, report : Report]

Request == [pc : {"none"}] \cup [pc : {"state", "note"}, cell : Cell, body : Body]

Origin == [inv : Nat, by : Nat, path : Path, wiped : BOOLEAN]

TestTypeOK ==
    /\ proc \in [Proc -> ProcState]
    /\ temp \in [Proc -> FileState]
    /\ user \in FileState
    /\ post \in Request
    /\ invocation \in Nat
    /\ origin \in Seq(Origin)

Active(p) == proc[p].pc # "idle"

(* Which fields a process has at which point of its run. *)
LEMMA ProcFields ==
    ASSUME NEW r \in ProcState
    PROVE  /\ r.pc = "idle" => r = Idle
           /\ r.pc \in {"tester", "writing", "ingest_file"} => r \in Testing
           /\ r.pc = "register" => r \in Reading
           /\ r.pc \in {"keep", "ingest"} => r \in Recording
           /\ r.pc # "idle" => r.inv \in Nat /\ r.started_at \in Nat /\ r.track \in Track
                               /\ r.path \in Path /\ r.user \in BOOLEAN
<1>1. CASE r \in Waiting
  BY <1>1 DEF Waiting, Idle
<1>2. CASE r \in Testing
  BY <1>2 DEF Testing
<1>3. CASE r \in Reading
  BY <1>3 DEF Reading
<1>4. CASE r \in Recording
  BY <1>4 DEF Recording
<1> QED BY <1>1, <1>2, <1>3, <1>4 DEF ProcState

(* A whole file holds a report. *)
LEMMA FileFields ==
    ASSUME NEW f \in FileState
    PROVE  f.by \in Nat /\ (f.status = "whole" => f.report \in Report)
BY DEF FileState

(* What is remembered of a recorded run. *)
LEMMA OriginFields ==
    ASSUME NEW s \in Seq(Origin), NEW i \in DOMAIN s
    PROVE  s[i].inv \in Nat /\ s[i].wiped \in BOOLEAN
<1>1. s[i] \in Origin
  OBVIOUS
<1> QED BY <1>1 DEF Origin

(* What the tester and the process write has the type of a file. *)
LEMMA FileTypes ==
    /\ Empty \in FileState
    /\ \A i \in Nat : Partial(i) \in FileState
    /\ \A i \in Nat, r \in Report : Whole(i, r) \in FileState
BY DEF Empty, Partial, Whole, FileState

(* The same process a step further on. *)
LEMMA GotoTypes ==
    /\ \A r \in Testing, c \in {"tester", "writing", "ingest_file"} :
          [r EXCEPT !.pc = c] \in Testing
    /\ \A r \in Recording, c \in {"keep", "ingest"} :
          [r EXCEPT !.pc = c] \in Recording
    /\ \A r \in Recording : [r EXCEPT !.wiped = TRUE] \in Recording
    /\ Idle \in ProcState
<1>1. \A r \in Testing, c \in {"tester", "writing", "ingest_file"} :
          [r EXCEPT !.pc = c] \in Testing
  BY DEF Testing
<1>2. \A r \in Recording, c \in {"keep", "ingest"} :
          [r EXCEPT !.pc = c] \in Recording
  BY DEF Recording
<1>3. \A r \in Recording : [r EXCEPT !.wiped = TRUE] \in Recording
  BY DEF Recording
<1>4. Idle \in ProcState
  BY DEF Idle, ProcState, Waiting
<1> QED BY <1>1, <1>2, <1>3, <1>4
-----------------------------------------------------------------------------
(* Every started process has an invocation of its own, and a recorded      *)
(* invocation has no process any more.                                     *)
OwnInvocations ==
    /\ \A p \in Proc : Active(p) => /\ proc[p].inv <= invocation
                                    /\ proc[p].started_at \in 1 .. clock
    /\ \A p, q \in Proc :
          Active(p) /\ Active(q) /\ proc[p].inv = proc[q].inv => p = q
    /\ \A i \in DOMAIN origin : origin[i].inv <= invocation
    /\ \A i \in DOMAIN origin, p \in Proc : Active(p) => origin[i].inv # proc[p].inv
    /\ RecordedOnce

(* A report read from a temporary file is the one the process's own tester *)
(* wrote there: the file is emptied when the process starts and ends.      *)
HoldsOwnReport(p) ==
    /\ Active(p) => proc[p].user = FALSE
    /\ temp[p].status = "whole" => Active(p) /\ temp[p].by = proc[p].inv
    /\ proc[p].pc \in {"register", "keep", "ingest"} => proc[p].by = proc[p].inv

OwnReports ==
    ~UserJson => (\A p \in Proc : HoldsOwnReport(p)) /\ RunHasItsOwnReport

(* Row i of the projects table is the project path of track t. *)
IsProject(i, t, path) ==
    i \in DOMAIN projects /\ projects[i] = [track |-> t, path |-> path]

(* The id a process holds, or a run was recorded with, is its project's    *)
(* unless a reset wiped the table since it was looked up.  A recorded run  *)
(* names a project that exists even then: the foreign key let it in, and   *)
(* a reset that takes the project takes the run with it.                   *)
OwnProjects ==
    /\ \A p \in Proc :
          proc[p].pc \in {"keep", "ingest"} /\ proc[p].project # 0 /\ ~proc[p].wiped
            => IsProject(proc[p].project, proc[p].track, proc[p].path)
    /\ Len(origin) = Len(runs)
    /\ \A i \in DOMAIN runs :
          runs[i].project # 0 /\ ~origin[i].wiped
            => IsProject(runs[i].project, runs[i].track, origin[i].path)
    /\ \A i \in DOMAIN runs : runs[i].project # 0 => runs[i].project \in DOMAIN projects

TestInv == OwnInvocations /\ OwnReports /\ OwnProjects

(* A step of process p leaves it in state r with f in its temporary file. *)
Becomes(p, r, f) ==
    /\ proc' = [proc EXCEPT ![p] = r]
    /\ temp' = [temp EXCEPT ![p] = f]

(* p has ended, or goes on with the same invocation. *)
Continues(p, r, f) ==
    \/ r = Idle /\ f = Empty
    \/ /\ Active(p) /\ r.pc # "idle"
       /\ r.inv = proc[p].inv /\ r.started_at = proc[p].started_at /\ r.user = proc[p].user

(* The step concerns p alone. *)
LEMMA OthersUnchanged ==
    ASSUME TestTypeOK, NEW p \in Proc, NEW r, NEW f, Becomes(p, r, f)
    PROVE  /\ proc'[p] = r /\ temp'[p] = f
           /\ \A q \in Proc : q # p => proc'[q] = proc[q] /\ temp'[q] = temp[q]
BY DEF TestTypeOK, Becomes

(* A process that goes on or ends keeps the invocations apart. *)
LEMMA InvocationsKept ==
    ASSUME TestTypeOK, OwnInvocations, NEW p \in Proc, NEW r \in ProcState, NEW f,
           Becomes(p, r, f), Continues(p, r, f),
           UNCHANGED <<clock, invocation, origin>>
    PROVE  OwnInvocations'
<1>1. /\ proc'[p] = r
      /\ \A q \in Proc : q # p => proc'[q] = proc[q]
  BY OthersUnchanged
<1>2. \A q \in Proc : Active(q)' =>
          Active(q) /\ proc'[q].inv = proc[q].inv /\ proc'[q].started_at = proc[q].started_at
  BY <1>1 DEF Active, Continues, Idle
<1> QED BY <1>2 DEF OwnInvocations, RecordedOnce

(* A process that keeps to its own file keeps to its own report. *)
LEMMA ReportsKept ==
    ASSUME TestTypeOK, OwnReports, NEW p \in Proc, NEW r \in ProcState, NEW f \in FileState,
           Becomes(p, r, f), Continues(p, r, f), UNCHANGED origin,
           ~UserJson => /\ f.status = "whole" => f = temp[p] \/ f.by = proc[p].inv
                        /\ r.pc \in {"register", "keep", "ingest"} => r.by = proc[p].inv
    PROVE  OwnReports'
<1> SUFFICES ASSUME ~UserJson
             PROVE  (\A q \in Proc : HoldsOwnReport(q)') /\ RunHasItsOwnReport'
  BY DEF OwnReports
<1>1. /\ proc'[p] = r /\ temp'[p] = f
      /\ \A q \in Proc : q # p => proc'[q] = proc[q] /\ temp'[q] = temp[q]
  BY OthersUnchanged
<1>2. HoldsOwnReport(p) /\ RunHasItsOwnReport
  BY DEF OwnReports
<1>3. HoldsOwnReport(p)'
  <2>1. CASE r = Idle /\ f = Empty
    BY <1>1, <2>1 DEF HoldsOwnReport, Active, Idle, Empty
  <2>2. CASE ~(r = Idle /\ f = Empty)
    BY <1>1, <1>2, <2>2 DEF HoldsOwnReport, Active, Continues
  <2> QED BY <2>1, <2>2
<1>4. ASSUME NEW q \in Proc, q # p PROVE HoldsOwnReport(q)'
  BY <1>1, <1>4 DEF OwnReports, HoldsOwnReport, Active
<1>5. RunHasItsOwnReport'
  BY <1>2 DEF RunHasItsOwnReport
<1> QED BY <1>3, <1>4, <1>5

(* Registering projects takes no id away. *)
LEMMA ProjectsKept ==
    ASSUME TestTypeOK, OwnProjects, NEW p \in Proc, NEW r \in ProcState, NEW f,
           Becomes(p, r, f), UNCHANGED <<runs, origin>>,
           \A i \in DOMAIN projects : i \in DOMAIN projects' /\ projects'[i] = projects[i],
           r.pc \in {"keep", "ingest"} /\ r.project # 0 /\ ~r.wiped
             => IsProject(r.project, r.track, r.path)'
    PROVE  OwnProjects'
<1>1. /\ proc'[p] = r
      /\ \A q \in Proc : q # p => proc'[q] = proc[q]
  BY OthersUnchanged
<1>2. \A i, t, path : IsProject(i, t, path) => IsProject(i, t, path)'
  BY DEF IsProject
<1>3. ASSUME NEW q \in Proc, proc'[q].pc \in {"keep", "ingest"}, proc'[q].project # 0,
             ~proc'[q].wiped
      PROVE  IsProject(proc[q].project, proc[q].track, proc[q].path)'
  <2>1. CASE q = p
    BY <1>1, <1>3, <2>1 DEF IsProject
  <2>2. CASE q # p
    <3>1. proc'[q] = proc[q]
      BY <1>1, <2>2
    <3>2. IsProject(proc[q].project, proc[q].track, proc[q].path)
      BY <1>3, <3>1 DEF OwnProjects
    <3> QED BY <1>2, <3>1, <3>2 DEF IsProject
  <2> QED BY <2>1, <2>2
<1>4. ASSUME NEW i \in DOMAIN runs, runs[i].project # 0, ~origin[i].wiped
      PROVE  IsProject(runs[i].project, runs[i].track, origin[i].path)'
  <2>1. IsProject(runs[i].project, runs[i].track, origin[i].path)
    BY <1>4 DEF OwnProjects
  <2> QED BY <1>2, <2>1 DEF IsProject
<1>5. ASSUME NEW i \in DOMAIN runs, runs[i].project # 0
      PROVE  runs[i].project \in DOMAIN projects'
  BY <1>5 DEF OwnProjects
<1> QED BY <1>3, <1>4, <1>5 DEF OwnProjects

(* What one process does between its start and its recording. *)
LEMMA ProcessStep ==
    ASSUME TestTypeOK, TestInv,
           NEW p \in Proc, NEW r \in ProcState, NEW f \in FileState,
           Becomes(p, r, f), Continues(p, r, f), user' \in FileState,
           UNCHANGED <<clock, runs, post, origin, invocation>>,
           \A i \in DOMAIN projects : i \in DOMAIN projects' /\ projects'[i] = projects[i],
           ~UserJson => /\ f.status = "whole" => f = temp[p] \/ f.by = proc[p].inv
                        /\ r.pc \in {"register", "keep", "ingest"} => r.by = proc[p].inv,
           r.pc \in {"keep", "ingest"} /\ r.project # 0 /\ ~r.wiped
             => IsProject(r.project, r.track, r.path)'
    PROVE  TestTypeOK' /\ TestInv'
<1>1. TestTypeOK'
  BY DEF TestTypeOK, Becomes
<1>2. OwnInvocations'
  BY InvocationsKept DEF TestInv
<1>3. OwnReports'
  BY ReportsKept DEF TestInv
<1>4. OwnProjects'
  BY ProjectsKept DEF TestInv
<1> QED BY <1>1, <1>2, <1>3, <1>4 DEF TestInv

(* The ends of a process: no report, nothing recorded, killed. *)
LEMMA ExitStep ==
    ASSUME TestTypeOK, TestInv, NEW p \in Proc, Exit(p),
           UNCHANGED <<dbVars, user, kept, post, origin, counters>>
    PROVE  TestTypeOK' /\ TestInv'
<1>1. Becomes(p, Idle, Empty) /\ Continues(p, Idle, Empty)
  BY DEF Becomes, Continues, Exit
<1>2. Idle \in ProcState /\ Empty \in FileState
  BY GotoTypes, FileTypes
<1>3. /\ UNCHANGED <<clock, runs, post, origin, invocation>>
      /\ user' \in FileState /\ projects' = projects
  BY DEF dbVars, counters, TestTypeOK
<1>4. Idle.pc = "idle" /\ Empty.status = "empty"
  BY DEF Idle, Empty
<1> QED BY <1>1, <1>2, <1>3, <1>4, ProcessStep

(* The tester writes the file its process named. *)
LEMMA WriteStep ==
    ASSUME TestTypeOK, TestInv, NEW p \in Proc, NEW content \in FileState,
           NEW pc \in {"writing", "ingest_file"},
           proc[p].pc \in {"tester", "writing", "ingest_file"},
           WriteFile(p, content), Goto(p, pc), content.by = proc[p].inv,
           UNCHANGED <<dbVars, post, origin, counters>>
    PROVE  TestTypeOK' /\ TestInv'
<1>0. PICK r, f : /\ r = [proc[p] EXCEPT !.pc = pc]
                  /\ f = IF proc[p].user THEN temp[p] ELSE content
  OBVIOUS
<1>1. proc[p] \in ProcState /\ proc[p] \in Testing /\ temp[p] \in FileState
  BY ProcFields DEF TestTypeOK
<1>2. r \in Testing /\ r \in ProcState /\ f \in FileState
  BY <1>0, <1>1, GotoTypes DEF ProcState
<1>3. /\ r.pc = pc /\ r.inv = proc[p].inv /\ r.started_at = proc[p].started_at
      /\ r.user = proc[p].user
  BY <1>0, <1>1 DEF Testing
<1>4. proc' = [proc EXCEPT ![p] = r]
  BY <1>0 DEF Goto
<1>5. temp' = [temp EXCEPT ![p] = f] /\ user' \in FileState
  <2>1. CASE proc[p].user
    BY <1>0, <2>1 DEF WriteFile, TestTypeOK
  <2>2. CASE ~proc[p].user
    BY <1>0, <2>2 DEF WriteFile, TestTypeOK
  <2> QED BY <2>1, <2>2
<1>6. f = temp[p] \/ f.by = proc[p].inv
  BY <1>0
<1>7. Active(p)
  BY DEF Active
<1>8. UNCHANGED <<clock, runs, post, origin, invocation>> /\ projects' = projects
  BY DEF dbVars, counters
<1>9. Becomes(p, r, f) /\ Continues(p, r, f)
  BY <1>3, <1>4, <1>5, <1>7 DEF Becomes, Continues
<1> QED BY <1>2, <1>3, <1>5, <1>6, <1>8, <1>9, ProcessStep

(* A process moves on and leaves every file alone, or only replaces the    *)
(* kept copy of a track.                                                   *)
LEMMA GotoStep ==
    ASSUME TestTypeOK, TestInv, NEW p \in Proc, NEW pc,
           \/ proc[p].pc \in {"tester", "writing"} /\ pc = "ingest_file"
           \/ proc[p].pc = "keep" /\ pc = "ingest",
           Goto(p, pc), UNCHANGED <<dbVars, temp, user, post, origin, counters>>
    PROVE  TestTypeOK' /\ TestInv'
<1>0. PICK r : r = [proc[p] EXCEPT !.pc = pc]
  OBVIOUS
<1>1. proc[p] \in ProcState /\ temp[p] \in FileState
  BY DEF TestTypeOK
<1>2. proc' = [proc EXCEPT ![p] = r] /\ temp' = [temp EXCEPT ![p] = temp[p]]
  BY <1>0 DEF Goto, TestTypeOK
<1>3. UNCHANGED <<clock, runs, post, origin, invocation>> /\ projects' = projects
      /\ user' \in FileState
  BY DEF dbVars, counters, TestTypeOK
<1>4. /\ r \in ProcState /\ r.pc = pc /\ Active(p)
      /\ r.inv = proc[p].inv /\ r.started_at = proc[p].started_at /\ r.user = proc[p].user
      /\ pc = "ingest" => /\ r.by = proc[p].by /\ r.wiped = proc[p].wiped
                          /\ r.project = proc[p].project
                          /\ r.track = proc[p].track /\ r.path = proc[p].path
  <2>1. CASE proc[p].pc \in {"tester", "writing"} /\ pc = "ingest_file"
    <3>1. proc[p] \in Testing
      BY <1>1, <2>1, ProcFields
    <3>2. r \in Testing
      BY <1>0, <2>1, <3>1, GotoTypes
    <3> QED BY <1>0, <2>1, <3>1, <3>2 DEF Testing, ProcState, Active
  <2>2. CASE proc[p].pc = "keep" /\ pc = "ingest"
    <3>1. proc[p] \in Recording
      BY <1>1, <2>2, ProcFields
    <3>2. r \in Recording
      BY <1>0, <2>2, <3>1, GotoTypes
    <3> QED BY <1>0, <2>2, <3>1, <3>2 DEF Recording, ProcState, Active
  <2> QED BY <2>1, <2>2
<1>5. Becomes(p, r, temp[p]) /\ Continues(p, r, temp[p])
  BY <1>2, <1>4 DEF Becomes, Continues
<1>6. ~UserJson /\ r.pc \in {"register", "keep", "ingest"} => r.by = proc[p].inv
  BY <1>4 DEF TestInv, OwnReports, HoldsOwnReport
<1>7. r.pc \in {"keep", "ingest"} /\ r.project # 0 /\ ~r.wiped
        => IsProject(r.project, r.track, r.path)'
  <2>1. SUFFICES ASSUME r.pc \in {"keep", "ingest"}, r.project # 0, ~r.wiped
                 PROVE  IsProject(r.project, r.track, r.path)'
    OBVIOUS
  <2>2. pc = "ingest" /\ proc[p].pc = "keep"
    BY <1>4, <2>1
  <2>3. IsProject(proc[p].project, proc[p].track, proc[p].path)
    BY <1>4, <2>1, <2>2 DEF TestInv, OwnProjects
  <2>4. IsProject(r.project, r.track, r.path)
    BY <1>4, <2>2, <2>3
  <2> QED BY <1>3, <2>4 DEF IsProject
<1> QED BY <1>1, <1>3, <1>4, <1>5, <1>6, <1>7, ProcessStep

(* ingest_file reads the report, which is the process's own unless the     *)
(* file is the user's.                                                     *)
LEMMA ReadStep ==
    ASSUME TestTypeOK, TestInv, NEW p \in Proc, ReadReport(p)
    PROVE  TestTypeOK' /\ TestInv'
<1>0. PICK r, f : /\ r = [pc |-> "register", inv |-> proc[p].inv, track |-> proc[p].track,
                          path |-> proc[p].path, user |-> proc[p].user,
                          started_at |-> proc[p].started_at,
                          report |-> File(p).report, by |-> File(p).by]
                  /\ f = temp[p]
  OBVIOUS
<1>1. proc[p] \in Testing /\ f \in FileState /\ Active(p)
  BY <1>0, ProcFields DEF TestTypeOK, ReadReport, Active
<1>2. File(p).report \in Report /\ File(p).by \in Nat
  BY FileFields DEF File, ReadReport, TestTypeOK
<1>3. r \in Reading
  BY <1>0, <1>1, <1>2 DEF Testing, Reading
<1>4. r \in ProcState
  BY <1>3 DEF ProcState
<1>5. Becomes(p, r, f) /\ Continues(p, r, f)
  <2>1. proc' = [proc EXCEPT ![p] = r]
    BY <1>0 DEF ReadReport
  <2>2. temp' = [temp EXCEPT ![p] = f]
    BY <1>0 DEF ReadReport, fileVars, TestTypeOK
  <2> QED BY <1>0, <1>1, <2>1, <2>2 DEF Becomes, Continues
<1>6. UNCHANGED <<clock, runs, post, origin, invocation>> /\ projects' = projects
      /\ user' \in FileState
  BY DEF dbVars, counters, fileVars, TestTypeOK, ReadReport
<1>7. ~UserJson => r.by = proc[p].inv
  <2> SUFFICES ASSUME ~UserJson PROVE r.by = proc[p].inv
    OBVIOUS
  <2>1. HoldsOwnReport(p)
    BY DEF TestInv, OwnReports
  <2>2. File(p) = temp[p]
    BY <1>1, <2>1 DEF HoldsOwnReport, File
  <2>3. temp[p].status = "whole"
    BY <2>2 DEF ReadReport
  <2> QED BY <1>0, <2>1, <2>2, <2>3 DEF HoldsOwnReport
<1>8. r.pc = "register"
  BY <1>0
<1> QED BY <1>0, <1>1, <1>4, <1>5, <1>6, <1>7, <1>8, ProcessStep

(* upsert_project answers with the id of the project it was asked for, and *)
(* moves no other.                                                         *)
LEMMA UpsertFinds ==
    ASSUME TypeOK, NEW t \in Track, NEW path \in Path, UpsertProject(t, path)
    PROVE  /\ ProjectId(t, path) \in Nat
           /\ ProjectId(t, path) \in DOMAIN projects'
           /\ projects'[ProjectId(t, path)] = [track |-> t, path |-> path]
           /\ \A i \in DOMAIN projects : i \in DOMAIN projects' /\ projects'[i] = projects[i]
<1> DEFINE row == [track |-> t, path |-> path]
<1>1. projects \in Seq(Project) /\ row \in Project
  BY DEF TypeOK, Project
<1>2. CASE \E i \in DOMAIN projects : projects[i] = row
  <2>1. ProjectId(t, path) = CHOOSE i \in DOMAIN projects : projects[i] = row
    BY <1>2 DEF ProjectId
  <2>2. ProjectId(t, path) \in DOMAIN projects /\ projects[ProjectId(t, path)] = row
    BY <1>2, <2>1
  <2>3. projects' = projects
    BY <2>2 DEF UpsertProject
  <2> QED BY <1>1, <2>2, <2>3
<1>3. CASE ~\E i \in DOMAIN projects : projects[i] = row
  <2>1. ProjectId(t, path) = Len(projects) + 1
    BY <1>3 DEF ProjectId
  <2>2. ProjectId(t, path) \notin DOMAIN projects
    BY <1>1, <2>1
  <2>3. projects' = Append(projects, row)
    BY <2>2 DEF UpsertProject
  <2> HIDE DEF row
  <2> QED BY <1>1, <2>1, <2>3 DEF row
<1> QED BY <1>2, <1>3

(* The project is looked up or created; without a byo.toml there is none. *)
LEMMA RegisterStep ==
    ASSUME TypeOK, TestTypeOK, TestInv, NEW p \in Proc, NEW toml \in BOOLEAN,
           Register(p, toml)
    PROVE  TestTypeOK' /\ TestInv'
<1>0. PICK id, r, f :
          /\ id = IF toml THEN ProjectId(proc[p].track, proc[p].path) ELSE 0
          /\ r = [pc |-> "keep", inv |-> proc[p].inv, track |-> proc[p].track,
                  path |-> proc[p].path, user |-> proc[p].user,
                  started_at |-> proc[p].started_at, report |-> proc[p].report,
                  by |-> proc[p].by, wiped |-> FALSE, project |-> id]
          /\ f = temp[p]
  OBVIOUS
<1>1. proc[p] \in Reading /\ f \in FileState /\ Active(p)
  BY <1>0, ProcFields DEF TestTypeOK, Register, Active
<1>2. proc[p].track \in Track /\ proc[p].path \in Path
  BY <1>1 DEF Reading
<1>3. /\ id \in Nat
      /\ id # 0 => /\ id \in DOMAIN projects'
                   /\ projects'[id] = [track |-> proc[p].track, path |-> proc[p].path]
      /\ \A i \in DOMAIN projects : i \in DOMAIN projects' /\ projects'[i] = projects[i]
  <2>1. CASE toml
    <3>1. UpsertProject(proc[p].track, proc[p].path)
      BY <2>1 DEF Register
    <3> QED BY <1>0, <1>2, <2>1, <3>1, UpsertFinds
  <2>2. CASE ~toml
    BY <1>0, <2>2 DEF Register, dbVars
  <2> QED BY <2>1, <2>2
<1>4. r \in Recording
  BY <1>0, <1>1, <1>3 DEF Reading, Recording
<1>5. r \in ProcState
  BY <1>4 DEF ProcState
<1>6. Becomes(p, r, f) /\ Continues(p, r, f)
  <2>1. proc' = [proc EXCEPT ![p] = r]
    BY <1>0 DEF Register
  <2>2. temp' = [temp EXCEPT ![p] = f]
    BY <1>0 DEF Register, fileVars, TestTypeOK
  <2> QED BY <1>0, <1>1, <2>1, <2>2 DEF Becomes, Continues
<1>7. UNCHANGED <<clock, runs, post, origin, invocation>> /\ user' \in FileState
  BY DEF dbVars, counters, fileVars, TestTypeOK, Register, UpsertProject
<1>8. ~UserJson => r.by = proc[p].inv
  BY <1>0 DEF TestInv, OwnReports, HoldsOwnReport, Register
<1>9. r.project # 0 => IsProject(r.project, r.track, r.path)'
  BY <1>0, <1>3 DEF IsProject
<1> QED BY <1>0, <1>1, <1>3, <1>5, <1>6, <1>7, <1>8, <1>9, ProcessStep

(* A new process takes the next invocation and an empty file. *)
LEMMA StartStep ==
    ASSUME TypeOK, TestTypeOK, TestInv, NEW p \in Proc, NEW t \in Track, NEW path \in Path,
           NEW u \in {FALSE, UserJson}, Start(p, t, path, u)
    PROVE  TestTypeOK' /\ TestInv'
<1>0. PICK r : r = [pc |-> "tester", inv |-> invocation + 1, track |-> t,
                    path |-> path, user |-> u, started_at |-> clock]
  OBVIOUS
<1>1. /\ u \in BOOLEAN /\ (~UserJson => u = FALSE)
      /\ r \in Testing /\ r \in ProcState /\ Empty \in FileState
  <2>1. u \in BOOLEAN /\ (~UserJson => u = FALSE)
    BY SwitchAssumption
  <2>2. invocation + 1 \in Nat /\ clock \in Nat
    BY DEF TypeOK, TestTypeOK
  <2>3. r \in Testing
    BY <1>0, <2>1, <2>2 DEF Testing
  <2> QED BY <2>1, <2>3, FileTypes DEF ProcState
<1>2. Becomes(p, r, Empty)
  BY <1>0 DEF Start, Becomes
<1>3. /\ proc'[p] = r /\ temp'[p] = Empty
      /\ \A q \in Proc : q # p => proc'[q] = proc[q] /\ temp'[q] = temp[q]
  BY <1>2, OthersUnchanged
<1>4. /\ invocation' = invocation + 1 /\ invocation \in Nat
      /\ UNCHANGED <<clock, projects, runs, user, post, origin>>
      /\ proc[p].pc = "idle"
  BY DEF Start, TestTypeOK, dbVars
<1>5. TestTypeOK'
  BY <1>1, <1>2, <1>4 DEF TestTypeOK, Becomes
<1>6. OwnInvocations'
  <2>1. \A q \in Proc : Active(q) => proc[q].inv \in Nat
    BY ProcFields DEF Active, TestTypeOK
  <2>2. \A i \in DOMAIN origin : origin[i].inv \in Nat
    BY OriginFields DEF TestTypeOK
  <2>3. \A q \in Proc : Active(q)' =>
            \/ q = p /\ proc'[q].inv = invocation + 1 /\ proc'[q].started_at = clock
            \/ /\ q # p /\ Active(q) /\ proc'[q].inv = proc[q].inv
               /\ proc'[q].started_at = proc[q].started_at
    BY <1>0, <1>3 DEF Active
  <2>4. clock \in 1 .. clock
    BY DEF TypeOK
  <2>5. ASSUME NEW q \in Proc, Active(q)'
        PROVE  proc'[q].inv <= invocation' /\ proc'[q].started_at \in 1 .. clock'
    BY <1>4, <2>1, <2>3, <2>4, <2>5 DEF TestInv, OwnInvocations
  <2>6. ASSUME NEW q \in Proc, NEW s \in Proc, Active(q)', Active(s)',
               proc'[q].inv = proc'[s].inv
        PROVE  q = s
    BY <1>4, <2>1, <2>3, <2>6 DEF TestInv, OwnInvocations
  <2>7. ASSUME NEW i \in DOMAIN origin, NEW q \in Proc, Active(q)'
        PROVE  origin[i].inv # proc'[q].inv
    BY <1>4, <2>2, <2>3, <2>7 DEF TestInv, OwnInvocations
  <2>8. \A i \in DOMAIN origin : origin[i].inv <= invocation'
    BY <1>4, <2>2 DEF TestInv, OwnInvocations
  <2>9. RecordedOnce'
    BY <1>4 DEF TestInv, OwnInvocations, RecordedOnce
  <2> QED BY <1>4, <2>5, <2>6, <2>7, <2>8, <2>9 DEF OwnInvocations
<1>7. OwnReports'
  <2> SUFFICES ASSUME ~UserJson
               PROVE  (\A q \in Proc : HoldsOwnReport(q)') /\ RunHasItsOwnReport'
    BY DEF OwnReports
  <2>1. HoldsOwnReport(p)'
    BY <1>0, <1>1, <1>3 DEF HoldsOwnReport, Active, Empty
  <2>2. ASSUME NEW q \in Proc, q # p PROVE HoldsOwnReport(q)'
    BY <1>3, <2>2 DEF TestInv, OwnReports, HoldsOwnReport, Active
  <2>3. RunHasItsOwnReport'
    BY <1>4 DEF TestInv, OwnReports, RunHasItsOwnReport
  <2> QED BY <2>1, <2>2, <2>3
<1>8. OwnProjects'
  BY <1>0, <1>1, <1>2, <1>4, ProjectsKept DEF TestInv
<1> QED BY <1>5, <1>6, <1>7, <1>8 DEF TestInv

(* Appending to a sequence adds one entry and moves none. *)
LEMMA Appended ==
    ASSUME NEW S, NEW s \in Seq(S), NEW e \in S
    PROVE  /\ Append(s, e) \in Seq(S)
           /\ Len(Append(s, e)) = Len(s) + 1
           /\ \A i \in DOMAIN Append(s, e) :
                 \/ i \in DOMAIN s /\ Append(s, e)[i] = s[i]
                 \/ i = Len(s) + 1 /\ Append(s, e)[i] = e
OBVIOUS

(* The transaction of ingest adds one run, with the project it was given,  *)
(* which the foreign key requires to exist.                                *)
LEMMA IngestAppends ==
    ASSUME TypeOK, NEW t \in Track, NEW pid \in Nat, NEW rep \in Report,
           NEW started \in Nat, Ingest(t, pid, rep, started)
    PROVE  \E row \in Run : /\ runs' = Append(runs, row)
                            /\ row.track = t /\ row.project = pid
                            /\ pid # 0 => pid \in DOMAIN projects
<1>1. PICK st : st = [s \in Stage |-> StageState(rep.stages[s])]
  OBVIOUS
<1>2. PICK row : row = [track |-> t, project |-> pid, started_at |-> started,
                        validate |-> rep.validate, state |-> st]
  OBVIOUS
<1>3. st \in [Stage -> Derived \cup {"none"}] /\ rep.validate \in BOOLEAN
  BY <1>1, ReportStates
<1>4. row \in Run
  BY <1>2, <1>3 DEF Run
<1>5. runs' = Append(runs, row)
  BY <1>1, <1>2 DEF Ingest
<1>6. pid # 0 => pid \in DOMAIN projects
  BY DEF Ingest, ForeignKeyOK
<1> QED BY <1>2, <1>4, <1>5, <1>6

(* A process records its run and ends. *)
LEMMA IngestStep ==
    ASSUME TypeOK, TestTypeOK, TestInv, NEW p \in Proc, IngestRun(p)
    PROVE  TestTypeOK' /\ TestInv'
<1>1. proc[p] \in Recording /\ Active(p) /\ proc[p].pc = "ingest"
  BY ProcFields DEF TestTypeOK, IngestRun, Active
<1>2. /\ proc[p].track \in Track /\ proc[p].project \in Nat /\ proc[p].report \in Report
      /\ proc[p].started_at \in Nat /\ proc[p].inv \in Nat
  BY <1>1 DEF Recording
<1>3. PICK o : o = [inv |-> proc[p].inv, by |-> proc[p].by, path |-> proc[p].path,
                    wiped |-> proc[p].wiped]
  OBVIOUS
<1>4. o \in Origin
  BY <1>1, <1>3 DEF Recording, Origin
<1>5. PICK row \in Run : /\ runs' = Append(runs, row)
                         /\ row.track = proc[p].track /\ row.project = proc[p].project
                         /\ row.project # 0 => row.project \in DOMAIN projects
  BY <1>2, IngestAppends DEF IngestRun
<1>6. /\ origin' = Append(origin, o)
      /\ Becomes(p, Idle, Empty)
      /\ UNCHANGED <<clock, projects, user, post, invocation>>
  BY <1>3 DEF IngestRun, Exit, Becomes, Ingest, counters
<1>7. Idle \in ProcState /\ Empty \in FileState /\ Idle.pc = "idle" /\ Empty.status = "empty"
  BY GotoTypes, FileTypes DEF Idle, Empty
<1>8. origin \in Seq(Origin) /\ runs \in Seq(Run) /\ Len(origin) = Len(runs)
  BY DEF TypeOK, TestTypeOK, TestInv, OwnProjects
<1>9. /\ proc'[p] = Idle /\ temp'[p] = Empty
      /\ \A q \in Proc : q # p => proc'[q] = proc[q] /\ temp'[q] = temp[q]
  BY <1>6, OthersUnchanged
<1>10. /\ origin' \in Seq(Origin) /\ Len(origin') = Len(origin) + 1
       /\ \A i \in DOMAIN origin' : \/ i \in DOMAIN origin /\ origin'[i] = origin[i]
                                    \/ i = Len(origin) + 1 /\ origin'[i] = o
  BY <1>4, <1>6, <1>8, Appended
<1>11. /\ Len(runs') = Len(runs) + 1
       /\ \A i \in DOMAIN runs' : \/ i \in DOMAIN runs /\ runs'[i] = runs[i]
                                  \/ i = Len(runs) + 1 /\ runs'[i] = row
  BY <1>5, <1>8, Appended
<1>12. TestTypeOK'
  BY <1>6, <1>7, <1>10 DEF TestTypeOK, Becomes
<1>13. OwnInvocations'
  <2>1. \A q \in Proc : Active(q)' => q # p /\ Active(q) /\ proc'[q] = proc[q]
    BY <1>7, <1>9 DEF Active
  <2>2. o.inv = proc[p].inv
    BY <1>3
  <2>3. ASSUME NEW q \in Proc, Active(q)'
        PROVE  proc'[q].inv <= invocation' /\ proc'[q].started_at \in 1 .. clock'
    BY <1>6, <2>1, <2>3 DEF TestInv, OwnInvocations
  <2>4. ASSUME NEW q \in Proc, NEW s \in Proc, Active(q)', Active(s)',
               proc'[q].inv = proc'[s].inv
        PROVE  q = s
    BY <2>1, <2>4 DEF TestInv, OwnInvocations
  <2>5. ASSUME NEW i \in DOMAIN origin' PROVE origin'[i].inv <= invocation'
    BY <1>1, <1>6, <1>10, <2>2 DEF TestInv, OwnInvocations
  <2>6. ASSUME NEW i \in DOMAIN origin', NEW q \in Proc, Active(q)'
        PROVE  origin'[i].inv # proc'[q].inv
    BY <1>1, <1>10, <2>1, <2>2, <2>6 DEF TestInv, OwnInvocations
  <2>7. RecordedOnce'
    <3>1. RecordedOnce /\ \A i \in DOMAIN origin : origin[i].inv # o.inv
      BY <1>1, <2>2 DEF TestInv, OwnInvocations
    <3> QED BY <1>10, <3>1 DEF RecordedOnce
  <2> QED BY <2>3, <2>4, <2>5, <2>6, <2>7 DEF OwnInvocations
<1>14. OwnReports'
  <2> SUFFICES ASSUME ~UserJson
               PROVE  (\A q \in Proc : HoldsOwnReport(q)') /\ RunHasItsOwnReport'
    BY DEF OwnReports
  <2>1. HoldsOwnReport(p)'
    BY <1>7, <1>9 DEF HoldsOwnReport, Active
  <2>2. ASSUME NEW q \in Proc, q # p PROVE HoldsOwnReport(q)'
    BY <1>9, <2>2 DEF TestInv, OwnReports, HoldsOwnReport, Active
  <2>3. RunHasItsOwnReport /\ o.by = o.inv
    BY <1>1, <1>3 DEF TestInv, OwnReports, HoldsOwnReport
  <2>4. RunHasItsOwnReport'
    BY <1>10, <2>3 DEF RunHasItsOwnReport
  <2> QED BY <2>1, <2>2, <2>4
<1>15. OwnProjects'
  <2>1. \A i, t, path : IsProject(i, t, path) => IsProject(i, t, path)'
    BY <1>6 DEF IsProject
  <2>2. ASSUME NEW q \in Proc, proc'[q].pc \in {"keep", "ingest"}, proc'[q].project # 0,
               ~proc'[q].wiped
        PROVE  IsProject(proc[q].project, proc[q].track, proc[q].path)'
    <3>1. proc'[q] = proc[q]
      BY <1>7, <1>9, <2>2
    <3> QED BY <1>6, <2>2, <3>1 DEF TestInv, OwnProjects, IsProject
  <2>3. ASSUME NEW i \in DOMAIN runs', runs'[i].project # 0, ~origin'[i].wiped
        PROVE  IsProject(runs[i].project, runs[i].track, origin[i].path)'
    <3>1. i \in DOMAIN origin'
      BY <1>8, <1>10, <1>11
    <3>2. CASE i \in DOMAIN runs
      <4>1. i \in DOMAIN origin /\ i # Len(origin) + 1 /\ i # Len(runs) + 1
        BY <1>8, <3>2
      <4>2. runs'[i] = runs[i] /\ origin'[i] = origin[i]
        BY <1>10, <1>11, <3>1, <4>1
      <4>3. IsProject(runs[i].project, runs[i].track, origin[i].path)
        BY <2>3, <3>2, <4>2 DEF TestInv, OwnProjects
      <4> QED BY <1>6, <4>2, <4>3 DEF IsProject
    <3>3. CASE i \notin DOMAIN runs
      <4>1. i \notin DOMAIN origin
        BY <1>8, <3>3
      <4>2. runs'[i] = row /\ origin'[i] = o
        BY <1>10, <1>11, <3>1, <3>3, <4>1
      <4>3. proc[p].project # 0 /\ ~proc[p].wiped
        BY <1>3, <1>5, <2>3, <4>2
      <4>4. IsProject(proc[p].project, proc[p].track, proc[p].path)
        BY <1>1, <4>3 DEF TestInv, OwnProjects
      <4>5. o.path = proc[p].path
        BY <1>3
      <4>6. IsProject(row.project, row.track, o.path)
        BY <1>5, <4>4, <4>5
      <4> QED BY <1>6, <4>2, <4>6 DEF IsProject
    <3> QED BY <3>2, <3>3
  <2>4. ASSUME NEW i \in DOMAIN runs', runs'[i].project # 0
        PROVE  runs'[i].project \in DOMAIN projects'
    <3>1. CASE i \in DOMAIN runs /\ runs'[i] = runs[i]
      BY <1>6, <2>4, <3>1 DEF TestInv, OwnProjects
    <3>2. CASE runs'[i] = row
      BY <1>5, <1>6, <2>4, <3>2
    <3> QED BY <1>11, <3>1, <3>2
  <2> QED BY <1>8, <1>10, <1>11, <2>2, <2>3, <2>4 DEF OwnProjects
<1> QED BY <1>12, <1>13, <1>14, <1>15 DEF TestInv

(* Steps of others that leave the processes and their files alone. *)
LEMMA OutsideStep ==
    ASSUME TypeOK, TestTypeOK, TestInv, clock' \in Nat, clock <= clock', post' \in Request,
           UNCHANGED <<projects, runs, proc, temp, user, origin, invocation>>
    PROVE  TestTypeOK' /\ TestInv'
<1>1. TestTypeOK'
  BY DEF TestTypeOK
<1>2. OwnInvocations'
  <2>1. \A q \in Proc : Active(q)' => Active(q)
    BY DEF Active
  <2>2. \A q \in Proc : proc[q].started_at \in 1 .. clock => proc[q].started_at \in 1 .. clock'
    BY DEF TypeOK
  <2> QED BY <2>1, <2>2 DEF TestInv, OwnInvocations, RecordedOnce
<1>3. OwnReports'
  BY DEF TestInv, OwnReports, HoldsOwnReport, Active, RunHasItsOwnReport
<1>4. OwnProjects'
  BY DEF TestInv, OwnProjects, IsProject
<1> QED BY <1>1, <1>2, <1>3, <1>4 DEF TestInv

(* The fields of a request that is being served. *)
LEMMA PostFields ==
    ASSUME NEW r \in Request
    PROVE  r.pc # "none" => /\ r.cell \in Cell /\ r.body \in Body
                            /\ [r EXCEPT !.pc = "note"] \in Request
BY DEF Request

(* The API writes rows of stage_progress and no run. *)
LEMMA PostKeeps ==
    ASSUME TypeOK, TestTypeOK, TestInv,
           \/ \E c \in Cell, body \in Body : PostStage(c, body)
           \/ PostStep
    PROVE  TestTypeOK' /\ TestInv'
<1>0. clock \in Nat /\ clock <= clock
  BY DEF TypeOK
<1>1. ASSUME NEW c \in Cell, NEW body \in Body, PostStage(c, body)
      PROVE  TestTypeOK' /\ TestInv'
  <2>1. post' \in Request
    BY <1>1 DEF PostStage, Request
  <2>2. UNCHANGED <<clock, projects, runs, proc, temp, user, origin, invocation>>
    BY <1>1 DEF PostStage, dbVars, fileVars
  <2> QED BY <1>0, <2>1, <2>2, OutsideStep
<1>2. CASE PostState
  <2>1. NoPost \in Request /\ [post EXCEPT !.pc = "note"] \in Request /\ post.body \in Body
    BY <1>2, PostFields DEF PostState, TestTypeOK, NoPost, Request
  <2>2. post.body.state \in {"done", "todo"} \/ post.body.state = "missing"
        \/ post.body.state = "bad"
    BY <2>1 DEF Body
  <2>3. /\ post' \in Request
        /\ \/ UNCHANGED dbVars
           \/ SetState(post.cell, post.body.state = "done")
    BY <1>2, <2>1, <2>2 DEF PostState
  <2>4. UNCHANGED <<clock, projects, runs, proc, temp, user, origin, invocation>>
    BY <1>2, <2>3 DEF PostState, SetState, dbVars, fileVars, counters
  <2> QED BY <1>0, <2>3, <2>4, OutsideStep
<1>3. CASE PostNote
  <2>1. post' \in Request
    BY <1>3 DEF PostNote, NoPost, Request
  <2>2. UNCHANGED <<clock, projects, runs, proc, temp, user, origin, invocation>>
    BY <1>3 DEF PostNote, SetNote, dbVars, fileVars, counters
  <2> QED BY <1>0, <2>1, <2>2, OutsideStep
<1> QED BY <1>1, <1>2, <1>3 DEF PostStep

(* `byo done` and `byo note` write rows of stage_progress and no run. *)
LEMMA CommandKeeps ==
    ASSUME TypeOK, TestTypeOK, TestInv,
           \/ \E c \in Cell, done \in BOOLEAN : MarkCommand(c, done)
           \/ \E c \in Cell, note \in Note \cup {NoNote} : NoteCommand(c, note)
           \/ TickCommand
    PROVE  TestTypeOK' /\ TestInv'
<1>1. post \in Request /\ clock \in Nat
  BY DEF TypeOK, TestTypeOK
<1>2. UNCHANGED <<projects, runs, proc, temp, user, post, origin, invocation>>
  BY DEF MarkCommand, NoteCommand, TickCommand, Edit, SetState, SetNote, Tick, fileVars,
         counters
<1>3. clock' \in Nat /\ clock <= clock'
  BY <1>1 DEF MarkCommand, NoteCommand, TickCommand, Edit, SetState, SetNote, Tick
<1> QED BY <1>1, <1>2, <1>3, OutsideStep

(* `byo db reset` empties the tables; a project id looked up before it is  *)
(* marked as stale.                                                        *)
LEMMA ResetStep ==
    ASSUME TypeOK, TestTypeOK, TestInv, ResetCommand
    PROVE  TestTypeOK' /\ TestInv'
<1>1. /\ projects' = <<>> /\ runs' = <<>> /\ origin' = <<>>
      /\ UNCHANGED <<clock, temp, user, post, invocation>>
      /\ proc' = [p \in Proc |-> IF proc[p].pc \in {"keep", "ingest"}
                                 THEN [proc[p] EXCEPT !.wiped = TRUE] ELSE proc[p]]
  BY DEF ResetCommand, Edit, Reset, fileVars
<1>2. ASSUME NEW p \in Proc
      PROVE  /\ proc'[p] \in ProcState
             /\ proc'[p].pc \in {"keep", "ingest"} => proc'[p].wiped
             /\ proc'[p].pc = proc[p].pc
             /\ Active(p) => /\ proc'[p].inv = proc[p].inv
                             /\ proc'[p].started_at = proc[p].started_at
                             /\ proc'[p].user = proc[p].user
             /\ proc[p].pc \in {"register", "keep", "ingest"} => proc'[p].by = proc[p].by
  <2>1. CASE proc[p].pc \in {"keep", "ingest"}
    <3>1. proc[p] \in Recording
      BY <2>1, ProcFields DEF TestTypeOK
    <3>2. proc'[p] = [proc[p] EXCEPT !.wiped = TRUE]
      BY <1>1, <2>1
    <3>3. proc'[p] \in Recording
      BY <3>1, <3>2, GotoTypes
    <3>4. proc'[p] \in ProcState
      BY <3>3 DEF ProcState
    <3> QED BY <3>1, <3>2, <3>4 DEF Recording
  <2>2. CASE proc[p].pc \notin {"keep", "ingest"}
    <3>1. proc'[p] = proc[p]
      BY <1>1, <2>2
    <3> QED BY <2>2, <3>1 DEF TestTypeOK
  <2> QED BY <2>1, <2>2
<1>3. proc' \in [Proc -> ProcState]
  <2>1. DOMAIN proc' = Proc /\ proc' = [p \in Proc |-> proc'[p]]
    BY <1>1
  <2> QED BY <1>2, <2>1
<1>4. TestTypeOK'
  BY <1>1, <1>3 DEF TestTypeOK
<1>5. \A p \in Proc : Active(p)' = Active(p)
  BY <1>2 DEF Active
<1>6. OwnInvocations'
  BY <1>1, <1>2, <1>5 DEF TestInv, OwnInvocations, RecordedOnce
<1>7. OwnReports'
  <2> SUFFICES ASSUME ~UserJson
               PROVE  (\A q \in Proc : HoldsOwnReport(q)') /\ RunHasItsOwnReport'
    BY DEF OwnReports
  <2>1. ASSUME NEW q \in Proc PROVE HoldsOwnReport(q)'
    <3>1. HoldsOwnReport(q)
      BY DEF TestInv, OwnReports
    <3> QED BY <1>1, <1>2, <3>1 DEF HoldsOwnReport, Active
  <2> QED BY <1>1, <2>1 DEF RunHasItsOwnReport
<1>8. OwnProjects'
  BY <1>1, <1>2 DEF OwnProjects
<1> QED BY <1>4, <1>6, <1>7, <1>8 DEF TestInv
-----------------------------------------------------------------------------
(* Nothing has started. *)
LEMMA TestInit == Init => TypeOK /\ TestTypeOK /\ TestInv
<1> SUFFICES ASSUME Init PROVE TypeOK /\ TestTypeOK /\ TestInv
  OBVIOUS
<1>1. TypeOK
  BY TypeInit DEF Init
<1>2. \A p \in Proc : proc[p] = Idle /\ temp[p] = Empty
  BY DEF Init
<1>3. Idle.pc = "idle" /\ Empty.status = "empty"
  BY DEF Idle, Empty
<1>4. TestTypeOK
  BY GotoTypes, FileTypes DEF Init, TestTypeOK, NoPost, Request
<1>5. OwnInvocations
  BY <1>2, <1>3 DEF Init, OwnInvocations, Active, RecordedOnce
<1>6. OwnReports
  BY <1>2, <1>3 DEF Init, OwnReports, HoldsOwnReport, Active, RunHasItsOwnReport
<1>7. OwnProjects
  BY <1>2, <1>3 DEF Init, DbInit, OwnProjects
<1> QED BY <1>1, <1>4, <1>5, <1>6, <1>7 DEF TestInv

(* Each step of one process keeps the invariant. *)
LEMMA TestStepKeeps ==
    ASSUME TypeOK, TestTypeOK, TestInv, NEW p \in Proc, TestStep(p) \/ Killed(p)
    PROVE  TestTypeOK' /\ TestInv'
<1>0. proc[p] \in ProcState
  BY DEF TestTypeOK
<1>1. CASE TesterOpensReport(p)
  <2>1. proc[p] \in Testing /\ proc[p].inv \in Nat
    BY <1>0, <1>1, ProcFields DEF TesterOpensReport
  <2>2. Partial(proc[p].inv) \in FileState /\ Partial(proc[p].inv).by = proc[p].inv
    BY <2>1, FileTypes DEF Partial
  <2> QED BY <1>1, <2>2, WriteStep DEF TesterOpensReport
<1>2. ASSUME NEW r \in Reports, TesterWritesReport(p, r)
      PROVE  TestTypeOK' /\ TestInv'
  <2>1. proc[p] \in Testing /\ proc[p].inv \in Nat
    BY <1>0, <1>2, ProcFields DEF TesterWritesReport
  <2>2. Whole(proc[p].inv, r) \in FileState /\ Whole(proc[p].inv, r).by = proc[p].inv
    BY <2>1, FileTypes, ReportsAssumption DEF Whole
  <2> QED BY <1>2, <2>2, WriteStep DEF TesterWritesReport
<1>3. CASE ListEnds(p) \/ ReadNothing(p) \/ NotRecorded(p) \/ Killed(p)
  BY <1>3, ExitStep DEF ListEnds, ReadNothing, NotRecorded, Killed
<1>4. CASE TesterDies(p)
  BY <1>4, GotoStep DEF TesterDies, fileVars
<1>5. CASE ReadReport(p)
  BY <1>5, ReadStep
<1>6. ASSUME NEW toml \in BOOLEAN, Register(p, toml)
      PROVE  TestTypeOK' /\ TestInv'
  BY <1>6, RegisterStep
<1>7. CASE KeepReport(p)
  BY <1>7, GotoStep DEF KeepReport
<1>8. CASE KeepFails(p)
  BY <1>8, GotoStep DEF KeepFails, fileVars
<1>9. CASE IngestRun(p)
  BY <1>9, IngestStep
<1> QED BY <1>1, <1>2, <1>3, <1>4, <1>5, <1>6, <1>7, <1>8, <1>9 DEF TestStep

(* Each step of the system keeps the invariant. *)
LEMMA TestNext == TypeOK /\ TestTypeOK /\ TestInv /\ [Next]_vars => TestTypeOK' /\ TestInv'
<1> SUFFICES ASSUME TypeOK, TestTypeOK, TestInv, [Next]_vars
             PROVE  TestTypeOK' /\ TestInv'
  OBVIOUS
<1>1. CASE UNCHANGED vars
  <2>1. clock \in Nat /\ clock <= clock /\ post \in Request
    BY DEF TypeOK, TestTypeOK
  <2>2. UNCHANGED <<clock, projects, runs, proc, temp, user, post, origin, invocation>>
    BY <1>1 DEF vars, dbVars, fileVars, counters
  <2> QED BY <2>1, <2>2, OutsideStep
<1>2. ASSUME NEW p \in Proc, NEW t \in Track, NEW path \in Path, NEW u \in {FALSE, UserJson},
             Start(p, t, path, u)
      PROVE  TestTypeOK' /\ TestInv'
  BY <1>2, StartStep
<1>3. ASSUME NEW p \in Proc, TestStep(p) \/ Killed(p)
      PROVE  TestTypeOK' /\ TestInv'
  BY <1>3, TestStepKeeps
<1>4. CASE (\E c \in Cell, body \in Body : PostStage(c, body)) \/ PostStep
  BY <1>4, PostKeeps
<1>5. CASE \/ \E c \in Cell, done \in BOOLEAN : MarkCommand(c, done)
           \/ \E c \in Cell, note \in Note \cup {NoNote} : NoteCommand(c, note)
           \/ TickCommand
  BY <1>5, CommandKeeps
<1>6. CASE ResetCommand
  BY <1>6, ResetStep
<1> QED BY <1>1, <1>2, <1>3, <1>4, <1>5, <1>6 DEF Next

(* A step of the system is one transaction of the database, or none. *)
LEMMA TransactionStep ==
    TypeOK /\ TestTypeOK /\ TestInv /\ [Next]_vars => [DbNext]_dbVars
<1> SUFFICES ASSUME TypeOK, TestTypeOK, TestInv, [Next]_vars
             PROVE  DbNext \/ UNCHANGED dbVars
  OBVIOUS
<1>1. CASE UNCHANGED vars
  BY <1>1 DEF vars
<1>2. ASSUME NEW p \in Proc, NEW t \in Track, NEW path \in Path, NEW u \in {FALSE, UserJson},
             Start(p, t, path, u)
      PROVE  UNCHANGED dbVars
  BY <1>2 DEF Start
<1>3. ASSUME NEW p \in Proc, TestStep(p) \/ Killed(p)
      PROVE  DbNext \/ UNCHANGED dbVars
  <2>0. proc[p] \in ProcState
    BY DEF TestTypeOK
  <2>1. CASE \E toml \in BOOLEAN : Register(p, toml)
    <3>1. proc[p].track \in Track /\ proc[p].path \in Path
      BY <2>0, <2>1, ProcFields DEF Register
    <3>2. UNCHANGED dbVars \/ UpsertProject(proc[p].track, proc[p].path)
      BY <2>1 DEF Register
    <3> QED BY <3>1, <3>2 DEF DbNext
  <2>2. CASE IngestRun(p)
    <3>1. proc[p] \in Recording /\ Active(p)
      BY <2>0, <2>2, ProcFields DEF IngestRun, Active
    <3>2. proc[p].track \in Track /\ proc[p].report \in Report
      BY <3>1 DEF Recording
    <3>3. proc[p].started_at \in 1 .. clock
      BY <3>1 DEF TestInv, OwnInvocations
    <3>4. Ingest(proc[p].track, proc[p].project, proc[p].report, proc[p].started_at)
      BY <2>2 DEF IngestRun
    <3>5. proc[p].project \in 0 .. Len(projects) + 1
      BY <3>4 DEF Ingest, ForeignKeyOK, TypeOK
    <3> QED BY <3>2, <3>3, <3>4, <3>5 DEF DbNext
  <2>3. CASE \/ TesterOpensReport(p) \/ ListEnds(p) \/ TesterDies(p) \/ ReadNothing(p)
             \/ ReadReport(p) \/ KeepReport(p) \/ KeepFails(p) \/ NotRecorded(p) \/ Killed(p)
             \/ \E r \in Reports : TesterWritesReport(p, r)
    BY <2>3 DEF TesterOpensReport, ListEnds, TesterDies, ReadNothing, ReadReport, KeepReport,
                KeepFails, NotRecorded, Killed, TesterWritesReport
  <2> QED BY <1>3, <2>1, <2>2, <2>3 DEF TestStep
<1>4. ASSUME NEW c \in Cell, NEW body \in Body, PostStage(c, body)
      PROVE  UNCHANGED dbVars
  BY <1>4 DEF PostStage
<1>5. CASE PostStep
  <2>1. post.cell \in Cell /\ post.body \in Body
    BY <1>5, PostFields DEF PostStep, PostState, PostNote, TestTypeOK
  <2>2. post.body.state \in {"done", "todo"} \/ post.body.state = "missing"
        \/ post.body.state = "bad"
    BY <2>1 DEF Body
  <2>3. \/ UNCHANGED dbVars
        \/ SetState(post.cell, post.body.state = "done")
        \/ post.body.note \in Note \cup {NoNote} /\ SetNote(post.cell, post.body.note)
    BY <1>5, <2>2 DEF PostStep, PostState, PostNote
  <2>4. (post.body.state = "done") \in BOOLEAN
    OBVIOUS
  <2> QED BY <2>1, <2>3, <2>4 DEF DbNext
<1>6. CASE \/ \E c \in Cell, done \in BOOLEAN : MarkCommand(c, done)
           \/ \E c \in Cell, note \in Note \cup {NoNote} : NoteCommand(c, note)
           \/ TickCommand \/ ResetCommand
  BY <1>6 DEF MarkCommand, NoteCommand, TickCommand, ResetCommand, Edit, DbNext
<1> QED BY <1>1, <1>2, <1>3, <1>4, <1>5, <1>6 DEF Next

(* Types and the invariant hold in every reachable state. *)
LEMMA TestCorrect == Spec => [](TypeOK /\ TestTypeOK /\ TestInv)
<1>1. TypeOK /\ TestTypeOK /\ TestInv /\ [Next]_vars => TypeOK'
  BY TransactionStep, TypeNext
<1> QED BY <1>1, TestInit, TestNext, PTL DEF Spec

(* Whatever is started, killed or reset, and however many processes race:  *)
(* one invocation of `byo test` records at most one run.                   *)
THEOREM RecordedOnceCorrect == Spec => []RecordedOnce
<1>1. TestInv => RecordedOnce
  BY DEF TestInv, OwnInvocations
<1> QED BY <1>1, TestCorrect, PTL

(* However the lookup in upsert_project and the insert in ingest are       *)
(* interleaved with other processes, a recorded run names a project that   *)
(* exists, and its own unless a reset came between the two.                *)
THEOREM RunKeepsItsProjectCorrect == Spec => []RunKeepsItsProject
<1>1. TestInv => RunKeepsItsProject
  BY DEF TestInv, OwnProjects, IsProject, RunKeepsItsProject
<1> QED BY <1>1, TestCorrect, PTL

(* As long as no process is given --json, every recorded run carries the   *)
(* report its own tester wrote.  With --json it may not: TLC finds the     *)
(* counterexample (ByoTestUserJson.cfg).                                   *)
THEOREM RunHasItsOwnReportCorrect ==
    ASSUME ~UserJson
    PROVE  Spec => []RunHasItsOwnReport
<1>1. TestInv => RunHasItsOwnReport
  BY DEF TestInv, OwnReports
<1> QED BY <1>1, TestCorrect, PTL

(* Every interleaving of `byo test`, the API and the edit commands is a    *)
(* sequence of the transactions ProgressDb specifies.                      *)
THEOREM TestRefinesProgressDb == Spec => RefinesProgressDb
<1>1. Init => DbInit
  BY DEF Init
<1> QED BY <1>1, TestCorrect, TransactionStep, PTL DEF Spec, RefinesProgressDb, DbSpec

(* So what ProgressDbProofs shows of the database holds while they race:   *)
(* the completion time agrees with the state and never moves while the     *)
(* stage stays done, the last run is the newest that ran the stage, and    *)
(* the state is what it says or what the user wrote.                       *)
THEOREM TablesAgreeUnderRaces ==
    Spec => /\ [](DoneAtIffDone /\ LastRunIsNewestMover /\ StateFollowsLatestRun)
            /\ DoneAtStable
BY TestRefinesProgressDb, DoneAtCorrect, DoneAtNeverMoves, LastRunCorrect, StateCorrect, PTL
   DEF RefinesProgressDb
=============================================================================
