# BuildYourOwn: a TLA+ verification project

BuildYourOwn is a set of testers (`shelltest`, `kafkatest`, `wasmtest`, `tlstest`,
`linktest`, `disttest`) for programs a learner writes, the `byo` command that runs them and
keeps the learner's progress in a SQLite database, and a site that shows it. `disttest` also
carries reference implementations of distributed algorithms and a fault injector for real
clusters.

Most of the repository is test stages, encoders and data. What keeps state that several
actors change at once is small, and that is what these modules model.

## Inventory

| part | state | operations | hard because |
|---|---|---|---|
| progress database (`byo/src/db.rs`) | `projects`, `runs`, `run_tests`, `stage_progress`, `meta`, `migrations` | `upsert_project`, `ingest`, `set_state`, `set_note`, `reset`, `migrate` | every `byo` process and the site's workers share one file; each writer upserts other columns of the same row; ids restart after a reset |
| test runner (`byo/src/runner.rs`) | a temporary report file, or the user's `--json` file; `reports/<track>-latest.json` | plan, run the tester, `ingest_file`, `kept_report_path` | five steps with other processes in between; the tester can die anywhere |
| API and server (`byo/src/api.rs`, `server.rs`) | the connection mutex | `POST /api/stages`, read-only `GET`s | one request is two transactions, the second of which may refuse |
| commands (`byo/src/main.rs`) | none of their own | `done`, `undone`, `note`, `db reset` | they meet tests and requests in progress |
| fault injector (`disttest/src/cluster/proxy.rs`, `mod.rs`) | the fault table, the source cache; per connection: mode, pending bytes, a held message | `partition`, `isolate`, `link_fault`, `every_link`, `heal`; `handle`, `pump`, `deliver_and_discard` | tasks on several threads; the table changes between a look and what follows; the change notification is not latched |
| reference Raft (`disttest/examples/alg/raft.rs`) | term, role, vote, leader, tally, log, commit and match indexes, snapshot, configuration | one command per RPC and answer, five topics | lost, late, repeated and reordered messages over several terms |
| reference Paxos, commit, ordered broadcast, replication, patterns, resilience (`disttest/examples/alg`) | per topic | one command per message or event | ballots, crashes and compensations interleave |
| reference primitives (`disttest/examples/prim`) | clocks, CRDT replicas, sketches | one command per event | convergence under every delivery order |
| linearizability checker (`disttest/src/lin`) | a history | `check` | timed-out operations may take effect later or never |
| site store (`site/src/lib/stores/journey.svelte.ts`) | rows, last-seen run ids, connection status | `refresh`, `setStage` | answers that arrive after a newer write; ids that restart |
| testers' runners, stages, encoders, catalogs, pages, install scripts | results of one run | | sequential, or I/O and data |

What makes each part correct: the columns of a progress row agree with each other and with
the runs; every run is recorded at most once, under its own project, with its own report;
the injector really injects what a stage asked for (a cut stops traffic, reordering moves a
message by one place, nothing else is lost); the reference algorithms keep the safety
properties their topics teach; the store ends up showing what the database holds.

`PROJECT.json` lists every component, the hazards with their lines, and for each definition
the lines it models.

## Modules

    ProgressDb ── ProgressDbProofs      RaftElection ── RaftElectionProofs
      │      │                              │
    ByoTest  JourneyStore               RaftReplication ── MCRaft, RaftReplicationProofs
      │      │
      │   MCJourneyTab, MCJourney,      PeerProxy ── MCPeerProxy, PeerProxyProofs
      │   JourneyProofs
      │
    MCByoTest, MCByoTestMix, ByoTestProofs

    MCTopics: Paxos (implements Consensus), MultiPaxos, RaftSnapshot, RaftMembership,
              TwoPhase (implements TCommit), ThreePhase, CommitRecovery,
              Choreo (implements Saga), Messaging, Ordering, Abd, AntiEntropy

    Paxos ── PaxosProofs
                 │
    MCTopics ── TopicProofs

MCJourney, MCByoTestMix, MCRaft and MCTopics each run several instances side by side: the
initial state picks one (`scenario` or `topic`), and no step leaves it. A behaviour is a
behaviour of one instance, so a property of the union is a property of each; the parts that
do not run stay in their initial state.

**ProgressDb** (`byo/src/db.rs`). The abstract specification of the database: one action per
SQLite transaction, the unit other processes can interleave with. `projects` and `runs` are
sequences, because ids are `AUTOINCREMENT`, no row is deleted alone, and `reset` clears the
counters too. A run keeps one result per stage (`StageState` of its counts) instead of its
`run_tests` rows. `progress` maps every (track, stage) to its row; `0` is SQL `NULL`.
`IngestRow`, `SetStateRow` and `SetNoteRow` are the three upserts. `manual` is history: the
cells whose state a user wrote last. `upsert_project` is an `INSERT` and a `SELECT`; only a
reset could come between them, which has the same effect as one that comes right after both
and before the id is used, so they are one action.

**ByoTest** (`runner.rs`, `api.rs`, `server.rs`, `main.rs`; EXTENDS ProgressDb). `byo test`
processes as program counters through `test` and `ingest_file`: start, tester writes or dies,
read the report, register the project, copy the report, ingest. A `POST` is two transactions
under the connection mutex. `done`, `note` and `db reset` come at any time, and a process can
be killed at any time. `RefinesProgressDb` says that whatever the interleaving, the database
goes through ProgressDb's transactions only. Files are empty, partial or whole; copying the
report is one step (two copies to one destination at the same time are not split further).

**JourneyStore** (`journey.svelte.ts`, the edits of `progress.svelte.ts`, the handlers they
call; EXTENDS ProgressDb). One tab of the site. JavaScript runs undisturbed to its next
`await`, so an action is what lies between two of them: `Refresh` and the four requests of a
poll, of which a later one is sent only when an earlier one has answered; `setStage` shows
its change, posts it, takes the answer or restores what it had; a typed note is shown at once
and saved by a timer. Commands and other processes write to the database in between, and
`byo site` stops and starts. The progress answer is two reads of the database
(`ServeRows`, `ServeIds`), because the server builds it from two queries.

**RaftElection** (`raft.rs`, topic `raft-election`). The driven machine, one per server, put
into the cluster it is meant for: `msgs` is every message ever sent, so loss, delay,
repetition and reordering need no actions of their own. Each command is an action with all
of its early returns. `AskForVotes`, `Heartbeat` and `msgs` are the network the topic's driver
plays and are marked external. `votes` and `elected` are history.

**RaftReplication** (topics `raft-log` and `raft-commit`; EXTENDS RaftElection). Each server
answers AppendEntries as `raft-log` does and keeps `raft-commit`'s books while it leads. The
topics keep a term and a log each; composed, they share one. What a leader sends to whom is
external, guided by `next_index`; requests and answers are never removed, so they repeat and
overtake each other. **RaftSnapshot** carries a twin that gets the same commands and never
compacts. **RaftMembership** is joint consensus and single-server changes; `Agree` is the
quorum rule, and `settled` is history, the configuration committed last.

**Paxos** has the acceptors, several proposers, and a network that keeps every message.
`Chosen` is what a majority accepted under one number, at any time, and is the refinement
mapping to **Consensus**; `Learned` is the code's `learn`. A proposer that uses a fresh number
and sends its accept once is external. **MultiPaxos** is one leader's view: `applied` is
history, what a state machine that follows `applied` has executed.

**TwoPhase**, **ThreePhase**, **CommitRecovery** (`commit.rs`). One transaction each. The
commands come in any order, so a vote may follow a timeout and a decision may reach some
participants only. `ByTheBook` says whether participants keep to the protocol the stage
describes: they ask their peers only once the coordinator is down, and do not vote after they
were told to abort. `hasty` is history: a prepared participant gave up while the coordinator
was up or the pre-commit round had begun. CommitRecovery adds a coordinator, which is
external, to the participants' write-ahead logs.

**Saga**, **Choreo**, **Messaging** (`patterns.rs`). Saga is the orchestrator and at the same
time the specification that Choreo, the event-driven variant, implements: `AsSaga` leaves out
the ledger entries of steps begun and not finished. Messaging joins the outbox and the
idempotent consumer: a writer that crashes before, between and after its two writes, a bus
that repeats, and a consumer whose table is bounded. Two guards there belong to the environment.
The code rewinds its last write at `crash before-commit` even if the relay has published it
(`patterns.rs:504`); no crash between a transaction's start and its commit comes after the relay
read the committed record, so `InFlight` leaves that case out, and `Deliver` does not carry the
event of a naive write that may still be taken back. That nothing rewound has an effect holds
under these two guards only.

**Ordering** (`broadcast.rs`), **Abd** (`replication.rs`), **AntiEntropy** (`resilience.rs`).
Ordering offers any message to any process at any time under one of the three orders; `past`
is history, the causal past computed without clocks. Abd's `Poke` is a write that reached one
replica before its writer died. AntiEntropy has one key, because keys do not meet;
`down` and `up` come in any order, and a stand-in that is down keeps its hints, as in the code.

**PeerProxy** (`proxy.rs`, fault operations of `cluster/mod.rs`). The fault table, the cluster
operations that set it link by link, and for each connection the `handle` task and its two
`pump` tasks. A pump's program counter has a step wherever the table can change under it:
the look at the top of the loop, the start of `select!` (only from there on is a change
noticed), the read, the second look, the delay and the third look, the write, each framed
message, the flush at the end. Streams are sequences of units (a whole request with or
without a body, a head and its rest, bytes that cannot be framed); a read returns any number
of them. A link is the set of its two ends, so a member's own link, which stands for an
unidentified dialer, is a singleton. Probabilities and durations are zero or not zero: what
may happen with some probability may or may not happen. `crossed` is history: how something
crossed and what the table said when the pump decided to write it. A write decided before a
cut counts as before it.

Definitions marked "faulty variant" are plausible bugs of the definition below them; no
specification uses them. Each is paired in `PROJECT.json` with the property that must fail
when it takes the definition's place.

## Runs

| run | bounds | states | shows |
|---|---|---|---|
| `journey` | 1 track, 1 stage; the database alone: 3 runs, 2 clock values; a tab beside 2 commands and 1 edit; a tab with 2 overlapping edits and notes | 697,000 | `doneAt` is set exactly when a stage is done and does not move while it stays done; `lastRunId` is the newest run that moved the stage; the state is what that run said unless written by hand since; a tab comes back to what the database holds; a new run is shown |
| `byo_test` | 2 processes, 2 projects, 3 invocations, 1 reset or edit; or 1 process, 1 `POST`, 1 edit, `--json` allowed; 2 runs | 290,000 | a run has its own report, is recorded once, and names an existing project, its own unless a reset came in between; ByoTest implements ProgressDb; every test and every request ends |
| `raft` | 3 servers: elections of 2 terms with logs of up to 1 entry; replication from where three elections can leave a cluster, 1 more candidacy, 4 requests | 901,000 | one winner per term, only winners are followed, votes are final; logs match, a leader holds what was committed, commit indexes agree, the leader's books are held |
| `peer_proxy_cut` | 2 members, 1 connection, 1 request, 1 answer, 2 operations | 969,411 | a cut stops what arrives after it; a partition holds for unidentified dialers too |
| `peer_proxy_mangle` | as above, 2 streams of up to 4 units, 1 operation | 254,000 | reordering moves a message by one place; nothing is lost, repeated or torn; no message is held for ever, no stream stalls |
| `topics` | per topic: 3 acceptors and 3 proposals of 2 proposers; 3 ballots and 2 slots; 4 committed entries; 4 servers; 3 participants; 4 steps; 2 events, a window of 1, 2 crashes; 3 processes and 3 messages; 3 replicas, 3 timestamps; 3 replicas, 2 versions | 423,000 | the property of each topic, in the table below |

| topic | property | says |
|---|---|---|
| paxos | `ChosenIsFinal`, `ImplementsConsensus` | no second value is chosen, proposed above a chosen one, or learned |
| | `UnrivalledProposerChooses` | a proposer that nobody overtakes gets a value chosen |
| multi-paxos | `AppliedStands` | what was applied is never undone, no gap is jumped |
| raft-snapshot | `CompactionIsInvisible` | snapshot and log are the log that was never compacted |
| raft-membership | `DecisionsOverlap` | decisions in a change under way and in the configuration committed last share a voter |
| two-phase-commit | `ImplementsTCommit` | atomic commit, wherever the coordinator dies |
| three-phase-commit | `SplitNeedsHaste` | two decisions need a timeout that breaks the synchrony the protocol assumes; a partition or a crash alone is not enough |
| commit-recovery | `RecoveryKeepsPromise` | nothing in a log, a store or a memory goes against the coordinator; a logged commit is known after a crash, to be redone |
| saga-choreo | `ImplementsSaga` | events that repeat or contradict each other amount to an orchestrated saga |
| outbox, dedup | `EffectivelyOnce` | a committed row's event is on its way, and has one effect until an id is forgotten |
| ordering | `OrderKept` | FIFO, causal and total order |
| abd | `ReadsNeverGoBack` | no quorum answers less than a client was told |
| anti-entropy | `HandoffCatchesUp` | after a handoff a replica that is up is behind only by what a stand-in that is down holds for it |

The bounds are enough for the cases the properties are about: two runs are the fewest where
an older one can be preferred to a newer one; two processes and a reset are what every race
on a project id or a report needs, and three invocations test one project again after another
was registered; an edit, a poll and a command are what crosses in a tab, and two edits are
what overlapping rollbacks need; three servers and two terms give two different majorities
and a server that has to forget a vote, and replication starts where an entry of an old term
can be counted on a majority; two table operations give a fault followed by a cut, a cut
followed by a heal, and two overlapping partitions; four units give a held message, its
successor, a split request and a stream that stops being framed; three proposals give a
promise that reports the older of two accepted values; a window of one is full at the second
event; three messages give a relay that a third process has not seen. The theorems
remove the bounds for every safety property of a passing run but `ImplementsSaga`.

Six runs expect a violation; each shows a disagreement between the code and its text:

* `byo_test_kept`: `reports/` is documented as holding the report of the latest run per
  track (`byo/README.md:71`). Copying and ingesting are separate steps, so two processes can
  leave the older run's report there.
* `byo_test_stale_json`: a run without a report is said to record nothing
  (`runner.rs:151`). With the user's own `--json` an old file stands in for the missing
  report and is recorded as a new run.
* `peer_proxy_crossing`: "Nothing crosses this link at all" (`proxy.rs:65`). A message
  already held, or a duplicate already spawned, is delivered without another look at the
  table.
* `peer_proxy_idle`: a cut "closes open ones, in both directions" (`proxy.rs:22`). If it
  lands between a pump's look and its `select!`, in both pumps, an idle connection stays
  open. Traffic on it would still be stopped (`CutStopsChunks`).

* `journey_runs`: a new run is said to be picked up within one poll
  (`journey.svelte.ts:148` and its test). The store notes the run's id before it asks for the
  run: when that one request fails, or a reset brings the same id back, it never asks again.
  `NewRunIsShown` is what holds without either.
* `two_phase_split`: "abort is the only decision it could ever have reached"
  (`commit.rs:292`). A participant that consults its peers while the coordinator is up aborts
  because one has not voted; that one votes yes, and the coordinator commits. Only
  participants that keep to the book are safe (`ImplementsTCommit`).

Four more disagreements have no run of their own. `learn` is documented as telling whether a
majority has accepted one proposal; it looks at latest proposals only, and answers no while
the next proposal has overwritten some of them (`LearnFindsChosen` in Paxos is false). A chain
node that fails hands its updates to its predecessor behind newer ones
(`replication.rs:345`). A typed note that cannot be saved stays on the screen until the next
poll, because the copy that is restored was taken after it was shown. A hint is documented as
lost with its stand-in: "as lost as the write it stood in for" (`resilience.rs:433`), "A hint
dies with its stand-in; only `sync` is a guarantee" (`s73_anti_entropy.rs:37`, and the title at
`:74`). In the code the stand-in's hints outlive its outage: `handoff` retains them, `up` brings
the stand-in back, and the next handoff delivers them. `HandoffCatchesUp` follows the code, and
excepts the replicas whose stand-in is down, to which the text promises nothing either.

Two things the code does contradict no text, and no property forbids them. A `byo db reset`
between the lookup of a project id and the ingest restarts the ids, so a run may be recorded
under another project registered since; `RunKeepsItsProject` allows that only then. A `POST`
whose note is refused with 400 has already written its state (`api.rs:401`).

Deadlock checking is off where the bounds let the system stop: every process has ended,
every connection is closed, every counter is at its bound.

## Fairness

ByoTest assumes weak fairness of each process's own steps and of a request's steps: a tester
ends because each of its tests has a timeout, the rest is straight-line code, and SQLite
either gets its lock or fails after the busy timeout. PeerProxy assumes weak fairness of
each pump, each handler and a cluster operation that has begun: the runtime runs tasks that
are ready, and the hold timer makes its pump ready. JourneyStore assumes that the interval
timer of a visible tab fires, that a request is answered or fails, and that typing pauses;
the browser guarantees the first and the last, and the second is an assumption, because the
store sets no timeout. Its properties are conditional on the server staying up in the end. Paxos
assumes only that something happens while a message can still have an effect. Nothing is
assumed of members, of the stage that starts operations, of users, or of who proposes.
Everything else claims safety only.

## Proofs

**ProgressDbProofs**, for every set of tracks, stages, paths and notes and every bound:

* `TypeCorrect`: the tables keep their types.
* `DoneAtCorrect`, `DoneAtNeverMoves`: `TypeOK /\ DoneAtIffDone` is inductive, because
  every timestamp written is at least 1, so `DoneAt` is 0 exactly for a stage that is not
  done; the action property follows from the same invariant.
* `LastRunCorrect`, `StateCorrect`: neither is inductive alone. A note written on a cell
  that points at a run must not create a `todo` row, so the invariant adds `RowExists` (a
  cell with a last run has a row). The step for `ingest` is the heart: the new run is the
  newest mover of exactly the cells it moved, and the older movers of the others are the same.

**RaftElectionProofs**, for every finite set of servers and every bound: `TypeCorrect`,
`ElectionSafety`, `LeaderCorrect`, `VotesAreFinal`. Election Safety rests on `VoteInv`:
votes of one server in one term are for one candidate (`VotesUnique`), because the vote of
the current term is still in `votedFor` (`VoteRecorded`); a granted answer is a vote
(`GrantIsVote`), so every tally counts votes (`TallyIsVotes`) and every winner has a
majority of votes (`ElectedByMajority`). Two majorities of a finite set meet
(`MajoritiesMeet`, from the cardinality theorems of the library), and the server they share
voted once. `LeaderCorrect` adds that every heartbeat in the network names a winner.

**ByoTestProofs**, for any number of processes and any bounds. `TestInv` says what a process
relies on from one of its steps to the next: its invocation is nobody else's and not recorded
yet (`OwnInvocations`); without `--json` its temporary file and the report it read are its own
tester's (`OwnReports`); the project id it holds is its project's unless a reset wiped the table
since (`OwnProjects`, which also says it of the recorded runs, and that a recorded run names a
project that exists even after a reset, because the foreign key let it in). From it follow
`RecordedOnceCorrect`, `RunKeepsItsProjectCorrect` and, assuming `~UserJson`,
`RunHasItsOwnReportCorrect`; `byo_test_stale_json` shows that the assumption is needed.
`TestRefinesProgressDb` shows that every step is a transaction of ProgressDb or leaves the
database alone, so the theorems of ProgressDbProofs carry over: `TablesAgreeUnderRaces`.

**JourneyProofs**, for any number of edits: whatever the tab has on its way to the server is a
state or a note for a stage that exists (`TabInv`), so each step is a transaction of ProgressDb
or leaves the database alone (`SiteImplementsProgressDb`), and the tables agree under the site
too (`TablesAgreeUnderEdits`). What the tab shows is a matter of liveness and stays with TLC.

**RaftReplicationProofs**, for every finite set of servers: `LogsMatch`, `LeadersComplete`,
`CommitsAgree`, `MatchHeld` and, now that logs change under the elections, `ElectionsStaySafe`
and `VotesStayFinal`. None of the properties is inductive, and no state shows why they hold: the
log of a leader is gone once its term is over. So `RaftInv` says that there is a `G`, with
`G[t]` the log of the leader of term `t` as far as it got, such that

* every entry of every log came, with all before it, from the leader of its term (`GLogs`,
  `GTerms`); Log Matching follows at once;
* a request is a stretch of its leader's log (`GReqs`), and a success is true as long as the
  follower stays in the term (`GAns`), so a leader's books say no more than is held (`GBooks`);
* an entry a server acknowledged in the term of the leader that appended it is still in its
  log, unless some later leader was elected without it (`GHeld`);
* a candidate has whatever each of its voters had acknowledged before (`GCand`), because the
  voter compared logs, and so has a winner, for a majority (`GChosen`);
* what was committed is an entry of the leader's own term that a majority acknowledged (`GComm`).

Leader Completeness (`GLC`, lemma `Complete`) is then an argument by the least counterexample:
of the leaders that lack a committed entry take the one of the lowest term. Its voters and those
who acknowledged the entry have a member in common (`MajoritiesMeet`), which vouches that the
leader has the entry or that an earlier one lacked it. The lowest term exists because `<` on
the naturals is well founded (`NatMin`); no induction over data is used.

**PeerProxyProofs**, for any members, routes, connections, streams and faults. `ProxyInv` has
three parts. The table: a link that partition or isolate promised to cut is cut or still to be
set, the members' own links included (`CutInv`, `ConnInv`). The look: a pump writes only what it
looked at while nothing was against it (`SaidInv`, `CrossedInv`). The stream: what a pump has
read and not written is one consecutive stretch, the held message, then what is not framed yet,
then the chunk just read (`FlowInv`). The first two give `CutStopsChunksCorrect` and
`PartitionHoldsCorrect`, the last `AtMostOneSlotLateCorrect` and `NothingLostOrTornCorrect`.

**PaxosProofs**, for any finite set of acceptors, any proposers and values. `PaxosInv` is the
usual argument on this code's messages: a promise tells of the highest proposal its acceptor
accepted below it and binds it (`PromiseTells`), a number has one proposer and one value
(`OwnNumber`, `OneProposal`), a proposer counts each acceptor once (`CountedOnce`), and a value
is proposed only if no other can still be chosen below (`ProposalsAreSafe`).
`ChosenStaysFinal` and `PaxosImplementsConsensus` follow.

**TopicProofs**, of the instances MCTopics runs and for every value of its constants:

* `TwoPhaseImplementsTCommit`, `ParticipantsNeverSplit`, of two-phase commit by the book: a
  decision to commit has every yes behind it, nobody commits before it is broadcast, and whoever
  has aborted either knows that the decision is abort or aborted after the coordinator died with
  nothing broadcast, so that no commit can reach anyone (`DecisionInv`). The last part needs the
  book: without it a participant may abort on a peer's silence while the coordinator is still
  up (`two_phase_split`). Every step then is a `Prepare`, `Commit` or `Abort` of TCommit or
  changes no participant (`T2Step`).
* `RecoveryKeepsPromiseCorrect`: a commit is logged only on the coordinator's word and
  known while the participant is up, and who logged an abort of its own has never said yes
  (`CRKept`).
* `SplitNeedsHasteCorrect`: who aborted without haste knows of a no, or that the dead
  coordinator never began the pre-commit round (`T3Safe`).
* `DecisionsOverlapCorrect`: the configuration in use is at most one change away from the one
  committed last (`RMInv`); then it is counting majorities of sets that differ in one server, or
  of the joint configuration.
* `ReadsNeverGoBackCorrect`: a quorum holds what was told, or later (`Covered`).
* `HandoffCatchesUpCorrect`: stores only grow, and a hint is dropped only when its version is
  handed over, so each replica has a write that was taken, or a hint for it is left (`AEInv`);
  what a handoff leaves for a replica that is up waits for a stand-in that is down.
* `AppliedStandsCorrect`: what was applied is chosen (`Stands`), and stays so because all
  acceptors have promised the same ballot, which a leader knows (`Together`, `Leads`).
* `EffectivelyOnceCorrect`: an event that may still be rewound has had no effect and can be
  taken out (`BoxInv`), and until an id is forgotten every effect is remembered
  (`ConsumerInv`).
* `CompactionIsInvisibleCorrect`: the compacted log is what is left of the twin's (`Behind`),
  and the twin agrees with the committed log (`Sound`).
* `OrderKeptCorrect`: the counters say exactly which messages were delivered (`Known`), and
  a message's causal past is behind its clock (`Tagged`).

The assumptions are those the modules state: null values are none of the real ones; servers,
acceptors and participants are finite sets; bounds are naturals, and there is at least one
replica, founder and saga step; nobody dials itself, and in a stream the rest of a request
follows its head; and for RaftSnapshot the logs it is given match and hold what is committed
(`LogsAssumption`), which is what `LogsMatch` and `LeadersComplete` show of Raft's. The
switches are assumed where they matter: `~UserJson` above, and MCTopics runs TwoPhase by the book.

Only model-checked:

* every liveness property (`EveryTestEnds`, `HeldGoesOut`, `EveryUnitGoesOut`,
  `ScreenCatchesUp`, `NewRunIsShown`, `UnrivalledProposerChooses`): fairness and `ENABLED` are
  out of this prover's reach;
* `ImplementsSaga`: the refinement mapping filters the ledger with `SelectSeq`, so each step
  needs what filtering computes for a ledger of any length, an induction over data;
* the properties of the six runs that expect a violation, which are false.

## Not modelled

The repository has some 185,000 lines of implementation, and nearly all of them are test
stages (assertions about the learner's program), encoders and decoders of the formats those
tests speak (WebAssembly, ELF, TLS, Kafka's protocol), catalogs and pages. They run one after
the other, keep no state beyond one test, and have nothing to interleave, crash or retry; a
model of them would repeat their data. So the models cover a small share of the lines, and
most of the state that several actors change.

Of the parts that do keep such state these are left out: in `disttest/examples/alg` the topics
beside the fifteen above (gossip, reliable broadcast, leader election, chain, raft-reads,
sessions, Byzantine agreement, breakers, rate limits, fencing), in `disttest/examples/prim`
clocks, CRDTs and sketches, which are pure functions of the operations applied; the
linearizability checker, a recursive search; process control of real clusters. In `db.rs` the
read-only queries and `migrate`, and in `api.rs` the `GET`s the site does not poll. `SourceMap`
is abstracted to "the kernel names the dialer, or nobody does". Byte-level framing is
abstracted to whether a message is whole, has a body, or cannot be framed. Commands of the
reference topics that only report, and arguments they refuse, are left out; so are `put`
(anti-entropy) and `writeback off` (abd), fixtures that break the protocol on purpose.

## Plan

1. A ledger for Choreo without `SelectSeq`, so that `ImplementsSaga` can be proved.
2. `migrate` run by two processes, `SourceMap` with port reuse, chain replication.
