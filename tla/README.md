# Verification of ai-wow

TLA+ models of the stateful core of this repository, their TLC runs, and proofs checked by TLAPS.
The code that keeps state is Python: the event-log board of `taskman`, the plan bridge on top of it,
and the hooks and scripts with which several agent sessions share one checkout. Nothing here uses a
server or a database: processes meet only in files, so the questions are about interleavings of file
operations, snapshots that have grown old, and calls that are cut short.

`PROJECT.json` lists the components, runs, mutants, findings, hazards and theorems, and gives for every
definition the source lines it stands for. In the modules, a definition with the word "mutant" in its
comment is not part of a model: it is a plausible bug, used to show that a property can fail.

## 1. The system

| Part | State | Operations | Talks to |
|---|---|---|---|
| Board lock `eventlog/locking.py` | the file `board.lock` and its mtime | acquire with polling, stale break by age, release | every board write |
| Event log and store `eventlog/{log,store,schema}.py` | `events.jsonl`, `next_ids.json` | add, update, link, unlink, claim, release, replay, bootstrap | lock; cli, pgexport |
| Board commands `cli.py` | none of their own: rows of the board | PBI, task, capture, decision, requirement and session commands | store, one call after the other |
| Plan import `cli.py` | board | `plan from-decisions`: upsert feature and tasks, link, sync acceptance | store; `plan.py` for parsing |
| Plan waves, lane packing `plan.py` | local to a call | `recompute_waves`, `pack_lanes` | dispatch export |
| Plan dispatch `cli.py` | dispatch folder, action report, board | `plan to-dispatch`, `plan mark-shipped` | board, mow skill |
| Registry and close-out `mow/set_registry_status.py`, `closeout.py` and its five checks | `docs/plans/INDEX.md` | status flip, close-out gate | report, INDEX, briefs, run records, tracker, board |
| Preflight `mow/preflight.py`, `hydrate_specs.py` | `hydrated-specs.md` | preflight of a plan's lanes | dispatch folders of all plans, registry, board |
| Wrap-up gate `wrapup.py`, `cli.py` | session marker, receipt | open, record, gate | git, board, markers |
| Session markers and peer guard `hooks/` | `.session-markers/*.json` | start, resume, heartbeat, sweep, live_peers | wrap-up gate |
| Tracker stamping `hooks/stamp-tracker.py` | `tracker.json`, `.agent-times.json`, activity trail | stamp, open and close spans, drain, sample | mow runs, marker sweep |
| Tool sync `bin/ai-sync` | tool directories, repository, backups | import, link or copy, render, commit | git |
| Lessons, tracker port | `LESSONS.md`; `.board` marker and a port | log, bump, route; pick, mark, probe | none |

Everything else is a pure function of its input (parsers, renderers, metrics, matching, the pattern
hooks, git-timeline) or prose, and is listed in `PROJECT.json` with that reason.

What is hard, by part, and what "correct" means there:

* **Lock.** Staleness is judged by age, then the judged path is renamed: what is renamed may be another
  file by then. Correct: at most one process inside; a holder's file stays until it leaves; a dead
  holder does not block the board; every call returns.
* **Log.** An add takes its id in one lock hold and appends in another; readers take no lock; writes can
  be torn; git can put an old counter file back; a migration writes the whole log. Correct: ids never
  repeat, the log always replays, a claim has one winner, rows do not vanish.
* **Commands.** Each decides on one snapshot and then makes several store calls. Correct: relations stay
  sound (no task under a removed PBI, no dangling reference, one row per transcript), edits are not lost.
* **Import.** A long sequence of calls, repeated with newer versions of the plan, cut short anywhere.
  Correct: the board converges to the plan, one task per item, the operator's status and tags survive.
* **Waves and lanes.** Recursion with a memo and a set of calls in progress; union-find. Correct against
  the graph-theoretic definitions: levels, cycles, connected components.
* **Dispatch.** Selection, a gate for open questions, and files that outlive an export. Correct: no
  builder gets work behind an open question, and of what nobody touches meanwhile exactly the reported work is closed.
* **Sessions and gate.** A marker is truncated and then filled with what was read before; a peer judges by
  its age, a sweep unlinks it by what it read. The gate asks git twice for the changes, by three commands each
  time, and reads the board twice and the receipt once. Correct: a live peer is seen; the anchor of a session moves only when it asks; a gate that passes
  has seen every change since the anchor, and every task left in progress.
* **Stamping.** Hooks of calls that overlap, and the orchestrator, read and write whole files; a hook may be
  killed between the ledger and the board. Correct: a span ends on one entry, is not lost, and what the
  orchestrator wrote stays.
* **Registry and close-out.** A gate of five checks reads seven files, some four times, before one row is
  written. Correct: what the row says `shipped` of is finished, as far as nobody wrote meanwhile.
* **Preflight.** Plans are checked at the same time against each other, in several readings. Correct: no two
  plans that pass own a common path; what passes is sound.
* **Lessons, ports.** Read-modify-write of one file; probe, then bind. Correct: a lesson is there once, under
  an id of its own; a repository's runs share one board.
* **Tool sync.** Runs import, remove and rebuild directories while others do the same, the operator edits, and
  any of them may die. Correct: nothing the operator wrote is lost; a run puts everything right.

## 2. Modules

| Module | Models | Uses |
|---|---|---|
| `BoardMutex` | what the lock promises | |
| `BoardLock` | the lockfile, one action per file system call | implements `BoardMutex` on Windows |
| `BoardRows` | rows, events, and how an event folds into a board | |
| `Board` | what the store promises: atomic operations | `BoardRows` |
| `EventLog` | log, counters, the six store operations, bootstrap, kills, rollbacks | `BoardRows`, `BoardMutex`; implements `Board` |
| `BoardCommands` | the commands, as sequences of atomic store calls | stands on what `Board` promises |
| `PlanImport` | `import_work_item_doc` | as above |
| `PlanDispatch` | `to-dispatch`, `mark-shipped` | `Cyclic` restates what `Waves` checks |
| `PlanBridge` | import, export and `mark-shipped` as scenes of one specification | `PlanImport`, `PlanDispatch` |
| `Waves`, `Lanes` | `recompute_waves`, `pack_lanes`, one loop iteration or call a step | |
| `Schedule` | the two functions that make a schedule, one called at a time | `Waves`, `Lanes` |
| `Sessions` | markers, the start hook and the sweeps, heartbeat and peer guard, notice, kills | |
| `WrapupGate` | `wrapup open`, `record` and `gate`, with the checkout and the board they read | extends `Sessions` |
| `Registry` | the table of plans and the flip of a row | |
| `CloseOut` | the gate before `shipped`, reading by reading, and the writers of its files | extends `Registry` |
| `Preflight` | the gate before lanes go out, with hydration, for several plans | extends `Registry` |
| `Stamps` | the hooks around subagent calls and the orchestrator | |
| `Lessons` | stage, ledger, bump, route, each a read, a truncation and a write; deletions by hand, kills | |
| `TrackerPort` | pick, mark, owned, servers and their deaths | |
| `ToolSync` | an `ai-sync` run, file by file, with overlapping runs, kills and edits | |
| `Checkout` | the six above (with `Registry` below two of them) as scenes of one specification | |
| `BoardLockProofs`, `EventLogProofs`, `BoardCommandsProofs`, `PlanBridgeProofs`, `ScheduleProofs`, `SessionProofs`, `StampsProofs` | theorems about the module of that name | TLAPS |
| `CheckoutProofs` | theorems about `Lessons`, `TrackerPort`, `CloseOut`, `Preflight`, `ToolSync`, and about `Checkout` | `StampsProofs`, TLAPS |
| `MC*` | small constants and symmetry for TLC | |

`Checkout` and `PlanBridge` join components that share no file that one writes and another relies on, except
the table of plans, which `CloseOut` and `Preflight` both have from `Registry`. A behaviour is a scene: one
component acts while the others rest. This is one run for several questions, not a product of their states,
and each component keeps its own specification (`StampsSpec`, `PreflightSpec`, `SyncSpec`, ...), which
is what the theorems are about.

How state corresponds to the code:

* `BoardLock`: `owner` is who created the file at the lock path, `age` its mtime against the clock,
  `timer` the caller's own clock. Both saturate at the values the code compares with (`STALE_AFTER`,
  `TIMEOUT`), so time needs no bound. `pc` names the next file system call.
* `EventLog`: `board` is what the whole lines of `events.jsonl` replay to; `tail` and `corrupt` describe
  its last line; `next` is `next_ids.json`; `op` and `counts` are the locals of a call. `inside` is the
  lock, with the actions of `BoardMutex`. `issued` and `told` are history, read by properties only.
* `BoardCommands` and `PlanImport`: `todo` (resp. `seen`, `at`, `made`, `moved`) are the locals of a
  command between two store calls; a store call is one step because `EventLog` implements `Board`.
* `Waves`: `stack` is the Python call stack, its items the set `visiting`. `Lanes`: `parent` is the
  union-find forest, `pc` the loop.
* `Sessions` and `WrapupGate`: `marker` and `receipt` are the files of each session, `job` what a hook or a
  command of a runner has read and will write next; a runner is a place from which a session starts hooks
  (`Hosts`) or wrap-up commands. `committed`, `tracked` (git's index) and `dirty` are what git tells of the
  checkout: `git diff sha..HEAD` reads the first, `git diff sha` all three for tracked files, `git ls-files
  --others` the last two, each a step of the gate. `task` is the board. `beat`, `root`, `astray`, `stirred` and a gate's `due` are history.
* `PlanDispatch`: `briefs` are the `NN-*.md` files, `index` what `INDEX.md` lists, `reported` the action report.
  `sweep` is where a `mark-shipped` is: about to list the folder, to read the report, to replay the board, or
  with the tasks it has still to close. `touched` is history.
* `Registry`: `rows` is the Status column of `docs/plans/INDEX.md`; a `desk` is a place from which a script of
  `taskman/mow` runs, and its record is what that script has read and will do next. `CloseOut` adds `doc`, one
  value for what the checks look at in each of the seven files. `Preflight` adds `folder` (a plan's INDEX and
  briefs) and `hydrated`; `passed`, `loose` and `known` are history.
* `Stamps`: `tracker` and `ledger` are the two files of a run, either of which may be `Truncated`; `hook` is what a
  hook has read and will do next. A time is named by the call it was taken of.
* `Lessons`: `file` is what `LESSONS.md` holds, or `Empty` from the truncation of a `write_text` to its write;
  `scribe` is the text a run has in hand and whether it has truncated the file. If two runs have, the shorter text
  leaves the end of the longer one behind it: its entries are marked `tail`. `crossed`, `pruned`, `killed` and
  `kept` are history.
* `TrackerPort`: `server` is who listens on each port, `marker` the `.board` files, `picker` a run's walk.
* `ToolSync`: `canon` is the repository's directory, `place` each tool's (a tree, a link, a link elsewhere, or
  nothing), `shelf` the contents of `.backups`, `head` the last commit. `sync` is where a run is: in which loop, at
  which tool, with which files left. `owed`, `sent`, `settled` and `alone` are history.

## 3. Runs

Passing runs check the properties a reader can rely on; violation runs show a place where the code does
otherwise than a comment, docstring or document of the repository says. Each violation is a finding in
`PROJECT.json` with the quoted line.

| Run | Shows |
|---|---|
| `LockWindows` | mutual exclusion and ownership, with open handles protecting the file; implements `BoardMutex`; every call returns; a dead holder does not block the board for good |
| `LogCore` | readable log, fresh ids, one winner per claim; implements `Board`, with kills |
| `LogRough` | torn writes, rollbacks of the counter, a bootstrap and kills: no id of the log is given out again, no row is overwritten |
| `LogTorn` (violation) | a torn line poisons the log at the next append |
| `Commands` | which relations of the board survive cut-short and concurrent commands, and which only commands that do not overlap |
| `PlanBridge` | import: convergence, one task per item, one feature, status and tags kept, over kills, edits and new versions of the plan; export: nothing behind an open question goes out; `mark-shipped` closes what it should and nothing else, with everybody at work between its steps |
| `Schedule` | levels and cycles against all small graphs, lanes as connected components, and that both functions end |
| `Sessions` | a live peer is seen, and anchors hold, with two sessions, resumes, heartbeats, a sweep and a kill |
| `Gate` | what a gate that passes has settled, while others edit, add, commit, record and move tasks between any two of its reads |
| `Checkout` | stamping: one entry per call, spans kept, the orchestrator's writes kept; close-out: `shipped` is what the files say; preflight: plans that pass are disjoint and sound; lessons kept; one board per repository; sync: edits kept, runs settle |
| `RepoEditsLost` (violation) | in copy mode an edit of the repository is undone by the next run's import |
| `DispatchFiltered` (violation) | with `--status`, the question is filtered out before the gate looks for questions |

Known to be otherwise, and excluded by a premise that the property states or the cfg sets:

* Two overlapping commands can leave a task under a removed PBI and add two rows for one transcript;
  `RetiredPbisAreEmpty` and `OneSessionPerTranscript` are about commands that follow each other (`alone`).
* Two overlapping imports of a plan add two tasks for an item (one importer in `PlanBridge`), and an
  import drops a tag that is set while it runs (`TagsKept` has `Undisturbed`).
* `mark-shipped` does not look again: a task that becomes a question, is blocked or is reopened after its replay is
  closed all the same (`SweepIsExact` excepts the tasks in `touched`). Briefs of earlier exports stay in the folder
  and are closed with the run if the report names them, as the docstring at `cli.py:1811` has it.
* A rollback of the counter file, or a bootstrap, between the two lock holds of an add repeats its id
  (`LogCore` has neither; `LogRough` checks what holds nevertheless).
* On POSIX the lock excludes only without kills and with holds below `STALE_AFTER`: that is theorem
  `TimedMutualExclusion`. With `Windows` FALSE
  and one kill, or with longer holds, two breakers let two processes in; no run is kept for that, but TLC finds it
  within a second if `LockWindows.cfg` is changed so.
* Two rewrites of one marker with different anchors that overlap, or a resume that finds its marker missing
  or half written, do replace the anchor: `astray` names the session, and `AnchorHolds` and
  `PassMeansSettled` except it.
* A marker that was swept or is half written hides its session: `PeersAreSeen` is about markers that can be
  read. A session that has been swept does not get a marker again before it starts again.
* A task that is closed while the gate reads the board twice claims its paths and is not listed as stale:
  `PassMeansSettled` excepts the tasks in `stirred`.
* A new file that is added to the index, or added and committed, between the gate's `git diff sha` and its `git
  ls-files --others` is on neither list, and the gate can pass without it: `stirred` has such files too.
* A gate without `WRAPUP_SESSION_MARKER` uses the newest marker, which may be a peer's: `PassMeansSettled` is
  about sessions that were told of their marker (`Told`).

* Hooks that work at one run at the same time lose or duplicate spans (`overlapped`); a hook that holds an older
  board undoes what the orchestrator wrote since (`said` leaves it out); a killed hook can leave a file
  truncated (`cut`), and two calls with the same input share an open entry.
* A call in the background gets its `ended` from a later span of the same name, if there is one: the hook takes
  the first free entry. `OneEntryPerCall` allows it, since the entry is one.
* A torn tracker that only the last reading sees skips the triage of findings. `ShippedMeansFit` is about promises
  whose files nobody wrote since the gate began (`touched`).
* Preflight: a wave that only prose names is not seen for a lane whose brief names another; bullets that name lanes
  outside the table make the waves readable, and lanes of the table without one go unchecked; a torn
  INDEX or table makes the overlap check blind for that plan (`loose`); when every cell becomes `-`, an older
  `hydrated-specs.md` stays.
* Two flips at once lose one (`loose` has the plan whose row it was).
* Lessons that are written while another run holds the older file are lost, and lessons at the end of a longer text
  are repeated if a shorter one is written over it (`crossed` has both); a run that is killed between truncation
  and write leaves the file empty (`killed`); the newest id is given out again after its entry was deleted by
  hand (`pruned`).
* After a server died another server's repository can take its port while a run still walks to it, and a marker that
  is being rewritten hides its server: `OneBoardPerRepo` is about repositories whose servers live and were heard.
* `ai-sync` in copy mode: an edit in one tool is undone by another tool's older copy and then stands in `.backups`
  only; a deletion comes back from the other copies; a kill within a copy leaves a part of a file, which the next
  run imports. `EditsAreKept` counts the backups, and `RunsSettle` speaks of agreement, not of which version wins.

### Bounds, and why they are enough

* **Lock.** Three processes: two breakers and the process that acquires between their look and their
  rename, the smallest cast of every race of this lock. `StaleAfter = 1`, `Timeout = 2` keep the order
  "fresh < stale < deadline"; `MaxHold = Timeout` means no bound on holding. One kill in a behaviour.
  No symmetry, because liveness is checked too.
* **Log.** Two processes with two entities (`task`, whose relation is a list; `capture`, whose relation is
  one id) cover every verb. Two adds: the second is the one that may get a repeated id. `LogRough` has two
  kills and two rollbacks, at any step, and a bootstrap against a writer.
* **Commands.** An add begins while the board has fewer than three rows (`MaxRows`; sessions are bounded
  by `Transcripts`): a PBI with a task and a requirement, or a capture and two tasks. Commands overlap
  while it has at most two (`MaxRaced`); two adds that overlap make it four. One command is cut short.
* **Import.** Three items in two versions: the second drops an item, turns a dependency around and points
  to the dropped one. One edit and one kill at any step, any number of imports.
* **Waves.** All graphs over three items with an unknown id. Three items have the self-loop, the two-cycle,
  the three-cycle, the diamond's shared dependency and the chain.
* **Lanes.** All assignments of three files to four items: a chain of overlaps that merges two groups needs
  four items and three files.
* **Dispatch.** Three tasks make a chain: a question, what waits for it, and what waits for that. Exports
  are of the whole board, with and without decisions (`Scopes = {Tasks}`, `Filters = {Statuses}`): what a narrower
  selection does is what `DispatchFiltered` shows, with `--status todo`. The report, if there is one, names one task or none.
* **mark-shipped.** Its steps interleave with everything else, but one task at most is touched while it runs
  (`MaxTouched`); the others are those of which the property speaks. Exports, whole and cut short, moves and reports
  before it are not bounded. `PlanBridge` has three scenes: imports; exports; and the sweep, in which tasks have no
  blockers, since `mark-shipped` does not look at them.
* **Sessions.** Two sessions, one of which has two places that start hooks, so that two hooks rewrite one
  marker; four hooks, enough for a start of each session, a heartbeat and a look or a sweep across it; one
  kill; `PeerLive = Retention = 2` and `Heartbeat = 1` of three ticks, so that a marker can be young, due,
  and old enough to sweep. Files and tasks play no part in it and are left empty.
* **Gate.** One session with one place for hooks and one for commands, five of these, so that a start, two
  records and a gate, or a gate and a resume, follow or overlap each other. One file, tracked or not at first, one task that claims it
  and needs a proof, one commit. No kills: `Sessions` has them.
* **Stamps.** Two calls of one run in two lanes, one in the background, with two places for hooks, so that all four
  hooks follow or overlap each other; one write of the orchestrator or one kill, at any step.
* **Close-out.** A plan in order, two writes by others, at any step of the gate: one breaks what a check has read,
  one mends it, or breaks what comes later. Each file takes each content the checks tell apart.
* **Preflight.** Two plans side by side with every relation of their paths; one plan of three lanes with every way
  to place them in waves; one plan of two lanes with two things out of order at most. One rewrite.
* **Lessons.** Three lessons, two runs, three recurrences, routes, deletions or kills in all, so that a text can get
  shorter while another run writes. **Ports.** Three runs of one repository and one
  of another with the same home port, three ports, one death.
* **Sync.** Two tools, one file that imports take and one that they do not; three installations (two trees that
  differ, a link with a tree, a foreign link with nothing); two runs at a time, three runs with one kill or two
  with one edit and one kill, in both modes.

### Fairness

`LockWindows` assumes weak fairness of each process's own steps, of the clock and of Windows' pending
deletes (the operating system runs them), and that processes keep starting commands. Strong fairness would
be unjustified: nothing queues the waiters. `CallReturns` still holds because a call ends by acquiring or by
its deadline. `Schedule` assumes that the function, once called, is run: a single
thread. The other runs check safety and assume nothing. `CHECK_DEADLOCK FALSE` is given where a function
returns and the model ends (`Schedule`), and where the bounds on calls, edits and runs end it (`Sessions`, `Checkout`,
`RepoEditsLost`).
In `Sessions` and `Gate` the clock stands still while a hook or a command runs: it takes seconds, and the windows are
minutes and hours.

## 4. Proofs

Every safety property that a passing run checks is a theorem for every number of processes, every timing and
every value of the constants that the named `ASSUME`s of the modules allow; TLC evaluates those in the runs. Each
proof has the same course: an invariant that is inductive, shown of the initial states and kept by each action, and
the property as a consequence of it. Where a theorem
needs more than the types of the constants, that is named below, with what shows the need.

* `BoardLockProofs`
  * `TypeCorrect`.
  * `WindowsHolderOwnsFile`, `WindowsMutualExclusion`, `WindowsImplementsMutex`, assuming `Windows`. The
    invariant is `HolderOwnsFile` itself, inductive with the types: the only actions that remove a file
    are rename and unlink, and both are refused while its creator has it open. Mutual exclusion follows
    because a file has one owner; the refinement maps `inside` to the processes with an open descriptor.
  * `TimedMutualExclusion`, assuming no kills and `MaxHold < StaleAfter`, on any system. Here ownership is
    not inductive: `TimedInv` adds that the file is no older than its owner's hold and that no breaker is
    past its first look.
* `EventLogProofs`
  * `TypeCorrect` and `SectionsExclude` (a process in a read-check-append section is alone) with no
    assumption.
  * `LoggedIdsStayTaken`, `RowsStay` with no assumption either: kills, torn lines, rollbacks of the
    counter and migrations included. `UnloggedInv`: an id about to be written down is not in the log,
    because both were looked at under the lock. `AbsentInv`: a bootstrap about to write finds no log.
  * `LogStaysReadable`, `IdsAreFresh`, `CreatesAreUnique`, `ClaimsAreWonOnce`, `StoreImplementsBoard`
    under `Quiet`: no torn writes, no rollbacks, no migration. `LogTorn` shows
    that the first needs it. `FreshInv` (every id in the log or in the hands of a pending add is below the
    counter, and no two pending adds share one) is what makes freshness inductive; `WholeInv` (only
    a writer leaves a line without its end), `AdmitInv` (what was checked under the lock still holds at the
    append) and `NoBoot` complete it.
* `BoardCommandsProofs`, with no assumption
  * `TypeCorrect`, `NothingDangles`, `RetiredAreEmpty`, `TranscriptsOnce`, `DetachedOnlyByForce`. The properties speak
    of the board, and a step writes what a command has decided earlier; so the invariant is about the calls that
    wait (`Calls`): each names rows that are there, and rows never go away (`Dense`, `Sound`). The two properties that
    overlapping commands break hold as long as each command begins when no other has calls left: `Undisturbed` then
    says that one process at most has calls, that they fit the board as it is, and that a removed PBI loses its last
    row before it is marked, which is what a cut-short `pbi remove` relies on.
* `PlanBridgeProofs`
  * `BridgeTypes`. The specification of all scenes implements those of the two components (`BridgeIsBoth`), so that
    what is proved of one holds of the bridge.
  * `AppliesThePlan`, `KeepsStatus` and `KeepsTags` for any number of importers. `ImportInv`: what an import has read is
    an older board (`Remembers`), what it has made are rows of the items it has been at (`Brings`), and, as
    long as nobody has disturbed it, those rows are as the plan has them (`Undisputed`), with blockers as far
    as its loop has come (`Links`).
  * `OneTaskEach` and `MintsOnce`, assuming one importer: of two that look before either adds, each adds, as the
    hazard at `cli.py:1315` says.
  * `SweepsExactly`, with no assumption. `SweepInv`: of the tasks nobody has touched since `mark-shipped` began, what it
    has listed are those with a brief, what it took from the report are those the report names, and what it has
    left to close are exactly the open ones that are to be closed. Every step of the others either leaves a task's
    brief, tag, status and report alone or touches it.
  * `NothingDownstream`, assuming an export of all that is not done (`WholeBoard`): `DispatchFiltered` shows what a
    narrower one does. Why it holds: the set of tasks from which an open question can be reached within the export
    is closed under blockers, and the gate refuses a task next to a question.
* `ScheduleProofs`, for any items, dependencies and files
  * `ScheduleTypes`.
  * `Levelled`, `Refused`. `WavesInv`: the stack is a path of dependencies whose frames have taken account of what they
    have left behind (`Path`, `Frames`), so an item that is met again closes a cycle; the memo is levelled, and
    levels along a cycle would have to fall, so there is none if the function returns.
  * `Packed`. `LanesInv`: two items that overlap wait to be compared, are being united, or are in one tree (`Joined`);
    a tree never leaves a set that no overlap leaves (`Linked`); what a find has climbed from is in the tree it is
    at (`FindsOK`); groups follow the roots (`Filed`). "In one tree" is said without recursion: every set of
    items that the forest does not split has both or neither.
* `SessionProofs`, with no assumption beyond the types of the constants and `Heartbeat <= PeerLive`
  * `TypeCorrect`. What a runner is `at` tells the kind of its job (`JobKinds`), and a session is never in its
    own list.
  * `AnchorsHold`. That markers are behind the anchor asked for is not inductive: what a rewrite holds was
    read earlier. `AnchorInv` adds that what is held is behind too, unless it is the rewrite that asks, and
    that rewrites of one marker that overlap hold the same anchor (`RewritesAgree`), so that one that asks
    leaves no older one behind it.
  * `PeersSeen`. `BeatInv`: a marker is at most a heartbeat younger than its session's last command, and what
    a rewrite holds is of now, because the clock stands still during a hook.
  * `PassSettles`. `GateInv`, of the reads a gate has behind it: its anchor is no further on than the session's
    (`Anchored`); between two git commands what was due when it began is on the list so far, or the next command
    still shows it (`Underway`: a commit in between takes tracked files only, which `git diff sha` compares with the
    anchor; a file that was added too late for that is in `stirred`); after them it is listed or was claimed
    (`Attributed`, `Listed`).
* `StampsProofs`, for any hooks, runs, calls and prompts, kills and writes of the orchestrator
  * `StampsTypes`, `OneEntry`, `SpansKept`, `HandStays`. `StampsInv` has a part for each, which follow a time from the
    hook that takes it through what hooks hold to the two files. `OneAtWork`: at a run that is not `overlapped` one
    hook works. `SaidStands`: what the orchestrator wrote stands on the board and on every copy of it that a hook
    holds. `RecordedFollowed`: what was recorded is in the file, in the file the hook is about to write, or in the
    other one that it writes first. `Single`: a time is on one entry of one board, or in one span of one ledger,
    and in what a hook holds as often. `drain` is a loop over the spans; that each span lands on an entry or is
    left, and on no second one, is shown step by step along its recursive function.
* `CheckoutProofs`, for any casts of the scenes
  * `LessonsStay`. `LessonsInv`: what is sure is in the file under one id (`Matches`, `Apart`), unless the file is
    truncated, and so it is in what a run has in hand (`InHand`), which will be the file; what other runs have said
    since that one read is not sure, nor what is left at the end of a longer text.
  * `OneBoard`. `PortInv`: as long as nobody died, the first port of a repository's walk that is not another's is its own
    or free (`FirstOfItsOwn`); all runs of a repository walk the same ports from the same door.
  * `CloseOutTypes`, `ShippedFit`. `CloseOutInv`: what the gate remembers is what the files hold, of those nobody has
    written since it began (`Recalls`), and while it has found no error, each promise whose checks are all
    behind it is kept by the files (`KeptSoFar`).
  * `PreflightTypes`.
  * `RunsDisjoint`. `Sides`: a check that counts holds the INDEX that is there, its plan is under way in the table
    (`InvFresh`, `InvIndex`), and of two plans that count one has already looked at the other, or both have yet to
    (`InvApart`): each is registered before it looks.
  * `PassSound`. `SeenSoFar`: what a check has seen to so far still holds of the files as they are, since whatever
    would change it makes the plan `loose`.
  * `SyncTypes`.
  * `EditsStay`. That an edit is in a directory or a backup is not inductive: the directory may be one that a run is
    removing. `OwedInv` says that it is on the shelf or `Firm`: in a directory that nobody is removing, and that
    nobody is about to copy that file into. Before a directory is removed all of it goes on the shelf, and a
    copy writes only into a directory that was missing.
  * `RunsStaySettled`. `SettleInv`: a run that has the files for itself leaves behind it directories that are as its mode
    has them (`Fine`, `Ordered`); once all is so, runs in that mode find nothing to do (`Calm`).
  * `CheckoutTypes`, `CheckoutKeepsAll`, `CheckoutShipsFit`: all of this in the specification that the run checks.
    `CheckoutInv` puts the invariants together; a component that rests keeps its own or has nothing to promise,
    and outside the close-out no flip writes `shipped` (`NoneShips`).

Only model-checked is liveness: `CallReturns`, `NeverWedged` and `Terminates`. Liveness under fairness, ENABLED and
induction over data are beyond this prover. `ImplementsMutex` and `ImplementsBoard` are proved as refinements of
safety specifications. The type invariants of `BoardLock`, `EventLog`, `BoardCommands`, `PlanBridge` and `Schedule`
are proved and are not checked by a run; those of the scenes of `Checkout` are proved and checked as one
(`CheckoutTypeOK`). What `CheckoutKeepsAll` does not say, and no proof does, is anything about two components of a checkout
that act at the same time: `Checkout` has scenes, for the reason given in section 2.

## 5. What is left out

* JSON and markdown conversion, message wording, and the plain text fields of rows. A log line is whole,
  partial or merged; the store keeps one plain field, one relation and the claimant.
* The debris `board.lock.stale.*` after its rename: no step reads it.
* Feature commands, plain status moves and tag edits in `BoardCommands`: one field each on which no other
  row depends; `PlanDispatch` has the moves, `PlanImport` the tags. The `*.meta.json` sidecars too: they are
  written before the board event, so a kill between the two leaves a transcript that `session backfill`
  skips.
* In `Lanes` the order inside a lane: items of one wave do not depend on each other (`MemoIsLevelled`).
* In `Lanes` what a path names: `_files_overlap` compares strings, so a directory and a file in it are two
  files that share nothing, in the code and in the model.
* In `Sessions` branch, runtime, source and worktree, which only messages use; in `WrapupGate` the options that
  name a marker, session or commit by hand, a git that fails (the anchor `UNKNOWN`), the spelling of paths, and
  how a verify command is run.
* In `PlanDispatch` how feature, lane and tag select tasks: `Scopes` is a set of sets of tasks, arbitrary in the proofs
  (but for `NothingDownstream`, which is of the whole board) and the whole board alone in the runs. A brief stands for the `source_ref` of
  its task, and two tasks do not share one.
* In `Stamps` the activity trail, a file that is only appended to and that no step reads.
* In `CloseOut` and `Preflight` the form of the markdown (one flag of a content), warnings, and options that skip a
  check or name a file by hand.
* In `CloseOut.Resolved` a board that cannot be replayed (`check_tracker.py:153` then finds no fault with the cited
  ids); in `Preflight.Candidates` the area and feature tags of decisions (`matching.py:54`): candidates are matched
  by paths alone. No property speaks of either.
* In `Lessons` ids that stand in the remains of a ledger or of half an entry, which `next_id` would count.
* In `ToolSync` the rendered files (hooks, MCP servers, managed documents; each is computed from the repository, but
  for `~/.claude.json`, of which one key is rewritten), the per-skill links and the push.
* Components with status `not_modelled` in `PROJECT.json`, with the reason there.

## 6. Plan

What the runs check of safety is proved. Left, in this order: the remaining commands of `BoardCommands` (feature, moves,
tags, sidecars), which would bring the two hazards of `cli.py:795` and `cli.py:384` under properties that need
kills and overlaps already modelled; `Checkout` without scenes for `CloseOut` and `Preflight`, which share
the table of plans; then recommendation, which reads only.
