# mongodb-sizing-agent in TLA+

The program takes a relational workload, has a Cursor agent draft a MongoDB
data model, waits for a person to approve that model (in Slack or by hand), has
the agent generate a seed script, indexes and sizing inputs, and then runs a
tools pipeline that seeds a local MongoDB and measures it for Atlas sizing.
These modules describe what happens when those parts run at the same time, fail
and are started again. TLC checks them on small instances; TLAPS proves the main
safety results for every value of the constants.

Paths below are those of the repository. `PROJECT.json` maps each definition to
the lines it models.

## The system

| Component | State | Operations | Interacts with |
|---|---|---|---|
| **data-model.md and its approval** (`agent/approval.py`, readers in `agent/session.py`, `agent/tools_runner.py`) | one Markdown file: status lines in two forms, section 10, audit lines, the rest | `approve_data_model`, `read_approval_status`, `verify_approved`; the agent and people rewrite the file | read by the REPL, the bot, batches and the dashboard; no lock |
| **approval workflow** (`run_agent.py`, `slack_app/bot.py: handle_approve`, `agent/continue_after_approval.py`) | where each click, REPL and batch is; the mode of its next message; required artifacts; `session.json` | approve, dispatch, continue the agent, collect artifacts, start tools; REPL loop; `--tools-only` | the model file, Cursor runs, the pipeline |
| **Slack case watcher** (`slack_app/bot.py: CaseWatcher`) | two memories of modification times, the thread of each case | sweep over all cases; approval request; sizing summary; tools threads | files of every case, Slack posts that may fail |
| **tools pipeline** (`agent/tools_runner.py`, `seed.py`, `scripts/apply_indexes.py`, `scripts/size_from_dbstats.py`) | one database, two report files, events for the dashboard | stack, drop, insert, index, validate inputs, statistics, JSON, Markdown, tests, cleanup | started by clicks, REPLs, batches |
| **agent sessions and recovery** (`agent/session.py`, `run_agent.py`) | `session.json`, the runs at Cursor, wait threads that were given up | create, save, bootstrap, resume, cancel stuck runs, send | terminals and clicks share one agent |
| **stable statistics** (`size_from_dbstats.py: wait_for_stable_stats`) | last fingerprint, count of equal readings, deadline | flush, read, compare, sleep | MongoDB, which goes on allocating |
| **sizing formulas** (`size_from_dbstats.py`, `sizing_inputs.py`) | none | scale samples to production counts | - |
| **index prefix check** (`scripts/index_utils.py`) | none | reject indexes that are prefixes of others | - |
| **text streaming** (`agent/session.py: stream_run_text`) | text not yet sent | print, flush before a tool line and at the end | dashboard events |
| **event stream** (`dashboard/server.py`, `agent/events.py`) | ring buffer, one bounded queue per subscriber | post, replay, subscribe, disconnect | browser |
| **phase rail** (`dashboard/state.py`) | none | phases from the files of a case, read one after the other | browser |
| **dashboard client** (`dashboard/static/app.js`) | case, last answer, marks made by events, open text card | poll, answer, event, switch case | server |

Also in the repository and not modelled: `handle_request_changes` (posts only),
message blocks and report rendering (formatting), intake parsing and prompts
(sequential text), the container start script (its success or failure is
`StartStack`), and the generated repositories and example cases.

### What is hard here

- **No lock on the files of a case.** The approval reads twice and writes once;
  the write first empties the file. A REPL, a batch, another click, the agent and
  a person's editor may come between any two of these accesses.
- **Values read before a wait and used after it.** The REPL chooses its mode
  before `input()` blocks; the watcher reads the time of a file, then the file, and
  posts what it has read under the time before.
- **Failures that leave marks.** The watcher remembers a model before it posts;
  one exception ends the sweep for the cases after it; a crash forgets everything.
- **Writes that empty the file first.** `data-model.md`, both reports and `session.json`
  can be met, or left behind, torn.
- **Processes that share a database.** Two pipelines of one case, and the
  documents, indexes and torn reports of those that died.
- **An iteration that is suspended.** The dashboard replays its ring buffer with a
  `yield` between any two events, and programs post events in between.
- **Runs that outlive their client** and answer in the mode they were sent in; and
  recovery, which cannot tell a stuck run from one that another process waits for.
- **Figures of different moments.** The database and its collections are asked one
  after the other while WiredTiger allocates.
- **A page fed by events and by answers**, in any order, with answers that were put
  together while files changed, events that come late or never, and a connection that
  breaks: the server then shows the page its whole buffer once more.

## Modules

| Module | Models | Role |
|---|---|---|
| `DataModel` | the document as the two regular expressions see it; status, mode, update | operators used by the next two |
| `SerialApproval` | a history of whole `approve_data_model` calls and revisions | what the function does to a document |
| `PhaseGates` | what the README promises of the phases | abstract specification |
| `ApprovalFlow` | clicks, REPLs, batches, agent runs, edits and crashes on one case | implements `PhaseGates` |
| `CaseWatcher` | the sweep, tools threads, writers, failed posts, restarts | all cases |
| `PipelineReports` | what a reader of the reports may rely on when pipelines follow one another | abstract specification |
| `ToolsPipeline` | the pipeline down to documents and report halves, with kills and reruns | one database; implements `PipelineReports` |
| `PageFeed` | what a page may show of the events | abstract specification |
| `EventStream` | emitters, ring buffer, subscriber queues, replay, restarts | the dashboard's event stream; implements `PageFeed` |
| `AgentSession` | terminals, clicks, `session.json`, runs and recovery | one case's agent |
| `Sizing` | the readings, the wait and the formulas of `size_from_dbstats.py` | one database |
| `PhaseRail` | phases of a case and how the page merges them | operators used by the next one |
| `Dashboard` | a run that streams, pipelines, the server's answers and the page | composes text streaming, phase rail and client |
| `...Proofs` | lemmas, inductive invariants and theorems of each | proofs |
| `MC...` | the small sets the runs need | TLC |

**DataModel.** A document is a sequence of header statuses, one of footer statuses,
whether section 10 is there, the number of audit blocks, and a body. That is what
`_HEADER_STATUS_RE`, `_FOOTER_STATUS_RE` and the `re.sub(..., count=1)` calls
distinguish. `ReadStatus` prefers the header as `read_approval_status` does.
`EmptyDoc` is the file between `open("w")` and the write.

**ApprovalFlow.** A step is one access to a file or one call to the agent.
`ReadModel`, `CheckStatus`, `Truncate`, `Fill` are the four accesses of
`approve_data_model`; `Dispatch`, `Continue`, `ContinueEnds`, `Collect` are
`handle_approve` and `continue_generate_after_approval`; `VerifyApproved` and
`VerifyArtifacts` are `verify_tools_ready`, which every caller of the pipeline
passes. `Launch` to `CollectForTools` are `cmd_interactive`. `stray` holds the
modes of Cursor runs that nobody waits for. `approvedOnce` is history only.

**CaseWatcher.** A file is its modification time and the part of its content the
watcher depends on. `StatModel`, `ReadModelStatus`, `MarkModel`, `RenderRequest`,
`PostRequest`, `LinkThread` are `_maybe_post_approval_request` in the order of its
accesses; `StatReport`, `MarkReport`, `ReadReport`, `PostSummary` are
`_maybe_post_sizing_summary`, taken by the watcher and by tools threads. `stat` is the
time a thread has read, `got` the version of the file whose text it has read later; a
post records both. `messages` counts the requests Slack has been posted for a case,
across restarts; `thread` is the number of the one that is remembered (0: none) and
`clicked` that of the one a tools thread was started from. `ClickApprove` is a click under
any message that was ever posted: a pending model is approved, an approved one is left as
it is and the click goes on, at any other the click is over. `HandlerStartsTools` then
remembers the message and starts the tools, or the agent if artifacts are missing
(`ContinueEnds`). `asks` and `sums` are history only, of one life of the bot: no step
reads them.

**ToolsPipeline.** Documents are counted by key because `seed.py` derives keys from
numbers, so that reruns and overlaps collide under a unique index. `Overlap` is a
parameter, not a variable of the code: the code has no guard, and `Overlap = FALSE`
says that users wait for one pipeline to be over before they start another. Then it
implements `PipelineReports`, in which there are neither documents nor indexes nor loops:
the mapping takes all places up to the opening of the JSON report for "measuring", and
the figures of the abstract reports are `Exact`. Both reports are written in two steps
(`OpenJson`, `CloseJson`; `OpenMd`, `FillMd`), between which they are torn and where a
pipeline may die. `Kill` is the death of the last process of a pipeline: a script that
survives `run_tools_pipeline` goes on as the pipeline and is killed later or ends. It also
stands for an exception other than `CalledProcessError` (a program that cannot be
started), which leaves its step shown as running; `StepsClosed` excuses what was killed.
`AnswerPrompt` is the answer to the question whether to clean up. `by` is a history
variable: it remembers which pipeline wrote each report last and no step looks at it. In
the abstract specification a pipeline may only go on, and succeed, while the reports are
complete and its own.

**EventStream.** The server is one event loop, so a step is what happens between
two suspensions: a whole `post_event`; `events_stream` up to its return
(`Connect`); its generator up to each `yield` (`Begin`, `ReplayNext`, `Get`). The
HTTP middleware of `dashboard/server.py:38` hands chunks on one at a time, which
makes every `yield` such a suspension. A `deque` that was appended to makes its
iterator raise (`ReplayRaises`), and the `finally` clause of the generator then
takes the queue out of the list (`Close`), unless the generator never began
(`Disconnect`). Events are numbered by program; `posted`, `shown`, `mark` and `base`
are history only. `PageFeed` has no buffer and no queue: one log, of which a page shows a
block and then, from the place where its stream was registered, what follows. `Feed` maps
`posted` to that log and the streams that met a full queue to `gaps`. The timeout and the
failures of `emit_event` are `GiveUp`, after which
the server may still take the event, and `Unreachable`.

**AgentSession.** A step is one call to Cursor or one access to `session.json`, which is
opened (`OpenSession`, leaving it `Torn`) and then written (`WriteSession`). `Launch`
and `Continue` are what `load_session` decides: resume the agent of the file, create
one if there is no file, stop if it does not parse, or use the id of `--resume`.
`Resume`, `SkipRun`, `CancelRun`, `WaitReturns`, `WaitRaises`, `WaitTimesOut` and
`Recovered` are `resume_agent` and `_recover_stuck_runs`; `RecoverRaises` is any exception
there that is neither a `CursorAgentError` nor a time-out, which ends the process or the
click; `Send` to `RunBreaks` are `send_and_wait` with what its callers do on `CursorAgentError` (`Fail`). `boot` counts
the bootstrap messages still to be sent. A run is only the agent it belongs to: it ends
at any moment, or never (`RunEnds`). `prompted`, `cut` and `orphans` are history only.
Modes, artifacts and tools are those of `ApprovalFlow`; leaving the loop to run the
tools is `Quit` here.

**Sizing.** Sizes are in WiredTiger pages (4096 bytes), so the two limits of the code are
one and two pages. `Flush`, `ReadDbStats`, `ReadCollStats`, `ReadingEnds`, `Compare` and
`Sleep` are one round of `wait_for_stable_stats`; `Grow` is WiredTiger, between any two
commands. `Matches` is the counter with its reset. A collection into which nothing was
seeded may be there, with its pages, or not: then it is not listed and has no storage
(`Existing`). The formulas are operators over the last reading; figures are counted in 1/`Unit`, and the run takes a `Unit` that the
document counts divide, so divisions are exact as in the code up to the rounding of
floats. The 0.05, 0.5, 0.75 and 1.5 of the code are integer ratios. `snap`, `fresh` and
`calm` are history only.

**PhaseRail and Dashboard.** `PhaseDone`, `ActivePhase` and `PhaseStatus` are
`dashboard/state.py`; the others are the pure functions of `app.js`. In `Dashboard` the
server puts an answer together in steps (`ReadNext`): the status of the model, then the
phases in groups of `Reading`, with files changing in between but no second request,
since `api_state` runs on the event loop without a suspension. `Answer` is the second
half of `fetchState`; two answers arrive in either order. `Receive...` are
`handleStreamEvent` with what `onmessage` adds. `rail` is what was last drawn: clearing
the marks (`run_finished`, `setCase`) draws nothing by itself. `feed` keeps the text and
tool cards of the page and `printed` the same of the terminal.

What happens to an event between `emit_event` and the page is `EventStream` in short.
`Emit`: its POST is served at once, or given up after half a second, and then served
later (`late`, `LateArrives`) or never; one that is served is put into the buffer, of
which only the last `MaxBuffer` stay (`Buffer`), and into the queue of the page, unless
that is full. `Reconnect` is the `EventSource` of `app.js:405`, which connects again by
itself: what the page has not read is gone, `events_stream` shows it the whole buffer, and
then what was queued since it was registered; events that were posted between the
registration and the replay come twice. The page removes no duplicates. `link` keeps
where in the feed the connection begins, and whether its replay shows every event once
(`clean`: none has fallen out of the buffer, none comes twice). A restart of the server is
left to `EventStream`.

## Runs

| Run | Instance | What it shows |
|---|---|---|
| `serial_approval` | every document with up to two header and two footer lines | one audit block at most, over any history (`OneAuditBlock`); an approval that writes is seen by every reader (`ApproveTakesEffect`) |
| `gates` | 1 click, 1 REPL, 1 batch, crashes | `TypeOK`; the invariant of the proof (`GateInv`); `ApprovalFlow` implements `PhaseGates` (`ImplementsGates`); an approval that lasts reaches the mode of the REPL (`ModePickedUp`) |
| `clicks` | 2 clicks, 1 batch, 4 documents | an empty model exists only during a write (`EmptyOnlyDuringWrite`); each click ends (`ClicksEnd`) |
| `requests` | 1 case, 2 tools threads (symmetric), a failed post, a restart, undecodable files, coarse clock | `TypeOK`; requests show ever newer models (`RequestsAdvance`); a tools summary goes to the request of its click, a newer one, or one that someone else has clicked (`ToolsSummaryInThread`) |
| `posts` | 2 cases, a pipeline outside the bot, a restart | summaries show ever newer reports (`SummariesAdvance`); every pending model that stays gets its request (`PendingAnnounced`) and every report its summary, although the watcher may meet it half-written (`ReportSummarised`), in the life of the bot that goes on |
| `serial_pipelines` | 3 pipelines, 2 collections of 2 documents, one unique index | exact reports (`ReportExact`), clean reruns (`RerunIsClean`), no step left open (`StepsClosed`), an end, or the question whether to clean up, and from its answer an end (`Ends`); it implements `PipelineReports` (`ImplementsReports`) |
| `event_stream` | 2 programs of 2 events, 1 page, buffer and queue of 2, given-up POSTs, a restart | a page that never met a full queue has no gap between replay and queue (`NoGap`); order of posting, with repeats only of events posted before the generator began (`ShownInOrder`); the events of one program in their order (`EmitterOrder`); what is queued is shown or the stream ends (`QueuedShown`); it implements `PageFeed` (`ImplementsFeed`) |
| `agent_session` | 1 terminal, 1 click, 2 agents, 3 runs, a crash | a case gets a second agent only if the first was lost before it was saved (`OneAgent`); no message before the whole bootstrap, except where it was cut short (`PromptedFirst`); resuming ends whatever the runs do (`ResumeEnds`, `agent/session.py:60`) |
| `sizing` | 2 collections, 2 samples, one of which leaves a collection empty, 3 inputs, up to 2 pages each, with and without `--no-wait` | a report of a wait that settled is of one moment (`SettledConsistent`) and of three readings without a change in between (`SettledCalm`); the figures of the collections add up to those of the database (`SettledAgrees`); the disk keeps its floor however the wait ended (`DiskHolds`); it ends (`WaitEnds`) |
| `rail` | 2 cases, 2 requests under way, a new file, an approval, a step (running, ok or failed), a run, a switch of case, an answer that is lost, a new connection with its replay | a phase called active is the first that is not done in the last answer (`ActiveIsNext`); when all comes to rest the rail shows the disk of the current case (`RailSettles`) |
| `feed` | 2 runs, 3 pieces of text, a tool, a pipeline step, an event that is given up or comes late, a full queue, a buffer of 5, a new connection | from each connection on the feed repeats the terminal: whole paragraphs, in their place, nothing missing in the end, unless an event was given up or the replay shows one twice (`FeedFaithful`) |

One run checks a statement of the README that the code does not keep:

| Run | Statement | What happens |
|---|---|---|
| `failed_post` | README:212, a pending model gets its request | the model is remembered before the post, and the post that fails is not tried again |

Other things the models show and that no run of the list repeats:

- README:212 says that after an approval "the REPL picks up agent mode on the next
  message". `ChooseMode` of `ApprovalFlow` comes before `TypeLine`, as `run_agent.py:93`
  before `input()`: the next message still goes out in plan mode, the one after is
  right (`ModePickedUp`).
- `tests/test_approval_write.py` has `test_approve_preserves_body_content`. An edit between
  `ReadModel` and `Truncate` is overwritten by `Fill` with the text read before.
- README:210 says that *any* workload is announced. With `"undecodable"` in `Drafts`
  `PendingAnnounced` is violated: a model that is not UTF-8 ends every sweep before the
  later cases.
- README:251 and README:367 speak of 500 documents. With `Overlap = TRUE` `ReportExact` is
  violated: a second pipeline drops what the first is about to measure.
- The watcher posts as soon as `sizing-report.json` parses, while the repository tests
  still run, though README:189 says "when tools finish".
- A version that is written between the stat of a file and its reading (`bot.py:122` and
  135, `bot.py:163` and 173) is posted under the time of the one before, and once more by
  the next sweep, although `tests/test_slack_bot.py` has
  `test_case_watcher_does_not_repost_same_mtime`. `Advances` is what holds instead: never a
  third time, never after a newer one, and only when this happened.
- With tools threads `SummariesAdvance` is violated: watcher and tools thread read the
  report's time before the lock, so the one with the older time can undo the mark of
  the other. With `CoarseClock = TRUE` `ReportSummarised` is violated: the watcher marks
  the first half of a write, cannot parse it, and does not look again.
- The thread a summary goes to is read when it is posted (`bot.py:183`): a request that was
  posted, or a click that was made, while the tools ran takes it over.
- A page that has lost its connection shows, below what it had, the whole buffer again.
- A bootstrap that fails, or whose run the click's recovery cancels (it returns with the
  status "cancelled", which is no error), is never repeated: the session is saved, and
  from then on the agent is resumed without its prompt. `cut` in `PromptedFirst` is this
  exception. With two terminals in `Terminals` `OneAgent` is violated: both find no session.
- A torn `session.json` stops every later start and every click until someone passes
  `--resume`. A terminal that gave up a wait cannot exit before the run ends (`Exit`):
  the interpreter joins the thread of the executor.
- The floor of the disk makes it fall as more is measured: storage just below a twentieth
  of the data is raised to a half, at a twentieth it is taken as it is. This is why
  `DiskHolds` says a twentieth. A database of a single page is always held to the half.
- The indexes of an empty collection count in the figures of the database and in none of
  a collection, hence the condition of `SettledAgrees`.
- `test_mongo_repository.py` contains `mongo_repository.py`, which `phaseFromToolTarget`
  looks for first: work on the tests never marks the test phase (`ArtifactPhase`).
- Events carry no case: a step that fails in one case marks the rail of the case that is
  shown, until the next answer.

### Bounds and why they are enough

- Two clicks are the smallest set in which two approvals overlap; one REPL and one
  batch suffice for what they share with clicks, since processes do not read each
  other's state. `gates` leaves out the second click and `clicks` the REPL to keep
  each run below half a minute; the theorem on the gates has no such bound.
- One gated and one ungated artifact: the code only asks whether one is missing.
- In `posts` two cases show what one does to those after it in the sweep. In `requests`
  one case suffices, since cases share no thread and no memory, and two tools threads are
  the fewest of which one can take over the thread of the other; they do the same and are
  symmetric. `MaxClock` allows four writes: an approved model, a newer one while its
  request is put together, and the two halves of a report. `MaxDrop` and `MaxRestart` are
  one failed post and one restart: a second finds the state the first one found.
- Two keys and two collections give a loop its first, inner and last round; the
  unique index on one of them gives both outcomes of a collision. Three pipelines
  give a run that meets the remains of a run that met remains.
- Streams do not influence each other, so one shows what each does. Four events with
  a buffer and a queue of two give evictions, a full queue, and posts before, during
  and after the replay.
- One terminal and one click are the smallest set in which one process recovers the run
  of another. Two agents show a second one; three runs are the bootstrap and one message.
- Two collections give a reading a middle; the samples lie on both sides of one page, of
  two pages and of the ratio 1 : 20. In one of them the second collection is empty; where it
  does not exist, dbStats may show the single page of the first: the wait then does not
  settle (`MinimumPageOnly`) and ends by its deadline, or there is none (`--no-wait`), and
  the formulas take the sample as untrusted. Growth by a page or not between any two
  commands is all that equal fingerprints can hide.
- Two requests under way give an answer that overtakes another; one file and one status
  that change while the server reads give torn answers; the phases are read as one group
  after the status, which is what can tear. More of them repeat this. A tool marks a phase
  as a running step does and is left out of `rail`, and the loss and the delay of events are
  those of `feed`; `ActiveIsNext` is proved for all of them.
- Two runs with a tool and three pieces of text give text before and after the tool, and in
  two runs; one event given up or late, at most two on the wire when another is posted (a
  replay may be longer), a buffer that the longest history overflows, and one new connection
  at any moment. The theorem on the feed has none of these bounds.
- `CHECK_DEADLOCK FALSE` is said only where all may be over: for the pipelines, the events,
  the sessions, the sizing, and the dashboard once its bounds are used up.

### Fairness

Weak fairness of a thread's or process's own steps: Python threads and processes
that can go on do. It includes the end of a Cursor run (`run.wait()` returns or
raises) and of a subprocess, but not the answer to the question of the cleanup
(`AnswerPrompt`): a pipeline may wait there for ever, and `Ends` says so. Nothing is
assumed of users, clicks, edits, the agent starting to write, or restarts; crashes never have to happen. The fairness of
`ContinueEnds` is that of `send_and_wait`; without it `ClicksEnd` would only say
that Cursor answers. `PendingAnnounced` and `ReportSummarised` assume the watcher
loop goes on (`run_loop` catches what a sweep raises) and speak only of files that
stay as they are, and of the life of the bot that goes on: the post they demand is not one
that an earlier life made. `QueuedShown` assumes that the event loop runs a generator that is
ready and that the page reads what it is sent; nothing is assumed of programs.

In `AgentSession` the fairness is of a process's own steps, not of `WaitRaises`,
`RecoverRaises` and `RunBreaks` (calls that fail while a run goes on), nor of `RunEnds`, so that `ResumeEnds`
rests on the time-out alone. `Sizing` assumes that the script goes on and that time
passes. `Dashboard` assumes the timer of the page (`Poll`), that the server handles
requests (`Serve`), that answers which are not lost and events in the queue of the page
arrive (`Deliver`, `Receive`); nothing is assumed of late events, connections, files, runs,
pipelines and the user.

### What is assumed of the outside

- A Cursor run in plan mode does not write the Generate artifacts. The code relies
  on it when it picks the mode; `AgentWrites` states it. It writes a document from
  `AgentDocs` at any time.
- Distinct writes of a file have distinct modification times, except for the two
  halves of one write when `CoarseClock` holds.
- `seed.py` is generated by the agent; the model follows the example in
  `cases/_example/outputs/seed.py` and the rules of the prompts.
- `insert_many` inserts one document after the other and stops at the first error;
  building a unique index fails on duplicates; dropping a collection drops its indexes.
- While a database is only read, its storage and indexes do not shrink; dbStats adds up
  its collections, and there are no system collections beside them.
- `Agent.list_runs` lists the runs that are going on, or raises; `run.wait()` returns when
  the run is over, or raises; a run that was cancelled ends at once, later or never.
- The browser keeps the order of the events of one stream; answers may overtake.

## Proofs

All theorems are proved by TLAPS with the SMT and PTL backends, from the named
assumptions of the modules (disjoint sets of processes, non-empty sizes, sentinels
that are no documents or statistics, a finite set of collections and a `Unit` that their
counts divide, an order of `Reading` in which every phase occurs, a buffer that holds an event). `Spec` is used without
its fairness. A `[]TypeOK` says more than ranges where a record or a sequence carries
what the proofs need: in `Sizing`, that the figures of the database are the sum of those
of its collections at some moment.

| Theorem | Says | Argument |
|---|---|---|
| `SerialApprovalProofs!AtMostOneAuditBlock` | `[]OneAuditBlock` | a document without section 10 has no audit block, so the update adds one to none or replaces those there are |
| `SerialApprovalProofs!ApprovalTakesEffect` | `ApproveTakesEffect` | the first header line, or else the first footer line, is the one that is both read and rewritten (lemmas on `Approve`) |
| `ApprovalFlowProofs!TypeCorrect`, `GatesInvariant` | `[]TypeOK`, `[]GateInv` | see below |
| `ApprovalFlowProofs!FlowImplementsGates` | `ImplementsGates` | `GateInv` gives the guard of the abstract action for each concrete one; all other steps stutter |
| `CaseWatcherProofs!RequestsInOrder` | `[]RequestsAdvance` | see below |
| `CaseWatcherProofs!SummariesInOrder` | `[]SummariesAdvance` when `Tools = {}` | the same for reports; a second poster breaks the order, and TLC shows how |
| `CaseWatcherProofs!SummariesInThread` | `[]ToolsSummaryInThread` | see below |
| `ToolsPipelineProofs!SerialReportsExact`, `SerialRerunsClean` | `[]ReportExact`, `[]RerunIsClean` when `~Overlap` | `Progress(p)` says what the active run has made of the database at each place; before the drops it says nothing, so every remainder is allowed |
| `ToolsPipelineProofs!SerialReportsImplemented` | `ImplementsReports` when `~Overlap` | `WrittenInv` adds to `Progress` what the two reports are at each place from the opening on, torn or whole, and whose; only the run that is at work can change them |
| `ToolsPipelineProofs!PipelineStepsClosed` | `[]StepsClosed`, overlapping or not | only the step a run is in is shown as running |
| `SizingProofs!ReadingsOrdered` | `[]ReadInv` | the reading before <= what was there at the last dbStats <= what is read of a collection <= now |
| `SizingProofs!SettledIsOneMoment` | `[]SettledConsistent` | see below |
| `SizingProofs!SettledIsCalm` | `[]SettledCalm` | `CalmInv`: a collection that still looks as in the reading before was read once more than there were equal readings, and once more again when this round has read it |
| `SizingProofs!DiskKeepsFloor` | `[]DiskHolds` | the figures are multiples of six of a common unit; then the two cases of the floor |
| `SizingProofs!FiguresAgree` | `[]SettledAgrees` | a common factor may be taken out of a sum; see below |
| `AgentSessionProofs!BootstrapComesFirst` | `[]PromptedFirst`, any number of terminals and clicks | every agent was prompted, was cut short or is being prompted (`AllKnown`) |
| `AgentSessionProofs!SingleAgent` | `[]OneAgent` when `Terminals = {t}` | see below; with two terminals it is false |
| `EventStreamProofs!StreamInvariant` | `[]StreamInv` | see below |
| `EventStreamProofs!NoGapCorrect`, `ShownInOrderCorrect`, `EmitterOrderCorrect` | `[]NoGap`, `[]ShownInOrder`, `[]EmitterOrder` | consequences of `StreamInv` |
| `EventStreamProofs!FeedImplemented` | `ImplementsFeed` | `StreamInv` says where in the log the next event of a replay or of a queue is, which is the guard of the abstract step |
| `DashboardProofs!ActiveIsFirstOpen` | `[]ActiveIsNext` | `Rails`: neither a mark nor what is drawn calls a phase active that the last answer does not |
| `DashboardProofs!FeedRepeatsTerminal` | `[]FeedFaithful` | see below |
| `ApprovalFlowProofs!WriteWindow` | `[]EmptyOnlyDuringWrite` when `~CanCrash` and `EmptyDoc \notin AgentDocs` | a file that is empty was emptied by a click that has still to write; with crashes, or an agent that writes nothing into the file, it is false |
| `TypeCorrect` of `CaseWatcher`, `ToolsPipeline`, `AgentSession`, `Sizing`, `EventStream`, `Dashboard` | `[]TypeOK` | per action |

**Why the gates need an invariant.** That tools run only after an approval does not
follow from the checks alone: the file may be edited back to pending, or emptied by
another click, after the check. `GateInv` records what survives: whoever is past its
write, in agent mode or past its check proves that the file *has* read "approved";
and a click about to write holds a text with a status line, which is why its write
reads "approved". The promise is therefore about the past ("has been approved"),
and it cannot be strengthened to the present: `VerifyApproved` and the start of
the tools are separate steps and the model may be revised between them.

**Why the pipelines need one.** `ReportExact` speaks of two files; that they are right
depends on the database at the time of the statistics, hence on every earlier round
of every loop, and on no other run being active in between (`Alone`).

**Why posts advance.** Every text is at least as new as the time that was read before it.
`Chain` says that the time of a post is after the times of all earlier ones and not before
anything they show: a time is read after the post before, and `MarkModel` lets pass only
what differs from the time remembered, which is the last one. Two posts of one text
then have the second marked with that very time and the first with an earlier one; a post
in between would have to be marked after the text of the first and before that time. With
tools threads several hold times of their own, and the chain of the summaries breaks; that
of the requests does not, as only the watcher posts those.

**Why a summary finds its thread.** `Linked` says that from the start of its tools on, the
thread remembered for its case is that of the click, or a newer one, or the one that
another tools thread of the case was clicked under (`Takes`), and that the request behind
it was posted (`Clicked`, `LinkHasRequest`). Requests are numbered as they are posted, so a
`LinkThread` can only make it newer; a restart ends the threads with the memory, while
the messages stay in Slack and may be clicked again. `Answered` carries this over to the
summaries posted.

**Why equal readings are of one moment.** Fingerprints are compared and not the storage
itself, and a reading takes several commands. Storage only grows, so what the first
reading saw of a collection is at most what there was when the second asked for
the database, and that is at most what the second saw of the collection. If the two are
equal, all three are, and the second figure for the database is the sum of the second
figures for the collections. `ReadInv` keeps this chain from round to round.

**Why one agent needs one terminal.** A terminal reads that there is no session and
creates an agent some steps later. `SoleInv` says that while there is no file every agent is
lost, except one that its terminal is about to save; a second terminal between its read
and its creation would make that false. Clicks may be many: they start only
where there is a file, no step takes the file away, and so a terminal that creates
never meets one of them at work.

**Why the figures add up.** `Sum` is the fold of the community modules over a set. That
it respects a common factor is proved for every finite set of collections, by a
counterexample of least size (`CollsInduction`): the library's induction theorems take an
operator, a set of sets can take its place. With counts in proportion each term is
the size of its collection times one factor, and so is the figure of the database.
`UnitAssumption` says that `Unit` is a common multiple of the document counts, which
exists for any finite set of samples; it is what keeps divisions exact.

**Why a page has no gap.** `StreamInv` describes everything a stream holds by its place
in the log of what was posted: the buffer is the end of the log since the last restart;
the replay and what is left of it are a block that ends where the log ended when the
generator began; shown and queued together are the log from the registration of
the stream on, until a full queue. Since a stream is registered before its generator
begins, block and line overlap or touch. Appending to the deque under a replay would move
its window; that the iterator raises is what keeps the block in its place.

**Why the feed repeats the terminal.** Text is sent late (before a tool, at the end) and
shown later. `FeedInv` says that the text not sent yet is the last that was printed, that the
events on their way would turn the feed into what is complete on the terminal
(`Carried`), and that two events of text never follow one another without an event in
between that closes the card (`Apart`): otherwise two paragraphs would merge. It says the
same of the whole buffer and an empty feed, as long as nothing has fallen out of the buffer:
a new connection whose replay shows each event once then starts with what carries all.
That the first event of the log closes a card (`Apart` again) keeps the replay from being
added to a card that was open before. It speaks of histories in which no event was given up
or found a full queue, as the property does; the others are in the model, and TLC finds
the property violated without its conditions.

The safety properties and the invariants were checked with TLC before they were proved.

**Model-checked only:** liveness (`ModePickedUp`, `ClicksEnd`, `PendingAnnounced`,
`ReportSummarised`, `Ends`, `QueuedShown`, `ResumeEnds`, `WaitEnds`, `RailSettles`), since
ENABLED and fairness are beyond the prover. Every invariant, action property and
refinement that a run checks is also proved, some under the conditions of the table
(`~Overlap`, `Terminals = {t}`, `Tools = {}`, `~CanCrash`), without which they are false.

## Not modelled, and the plan

- `scripts/index_utils.py` compares the pairs of a list and keeps no state; what its failure
  leads to is `IndexesFail` of `ToolsPipeline`.
- Message blocks, report rendering, intake parsing, prompts: formatting and text.
- Previews, the artifact list and the badges of the page render what arrives.
- Which model an artifact was made for is in no file. A revised model that is approved
  again finds the artifacts of the earlier one "there" (`slack_app/bot.py:376`); a model
  with versions would have to invent them.
- Runs that stream at the same time: their text is merged into one card, because `run_id`
  is not looked at (`appendAssistantText`).

To come: what the watcher promises of a thread of Slack as an abstract specification
that `CaseWatcher` implements; what holds of the summaries when tools threads post beside
the watcher.
