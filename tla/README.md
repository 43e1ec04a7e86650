# PrismTrace: a verification project

PrismTrace observes AI tools (Claude Code, Codex, opencode, any Node program) from the outside.
Observers and an injected probe write what they see as append-only artifacts into a user-level
store; a local console reads the artifacts, keeps an index of them and serves them over HTTP. This
directory holds TLA+ models of the parts that keep state or run concurrently, TLC configurations
that check them on small instances, and TLAPS proofs of invariants for every instance.

Paths below are relative to `src/crates/prismtrace-host/src/` unless they name another crate.

## 1. The system

| Component | State it keeps | Operations | Hard behaviour |
| --- | --- | --- | --- |
| persisted index (`prismtrace-index`, `index/`) | `state/index/manifest.json`, `sessions.jsonl`, `events.jsonl`, `capabilities.jsonl` | load, merge, truncate and write, one file after the other | no lock between threads or processes, crashes and failed writes between any two writes, files that grow while they are read |
| read model (`observability_read_model.rs`) | none of its own; the build in memory | scan artifacts, fingerprint, project, persist | parse and fingerprint are two reads of a moving file |
| console routes (`console/server.rs`, `console/api.rs`) | one thread per connection | list and detail routes, fall-back to a build | threads share the index files |
| observer artifacts (`prismtrace-sources`) | one JSONL file per run | create, append | partial lines |
| Claude observer (`claude_observer.rs`) | transcripts with offset, partial line and pending events; two event budgets | discover, collect history, follow | files grow, shrink, are replaced or vanish between reads; a read ends in the middle of a line |
| Codex observer (`codex_observer.rs`) | child process, reader thread and channel, pending messages, in-flight requests | connect, initialize, collect capabilities, follow | answers late, out of order, in error or never; the child dies |
| opencode observer (`opencode_observer.rs`) | message budget, events collected, pending global events | collect, write, follow | a server that goes on between requests, two budgets over one list, failing requests and writes |
| inspector runtime (`runtime.rs`) | map pid to active control, worker threads with command channels | `inject_probe`, `send_detach_signal`, `run_worker_loop` | calls overlap, workers end on their own, evaluations outlive their deadline |
| probe (`../probe/bootstrap.js`) | the patched functions, what they were, the detach function | bootstrap, triggerDetach | injected again into a hooked target |
| ipc and capture (`ipc.rs`, `request_capture.rs`, `response_capture.rs`, `tool_visibility.rs`) | heartbeat clock, event channel, provider hints, three directories of files | read a message, capture it, time out, join the listener thread | deadline against queued messages, lines split by read timeouts, writes that fail between two files |
| session reconstruction (`console/mod.rs`) | none | pair requests with responses and tools, group exchanges into sessions | files read while they are written, window boundaries, late responses |
| console page (`../assets/console.js`, `console/payload.rs`) | the list, the timeline of the selected session, cursors, loading buttons | load, load more, select, refresh, filter | calls suspended on fetches overlap, fail and come out of order; pages are cut by offset from a list that moves |
| bootstrap and legacy import (`lifecycle.rs`, `prismtrace-storage`) | the store's directories | create, copy missing artifacts | copies cut short, several processes at once, an older version that still writes |
| analysis (`prismtrace-analysis`, `capability_projection.rs`, `analysis.rs`) | none; a function of the events of a session | project events to capabilities and prompts, diff adjacent ones, diagnose skills | answers in many forms, events of one millisecond, snapshots that show nothing |
| console lists (`console/mod.rs`, `console/observer.rs`, `discovery.rs`) | a snapshot per request | load, filter and merge lists, open details | processes and files change between the two looks a list is made of |
| command line, payloads, HTML | none | dispatch, rendering | none that a model checker reaches |

How they interact. An observer run or a capture only appends to artifacts. The console never talks
to an observer: it meets it in the file system, which is why the index has to tell from sizes and
times whether it is up to date. Inside an observer run a reader thread or a file stands between the
observed tool and the session. In the attach path the host evaluates the probe in the target through
an inspector session; a worker thread owns the session, forwards the probe's lines to the consumer,
and is commanded through a channel. `PROJECT.json` lists the hazards of each part at its line.

What makes each part correct:

- index: an id that it resolves can be read; a source it calls unchanged is completely projected; a
  build is equivalent to replacing the whole index at once;
- routes: a detail that exists is found, however old or absent the index is; what a page shows opens as
  what it was, and what was archived is in none of the three places that are asked;
- lists: nothing that was there the whole time is missing or twice, and the order does not depend on
  the order in which a directory is listed;
- analysis: diffs tell the changes that happened, and a diagnosis is founded on snapshots;
- import: an artifact whose copies have all ended is whole;
- transcript tail: each complete line is returned once and in order, wherever reads cut it; after
  the file has shrunk it is read from its start; the run ends;
- Codex sources: the newest socket that the desktop app holds is the one that is tried;
- Codex session: no line is lost or repeated while answers overtake it, each capability is reported,
  a late answer is still reported as what it answers; the run ends;
- capture: a capture that ends in order has each recognized call on disk; a response is attributed
  only to its own request; the loop and its thread end whatever the target does;
- sessions: exchanges are divided exactly at the long pauses, and a session's id never moves;
- opencode: what is recorded of a session is a beginning of it; a failure costs the others at most one
  event off the end of the artifact;
- page: the timeline shown is that of the selected session, nothing is shown twice, nothing is skipped
  unless it came closer to the front of the list meanwhile, and no button stays loading;
- inspector: the bridge and the probe are evaluated in the target only, no line of the probe is lost
  while answers are awaited, each call returns and abandoned workers end as long as the bridges are read, a
  live session can be detached, a detach through the inspector undoes exactly one injection.

## 2. Modules

### ObservabilityIndex, IndexEnvironment, AtomicIndex, MCObservabilityIndex, ObservabilityIndexProofs

`ObservabilityIndex` models what the console's threads do to the index files while observers append;
its parameters are in `IndexEnvironment`.

| TLA+ | code |
| --- | --- |
| `lines`, `present` | an artifact: how many event lines it has, whether its file is where the readers look |
| `manifest`, `disk` | `manifest.json` (the length each source had when fingerprinted) and the three JSONL files (how many leading lines of each source they cover), each missing, damaged or readable |
| `pc`, `cursor`, `snap`, `prev`, `changed`, `plan`, `caps`, `base` | the local variables of one thread in a route and in `build_with_codex_home_and_workspace` |
| `Request`, `OpenStore`, `LoadFile`, `AnswerList`, `AnswerDetail`, `FallBackToBuild` | `handle_console_connection`, `IndexReadStore::load`, the routes of `api.rs` |
| `Scan`, `LoadManifest`, `Fingerprint`, `CreateManifest`, `SaveManifest`, `CheckFiles`, `Project`, `MergeFile`, `TruncateFile`, `WriteFile`, `Reply` | the build, in the order of its reads and writes |
| `AppendLine`, `Archive`, `Unarchive` | observers, Codex moving rollouts |
| `WriteError`, `Crash` | a failed write, the death of the process |

Abstractions: an event is its line number, since artifacts are append-only; `Scan` and `Fingerprint`
take all sources in one step each; the Codex rollout's event limit, its sqlite thread state, filters
by source and torn trailing lines are left out; one route query is one `Request`; a crash is the
death of the process, after which what was written stays written. A file is opened and emptied in one
step and written in another, so that two threads may write into it at once: the later text then lies
over the earlier one (`Texts`, `Overlays`: damaged, or with whole lines of the earlier text at its
end; `Pieces`: a manifest is damaged or whole).

`AtomicIndex` is the abstract promise: an index that each build replaces in one step by what the
readable artifacts hold. The refinement mapping stands at the end of `ObservabilityIndex` (`Published`: a
build takes effect when it truncates the first file). `MCObservabilityIndex` has three instances, of
which a behaviour is one: a thread alone whose sources rest while it serves a request (`Quiet`), a thread
alone whose sources grow (`Live`), and several threads with crashes and failed writes (`Faults`).

### ClaudeTranscript, TranscriptTail, MCClaudeTranscript, ClaudeTranscriptProofs

`ClaudeTranscript` models a run over several transcripts. A line is three pieces, the last with the
newline, so a read can cut it in two places; a line cut at its start parses as nothing.
`Discover`, `ScanHistory`/`ScanFails`, `StartFollowing` are `ClaudeObserverSession::new` and
`collect_capability_events`; `ReturnPending`, `ReadAppended`, `ReadFails`, `Sleep`, `IdleTimeout` are
the passes of `next_event`; `AppendPiece`, `Rewrite`, `Remove` are the environment. `log`, `skipped`
and `scanned` are history variables. Abstractions: discovery picks any readable transcripts up to
the limit (the code picks the most recently modified); history is read and returned per transcript
in one step; an artifact that cannot be written ends the run; the normalization of records is left out.

`TranscriptTail` is the abstract promise to a reader of one transcript: from the point where it joined
it is given each completed line, once, in order. `MCClaudeTranscript` states that the detailed module
implements it for transcripts that are only appended to.

A behaviour of `MCClaudeTranscript` either rewrites one transcript or appends to all of them: a rewrite
voids the promise for its transcript and says nothing of the others, whose state is their own.

### ReadModel

The two readers as recursive functions over the lines of a file (`RolloutRead`, `ArtifactRead`: the loops of
`read_codex_rollout_session` and `read_observer_artifact_session`), with the window, the ids and the title,
and the order in which a route asks Codex's state database, the index and a build (`SessionRoute`,
`EventRoute`, `SessionList`, `EventList`, `CapabilitiesRoute`). `Write`, `WriteOn`, `Register`, `Move`,
`Mark` and `DbComesOrGoes` are Codex and the observers: a line may be cut off and grow together with the
next, a thread is moved and its row changed in two steps, sqlite may not answer. The head, too, may be cut
off, and then the thread stays `"unknown"` (`Headed`). A file begins with its head: a head that comes later
or once more, as where a rollout continues another, is left out; the events before it would be of the thread
that was told last. `List`, `OpenSession` and `OpenEvent` are requests, the last for an event of a page that
may be old. A build is one step here; `ObservabilityIndex` takes it apart.

### ConsoleViews, OrderedLists

One connection with its two looks: `Ask` takes the snapshot, `Answer` reads what the route
reads again and merges (`Merged`, which keeps the first item of each id, `Firsts`). Requests and sessions
are answered from an index of any age (`covered`, `Indexed`, `IndexIsWritten`), sessions only while the
state database does not answer (`stateDb`, `StateDbFailsOrAnswers`, `EventsOf`); the artifacts of observers
are read anew for targets and activity (`Observed`). Without an index a route builds one, which is an
index written at that moment. Rollouts are not archived here: archived threads, and indexed files that
are gone, are in `ReadModel`. A name, a path or an
event is only whether it holds a term of the filter (`Matches`). A directory is listed in any order
(`Orders`), a request file may be half written, `ps` may fail. `Due` is what a list should hold, stated
without the order of files and loads. Ids are numbers: those of processes and requests go up to `MaxId`,
those of events follow, so that no event bears the id of a request.

`OrderedLists` is sorting, said by what it gives: each element stands behind as many as come before it.
The lists here and the sessions of `CapturedSessions` are ordered by it, and the proofs about both rest
on the same two facts: with distinct ranks every element has one place, and the places are ascending.

### CapabilityAnalysis

From a source's answer to the diagnostics of a session: what the observers keep of it (`CodexSkills`,
`OpencodeMcp`, `OpencodeTools`), the events as tagged JSON values, their projection (`Projection`,
`NamesForKind`, `ToolEntries`), the adjacent diffs, the diagnosis of each skill and the inventory. The
answer to check against is the history field `shows`: what the source really had when the event was
recorded. `Digits`, in which event ids are compared as texts, is RECURSIVE, so this module is left to TLC.
`Radix` is the ten of decimal numbers: a smaller one makes ids longer, and so unequal in length, after
fewer lines.

### LegacyImport

A start (`bootstrap_for_invocation`) of one of several processes over one store: `Look`, `Open`, `CopyLine`,
`CopyEnds` are `copy_missing_files_recursively`, with an error (`Fail`) or the death of the process
(`Crash`) at any point; `Record` is an older version that still writes into the workspace. The content
of a file is the set of its lines; a copy empties its destination when it opens it.

### ConsoleFiles, ConsoleFilesProofs, MCConsole

The four modules above, of which a behaviour looks at one while the others rest in an initial state:
each takes what the one before leaves as files or events, in any form these can have, and shares no
step with it. So one run covers them all at the cost of their sum, and not of their product.
`ConsoleFiles` joins the import, the readers and the lists, `MCConsole` adds the analysis: the proofs
are about the former, since the prover takes no module that reaches a RECURSIVE operator.

### CodexSources, CodexSession, MCCodexObserver, CodexSessionProofs

`CodexSources` is how a run comes to its session: `UseNamed`, `List`, `Look`, `AskOwner`, `NoneFound` are
`build_sources` and `discover_latest_codex_socket`; `Try`, `ConnectSocket`, `ReadAnswer`, `ReadTimesOut` are
`validate_proxy_socket_endpoint`, of whose answer one read is judged (`Accepts`); `Initialize` starts the
child. Sockets vanish, change hands and answer in pieces meanwhile. The vector that the code sorts by time
of modification is the set `found`, looked at from `NewestOf` it on.

`CodexSession` is the run over these sources, the child with its output channel (`spawn`),
`take_response` with its pending queue, capability collection and following. The app server is
external: it answers any outstanding request at any time with a result or an error, notifies, sends
requests of its own (whose ids may equal the observer's, the one way `TakePending` can happen),
writes a line that is not JSON, or dies. Line numbers (`seq`) are there for the properties. Left out:
the wording of events, blank lines. Timeouts may happen at any moment; the end of the output is the
same as silence, as in `read_value_with_timeout`. The session knows nothing of its source but whether it
connects, so that a behaviour of `MCCodexObserver` looks at one of the two.

### InspectorAttach

One call of `inject_probe` up to its worker: `Signal`, `QueryPorts`, `Fetch`, `EndRound` are the discovery
of the debugger url, `Connect` the websocket, `CallMethod`, `WaitForResponse` with `Answered`, `RetryPid`
and `PassOn` the four expressions (`Steps`) that are evaluated in the session, each awaited among
whatever else it says. Ports are opened and closed by any process meanwhile (`MovePort`), a listener may
name another's url, answer nothing, or pass one on. The ports still to be asked are a set, as the order in
which a round asks them is any. Lines of the probe go into the bridge, whose
reader the caller gets only when the call returns: into one that is full (`Room`) the call writes for
ever (`Block`).

### ProbeHooks, InspectorControl, InspectorProofs, MCInspector

`ProbeHooks` is the probe in the target: each `Bootstrap` wraps what it finds and takes the global detach
function, `TriggerDetach` restores what that probe had found. `StdinDetach` is a detach line on the target's
stdin, on which the listener of every probe runs that probe's own function; if several have hooks, the last
to run restores the wrapper of one just disposed of, which the history variable `floor` names. One hook
point stands for all. `InspectorControl` extends it by the host: callers run `inject_probe` (`Inject`,
`InjectionFails`, `Insert`, `StopReplaced`, `Join`) and `send_detach_signal` (`Detach`, `RequestDetach`,
`GetReply`, `RemoveControl`); workers run `run_worker_loop` (`TakeStop`, `TakeDetach`, `EvaluateDetach`,
`EvaluationFails`, `GraceEnds`, `ReadAck`, `SessionBreaks`, `ChannelCloses`) and `CleanUp`. References to a
worker (`holds`, `joins`, `control`) stand for the `Arc`s, because a channel without a sender ends its
worker. Abstractions: one pid, as the map's entries are independent; finding the port, the websocket and the
bridge are part of `Inject` (`InspectorAttach` has them); a request is answered through its own channel,
hence the request numbers. The acknowledgement goes to every open session of the target, because it is
logged to the console there (`Acknowledge`, also for a detach line on stdin, `ListenersDetach`). A worker
forwards lines into its bridge without a deadline: `WriteBlocks` and `WriteGoesOn` are a bridge that is full
and that is read again, or dropped, and a worker in `blocked` takes no step. A behaviour of `MCInspector`
looks at one attach or at the calls and workers that follow.

### Capture, CapturedSessions, CaptureProofs

`Capture` follows one call from the target to the disk.

| TLA+ | code |
| --- | --- |
| `calls`, `hooked`, `Call`, `Answered`, `Heartbeat`, `TriggerDetach` | the wrappers, the timer and `triggerDetach` of `bootstrap.js` |
| `stream`, `closed` | the lines on their way to the host's reader |
| `listener`, `heartbeatLate`, `CheckHeartbeat`, `ReadLine`, `ReadTimesOut`, `EndOfFile` | the listener thread, `IpcListener::next_event` |
| `channel` | the `mpsc` channel between the two threads |
| `consumer`, `held`, `sequence`, `hints`, `waitLate`, `Take`, `FillFile`, `FillTools`, `Report`, `WriteFails`, `TakeLast`, `PassDeadline`, `Join` | `consume_probe_events`, `capture_observed_request`, `capture_observed_response_with_hint`, `capture_request_embedded_tool_visibility`, `cleanup_worker` |
| `requests`, `responses`, `visibility` | the directories; a file is created empty and then filled |

`CapturedSessions` is what the console makes of these directories (`load_exchange_records`,
`build_session_details`): the exchanges of a process in their order (`InOrder`), the places where the
loop starts a session (`Starts`), and the stretches from each of them up to the next (`Groups`). Next to
it stands what a session should be: a maximal run of exchanges of one process without a pause longer
than the window. Abstractions: whether a URL, a body or a hint names a
provider is a constant set; each timeout is a flag that is raised at any moment; a line that a read
timeout cuts is replaced by its unreadable rest; the console reads a directory in one step; request ids
compare as text, which for fewer than ten captures is their sequence; the bootstrap report, which is
handled like a message of no provider, and a call that two wrappers see are left out. A reader either
has a shutdown handle and blocks, or polls (`hasShutdown`): the inspector's bridge polls. The file
`Earlier`, left by a capture before this one, is of none of its calls (`EarlierAssumption`): a capture
writes only files that bear its own process and numbers. The console lists nothing while a response or tool
file is half written; `named` remembers the ids that were listed before that (`Remember`, `ListedIds`), so
that they can be compared with what is listed when all can be read again.

### OpencodeObserver, OpencodeObserverProofs

The run of `run_opencode_observer`, one HTTP request or one written event at a time. The server adds message
parts between requests. An event is its kind and what it is of, and the budget arithmetic is the code's:
`remaining` over all sessions while collecting, `Truncated` over capabilities, sessions and messages
together, `emitted` while writing. A request that fails leaves an event of its own behind (`Failure`), which
is of neither a session's head nor its parts and counts in the cut like any other (`NeitherSessionNorPart`).
`collected` and `asked` are history. Global events are modelled without the session they may name: it
changes their kind and thread, and no budget. Names of sessions and endpoints are texts, for which 0 does
not stand (an event about neither has it); there is always an endpoint to ask, as their list is fixed in the
code (`SetsAssumption`). The properties are stated by the positions of events in the artifact: a session's
parts lie in one piece and are a beginning of its messages.

### ConsolePage, MCConsolePage, ConsolePageProofs

The page runs one handler at a time, but a load is suspended at its `await`: a member of `loads`, with its
cursor and, once answered, its page. `Answer` takes the page from the server's state at that moment;
`ShowList`, `ShowMore`, `ShowDetail`, `ShowMoreEvents` are the second halves of the loaders and `GiveUp`
their end by an exception with its `finally` block. `loadSessions` goes on into `loadSessionDetail`, so
`ShowList` ends in `StartDetail`. `RecordEvent` moves a session to the front of the list and so shifts every
offset behind it. `Relist` is any other change of the list, in which sessions leave it, come back or change
places: archived threads, a damaged capture file that hides the captured sessions, an older index while the
state database fails. The four requests of a detail are one answer: the first failing fails the load, a
failing page of events counts as an empty one. `mixedList`, `mixedTimeline` and `moved` (what came closer to
the front since the list was taken, by an event, by coming back, or because one before it left: `MovedUp`,
`ListShifts`) are history variables: two properties are stated for loads that did not overlap, because after
an overlap the code promises nothing (section 5). `AppendUnique`, `MoveToFront` and `Selection` are the
page's functions of these names or loops, defined by positions or by a recursive function. Left out: opened
details, ticked items, language, layout.

## 3. Runs

| Run | Expect | What it asks | Distinct states |
| --- | --- | --- | --- |
| `index` | pass | Three consoles, of which a behaviour is one. One thread whose sources rest while a request is served, but are archived and restored between requests: `TypeOK`; `FreshManifestMeansFreshIndex` (what the manifest vouches for is fully indexed); `RefinesAtomicIndex`. One thread, appends at any moment: `ExistingDetailIsFound` (a detail that existed when asked for is found, from a stale index too). Two threads, appends, crashes and failed writes: `IndexNeverAhead` (no file names an event its artifact lacks). | 1,874,076 |
| `index_race` | violation | `FreshManifestMeansFreshIndex` when an artifact grows between its parse and its fingerprint: the new lines are never projected. | |
| `index_missing` | violation | `MissingDetailIsNotFound`: an id that the index does not have makes a route build the index anew. | |
| `claude` | pass | Two transcripts that grow, become unreadable, and failing output, or one that is rewritten twice to any length, or removed. `TypeOK`, `EachRecordOnceInOrder`, `ConsecutiveWithinGeneration`, `FollowsAsPromised` (refines `TranscriptTail`), `ShrunkenFileIsReadFromStart`, `RunEnds`. | 561,360 |
| `codex` | pass | Two sockets that come, go, change hands and answer in pieces; two sources, two methods; late, missing and failing answers, colliding ids, broken lines, a dying server. `NewestDesktopSocketIsChosen`, `EveryLineReadIsKept`, `EveryMethodIsReported`, `RunsEnd`. | 589,027 |
| `inspector` | pass | One attach over two ports that open and close, with every kind of answer, a target that never stops talking and a bridge with room for one line: `ScriptOnlyInTarget`, `LinesArriveInOrder`, `OnePortHidesNoOther`. Two callers, two injections, two detach requests, detach lines on stdin, broken sessions, late evaluations and bridges that nobody reads: `HookChainIntact`, `LiveControlIsReachable`, `DetachedWorkerEnds`. Of both: `EveryCallReturns`. | 182,268 |
| `capture` | pass | Two calls over a stream with cut lines, timeouts, failing writes, both kinds of reader. `AcknowledgedMeansCaptured`, `ResponsesAreAttributed`, `SessionsFollowPauses`, `SessionIdsAreStable`, `CaptureEnds`. | 597,280 |
| `capture_damaged` | violation | `OneDamagedFileHidesOnlyItself`: one response file that is being written hides every captured session. | |
| `opencode` | pass | Three sessions that go on, one capability, failing requests and writes. `RecordedIsABeginning` (and only the end is cut), `FailuresLeaveOthersAlone` (every endpoint and session is told of, in order; failures push off the end of the artifact at most one event each). | 4.7 million |
| `console_page` | pass | Three sessions, pages of one item, two clicks on top of the first load, fetches answered late, out of order or not at all, agents at work and a list that loses and regains sessions. `NothingTwice`, `TimelineIsOfSelection`, `RestingSessionsAreListed`, `NoButtonIsStuck`. | 5.7 million |
| `console` | pass | The import of two artifacts by two processes, three starts: `EndedCopiesAreWhole`. A rollout and an artifact with up to four lines and a window of two: `RoutesFollowTheFiles`, `EventIdsAreStable`. Lists of one process, one rollout and one observer under a filter, from an index of any age: `ListsAreWhole`, `OrderIsStable`. Sessions of four events from each source: `DiffsTellTheChanges`, `DiagnosisIsFounded`. | 1,576,354 |
| `diffs_order` | violation | `PromptDiffsAreOfNeighbours`: prompts of one millisecond whose ids are of unequal length are compared out of their order. | |

Bounds and why they are enough. Index: two lines tell "behind" from "absent" and from "current", two
sources tell a change of one from a change of the other, two threads give every pairwise race; with
crashes and failed writes the run keeps one source and one line because the property compares a
file with its own artifact. Transcripts: seven pieces are two whole lines and a partial one, so that
every cut of a line is read from and read up to; a history budget of two and a follow budget of three
run out in the middle of a file. Codex: five lines suffice for a handshake, two answers and two
notices, in any order; two sockets are one that is newer than the other, and the sequences of pieces
(`Answers`) have every kind of first line, whole, in two pieces, or after a blank one. Inspector: two
ports are one that hides and one that is hidden, two lines can be in the wrong order, two injections
replace one another, two requests can hit the same or different workers. Capture: one call that its
host names and one that only its body names, the latter with tools, give every kind of recognition;
three lines are a request, its response and the end, or two requests and the end; time has two values
and the window is zero, so that equal and different times, and pauses longer than the window and not,
all occur. Opencode: three sessions of up to two parts under a budget of one message run out inside a
session and between sessions. Page: three sessions and pages of one item give a first, a next and a last
page of the list; the first load and two clicks are three calls at once. Console: three starts are two
overlapping copies and one after a crash; a window of two is left by the first of three events, and the
fourth line is one that was cut off; three events have an adjacent pair and one between two that tell
nothing, and with `Radix = 2` four have ids of one, two and three digits; catalogues go up to one more
skill than is kept. One change of the page's list besides the events (`MaxRelists`) takes sessions away
between two pages, or gives them back. Every bound is
a CONSTANT named in its module (`MaxLines`, `MaxSize`, `MaxGen`, `MaxMessages`, `MaxProbes`,
`MaxDetaches`, `MaxStarts`, `MaxWrites`, `MaxEvents`, `MaxRelists`, `MaxTime`); budgets of the code (`MaxFollow`,
`MaxFiles`, `Window`, `Preview`) are parameters too.

Every `Hazards` set names what the environment may do in a run; the violation runs
add the least of it that shows the finding. `CHECK_DEADLOCK FALSE` stands where a run ends: an
observer run that is done, or an instance whose bounded requests are used up.

Symmetry is used for threads and for the page's sessions, in runs that check no liveness.

## 4. Fairness

- `MCClaudeTranscript!MCSpec`, as `ClaudeTranscript!FairSpec`: weak fairness of the observer, a plain
  thread, and strong fairness of `IdleTimeout`: the deadline is compared at the end of every pass,
  between which it is not enabled, and the clock goes on. Nothing is assumed of Claude Code.
- `MCCodexObserver!MCSpec`: weak fairness of the observer, in the session because each of its waits is a
  `recv_timeout`, so that a step of it (an arrival, or the deadline) always comes, in the search for a
  source because its read has a timeout. Nothing is assumed of the app server or of other servers.
- `Capture!Spec`: weak fairness of the two timeouts (time passes), of the listener thread and of the
  consuming loop, both plain threads. Nothing is assumed of the target: it may fall silent at any moment.
- `MCInspector!MCSpec`: weak fairness of each caller, of the attach, a plain thread, and of its two
  deadlines; strong fairness of each worker thread. A worker's read times out every 100 ms and an
  evaluation after 5 s, so one that is not writing gets back to its channel before it can write again.
  Nothing is assumed of bridges: a write has no deadline, and a bridge may stay full for ever. So
  `EveryCallReturns` says of an attach that it ends unless it writes into a full bridge, of a detach that
  it always returns (its wait has a deadline), of an injection that it returns if no bridge stays full,
  because it joins the worker it replaces; and `DetachedWorkerEnds` speaks of workers whose bridge is read
  again and again. A session need not break, nor a late evaluation ever be run, and no caller need
  begin another call.

The safety runs state no fairness.

## 5. Findings

`PROJECT.json` quotes the documents; the runs give the traces.

- The index trusts a fingerprint that was taken after the parse (`index_race`).
- One response file that is cut off, or just being written, hides every captured session
  (`capture_damaged`).
- An id that the index does not have makes the detail routes build the index from all artifacts, where
  `openspec/specs/observability-read-model/spec.md:66-68` asks for a clear not-found in place of an expensive
  full scan (`index_missing`). The same document asks at 50-57 that details stay inspectable when the index
  is missing or damaged, and a stale one is completed by the same build: `ExistingDetailIsFound` and
  `RoutesFollowTheFiles` state that the event is found, which is true of the code because of it.
- Events of one millisecond are ordered by their ids as texts, so that line 10 comes before line 9 and
  a prompt is not compared with the one before it in time, as `docs/stories/add-prompt-diff/design.md:95`
  says (`diffs_order`). `DiffsTellTheChanges` is stated for ids of one millisecond that are equally long.

Met while modelling. Each of these is what the code does and the models have it; the properties
above are stated so as to say what holds in spite of it.

- A manifest cut short by a crash is an error for every later build, and no path rewrites it
  (`openspec/specs/observability-read-model/spec.md:59`, "one damaged file does not make the entire
  console unusable"). `ObservabilityIndex` with the hazard `"damaged"` violates `ExistingDetailIsFound`.
- Two builds at once, over sources at rest, lose a projection for good: one loads a file the other has
  truncated and writes it back empty under a manifest that calls it fresh; a manifest saved before a
  crash vouches for projections never written; a list route answers empty when one indexed artifact is
  gone, and so does the summary after a thread was archived (the same line of the spec).
- The second of two processes that copy an artifact empties what the first wrote
  (`openspec/changes/use-global-local-store/design.md:54`), and an import that fails says so to nobody.
- A skill snapshot without entries counts as none, so "nothing is there" and "nobody asked" look alike
  (`docs/技术架构改进方案 TODO.md:240`); calls of tools are compared with lists of tools, because both
  are in one sequence; tools in parts of opencode's messages are not shown.
- Captured activity is filtered by the processes that run now
  (`openspec/specs/local-console/spec.md:56`); a damaged request file stops the detail of one that is
  listed after it; some timeline items do not open under the filter, because list, timeline and detail
  ask it of different texts (`docs/stories/add-session-reconstruction/design.md:129`).
- The capabilities of a session can be of an older build than the events beside them
  (`docs/产品迭代路线图.md:203`).
- A Codex socket that vanishes while the directory is looked through ends the run before its fallback is
  tried, and a server whose first answer comes in two reads is passed over
  (`docs/stories/add-codex-app-server-observer/design.md:111`).
- Writing to the inspector's bridge has no deadline, and before the call returns nobody reads from it
  (`docs/stories/iteration-4-node-cli-real-attach/plan.md:337`): an attach whose target says more than the
  bridge has room for never returns, a worker that writes into a full bridge misses its detach
  deadline, and the injection that replaces it waits for it for ever. The run `inspector` has all three.
- With two probes in a target a detach line on its stdin leaves a wrapper of the first behind, which
  goes on reporting and which nothing removes.
- A session that leaves the list between two pages moves those behind it up, and the next page skips
  one of them.
- A failed request of the opencode observer leaves an event that counts in the limit and can push the
  last event of another session off the artifact.
- A detach after a second injection leaves the hooks of the first probe, which nothing reaches any
  more; a detach that overlaps an injection removes the newer control, whose worker then ends (hazard
  `"overlap"` of `InspectorControl`).
- In the page, the answer for an earlier selection can replace the timeline of the present one, a page
  of events can be appended to another session's timeline, and a next page that overlaps a refresh
  leaves a hole in the list.

## 6. Proofs

All proofs are for arbitrary values of the constants under the named assumptions (`Hazards` is a
subset of its names, bounds are naturals, `Transcripts` is finite, and so on); where a theorem needs
more, its statement says so, and the runs or section 5 show what happens without. Each proof follows
the same line: an inductive invariant of named parts, one lemma or step for each action, and a last
step of temporal logic. TLC finds the invariants true on the runs' instances.

`ObservabilityIndexProofs`

- `TypeCorrect`: `[]TypeOK`. `NeverAhead`: `[]IndexNeverAhead`, for any number of threads, crashes and
  failed writes. A file is written from a thread's memory, so the inductive invariant also bounds what
  threads hold (`snap`, `caps`, `base`) by the artifact; the artifact only grows. Two texts that lie over
  each other consist of lines of either (`TextsAreBehind`).
- `FreshWhenUndisturbed`: `[]FreshManifestMeansFreshIndex` for one thread, where nothing but archiving
  happens, and that between requests. The manifest is written before the files it vouches for, so
  in the middle of a build the property is false; `FreshInv` says what is true at each point of it, and
  `Intact` that nobody finds a file that is cut short. The run `index_race` shows that a growing
  artifact breaks it, section 5 that a second build or a crash does.
- `BuildsAreAtomic`: `Spec => RefinesAtomicIndex` under the same conditions, step by step: the truncation
  of the first file is the abstract build, every other step of a build changes nothing that is published.
- `DetailsAreFound`: `[]ExistingDetailIsFound` for one thread without crash and failed write, where
  observers append at any time or artifacts come and go, but not both, from an index of any age or none:
  what it lacks a build finds (section 5). `FoundInv` carries what the request was about from the first
  look at the index to the answer.

`ClaudeTranscriptProofs`

- `TypeCorrect`; `OnceInOrder`: of a transcript that was never rewritten, what was skipped, returned and is
  pending is exactly the records up to the last newline read. The inductive invariant adds that the held
  partial line is exactly the rest after that newline (`Positions`, `HeldWithin`) and that the budgets bound
  the run (`FollowBudget`). Lemmas about `Parsed` (the records between two positions) carry the arithmetic.
- `GenerationsNeverMix`: `[]ConsecutiveWithinGeneration`, whatever is rewritten. What the reader holds may
  be of an older generation than the file (that is the hazard), so `StandsAt` speaks of the present
  generation only once a record of it was found.
- `ShrunkenIsReadAgain`: the action property `ShrunkenFileIsReadFromStart`.
- `TranscriptsFollowAsPromised`: `MCSpec => FollowsAsPromised`, the refinement of `TranscriptTail` under the
  mapping TLC uses, which promises nothing in a run that rewrites; `FollowingKeepsItsPromise` is the same of
  `Spec` without rewriting. A transcript is joined where its history is read, and each was read before
  following begins (`HistoryComesFirst`); the records returned count the lines handed over (`GivenCount`).

`InspectorProofs`

- `HookChain`: `[]HookChainIntact`, also after detach lines on stdin: the chain then stands on what they
  left (`floor`, below all installed probes; `StdinDetachChain`). That the wrappers form one chain is not
  inductive: a detach restores what its probe found, which is right only because the detach function is
  always that of the outermost wrapper (`TargetOK`), wrappers are ordered by age (`NewestOutermost`) and
  each wraps the next older installed one (`WrapsNextOlder`).
- `ServingWorkerIsInMap`: `[]LiveControlIsReachable` as long as no detach overlaps an injection (section 5
  says what happens then). A confirmation removes a control, so the invariant follows each request through
  the channel to the worker that the call holds (`CommandsOK`, `ConfirmedIsDismissed`) and says that an
  injection joins nothing but the worker it replaced (`OneAtATime`, `JoinsOnlyReplaced`).
- `BridgeAndScriptInTarget`: `[]ScriptOnlyInTarget` of an attach, whatever ports do. That the session leads
  to the target is established by one answer only, so the invariant says what makes that answer
  worth anything: no reply in the inbox claims to be the target's unless the peer is the target
  (`AnswersAreTrue`), no message outlives its session (`SessionFollowsCall`), and from the expression
  `"bridge"` on the peer is the target (`VerifiedBeforeBridge`).
- `NoLineIsLost`: `[]LinesArriveInOrder`: bridge and inbox together hold the lines after the last one read.
- `NoPortHidesAnother`: the action property `OnePortHidesNoOther`; `SteadyAreUntried`: a port that has had a
  url for the whole round is still to be asked.

`CodexSessionProofs`

- `LinesAreKept`: `[]EveryLineReadIsKept`. `LinesInv` says where a line is after it was read: in one event, or
  pending, never in both, and only the answer to the handshake in neither; channel and pending messages
  are in their order, and a notice in the log is older than whatever is pending.
- `MethodsAreReported`: `[]EveryMethodIsReported`. `MethodsInv` distinguishes methods by their place relative to
  the one awaited: reported and in flight, reported and known, or not yet asked.
- `NewestIsChosen`: `[]NewestDesktopSocketIsChosen`. `SearchInv`: until a source is chosen, each socket that
  the desktop app has held since the listing is still to be looked at or asked about.

`CaptureProofs`

- `HintsLeadToRequests`: `[]ResponsesAreAttributed`. A response is recognized by the hint its request left, so the
  invariant says when hints are exactly the captured requests without a captured response (`HintsInv`), also
  between the two files of one capture, that no request comes behind its response in the stream, the channel
  and the hand (`RequestsFirst`), and that numbers of files are not used twice (`FilesInv`).
- `NothingIsOnTheWay`: `[]AcknowledgedMeansCaptured`. Of each call that was made it says where its request is:
  in the stream, in the channel, in hand, or on disk (`OnTheWay`); an acknowledgement is behind all
  requests (`AcksLast`), so once it is read the first three are excluded.
- `PausesDivideSessions`: `[]SessionsFollowPauses`, at every moment of a capture, between the two steps of
  writing a file too. Files are named by time, process and number, which are used once
  (`RequestNames`), so the order of the exchanges is total (`RecordsHaveOrder`) and sorting puts each at one place
  (`OrderListsAll`). Starts are ascending and the first is the first exchange, so the stretches between them
  divide the order (`GroupsAreStretches`); inside a stretch each exchange links to the next
  (`StretchItems`), and at its end the pause breaks every link across it (`PausesBreakLinks`).
- `SessionsStay`: `[]SessionIdsAreStable`: whenever the response and tool files can be read, every id that
  was ever listed before is listed still, across the moments in which a late file hid them all. A session's
  id holds an ordinal, which would move if an earlier exchange appeared later. `TakenInTime`: the requests
  in files, hand, channel and stream are in the order of their times, so a file that becomes readable comes
  behind all that its process had (`FilledComesLast`); what comes last leaves places, starts and ordinals
  before it alone (`OrderIsExtended`, `StartsAreExtended`). A response changes no start and no order.
  Neither theorem depends on how exchanges of one millisecond are ordered, only on their having an order: as
  texts, file 10 of a capture comes before file 9, by number after it, and no session begins between the
  two.

`OpencodeObserverProofs`

- `WhatIsRecordedBegins`: `[]RecordedIsABeginning`, `FailuresCostNobodyElse`: `[]FailuresLeaveOthersAlone`,
  of what was collected and of the artifact behind the cut. While collecting, the sessions still listed are
  the last ones, and what was gathered are the endpoints' events, the sessions' in order, and of each
  session a beginning of its parts in one piece (`Gathered`); the parts collected and the budget left make
  up the limit, which is why nothing but the end can be cut later, and no more of it than the entries that
  are neither (`BeyondTheLimits`); sessions are asked about once each (`AskedOnce`). While writing, the
  artifact is the beginning of what was not cut (`WriteInv`).

`ConsolePageProofs`

- `ButtonsAreReleased`: `[]NoButtonIsStuck`, inductive once the suspended calls are known to be records.
- `NothingIsShownTwice`: `[]NothingTwice`; the work is in what `AppendUnique` and `MoveToFront` keep.
- `TimelineOfSelection`: `[]TimelineIsOfSelection`; `TimelineInv`: unless loads overlapped, there is at most one
  load of the timeline, and its page begins or continues what is shown.
- `RestingSessionsAreFound`: `[]RestingSessionsAreListed`; `ListInv`: the known sessions, those that had an event
  and those behind the cursor are all there are (`Covers`), also for pages that are on their way. A list that
  loses sessions moves others up: those that moved are known to have (`Shifted`, `StillCovers`), so the
  theorem is of every way in which the server's list may change.

`ConsoleFilesProofs`

- `EndedCopies`: `[]EndedCopiesAreWhole`. A copy empties what another has written, so while copies go on an
  artifact may have gaps. `CopiedOrWhole`: either some copy (the last to open it is one) will write
  whatever is missing, or there is no gap and no copy writes behind the end.
- `IdsStayTheirEvents`: the action property `EventIdsAreStable`. Whole lines stay (`FilesStep`), and whatever the
  window drops, what the readers return are events of whole lines (`EventsFrom`).
- `RoutesTellTheFiles`: `[]RoutesFollowTheFiles`. What was remembered of an earlier page or build may be old, but
  is of lines that have stayed; the head of a file, if it can be read, tells its thread; and by induction over
  the lines the reader holds the latest recognized lines, as many as the window has room for (`LatestOf`).
  `ConsoleFilesAssumption` says that a thread is not named like an artifact, nor `"unknown"`, and that
  the window has room for something.
- `ListsHaveAll`: the action property `ListsAreWhole`. `Merged` keeps one item of each id and loses no id,
  provided that the kept items have distinct ranks. `ViewsInv` gives that: files and events are
  numbered, an item's rank holds its id, and the snapshot was merged from items that still are what they
  were. The index may be replaced by an older one and the state database may fail between the two looks:
  whatever the index has are events of the log (`IndexIsOfTheLog`), and what the first look was told is kept.
- `OrderStays`: the action property `OrderIsStable`, from the same invariant: outside the sessions the rank of an
  id is the same whenever it is looked at, and two merged lists are both ascending in it.

Induction over data. The theorems of the library that take an operator cannot be used, but an induction
over numbers can be carried by a set: `FromZeroOn` (a set with 0 and every successor has all numbers,
from the well-foundedness of `<`) gives the existence of a recursive function and what it computes, as for
`AppendUnique` and the two readers. What stays out of reach are RECURSIVE operators and folds.

Only model-checked, of the properties of passing runs:

- liveness, which is out of the prover's reach: `RunEnds`, `RunsEnd`, `CaptureEnds`, `EveryCallReturns`,
  `DetachedWorkerEnds`;
- `DiffsTellTheChanges`, `DiagnosisIsFounded`: `CapabilityAnalysis` has RECURSIVE operators, which the prover
  takes in no module.

## 7. Not modelled, and the plan

Not modelled: the loop that accepts connections and the deadline with its 408 (`console/server.rs`; a
thread per connection is modelled); the rendering of payloads and pages; the fields of a detail;
argument parsing and dispatch; the naming of artifacts and the serialization of events; the
classification of a process by its path, a match of texts; the reading of headers and bodies in the
probe; opened details, ticked items, language and layout of the page.

All parts of the plan are modelled: index, transcripts, Codex sources and session, attach, inspector and
probe, capture and sessions, opencode, console page, read model, lists, analysis, import. Next

1. The composition of `InspectorControl` with `Capture`: the worker's forwarding as the stream.
2. The abstract specification of a detachable session, implemented by `InspectorControl` without
   overlapping calls.
3. `CapabilityAnalysis` without RECURSIVE operators: functions on the depth of a JSON value, and event ids
   compared as texts by a recursive function in place of `Digits`, so that its properties can be proved.
