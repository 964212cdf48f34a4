# A verification project for the Tenzing agent harness

The harness runs language-model agents: a loop feeds the conversation to a
model, executes the tool calls it answers with, and repeats until the model
gives a final answer. Around the loop stand a queue of requests, the gates a
tool call passes, approvals by a human, channels that wake the agent on errors,
a log the conversation can be resumed from, the clients of several model
providers, and a client that takes work from a control plane.

This directory holds TLA+ modules translated from the Go source, TLC
configurations that check them on small instances, and TLAPS proofs of the
properties that matter most for every value of the constants. All line numbers
refer to the repository at the commit beside this directory; `PROJECT.json`
maps every definition to its lines.

    tlc -workers 2 -config Gates.cfg MCGates    # a run
    tlapm ToolBatch_proofs.tla                  # a proof module

## 1. The system

| part | state it keeps | operations | spoken to by |
|---|---|---|---|
| agent loop, `internal/core/loop.go`, `fsm.go` | state machine, steering channel, turn counter | `RunTurn`, `Steer` | runner, queue, API |
| extension pipeline and batch, `core/extension.go`, `approval.go`, `loop.go` | decisions of a batch, segment, semaphore, reply channel per call | `RunToolBatch`, `RunToolCall`, `executeSegmented`, `waitApproval` | the loop; hooks of the features; whoever answers an approval |
| context store, `adapters/contextstore` | history, pending tool uses, last usage | `AppendUser`, `AppendAssistant`, `AppendToolResults`, `Compact`, `Clear`, `ReplaceHistory` | the loop; the harness controls |
| harness, `internal/harness` | current store, session, model, conversation id | `New`, `Run`, `Steer`, `Clear`, `Resume`, `Compact`, `SetLLM`, `Shutdown` | API, CLI, control-plane client |
| agents under agents, `harness/subagent`, `runner`, `features/budgets` | one harness-less loop per child | `spawn_agent`, `Run` | the batch of the parent |
| tool ports, `adapters/toolport`, `features/mcp` | registry, snapshot of a turn, cached lists | `BeginTurn`, `Definitions`, `Execute`, `Origin`, `ReadOnly` | the loop; MCP servers |
| permissions, `features/permissions` | allow and deny globs, categories, policy | `OnToolCall`, `Suggest`, `Analyze` | the pipeline, the approval endpoint |
| advisor, systemone, `features/advisor`, `systemone` | cadence and cap; breaker, armed block, routing | `BeforeIteration`, `OnToolBatch`, `OnToolCall` | the pipeline |
| approvals, `api/approvals.go`, `internal/app/bashallow.go` | pending requests, allow list in memory and file | approve, deny, allow always or for the session | HTTP handlers; the batch |
| turn queue, `api/turnqueue` | running flag, cancel function, queue, closing flag | `Submit`, `Start`, `Cancel`, `Close` | HTTP handlers, nexus |
| event bus and streams, `adapters/eventbus`, `api/sse`, `api/events.go` | subscribers' buffers, open streams, costs | `Emit`, `Subscribe`, `Publish` | everything |
| session log, `harness/session` | a JSONL file, handle, last id | `Append`, `Close`, `Load`, `Rename`, `Delete` | the persister, API, harness |
| nexus, `internal/app/nexus` | ring per channel, pending channels, sources | `Ingest`, `Notify`, `TurnEnded`, `Stop` | sources' goroutines, the queue, tools |
| control plane, `internal/app/wsclient`, `cmd/app/connect.go` | connection, outbox, queries, backlog of events | `Run`, `dispatch`, `runTurn`, `shutdown`, `SendEvent`, `flushEvents` | the control plane |
| providers, `pkg/providers/protocols`, `adapters/agent` | clients; token bucket, slots | `Chat`, `ChatStream`, `Acquire`, retries | the loop |
| plan, files, blackboard: `features/todo`, `builtins`, `blackboard` | tasks; file trackers; a Python process | tools | the batch |
| settings, `cmd/app`, `internal/config`, `modelregistry`, `app/trust.go` | flags, environment, files; shared clients; trust file | start of a process, `/model`, trust endpoint | the user |

The loop calls the pipeline, the store and the agent synchronously, from one
goroutine per turn. Everything else reaches a turn from outside: `Steer` posts
to a channel, `Cancel` calls a context's cancel function, an approval answers on
a channel of its own, the controls touch the same store after a check that the
loop is idle, the queue starts turns from the goroutine of the turn before, the
trigger starts them from a source's goroutine, and the bus copies events into
buffers that drop when full.

What is hard here are races between a turn and its surroundings, unwinding from
the middle of a turn, what a file, a pipe or a connection holds after a failure,
and decisions that several gates take about one call. `hazards` in
`PROJECT.json` lists them with their lines and the properties that cover them.

What makes each part correct:

* loop: no event is refused by the state machine; whatever happens, the history
  is one the next request can be built from; no effect of a tool is forgotten;
  steering is first in, first out; turns end.
* batch: nothing runs that was neither allowed nor approved; a decision is only
  ever raised; the overlapped execution is equivalent to the serial one as far
  as conflicting calls are concerned; the batch ends.
* gates: no command that stands in a line, or in a script handed over as plain text,
  escapes the analysis; together the gates never stop an executor that follows them;
  a judge that fails changes nothing; a child is guarded as its parent is.
* queue: one turn at a time; first come, first served; nothing accepted is
  stranded; a cancel hits the turn it was aimed at.
* what is recorded and shown: what was acknowledged loads again, no rotation
  loses an entry, what a client is shown it can answer.
* nexus: an error that was noted is told to a turn, lines are reported as they
  were written, and sources end when told to.
* model calls: the answer is whole, is shown once, and a call that is stopped returns.
* control plane: every query gets its one result or its connection is lost; a
  result follows the events it counts.

## 2. The modules

Numbers in the last column name the run of section 3 that checks a module.

| module | models | how | run |
|---|---|---|---|
| `AgentLoop` | `core/loop.go`, `fsm.go`, `contextstore` | the goroutine of `RunTurn` is a program counter; a message is its kind and its call ids; a batch is one step | 1 |
| `BetweenTurns` | `Clear`, `Resume`, `Compact` and their `idle` check | extends `AgentLoop`: a second actor whose check and operation are two steps | 2 |
| `ToolBatch` | the decision phase, hook chains, segments, approvals | decisions are numbers; each call has a position of its own goroutine; the reply channel holds one answer | 3 |
| `SerialTools` | the serial order `executeSegmented` preserves | abstract: a call enters when no earlier conflicting one is still to leave | 3 |
| `SystemOne` | `systemone`, `advisor/ext.go` | an iteration of a turn between judge, gate and executor; the hooks of one call are a step, and children share the breaker | 3 |
| `Transcripts` | what judge and advisor read of the conversation | operators over a conversation that grows | 3 |
| `ShellAnalysis` | `permissions/shell` | a syntax tree of calls, compounds and scripts in; segments out | 3 |
| `GlobMatch` | `matchGlob` | its loop, one case of the switch a step, against a definition of matching | 3 |
| `ApprovalDesk` | the policy (names, globs, categories, `Suggest`), hook verdict, registry, handlers, `bashallow.go` | pure operators for the policy; each request to the endpoint is a goroutine; the file is truncated, written and followed by memory in separate steps, and is whole or torn | 2 |
| `ToolMount`, `ToolPort` | `toolport`, `mcp/ext.go` | a registry is a set of tools, a mounted tool has a place in its list; servers change, fail and come back beside a turn | 2, 3 |
| `AgentTree` | `New`, the subagent factory, runner, budgets | the stack of running agents, each with its extensions and tools | 3 |
| `TodoPlan`, `FileTools` | `features/todo`, `features/builtins` | ids with a visible prefix; content is the set of changes in it | 2 |
| `Blackboard` | `features/blackboard` with `bootstrap.py` | two pipes, a mutex and an alarm | 5 |
| `StreamCall` | agent adapter, one attempt of each protocol, retries | sender and receiver meet in one step; fragments are known by their place | 4 |
| `ThinkParser`, `Requests` | ollama's tag parser; what each protocol makes of a history and its limits | bytes by place; a call by its round | 2 |
| `RateLimiter` | `protocols/ratelimit` | time in ticks worth a token | 4 |
| `PlaneFeed` | `connect.go` over the client's outbox | four buffers between a turn and the plane | 4 |
| `TurnQueue`, `TurnLine` | `api/turnqueue`; what it promises | one action per critical section and per step outside the lock; the line is abstract | 5 |
| `ConversationRecord` | persister, rotation, deletion | a file is the events in it; bus, persister and store have their own hands on it | 5 |
| `EventStream` | forwarder, streams, costs, log stream | buffers per client | 5 |
| `SessionLog` | `harness/session` | a file is a sequence of lines, `ragged` when the last has no newline; process and store come and go | 2 |
| `NexusWake` | `trigger.go`, `turns.go` | extends `TurnQueue`: each caller of `tryFire` has its position and its copy of the pending channels | 6 |
| `FileTail`, `CommandSource`, `NexusChannels` | the sources, rings, configuration and tools | inodes and bytes; pipes and process groups; rings with their counters | 6 |
| `WsClient` | `wsclient/client.go` | reader, pump, one `runTurn` per query, shutdown, forwarder | 7 |
| `ModelCatalog`, `Settings`, `ProjectPrompt` | registry and configuration, layers of a setting, trust and prompts | one setting of each kind at a time; processes that share the trust file | 2 |
| `MC*` | the suites of section 3 | constants and the parts' union | |
| `*_proofs` | theorems, `Guards_proofs` and `Server_proofs` about several modules | section 5 | |

Definitions whose comment begins with "Mutant" are not part of the system: each
is the definition next to it with one plausible mistake, used to see that a
property notices.

Choices that shape the models:

* A model's answer, a hook's decision, a tool's outcome, a human's answer, the
  moment of a cancellation and of a lost connection are chosen freely.
* Texts are abstracted to what the properties tell apart: a glob to what it
  spells, a regular expression to what it matches, a line of a file to three
  bytes, a rendered message to its length.
* A crash is the death of the process between two of its system calls or in the
  middle of a write. What `write` accepted is not lost.
* Time is a flag that may be set (timers), a tick (the bucket, the MCP cache) or
  left out where the order is free anyway.
* `NexusWake` composes the trigger with the real queue rather than with a stub,
  because the two call each other; `BetweenTurns` does the same for the loop,
  and `ApprovalDesk` for the policy. The other compositions go through one
  operation each and are abstracted at it: a batch is one step of the loop, a
  turn one phase of the queue, a source's line one `Notify`.

## 3. The runs

Seven runs pass. Five of them are suites: `part` names, in the initial state, the
model that moves, and every other model stays where it began. The models of a
suite share no state, so interleaving them would multiply the states and show
nothing more. The properties of a suite's part hold trivially in the other
parts; a part's own behaviours are exactly those of its module's specification.
A property of a suite is the conjunction of what its module states: the single
statements stand, each with its comment, in front of the conjunction. The
liveness of a suite's parts is one property: `EverybodyGoesOn` (a submitted query
is served, a rotation ends, so do a stream whose writes end and a board call that is
not `Abandoned`), `EveryCallReturns` (a model call returns, unless its server is
silent, it has no timeout and nobody stops it; `EveryAskEnds` of the limiter and
`TurnsEnd` of the feed, with the exceptions they name), `CallsMoveOn` (a batch
ends, the matcher answers, spawned runs return) and `NexusServes` (a pending
channel is flushed, lines arrive, a cancelled command stops, a dead one is
restarted, and beside it what the tools read: `AnswersAreNewest`).

| # | run | parts | properties |
|---|---|---|---|
| 1 | `loop` | `AgentLoop` | `LoopIsSound`, `NothingIsLost`, `LoopMovesOn` |
| 2 | `safety` | controls, parser, request, plan, files, port, log, desk, catalog, setting, prompt | `ToolUseAnswered`, `ParserIsExact`, `RequestsAreValid`, `PlanIsFollowed`, `FilesAreSafe`, `LogIsSound`, `DeskIsSound`, `StartsAsConfigured`, `PortIsSteady`, `AnswersOnlyLoosen` |
| 3 | `gates` | batch, judge, talk, shell, glob, tree | `BatchIsSafe`, `KeepsIssueOrder`, `JudgeStaysOut`, `AdviceIsHeeded`, `TranscriptsFit`, `ShellIsSeen`, `GlobIsRight`, `TreeIsGuarded`, `CallsMoveOn` |
| 4 | `calls` | call, limiter, feed | `CallIsFaithful`, `EveryCallReturns`, `LimiterIsFair`, `FeedIsWhole` |
| 5 | `server` | queue, record, stream, board | `QueueIsSound`, `ImplementsLine`, `RecordIsKept`, `StreamsAreTrue`, `BoardIsSound`, `EverybodyGoesOn` |
| 6 | `nexus` | wake, tail, command, channels | `WakeIsSound`, `ChannelsAreSound`, `TailIsFaithful`, `CommandIsKept`, `NexusServes` |
| 7 | `client` | `WsClient` | `ClientIsSound`, `NothingStartsLate`, `ClientMovesOn` |

Five more runs, each of one property, end in a violation; section 4 tells them.
All runs but `session_torn` switch the deadlock check off: a loop without further
queries, a queue whose requests are done, a command line that has been split and
an answer that has been returned really stop.

### Bounds

| part | instance | so that |
|---|---|---|
| loop | two call ids, `KeepRecent` 3, steering channel of 2 and 3 messages, one retry, histories up to 5 before a compaction is forced | the cut falls on every kind of message, a batch is answered in part, the channel overflows |
| controls | one call, `KeepRecent` 2, histories up to 4 | a control slips into a turn before and after its compaction |
| parser | 7 bytes in chunks of 1 or 2; the tags are three and four bytes long | a tag is split at every place, and one follows another |
| request | five models, five budgets around the limits, two rounds of one or two tool calls (`MaxWidth`), whose inputs are empty, malformed, an array or an object as far as the protocol lets them be | a budget is below, at and above every limit; a round one client left is replayed by another |
| plan | three ids, two of which share what the reminder shows; two tasks written at once, two dependencies each | a prefix names two tasks; a cycle |
| files | two sessions, three changes, one crash | a lost update needs two, an outsider makes the third |
| port | two servers whose prefixed names collide, a cache of two ticks | a list goes stale, and a name is claimed twice |
| log | five entries or labels, two torn writes | a restart tears the line it resumed on |
| desk | two calls, two answering requests, five commands, one restart; crashes anywhere | two answers to one call, and to two calls with one list |
| catalog, setting, prompt | names used twice, types and endpoints missing, every layer absent, zero, set or not to be parsed; two processes that decide twice | every precedence and every clash of names |
| batch | three calls, one hook, two slots | a segment waits for a slot while another waits for a human |
| judge | two turns of three iterations, two children, a breaker of two, a cap of one consult | the breaker opens under children that have asked |
| talk | four messages, windows of two | the request is in the window, behind it, and just outside it |
| shell | four commands inside fourteen constructs, up to two of these around each other (`Height` 3); scripts are followed one level | a script in a script, a script in a substitution, a substitution in a script |
| glob | patterns and commands of three of four bytes | every pattern with two stars, and a command with a literal one |
| tree | five harnesses, whose agents nest two, one or no levels deep | a grandchild of a guarded agent |
| call | two attempts, one retry of the adapter, five events of the server, with and without an HTTP timeout | a retry of each layer, before and after the first text; a server that falls silent |
| limiter | two askers with any number of requests, four settings | a request dearer than the bucket beside cheap ones that never stop |
| feed | two turns, two connections, one place in each buffer; an approval request stands for the events nobody counts, too | every buffer is full while the connection goes |
| queue | two queries and a wake | one runs, one waits, one is refused or late |
| record | two conversations, two clients, three events | a rotation beside a deletion, with the buffer full |
| stream | one client, one place in each buffer, two events | a client that never reads: its buffer is full and its handler in a write |
| board | two agents, two calls, a callback with a batch of two, one killed process, one line a call that is no message | a call after one that left lines in the pipes; code that runs on after its call has ended |
| wake | one query, two wakes, one channel, two errors | a channel fails again during its own wake |
| tail | two lines, one rotation, one truncation, a fingerprint of two bytes | a rotation and a truncation between two polls |
| command | three incarnations, pipes of one line, three lines each | a blocked child, and two waits before a restart |
| channels | every configuration of one channel, and pairs; three messages | a ring that wraps, and names that clash |
| client | two queries, two connections, one `Disconnect`, an outbox of one | a query waits, is flushed, forgotten with its connection, or refused |

Every bound is a constant of its module or a guard on a constant named `Max...`.
For the parts that section 5 lists as proved, the theorems say that safety does
not depend on them.

### Fairness

Weak fairness, of what the run time or the operating system schedules, and of
nothing a user, a model or a plane would have to do:

* loop: the goroutine inside `RunTurn`. Its steps include the model's reply: a
  provider answers or returns an error, of itself if an HTTP timeout is configured
  and otherwise, of a silent server, when the turn is interrupted (run `calls`).
* queue, wake: each turn's goroutine once started, and the callers inside
  `tryFire`. Nobody has to submit or to cancel; errors need not arrive.
* batch: the decision steps and the calls' goroutines. A human need not answer;
  the timer of `waitApproval` ends the wait.
* call: what the adapter and the client do of themselves (`OwnStep`), and giving up a
  request under a timeout or once the turn is stopped. The server need not answer,
  and there is no timeout unless one is configured (`config.go:273`).
* limiter: the ticks of the clock and each asker's poll. Who waits for a slot gets one
  in its turn (strong fairness: a semaphore keeps its waiters in line); who waits for
  tokens has no turn. A request under way is bound to end only once its context has.
* feed: the pump, the reader, the relay, the forwarder and the turn, whose model is
  taken to answer or to fail. `TurnsEnd` leaves out the case that the plane can no
  longer be dialled: a forwarder that asks for an approval between two connections
  waits for the next one.
* record: the bus, the persister and the rotation. Stopping the persister takes
  strong fairness (`StopsPersister`): it waits for a mutex that other requests take
  over and over, and Go's mutex hands itself to a starved waiter.
* stream: the forwarder, and the return of a handler that comes back to its `select`
  again and again when the broadcaster is closed (strong fairness: `select` picks at
  random among what is ready). Clients need not read, so no write is bound to end.
* board: the Go side, what it does about a bad line included, the Python interpreter
  outside agents' code, and the alarm. Agents' code may run for ever, and a process
  whose output is full stays as it is.
* tail, command: the polling goroutine; the runner, its scanners and the kill
  that a cancelled context brings. Processes need not end or print.
* judge, glob, tree: the loop of the matcher; the iterations, replies and spawns of
  the agents. Everything stated of the judge is safety.
* client: each turn's goroutine, the pump, the reader once it holds a message or
  its context has ended, the forwarder inside `Disconnect`, and shutdown's
  goroutine. A write fails when it cannot succeed, by its timeout. That
  `RunTurn` returns is the loop's promise (`InterruptEndsTurn`).

### What the runs show, beside the obvious

* `AnswersOnlyLoosen`, `DeskIsSound`: answers that write the settings at the same
  time never undo each other, because `Add` holds its lock from the read of the
  live rules to their replacement; a failed write leaves the live rules as they
  were. The file is another matter: `os.WriteFile` truncates it first, so what is
  said of the file is said of one that can be read (section 6).
* `AdviceIsHeeded`: the gate, its cap and the block of a judged consult never
  refuse everything: behind an advisor call, capped or not, every kind of call
  gets through.
* `ShellIsSeen`: every command of a line is in its segments, once; a script that a
  shell or an eval is handed as plain text is split up too, or the command that runs
  it is of class `unknown`. Three of the fourteen constructs hand a script over in a
  way the analysis overlooks; nothing is claimed of those (section 6).
* `GlobIsRight`: the matcher answers what the pattern says, with one exception
  named in the property (an asterisk in the command; see section 6).
* `TreeIsGuarded`: the gate, the read-only mode and the judge watch every
  generation of agents. Read-only mode looks a name up in the main agent's tools,
  and still nothing that may change something runs in a child. The proof found
  the one name of which that is not so: where `load_skill` is disabled the main
  agent has no skills while its children do, and a tool an embedder calls
  `list_skills` then vouches for theirs. `CallsMoveOn` says that every spawned run
  comes back.
* `DeskIsSound` says of a configured tool what its list promises; of a tool that two
  lists name it says nothing, for the code has no promise about that.
* `CallIsFaithful`: no retry of either layer shows a text twice, and an answer
  that was announced as finished has every fragment that was sent.
* `RecordIsKept`: a rotation waits for the persister to write what it has received,
  so no entry slips into the next conversation's file.
* `EveryCallReturns`: nothing but a silent server, and in the limiter those who take
  the tokens first, can hold up a call that nobody stops; a stopped one returns
  whatever the server does.
* `FeedIsWhole`: on its own connection a result follows every event of its turn,
  and its tally is that turn's, unless a buffer with a cap has overflowed or the
  connection was found lost before the turn reported.
* `BoardIsSound`: the answer that reaches a piece of code is its own, with one
  exception: behind a line that is no message it may be the message that should end
  the process. Of the slots it says that the guard knows whose code runs, not that
  no other code changes them (section 6).
* `TailIsFaithful`: through rotation and truncation no line is read twice or
  stitched together, unless a truncated file has grown past the old offset under
  the same first bytes; that a line which stays is reported is part of
  `NexusServes`.

## 4. What the violations say

* `loop_compaction`: `Compress` keeps the last six messages wherever the cut
  falls. When the compaction fires on an assistant message, the first one kept
  can be the results of a tool use that went into the summary.
* `controls_race`: `idle` looks at the state machine, which still says `started`
  while `RunTurn` has already appended the query.
* `nexus_lost`: the channels told to a wake are deleted from `pending` after the
  wake was started; a flag set again in between is deleted with them.
* `session_torn`: a store that is resumed writes on behind a torn line, which stops
  being the last one, and the file no longer loads. The run checks `AloneSpec`, the
  log without renames, as a rename's own append (`list.go:102`) does the same.
* `client_one_turn`: `runTurn` clears `currentID` as soon as `RunTurn` returns and
  looks at the queue only after it has sent the result. A query that arrives in
  between finds the client idle and starts; the next one queues behind it, and the
  first turn, still on its way out, takes it from the queue and starts it too.

## 5. The proofs

Constants are arbitrary within the named assumptions of each module; what is
proved is safety, for every number of calls, requests, channels, entries and
messages. Each module's last theorems conclude the conjunction its run checks.

* `AgentLoop_proofs`. The inductive invariant says, for each program position, what
  the machine's state is, what the last message is, and which tool uses are
  unanswered; the stated properties alone are not inductive, because "the next
  request is well formed" depends on what the goroutine is about to append. From
  it `MachineNeverRefuses`, `ToolUseIsAnswered`, `ModelAskedOnUsersTurn`,
  `NoEffectForgotten`, `SteeringIsFifo`, together `LoopSound` and `NothingLost`.
* `NexusWake_proofs`, the queue. The invariant ties the slot to the one request in a live
  phase and the queue to the requests in phase `waiting`, without repetition.
  From it `OneTurnAtATime`, `NoRequestStranded`, `CancelIsAimed`,
  `OutcomesAreNested`, together `QueueSound`, and `QueueIsALine`: initial states
  map to initial states of `TurnLine` and every step to a step or a stutter.
* `BetweenTurns`, in `AgentLoop_proofs`. A control that slips into a turn leaves a
  history that may end anywhere, so the loop's own invariant is lost (that is the
  run `controls_race`). What survives is the pairing (`ControlsKeepPairs`): the
  store answers exactly what it holds as pending, and no control parts that from
  the last message.
* `StreamCall`, in `AgentLoop_proofs` (`CallStaysFaithful`). Leg by leg, the invariant
  says what has been sent and told: nothing is on the wire of a round until a try is
  accepted, what is shown belongs to the current try, and a try follows only one that
  put nothing on the wire. What a server sends comes one block (or one call) after
  another, so the response accumulated over a complete reply is the whole of it.
* `ToolBatch_proofs`, the batch. `NoToolWithoutConsent`, `DecisionsOnlyEscalate`,
  `ParallelismIsBounded` and `BatchIsSerial`, the refinement of `SerialTools`, from
  an invariant that places every call's goroutine relative to the segment.
  `SkippedAsksNobody` needs one fact more: with permissions skipped, a call that
  has been decided is not left at AskUser. Together `BatchSafe`.
* `ToolBatch_proofs`, the tools (`PortStaysSteady`). `MountInv`: a name has one tool,
  found under it; `CacheInv`: what is cached of a server that has not changed since
  the fetch is what it lists; `TurnInv`: a call is judged by the snapshot it was
  offered under. A collision is a construction error, so names are unique among
  static tools; a dynamic name goes to the first place that lists it, which exists
  because the numbers of sources are well founded.
* `ToolBatch_proofs`, the agents (`TreeStaysGuarded`). The invariant says what each
  running agent is made of, by its depth alone. The rest is about lists: the
  extensions of the main agent and of a child, what they mount, and that under no
  name a child's mutating tool has can the main agent hold one that only reads.
  The assumption `TreeAssumption` types the settings; a tool an embedder adds is
  not the harness's own `spawn_agent`, since a record stands for the tool itself.
* `NexusWake_proofs`, the trigger and the sources. The queue's invariant survives the trigger
  (`OneTurnUnderNexus`), and `NoPendingChannelStranded`: a pending channel implies a
  caller inside `tryFire`, or a running turn whose end will flush it; `WakeSound`.
  For commands (`CommandStaysKept`): a scanner that is off has left nothing in its
  pipe and nobody to write to it, and the wait is the uncapped one cut at the cap.
  For rings (`ChannelsStaySound`): the k-th entry from a ring's start is the k-th of
  the newest messages of the channel's history, whether the ring has wrapped or not,
  and the counter is the number of errors among them; a source that is over has
  said so, which is why a stop is the end of all. For the tail (`TailStaysFaithful`):
  a file holds the bytes of lines in their order, and a newer file later lines; the
  tail has read a beginning of its file and what it holds back is the line that is
  open there, unless the file was truncated behind a fingerprint of lines that are
  gone, which then cannot match. What a read makes of the rest goes by induction along
  its bytes (`RecursionEnds`, as below).
* `Process_proofs`, the start (`StartsAsItsFilesSay`). The registry: what is laid over
  the file flag by flag is, at every flag, the last entry of each name, which goes by
  induction along the flags (`EveryNumber`, and `RecursionEnds`: the function that a
  recursion over `0 .. n` describes exists); a client is kept under the key of the
  definition it was built from. The settings: what each layer leaves in the field.
  The prompt: what a process runs with is what its files and its trust gave it at the
  start, and `trust.json` is replaced whole.
* `Process_proofs`, the requests (`RequestsStayValid`). Each round of the history is
  made of distinct calls whose inputs the client that took them can have left there,
  whichever client replays them, and the sizes are those of `sizeOutput`; the rest is
  about one round at a time.
* `Process_proofs`, what a second model reads (`TranscriptsStayFit`). The request is
  pinned at a place of the talk that says something; the rest counts: a tail of the
  newest n of some places has n of them, or all, and the costs of ever longer ends of
  the talk only grow, so that there is a longest one that fits.
* `Process_proofs`, the parser (`ParserStaysExact`). `ParserInv`: up to where the parser
  waits it has told what a scan of the whole content tells, and every byte before that
  is decided, it begins the awaited tag or some byte that is there says it does not. So
  more content changes nothing that was told, and what is held back is all that could
  still become a tag, because `<` is only the first byte of one.
* `Process_proofs`, the plan (`PlanStaysFollowed`). An id is drawn once, so a task is
  found by its id. The reminder's sort is followed from visit to visit: no task is in
  it twice, each visit is open for a dependency of the one below it, and a task put
  away stands behind its dependencies, but for those that are on a cycle. Twice what
  is put away plus what is open counts the steps, so the sort ends with every task. That a
  plan without a cycle has a next task needs no path: every set of tasks has one that
  depends on none of the others, so the tasks that are left have one too.
* `Process_proofs`, the session log. `EntriesAreChained` from an invariant that relates `lastID`
  to the last entry a reader would find; `AcknowledgedEntriesLoad` from one that
  counts the torn lines; `LogSound`.
* `WsClient_proofs`. The invariant says of the queue that it holds waiting queries,
  each once, all of the connection being served; of the reader that it has emptied
  the queue before it leaves a connection; and of reports that whoever is about to
  send one is alone with a query not reported yet. From it `NoQueryIsStranded`,
  `OneResultPerQuery`, `FlushDropsWhatItFound`, `NothingStaleStarts` and
  `ShutdownIsTheEnd`, together `ClientSound` and `NothingLate`. They hold although
  `OneTurn` does not: the queue's discipline survives a second turn.
* `WsClient_proofs`, the feed: `FeedStaysWhole`. A turn's events are counted along
  the way. While it runs on the connection it came from, those in the subscription,
  in the backlog, in the forwarder's hand, in the outbox and written are together
  what it emitted, and its tally with the denials still on the way is what it was
  denied. At rest the pipe is empty, so the flush leaves both sums exact when the
  report is taken, and they stay exact while the result crosses the outbox. A turn that
  reports although it was found lost is remembered (`late`) and owes nothing.

* `Guards_proofs`, what stands between a call and its effect:
  * `FilesStaySafe`. The invariant follows an edit through its steps: once it has
    looked, the file holds what it read, or somebody outside has written.
  * `DeskStaysSound`, `AnswersLoosen`. Who holds the store's lock has the list that
    is in memory, so concurrent answers add up, and every file that is written whole
    has all of memory's list; a call that nobody has answered is untouched by any
    request, and nobody is at work in a process that is down.
  * `LimiterStaysFair`. Slots: free ones and holders add up to the limit. Tokens:
    what the meter of grants holds and what the bucket would grant now fit together
    in the burst, however many requests have passed.
  * `GlobStaysRight`. A pattern describes a text if some cut of the text gives each
    byte of the pattern its piece, which needs no recursion. The matcher's
    backtracking to the last star alone is right because every cut gives that star
    at least what the loop has given it.
  * `JudgeKeepsOut`, `AdviceStaysHeeded`. Four parts: how far the iteration is; the
    breaker, whose failures and pending askers together stay within its limit and
    the children that asked before it tripped; what the block has made of each call
    of the batch; what the gate remembers of the advice taken.
* `ShellAnalysis_proofs` (`ShellStaysSeen`). By induction on how deep statements stand
  in each other (`Height`): what the walk gives a statement tells of each of its calls
  once, because body, words and redirects have slots of their own and static words
  are left to `classify`. For the scripts, by induction on the number of words: what
  keeps words to itself does not stand before the shell, so each wrapper's search and
  each clause of find leaves an inner command that still holds it, or the command is
  told to be unknown. A call is taken to hand a script over when `Leads` and `RunBy`
  say so of its words and the script is plain text, and it is told at any depth the
  analysis follows.
* `Server_proofs`, what clients share:
  * `RecordStaysKept`. The channel between bus and persister holds the latest events,
    in order and behind everything the current file holds; what is written and what
    is in the channel are together every event of the conversation.
  * `StreamsStayTrue`. Everything sent to a client lies before what is at hand, which
    lies before the channel; an approval shown was added before it was published;
    each tool event stands behind its subagent's label, unless one was dropped.
  * `BoardStaysSound`. For each position of the Go side: what both pipes hold, whose
    code runs, and where the answer to the outstanding message is. A line that is no
    message is on its way as long as the call of its code is (`StrayInv`), so that
    call can only end on it; and only the shutdown message reaches the code after that.

Where an invariant and a list of the source met, the model was brought to a form
that can be reasoned about, with the same states: matching, mounting and the pieces of a
reply are stated by cuts and places, reading a file as a recursive function, the
reminder's sort as one over the visits and the shell's walk as one over the height of its
statements, instead of recursive operators, folds and filters, and two properties that TLC
had checked as action properties became invariants over a history variable (`written`
of the record, `uncapped` of the command source).

Model-checked only:

* liveness, which is out of the prover's reach: `LoopMovesOn`, `EverybodyGoesOn`,
  `EveryCallReturns`, `CallsMoveOn`, `NexusServes`, `ClientMovesOn`, each with the
  parts named in section 3.

Every other property of the passing runs is a theorem.

## 6. Observations

Statements a document or a comment makes, the code does not keep, and no run
checks; where a definition states one it is named, so that it can be checked with
a config of its own.

* A new connection's pump drains the outbox the old one left
  (`wsclient/client.go:474`, against the comment at 244): `NothingCrosses`.
* Without an HTTP timeout, the default (`config.go:273`), a server that falls silent
  keeps a call until somebody interrupts the turn, as the code says itself
  (`ollama.go:143`, `anthropic.go:87`): `CallReturns` names the case.
* Who waits for tokens has no place in a line (`token_bucket.go:65`): a request that is
  dear can find the bucket too low whenever it looks, beside cheaper ones that never
  stop: `EveryAskIsServed`.
* A turn that ends after its connection is marked lost and before its context is
  cancelled (`wsclient/client.go:763`) reports, since the result is kept back only when
  both have happened (`client.go:702`), while `turnLive` lets none of its events through
  any more: `LostIsWithheld`.
* The blackboard's slots can be changed by other agents' code with `update`, `|=`, `pop`,
  `popitem` and `clear`, which the guard does not override (`blackboard.go:33`, against
  27): `SlotsAreTheirs`. And a line printed past the captured stdout ends a call whose code
  runs on (`repl.go:146`); if that code takes the shutdown message for an answer, or
  blocks on a full pipe, the call never returns and the board stays locked:
  `BoardIsFreed`.
* A handler that writes to a client that does not read never looks at the broadcaster's
  end (`sse.go:96`, `logsse.go:93`), and the server's shutdown gives up on it after
  its five seconds (`cmd/app/container.go:248`): `EveryStreamEnds`.
* An ollama stream that breaks off is returned without an error
  (`ollama.go:375`): `AnswerWasFinished`. When it replays a history, a call whose
  input is malformed is dropped and its result is kept (`ollama.go:660`); a result
  quotes the tool's name only (`ollama.go:676`), so the results behind a call that was
  dropped are taken for those of other calls of that tool. `RequestsAreValid` excuses
  the results of these rounds (`Survives`).
* The anthropic client keeps a tool's input as it was streamed (`anthropic.go:299`) and
  puts it into every later request as it is (`anthropic.go:481`). An input that is not
  JSON makes the encoding of that request and of all that follow it fail, until the
  history is compacted or cleared or another client takes over: `AlwaysGoesOut`.
* The settings file is written in place (`bashallow.go:122`). A write that fails half
  way, or a crash beside it, leaves a file that no later answer mends and no start
  reads (`settingsfile.go:82`), and with it every rule it held: `FileStaysWhole`.
* A denied call may have been reported as allowed: an allow answer looks first and
  responds last, and a deny in between wins (`api/approvals.go:41`). `ToldIsTrue` is
  about plain answers.
* The thinking budget can exceed the non-streaming limit (`anthropic.go:335`,
  against `agent.go:135`): `BudgetBelowMaxTokens`. The sizes a session starts with
  outlive its model (`agent.go:119`), and a model whose responses are no longer than
  the least budget, 1024 tokens, has its thinking requests refused
  (`anthropic.go:420`).
* A script can be run unseen, by a command of class read: the string `env -S` splits,
  which `unwrap` skips as a flag's value (`wrappers.go:44`), a text in `$'...'`, whose
  escapes `static` leaves alone before it is parsed (`walk.go:338`), and what `trap`
  runs (`table.go:372`): `OverlookedIsUnknown`. Nor is a wrapper's flag that takes a
  value known for every flag: of `exec -a ls rm x` the words behind `-a` are taken for
  the command (`wrappers.go:47`). The model holds such a word for a program that keeps
  the words behind it (`Leads`), as the code does.
* A star in a pattern does not match a run that contains a literal asterisk at its
  place (`bash.go:306`, against 298): `StarMatchesAnyRun`.
* Two entries that share a name, a provider and a tier share one client with the
  first one's limits (`modelregistry/factory.go:144`): `LimitsAreTheEntrys`.
* The file's connect section overrides the environment (`configmerge.go:183`,
  against 181): `ConnectEnvWins`.
* A deposit into a slot the agent has replaced is lost (`blackboard.go:214`, against
  194): `DepositIsThere`.
* A dependency named by a prefix is never done (`todo_file.go:235`, against
  `tool_todonext.go:23`): `NextKnowsDependencies`.
* A disabled tool comes back in a child (`subagent_factory.go:137`, against
  `pkg/tenzing/tenzing.go:99`): `DisabledStaysOut`.
* A trust decision is lost when another process decides at the same time
  (`trust.go:106`, against `api/controls.go:102`): `DecisionStands`.
* The costs still count a response of the conversation that was cleared
  (`api/controls.go:20`, against `api/costs/costs.go:70`): `StatsAreOfTheWindow`.
* A session that becomes active between the check and the removal is deleted under
  its store (`api/sessions.go:59`): `NeverOrphaned`.
* Not stated as definitions: SetThinking and SetLLM write fields a turn may be
  reading (`harness.go:627`); a failed write cancels the connection's context before
  the loss is recorded (`client.go:464`); two goroutines can close a connection's
  lost channel (`client.go:783`, the model stops at the panic); New leaves what it
  has started behind when it fails late (`harness.go:463`); a failed listing of an
  MCP server is cached like a good one (`mcp/ext.go:130`); substitutions are followed
  however deep they stand, only scripts stop at `maxDepth` (`walk.go:145`, against 11).

## 7. What is not modelled, and the plan

Not modelled: skills, prompts, reminders, memory, context files and templates (text
assembled from files); the model tables, the page, the public facade and the
evaluations (data, re-exports, a test driver). Partly modelled components say in
`PROJECT.json` what is left out; it is mostly wire formats, images, usage numbers
and the wording of messages, where a step changes no state that a property could
relate to another.

Done: the plan's modules 1 to 7, and beyond it the tool port, the agents' tree, the
shell analysis, requests, settings and the catalogue; and the proof of every safety
property the runs check.
