# A TLA+ model of pico

pico is a terminal coding agent: one conversation, a model behind a provider adapter,
tools the model may call, and a screen on which the user types, watches and approves.
This directory holds TLA+ modules of the program, TLC configurations that check
them on small instances, and proofs checked by TLAPS. Paths below are relative to the
repository.

Contents: [the system](#the-system) · [modules](#modules) · [runs](#runs) ·
[fairness](#fairness) · [disagreements found](#disagreements-between-docs-and-code) ·
[proofs](#proofs) · [left out](#what-is-not-modelled) · [plan](#plan) ·
[running it](#running-it)

## The system

| Component | Code | State | Operations |
|---|---|---|---|
| Conversation history | `internal/history`, `internal/llm/types.go` | the list of messages | Append, Validate, Compact, Save, Load, LoadInto, Reset |
| Agent loop | `internal/agent/loop.go`, `compact.go`, `approval.go` | history, the turn's `roundState`, `turnUsages`, `lastGuardTripped` | Run, RunStream, ForceCompact; `runRound`, `runTools`, `doRunTool`, `maybeCompact` |
| Sub-agent | `internal/agent/subagent.go` | none of its own | one nested Run under what is left of the parent's budget |
| TUI | `internal/ui/model.go`, `tui.go` | `Model`: screen state, modal and queue, tool blocks, cancel function, ticks | `Update`, one message or key at a time; `TUIRenderer`, `TUIApprover` |
| Chat drivers | `cmd/pico/chat.go`, `shutdown.go` | the submit channel, the turn's context | `runREPL`, `runPlainChat`, `runTUIChat`, the signal handler |
| Slash commands, sessions | `cmd/pico/commands.go`, `sessions.go` | session files | /new /load /save /compact /model /mcp /cd /exit |
| MCP client | `internal/mcp/client.go` | the process, the mutex, `nextID`, one `bufio.Reader` | Start, ListTools, Call, Close |
| MCP discovery, manager | `internal/mcp/discover.go`, `cmd/pico/mcp.go` | per server: client, tools, error; the tool registry | Discover, reconnect, shutdown |
| File tools, run_command | `internal/tools` | the file system, the root directory | read, edit, write, list, search, run |
| Provider adapters | `internal/llm/ollama`, `openai`, `anthropic`, `prompted` | the stream under assembly, Ollama's cached probe | Chat, Stream, EstimateTokens |
| Configuration, banner, recording | `internal/config`, `internal/ui/banner.go`, `internal/llm/recordutil` | none | read once, printed once, or test support |

How they meet: a driver goroutine hands a submitted line to the agent. The agent asks the
provider; for every tool call in the reply it starts a goroutine, which may ask the approver
and then starts one more goroutine for the tool. The renderer, the approver and the driver
reach the TUI only by messages that its single goroutine handles one at a time; the answer
to an approval comes back through a channel that the waiting goroutine owns. MCP tools are
registered in the tool registry by the manager and share one client, one mutex and one pair
of pipes per server.

What is hard, and to be right must hold:

* *History and agent.* A provider rejects a conversation in which a tool call is not followed
  by exactly its results in order. Concurrent calls, refusals, panics, deadlines, Ctrl+C,
  provider errors, guards and compaction all touch the record; after any sequence of them it
  must be well formed, guards must not let an extra round through, a turn must end, and must
  not end in silence.
* *TUI.* The messages of concurrent calls reach a state machine that is modal. The screen must be
  idle exactly when no turn runs, one key must consent to one call, the interface must never
  block, and the prompt must come back.
* *MCP.* Calls give up while their reader is still reading. Each call must get the response to
  its own request; nothing may hang; a process must not outlive its owner; the registry must
  not offer tools of a closed connection.
* *Sessions.* A process may end at any step. What the user was told of as done must be in a file that
  loads; a signal must end a turn, two the process, wherever it is.
* *Tools of a round.* They share the workspace, one console and one budget, and may outlive their
  call. The record must say what became of the files, the user must get what the preview showed,
  a yes must reach the call it was meant for, and an abandoned tool must not go on for ever.
* *Streams.* Two goroutines, an unbuffered channel, a body that may break off and a context that may
  end. The streamed reply must be the one the server would have sent in one piece, and both goroutines
  must end.

`PROJECT.json` lists every hazard at its line, with the properties that would notice it.

## Modules

| Module | Models | Built on |
|---|---|---|
| `History` | message structure, `Validate`, `CompactionBoundary`, `Compact` as operators | |
| `Conversation` | what an agent promises about its record, without goroutines | `History` |
| `AgentLoop` | `internal/agent`: one agent, its calls and tools, its surroundings | `History`; implements `Conversation` |
| `Round` | the calls of a round as goroutines: approval on the console, contexts, answers | |
| `LineDiff` | `lineDiff` and `applyEdit`, as operators | |
| `FileTools` | file tools, walks, `run_command`, `/cd`, over a shared workspace | `Round`, `LineDiff` |
| `SubAgent` | the `sub_agent` tool: rounds, tokens and end of nested agents | `Round` |
| `ToolRound` | the composition: a turn's rounds with whatever tools they call | `FileTools`, `SubAgent` |
| `TuiModel` | `Model`, `TUIRenderer`, `TUIApprover` and `runTUIChat`'s driver | |
| `Startup` | flags to configuration, provider, registry and turn runner, as operators | |
| `Session` | processes over session files: drivers, commands, saves, signals, the probe | `Startup` |
| `Wire` | requests and whole replies of the adapters, narrated and prompted calls, as operators | `History` |
| `Streams` | one streamed reply: server, adapter, `StreamEvents`, collector or renderer | `Wire` |
| `McpClient` | one MCP connection from Start to Close, under concurrent calls | |
| `McpManager` | discovery, the manager and its registry entries | |
| `LineDiffProofs` | proofs about the operators of `LineDiff`, with the induction rules and the lemmas on sequences the other proofs use | `LineDiff` |
| `AgentLoopProofs` | proofs about `AgentLoop`, and first about the operators of `History` | `AgentLoop` |
| `StreamsProofs` | proofs about `Streams`, and about the operators of `Wire` | `Streams`, `LineDiffProofs` |
| `SessionProofs`, `TuiModelProofs`, `McpClientProofs`, `McpManagerProofs`, `ToolRoundProofs` | proofs about the behaviours of | the module each is named after |
| `MCAgentLoop`, `MCTui`, `MCMcpClient`, `MCMcpManager`, `MCSession`, `MCToolRound`, `MCStreams` | the instances TLC checks | the module each is named after |

Definitions whose comment begins with "Mutant:" are not part of a specification. Each is a
plausible bug in the definition that follows it, and breaks a property when put in its place;
`PROJECT.json` says which.

### History

A Go message is a role and a list of blocks. Every function of the package looks at one kind
of block at a time, so a message is a record of its role, whether it has text (none, blank,
words), whether it has thinking, its ToolUse IDs in order, and its ToolResult IDs in order.
`ValidAt` is the body of `Validate`'s loop. `CompactionBoundary` is the position of the
`keepTurns`-th turn start from the end; `Compact` builds the trial list and keeps it only when
it is valid, as the code does.

### AgentLoop

`pc` is where the goroutine of `Run` is: `idle`, `summarizing` (the provider call of a
compaction), `chat` (the provider call of a round), `tools` (`g.Wait`). `job` tells a turn's
compaction from /compact. `rs` is `roundState`; `calls`, `status` and `results` are the
round's calls, how far each goroutine is, and `runTools`' results slice, which each goroutine
writes at its own index. `status` goes from `approval` (in the approver) to `running` (the tool's
goroutine), `returned` (its outcome is in the channel) and `answered`.

| Action | Code |
|---|---|
| `Run`, `RunCompactingFirst` | `Run`/`RunStream` up to the first request, with `maybeCompact` finding little or much |
| `Summarized`, `SummarizeFails` | `compactNow` and what follows it |
| `FinalReply`, `CallTools`, `ChatFails` | the three outcomes of a request in `runRound` |
| `Approve`, `Refuse` | `checkApproval`; `Refuse` is a no, an error, or the end of the context |
| `ToolReturns`, `Collect`, `Abandon` | `doRunTool`: the tool's goroutine, and the two arms of its select |
| `NextRound`, `GuardStops` | the end of `runTools`, and `guardTripped` |
| `Cancel`, `ClockPasses` | Ctrl+C and the wall-clock guard's time |
| `ForceCompact`, `Reset`, `LoadInto` | /compact, /new, /load |

Abstractions: what a call does is its ID, `Signature[id]` its "name:arguments" text; whether a result is an
error is not recorded, since nothing in the loop depends on it; token estimates depend on content, so
whether the threshold is passed is free; `late` may become true at any time in a turn that has a wall clock.
`inFlight` says that a request left before any cancellation: a request made under a cancelled context cannot
succeed. `script` bounds a behaviour: how many turns its user begins, how many rounds each may have, and the
replies and usages its provider chooses from.

`Conversation` is the abstract specification: the record grows by a prompt, by a whole round, or by
last words; a failed turn adds nothing; between turns it may be folded at a turn start, cleared or
replaced. `AgentLoop` implements it (`WholeSteps`) with the message that opened a round hidden until
the round is answered.

### TuiModel

The variables of the first group are `Model`'s fields; `submit` is the one-slot channel; `driver`
and the rest are the goroutine of `runTUIChat` and the turn it runs, seen only as far as it sends
messages. `program.Send` returns after the program's goroutine has taken the message, so a Send and its
`Update` are one action. `OnTurnStarted`, `OnToolStarted`, `OnToolFinished`,
`OnApprovalRequest`, `OnTurnDone` and `ActivateNext` are the handlers of `Update`; `Enter`,
`AnswerKey` and `CtrlC` are its keys; `TickStops` is a tick that finds the Model idle (one that
finds a turn in flight only schedules the next). A request is named by turn, round and position,
as each has a channel of its own.

### McpClient

`call` is `Lock`, `Write`, then `TakeResponse` or `GiveUp`; the reading is done by a goroutine per
request (`readers`) that puts what it read into its one-slot channel (`mail`). When a call gives up,
its reader stays. Two readers share one `bufio.Reader` without a lock, a data race: either may get
the next line, or get a torn one, or lose it. `Write` waits for room in the pipe and `Lock` for
the mutex, neither looking at the context. The server is external: it reads, answers in any
order, stalls, exits, and may send notifications. `quiet` is a history variable that no action
reads: no tool call's context has ended so far and no notification has come.

### McpManager

`discoverOne` runs per server (`phase`): process start, handshake, tool list, each with its
deadline in ticks; the manager registers results in configuration order once all have settled,
reconnects one server at a time, and closes every client at shutdown. A client is a number
and a process that lives or not. A registry name is a sequence of atoms, joined as
`MCPToolName` joins strings.

### Session, Startup

`Startup` is pure: `Loads` and `Config` are `config.Load` on the flags that something branches on,
`ResolvesProvider`, `BuildRegistry` and `Streams` what `runChat` does with the result. `Session` is
one process after another over the session files. `pc` is the goroutine that drives turns: `idle`
at its input, in a `turn`, `asking` (the console approver's read), at `save` (before the file is
opened) or `write` (the file is truncated and not yet whole). `stage` and `signals` are
`newShutdownContext`; `cancelled` is the turn's own context in the TUI; `probe` is
`supportsTools`' cache.

| Action | Code |
|---|---|
| `Start`, `RefusedAtStart` | `configureChat`, `loadOrCreateHistory` |
| `RunTurn`, `TurnSucceeds`, `TurnFails`, `CancelTurn` | the drivers around Run and RunStream, Ctrl+C in the TUI |
| `SaveOpens`, `Saved`, `SaveFails` | `History.Save`, which is `os.WriteFile` in place |
| `New`, `Save`, `Load`, `Compact`, `Exit`, `Model` | the commands of the same names |
| `EndOfInput`, `Quit`, `ProgramStops`, `FirstSignal`, `SecondSignal`, `Kill` | the ways a process ends |
| `Asks`, `UserAnswers`, `Probe` | a prompt within a turn, Ollama's `/api/show` |

A conversation is the set of its turns and how far a summary stands for them: AgentLoop shows it valid
whenever it may be saved. `acked` is a history variable: the turns whose success was
shown, under the name that was active.

### Round, FileTools, LineDiff, SubAgent, ToolRound

`AgentLoop` has the place of a round in a turn; here the calls are told apart by what their tools do.
`Round` is what each goes through: `NeedsNoApproval`, or `Prompt` (which `FileTools!Preview` extends
by the diff it shows) and `ReadLine`; then the tool's own goroutine, whose last step sets `work`; then
`Collect` or `Abandon`. Concurrent `ConsoleApprover`s write their prompts in any order and whichever reads
first gets the first line: `prompts`, `lines` and `read`. `todo` is a turn's rounds, from the
instance's `Scenarios`.

`FileTools` gives the steps between which another call may come: an edit reads (`Compute`), writes a
temporary file, looks at its context (`LookAtContext`), renames (`Rename`); a walk visits one file
at a time (`Visit`); a command runs until it exits or is killed. `Cd` moves the root between rounds,
when only abandoned tools are left. A file holds a sequence of lines; names are numbers, in walking
order; deny globs are a set of names. `done` is a history variable: the renames.

`LineDiff` has the table of `longestCommonSubsequence`, the collection of the common lines and the walk
along both texts, each as a recursive function on positions (`MinimalDiff`); the fallback for texts of more
than `MaxDiffLines` lines (`Dump`); `TruncateBytes`; and `applyEdit`. A walk that indexed past the end of a
text would be `Panic`. `Samples` are the texts TLC evaluates it on. `SubAgent` has `childGuards` and a
nested agent's rounds; its history is what `AgentLoop` models already.

### Wire, Streams

`ToRequest` is each adapter's translation of a conversation, `FromMessage` of a whole reply, with
narrated calls, made-up IDs, normalised arguments and estimated usage; `ParseToolCall` is the prompted
decorator's. A text is a sequence of tokens; arguments are a sequence of fragments or an encoded string.

`Streams` runs one reply. `reply` is what the server has said so far, and `Receive` one chunk of it in
any legal form for the backend: OpenAI's fragments by index, with or without IDs, with usage after the
finish; the Messages API's blocks with a stop each; Ollama's lines with whole calls. `Handle` picks
`OpenAIHandle`, `AnthropicHandle` or `OllamaHandle`, each one adapter's loop body, which turns a
chunk into the events in `out`. `Send` is the rendezvous on the channel: the producer's send and the
consumer's `Take` (`CollectStream`; both renderers collect in the same way). `GivesUp`, `Close`,
`BodyEnds` and `BodyFails` are the producer's ends, `SeesClosed`, `SeesContext` and `WriteFails` the
consumer's. `Conversations` and `PlainReplies` are the requests and prompted replies that TLC evaluates `Wire`'s
operators on.

## Runs

Passing runs fire every action. Numbers are distinct states. The runs check one `TypeOK` and spend the
rest on behaviour; the other modules' is a theorem, or part of the invariant one rests on.

| Run | Instance | Checks |
|---|---|---|
| `agent_loop` (393 662) | either one turn of up to four rounds with six possible replies (with words, without, one call, its twin under another ID, a gated and an ungated call, one ID twice) and usage in steps of 1 or 2; or two turns of up to two rounds, or three of one, with four replies. MaxTurns 4, budget 6, wall clock, tool deadline, KeepTurns 1, two loadable conversations, one of which ends in an unanswered prompt | `TypeOK`, `AlwaysAnswered`, `GuardsBoundTheTurn`, `CompactionNeverRefused`, `TurnEnds`, `CancelEndsTurn`, `NoSilentEnd`, `WholeSteps` |
| `tui_turns` (195 300) | two inputs (turn or command), two rounds per turn; rounds of one gated call, two read-only, one of each, two gated | `BusyIffTurn`, `UINeverBlocks`, `ModalIsLive`, `WaitersAreAsked`, `CancelReturns`, `PromptReturns` |
| `mcp_calls` (23 252) | two callers, a pipe with room for one request, four requests of which two are tool calls | `QuietResponsesMatch`, `ReadersEnd`, `CallsReturn` |
| `session` (440 815) | two processes, one after the other, two names, two turns in all; six command lines: REPL, pipe, TUI, Ollama with native and with prompted tools, and lines refused | `AckedTurnsKept`, `ExitKeepsSession`, `TwoSignalsEnd`, `InterruptedTurnEnds` |
| `tool_round` (108 727) | rounds of two edits of one file; an edit, then a write, and the reverse; a write beside a read; a write beside a search; a command beside a walk, then the same; two sub-agents. Two roots, three names of which one is denied; a search has up to three matches, one more than the cap | `AnswersAreTrue`, `OnlyOverlapsLose`, `PreviewsTellChange`, `ApprovedIsDone`, `WalkFindsAll`, `QuietConsent`, `DelegationBound`, `AbandonedToolsStop` |
| `adapter` (666 136) | three adapters; replies of up to four chunks (three for Ollama, whose texts have four tokens) with up to two calls | `StreamedIsWhole`, `TextInOrder`, `RequestsAreWellFormed`, `OnePromptedCall`, `ProducerEnds`, `OutcomeComes` |
| `manager_repl` (8 905) | two servers, `a` and `a__b`, that list a tool each or two, of which `a`'s `b__x` and the other's `x` have one registry name; two reconnects, deadlines of two ticks | `RegistryIsCurrent`, `OnlyCollisionsLose`, `NoStrayProcess`, `BackToIdle` |

Why the bounds are enough. *agent_loop*: four rounds exceed the repetition threshold of three, so each limit
can be the one that trips, together with another or alone; two calls in a round are what it takes for
results to be swapped. With KeepTurns 1 a second turn is enough to compact, and a third compacts a record
that begins with a summary or with failed turns. *tui_turns*: two turns are needed for a request of one to
meet the other, two gated calls for a queue behind a modal, one gated and one not for a message that arrives
under a modal; a third call adds only length to the queue. *mcp_calls*: a response is taken by the wrong
call only if there are two. *manager_repl*: the second reconnect of a server meets what the first left, and
the first of either server meets the name the two share. *session*: the second process finds what the first
left, whole or torn; two turns are enough for one to be saved and a later one not, under either of two
names; a third session would only repeat the second. *tool_round*: each round pairs tools that share
something (a file, the console, the budget, a walk and the file it is at); what a tool abandoned in one
round does in the next needs two rounds. The preview's property, which depends on no state, is evaluated for
every two texts of at most three lines of two kinds, which is enough for a line to be kept, dropped, added
or repeated on either side of another, and for two texts of four lines, which is one more than
`MaxDiffLines`; a budget of five lines cuts some previews of either kind. *adapter*: two calls may grow in
turns, and four chunks let text come before, between and after them; the properties of requests and of
prompted replies are evaluated for every valid conversation of at most four messages and every reply of at
most three tokens.

Deadlock is checked in the agent's runs only: from every state some step is possible, /new at
least. Elsewhere the system may stop: with the bounded inputs used up and the user silent (a screen
at the prompt, a process that has ended), when an MCP server or a provider does not answer, when a stream is over.

## Fairness

* `AgentLoop!FairSpec`: the agent's goroutines run, a deadline that has passed is noticed, and
  provider and approver return once the context has ended (the HTTP clients and
  `TUIApprover.Approve` select on it). A tool may never return. Provider and user may never
  answer: `CancelEndsTurn` holds without them, and `TurnEnds` states what it needs of them as its
  hypothesis `Attended`. The console approver's blocking read does not look at its context and
  is outside this assumption.
* `TuiModel!FairSpec`: the driver and the calls run, replies and tools return. No key is assumed;
  `PromptReturns` has the hypothesis `Attentive`, that no modal stays on display for ever.
* `McpClient!FairSpec`: the client's goroutines run, contexts end, and the server keeps reading
  its stdin. It need not answer. Without the last part a `Write` may block for ever while it holds the
  mutex, as the code has it.
* `McpManager!FairSpec`: processes start or fail to, time passes, deadlines fire. No server needs to
  answer.

* `Session!FairSpec`: the goroutine that waits for signals, the program that waits for its context and
  a write go on. A turn ends, which `AgentLoop` shows of a cancelled one; strongly, since `Asks` interrupts
  it, and its guards bound how often. Nobody has to send a signal, start a process, type or answer:
  `InterruptedTurnEnds` has the hypothesis `Attended`, as the console approver's read does not look at its
  context.
* `ToolRound!FairSpec`: tools' goroutines run, a deadline passes, a call that can be answered is. No user
  has to type and no command to exit.
* `Streams!FairSpec`: both goroutines run, a body is given up when its context ends, and the server ends
  the body of a finished reply. It may say nothing for ever.

## Disagreements between docs and code

Each is a run that violates one property, which states what the quoted text says.

| Run | What happens |
|---|---|
| `tui_modal` | A started or finished message of another call of the round assigns `m.state` under a modal; nothing shows the modal again and the turn waits until Ctrl+C (`model.go:66-67`: approval "suspends everything else"). |
| `mcp_late` | A timed-out `tools/call` kills nothing: its reader or its response is there for the next call, which takes the wrong one, for IDs are never compared. |
| `session_kill` | `Save` truncates the file and writes it in place. Killed in between, or left by Ctrl+D while the driver saves, the file does not parse and `--session` refuses to start (`README.md:185-187`: kill it, and it picks up where it left off). |
| `session_probe` | `supportsTools` keeps its first result, an error too. A turn cancelled while `/api/show` is in flight makes every later turn of the process fail (`README.md:205-207`: Ctrl+C cancels only that turn). |
| `manager_timeout` | `discoverOne` gives the handshake one timeout and the tool list another: a server takes up to twice the time that `discover.go:21-26` promises (each "independently bounded by timeout across both the handshake and tools/list") and that `cmd/pico/mcp.go:16-19` and the test at `mcp_test.go:93` rely on. The same instance as `manager_repl`. |

Where the code settles the matter, there is no run. The models have the behaviour, and the properties
are stated so that they hold with it:

* A summarization reply without text is no error: the elided turns are replaced by an empty message, where
  `compact.go:43-46` has the worst case be no compaction.
* A call that asks for approval just after Ctrl+C leaves a dead request as `m.approval`, as
  `finalizeTurn` resets neither that nor the queue (`model.go:329`); later requests queue behind it unseen.
* A turn that starts before the previous turn's tick has fired runs two timers (`model.go:218`).
* Adapters that number calls from zero in each reply reuse IDs within a turn, and the later call's outcome
  overwrites the earlier block on screen (`model.go:243`).
* The TUI's driver outlives `program.Run`: a queued /mcp reconnect may run after `shutdown` and start a
  process that nobody closes (`mcp.go:209`).
* Ctrl+C does nothing while a modal is up (`README.md:205-206` promises otherwise; the guard of
  `TuiModel!CtrlC`). The console approver's read does not look at its context at all.
* An MCP call stuck in its write ignores its context (`client.go:150-151`; the guard of `Write`).
* A separator inside a server's or a tool's name can give two tools one registry name, although
  `mcp_tool.go:45-50` has it that they "can never collide". The second is skipped with a warning; as
  `disconnect` goes by names, a reconnect of its server takes the name from the first server, for itself or, if
  it fails, for nobody. The servers of `manager_repl` collide; `OnlyCollisionsLose` says that nothing else is lost.
* `README.md:154` says that prompted mode ignores `--tui`; `resolveProvider` refuses the pair
  (`chat.go:229-237`, `Startup!ResolvesProvider`).
* The Anthropic adapter reads on after `message_stop`. If the connection breaks then, it has an Error for a
  consumer that is gone, and its goroutine waits for the context to end (`Streams!BrokenLate`).
* A stream puts text that follows a call behind the call and keeps the thinking before a narrated
  call; a whole reply puts text first and drops that thinking (`StreamedIsWhole` compares neither).
* A guard's explanation is not printed by a plain driver when the round before it had text:
  `WroteAny` is still true, although `chat.go:464-470` says it is false there.
* Concurrent sub-agents each get all of what is left of the budget, and the parent counts none of it
  (`DelegationBound` is per sub-agent).
* Of two concurrent edits of one file one may be lost (`OnlyOverlapsLose` says when not).
* A call that was abandoned may still rename its file into place after its answer said that it was cancelled
  (`write_file.go:106`; `AnswersAreTrue` says nothing of an abandoned call).

## Proofs

Nothing below bounds the number of calls, rounds, turns, servers, processes, lines or texts. Each component
has an inductive invariant `IInv`, a lemma per action or group of actions, `InitIInv`, `StepIInv`, and
theorems drawn from them.

What the proofs take from the constants, each a named `ASSUME` that TLC evaluates:

| Assumption | Says | Because |
|---|---|---|
| `AgentAssumption` | limits are naturals, replies are assistant messages without results, loadable conversations are valid; a script's replies and usages are among those | `Load` validates; an adapter builds no results; a script is a bound of the model |
| `SessionAssumption` | what is chosen and capable are models; limits are naturals | types |
| `TuiAssumption` | a round asks for at least one call; None is neither a request nor an answer | `runTools` runs only for calls |
| `McpAssumption` | at least two calls | Start and ListTools make one each |
| `ManagerAssumption` | configured servers have different names, the timeout is not zero | names are the keys of a map |
| `RoundAssumption` | a scenario's rounds share no call | a call is made once |
| `FileAssumption` | files and arguments are sequences of strings; the workspace has finitely many names, numbered in walking order; the match limit is positive | types; `os.ReadDir` sorts; `matchCap` |
| `SubAgentAssumption` | there is a largest reply | the bound of `DelegationBound` is stated by it |
| `SampleAssumption`, `DiffAssumption` | the samples are texts; the limits of a preview are naturals, the budget not zero | types; `maxDiffLines`, `defaultByteBudget` |
| `WireAssumption`, `StreamAssumption` | each fenced block names a tool or the parse error; no tool's name is empty; tokens are strings | `malformedToolCall`; the Messages API tells a block's start by its name; types |
| `RequestAssumption` | the conversations are ones that `Valid` admits; a plain reply has text and thinking only | `HistoryAlwaysAnswered` shows it of every record an agent sends; a model without native tools makes no calls |

### History and AgentLoop

* `CompactSafe`. Compacting any valid record, with any summary and any number of kept turns, gives a valid
  record, and the `Validate` backstop never refuses. `BoundaryStartsTurn` shows that the first message kept
  has text and so, in a valid record, is not the answer to a call; `CutIsValid` that a suffix that starts
  there is valid behind a summary. `AppendPlain` and `AppendRound` say which appends preserve validity.
* `HistoryAlwaysAnswered`, `TypeCorrect`. `AlwaysAnswered` is not inductive: in the middle of a round the
  record ends in an unanswered call. The invariant is

      IInv == TypeOK /\ AlwaysAnswered /\ RoundOwed

  where `RoundOwed` says that in a round the record would be valid with the results of exactly `calls`
  appended, and that an answered call has its own ID at its own index. When all are answered,
  `results = calls` (`ResultsAreCalls`), which pays the debt.
* `GuardsBound`, `NeverRefused`, `TurnsEndInWords`. On top of `IInv`, `TInv` says what the turn's goroutine
  knows of the record. `FoldPending`: while it summarizes there is something to fold, so that the second
  look, after the request, finds it too. `RoundOpen`: a round in progress is the last message. `TurnCounted`:
  `roundState` agrees with the rounds on record (`Counted`), its streak being at least as long as any run
  of equal rounds at their end, so that a guard that did not trip bounds the record and not only its own counter.
* `AgentRefinesConversation`. Initial states map to initial states, and every step is one of `Conversation`
  or changes nothing it sees: a round appears there when `NextRound` or `GuardStops` pays its debt.

### Session

`AckedTurnsKept` speaks of whole files. What carries it while a file is being written, or between one process
and the next, is the conversation in memory: `MemoryHoldsAcked` (it holds every turn acknowledged under the
active name), `TurnInMemory` (the one about to be saved included), `SavesActive` (an automatic save goes to
that name) and `AbsentOwesNothing`. Hence `AckedTurnsAreKept`, `ExitSaves`, `TypeCorrect`.

### TuiModel

A request outlives the call that sent it: a cancelled turn leaves its requests in the queue, and later turns ask
behind them. So the invariant follows the unanswered requests, `Active`: each was sent once, by a call of this
round or an older one (`Asked`), and is in one place (`Distinct`); whoever was answered is no longer among them
(`Answered`); while the modal has the screen in a turn that was not cancelled all of them are calls
that still wait (`ModalAsks`); `CountsOK` bounds turns and timers by inputs. Hence `BusyExactlyInTurns`,
`UpdateNeverBlocks`, `ModalsAreLive`, `TypeCorrect`.

`NoRequestLost` is the converse of `ModalsAreLive`: a call that waits is among the `Active` (`WaitersActive`). No
step takes a request out of there but an answer, or the end of a turn, when no call waits any more.

### McpClient

A response goes to whoever reads next, so that it reaches its own call is a matter of the whole wire. While
`quiet`, `Undisturbed` holds: the wire is `Clear`, or one request is `Underway`, in exactly one of pipe,
server, output or mailbox unless the process took it along, and is that of the call that holds the mutex, or
the client is `Doomed` to be given up. `Exclusive` is the mutex, `NumbersOK` the IDs. Hence
`ResponsesMatch`; and `OneCallAtATime`, quiet or not.

### McpManager

A server's results are `Awaiting` to be taken or taken, and the parts of the invariant say in which
of the two they hold: `StatesMatch` (a server's state is what its discovery settled with), `EntriesOwned` and
`NamesUnique` (so that `disconnect`, which goes by names, meets entries whose owner is known),
`ProcessesFound` (a live process has a holder who will close it), `Deadlines`. Hence `EntriesAreCurrent`,
`DiscoveryIsBounded`, `ProcessesAreHeld`, `TypeCorrect`, and:

* `ReplLeavesNone`, under the hypothesis `OwnDriver = FALSE`, without which the code does otherwise: the
  goroutine that runs shutdown is the one that reconnects. The TUI's driver is another one and may start a
  process after shutdown.
* `ToolsLostToCollisions`, for any names: `registerTools` skips a name only if another server's tool has it
  (`RegisterKeeps`), and `disconnect`, which goes by names, takes another server's entry only if the two collide.

`DiscoveryIsBounded` is what holds where `manager_timeout` refutes the promise: two timeouts, for every timeout.

### ToolRound

A call is told by its goroutine's phase, its tool's work and its answer, which move apart: an abandoned tool
works on after its answer. `RoundOK` says how far apart; `ConsoleOK` and `ConsentOK` tie the prompts and lines
to the calls that asked; `FilesOK`, `RenamesOK` and `ShownOK` say what has been read, written aside, renamed and
shown at each step of an edit; `ChildrenOK` what a sub-agent has spent. Hence `RecordIsTrue`,
`ApprovedEditsAreDone`, `PreviewsTell`, `ConsentIsOwn`, `DelegationIsBounded`, `TurnsAreBounded`.

`AnsweredEditsStay` rests on `OverlapsOK`: while an edit is between its read and its rename and the file is
no longer what it read (`LosesOK`), some call of the same round, or an abandoned one, has renamed over it.
That a round's calls run only beside each other and what was abandoned is `RoundsOK`.

`WalksFindAll` rests on `IInv` and on what a walk knows on its way (`WalksOK`): of every file it has passed and
nobody has since renamed over, it has the matches, or its limit is reached (`Passed`), and its listing is the
directory as it was but for those renames. A search ends at its limit or behind the last file.

`ApprovedIsDone` owes its condition `was = seen` to the proof. If the file is A when previewed, B when the edit
reads it and A again at the rename, the edit replaces a text that the preview showed by one computed from
another. That takes writes of two other calls in between, which no instance has.

### LineDiff

`PreviewsAreTrue`: for any two texts over any lines the preview never panics, fits the budget and shows a
change if there is one. Unless something was cut out of it, it tells what is there and what will be; it then
prints as few changes as can be, or is the fallback, if one of the texts is too long. `PreviewsTell` is the
case TLC evaluates, and `ApprovedEditsAreDone` rests on it too. This is induction over how much of two texts
is left. The library's induction rules take an operator as parameter and cannot be cited, so the module has
rules stated about sets, from the well-foundedness of the naturals: a nonempty set of positions has a least
one (`LeastExists`, `Induction`), and a function defined from smaller positions exists (`RecursionExists`).
From them: the table is filled and the common lines are collected (`TableIsFilled`, `CommonIsCollected`);
those are embedded in both texts (`CommonIsEmbedded`); the walk keeps its three positions in step, so that
it never runs out of common lines (`LoopPrints`, `WalkTells`); the table bounds every common subsequence
(`TableBounds`, `LongestIsLongest`). `DumpTells` is the fallback, and `CutShows` that a cut leaves its
marker.

### Streams and Wire

Nothing here bounds the chunks, calls or tokens of a reply, or the length of a conversation.

*Streams.* The invariant is a balance between three accounts of one reply: what the server has said, what
the adapter's accumulator knows, and what the consumer has together with the events on their way to it.

    IInv == /\ Types /\ ReplyOK(reply) /\ BlocksNamed(col)
            /\ Refused /\ Accumulated /\ OnTheWay /\ DoneIsLast /\ Delivered

`OnTheWay` is the core: `Conveys` says that the starts, the ends, the text and the thinking in `col` and `out`
are, in order, those of `reply`, but for what the adapter may still owe. What it owes differs. Ollama owes the text
held back while it may be a narrated call (`OllamaOK`), OpenAI the end of every call until the finish (`OpenAIOK`),
Anthropic the end of the open block (`AnthropicOK`). `Complete` and `TheText` say so in one place. `Refused` and
`Delivered` are the two ends of a stream: an adapter's error is one of the whole reply, and a consumer that is done
has all of it. A chunk is proved in two parts. Per adapter and kind of chunk, `Advances`: its events carry exactly
what the chunk added to the reply. Once for all, `SpeaksStep`: then `IInv` holds again. Hence

* `TextKeepsItsOrder`: collected, on its way and held back, in this order, the words are the reply's.
* `StreamIsTheWhole`: the calls a consumer has are those of the whole reply. The order of starts and the order of
  ends determine the calls because no two share an ID (`KnownByIds`), which is proved of the made-up ones too.

*Requests.* `RequestsAreAdmitted`: `ValidRequests` shows, by induction over the conversation, that a
request is made message by message and that a well-formed one goes on with a message that neither calls
nor answers, or with a call and its answer together (`GoodByOne`, `GoodByTwo`). In between, with the call sent and
not yet answered, it is not well formed, so the induction carries the request up to the message before the call.

*Prompted replies.* `OneCallIsMade`: `parseToolCall` replaces one block by what is before its first fence, the call
and the rest (`ParsedAt`), that fence is the first of the whole reply (`FencesSaid`, `FirstFenceIs`), and
`TrimSpace` takes blanks only (`TrimmedKeeps`). The run checks the same on replies of at most three tokens.

### Only model-checked

Liveness (`TurnEnds`, `CancelEndsTurn`, `CancelReturns`, `PromptReturns`, `ReadersEnd`, `CallsReturn`,
`TwoSignalsEnd`, `InterruptedTurnEnds`, `AbandonedToolsStop`, `ProducerEnds`, `OutcomeComes`,
`BackToIdle`): TLAPS proves neither fairness arguments nor ENABLED here. Every invariant and action property of
the passing runs is a theorem.

## What is not modelled

* Text, layout, word wrapping, the transcript, pricing, the wording of errors and prompts, logging: no
  property depends on them. The banner, the recorder, the conformance suites and the mock backends are
  output or test support.
* The schema generator and the recursive validator: data transformations without state. A call is well
  formed or not.
* In the file tools: symbolic links and the escape check of `Resolve`, nested directories, pattern matching,
  line ranges, truncation of the tools' output. Each is a function of one path or one text. The budget of a
  preview is counted in lines, of which the marker is one, where the code counts bytes: a cut in the middle
  of a line is not told from one between two.
* In the adapters: schemas, headers, cache breakpoints, HTTP status handling (a failure is `BodyFails` or
  `TurnFails`), and the message that the prompted decorator adds to a request. A fenced block is one token:
  that `fencedJSONRe` (`prompted.go:37`) may also match from the closing backticks of a block with another
  label to the next fence cannot be said. `RequestsAreWellFormed` compares the pairing of calls and results
  and the number of texts.
* Two processes over one session file at once: the code takes no lock and promises nothing.
* The operating system's processes and pipes, the HTTP clients, bubbletea, the MCP servers, the model and
  the user: external, modelled by how the code uses them.

## Plan

The order of work was the agent's record, the screen, the connections, the sessions, the tools and the
streams: first a model and its runs, then the theorems. All runs and all safety properties are done. What
could follow:

1. The recursive schema validator as a function on schemas and values, with a reference definition.
2. The order of text and calls in a reply, which a stream keeps and a whole reply does not, once the code settles
   which is meant; `StreamedIsWhole` would then compare blocks and not only their words and calls.
3. The fixes that the five disagreements call for: each has its run, which is expected to pass once the code
   is changed.

## Running it

    tlc -workers 2 -config MCAgentLoop.cfg MCAgentLoop
    tlapm ToolRoundProofs.tla

Each configuration names its properties; `PROJECT.json` lists every run with its module.
