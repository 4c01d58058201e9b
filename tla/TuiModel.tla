------------------------------ MODULE TuiModel ------------------------------
(***************************************************************************)
(* The interactive TUI: the bubbletea Model (internal/ui/model.go), the     *)
(* TUIRenderer and TUIApprover that send it messages, and runTUIChat's      *)
(* driver goroutine, which takes submitted input and runs one turn at a     *)
(* time.  Every call of a turn's round has its own goroutine.               *)
(*                                                                          *)
(* program.Send hands the message to the program's only goroutine before it *)
(* returns and Update runs to completion before the next message, so a Send *)
(* and the Update it causes are one step.  Text, layout and the transcript  *)
(* are left out; so is quitting.                                            *)
(***************************************************************************)
EXTENDS Integers, Sequences, FiniteSets

CONSTANTS
  None,        \* no approval modal, no request
  Rounds,      \* the rounds a reply may ask for: one BOOLEAN per call, TRUE if gated
  SharedIds,   \* the adapter numbers calls from 0 in every reply (Ollama, OpenAI)
  MayCancel,   \* the user may press Ctrl+C
  MaxInputs,   \* bound of the model: inputs the user submits
  MaxRounds    \* bound of the model: rounds of one turn

ASSUME TuiAssumption ==
  /\ None \notin [turn : Nat, round : Nat, pos : Nat] /\ None \notin {"yes", "no"}
  /\ \A r \in Rounds : r \in Seq(BOOLEAN) /\ r # <<>>
  /\ SharedIds \in BOOLEAN /\ MayCancel \in BOOLEAN
  /\ MaxInputs \in Nat /\ MaxRounds \in Nat

VARIABLES
  \* the Model
  state, priorState,   \* Model.state, Model.priorState
  approval, queue,     \* Model.approval, Model.approvalQueue
  blocks,              \* Model.liveTools
  cancelSet,           \* Model.cancel is not nil
  ticks,               \* turnTickMsg timers running
  submit,              \* the submit channel, of capacity one
  \* the driver goroutine and the turn it runs
  driver,              \* where it is
  ctxDone,             \* the turn's context has been cancelled
  turn, round,         \* counters that tell turns and rounds apart
  gated, call,         \* the round's calls: which need approval, how far each is
  answer,              \* the channel each Approve waits on
  inputs               \* inputs the user has submitted

modelVars == <<state, priorState, approval, queue, blocks, cancelSet, ticks>>
roundVars == <<gated, call, answer>>
vars == <<modelVars, submit, driver, ctxDone, turn, round, roundVars, inputs>>

Init ==
  /\ state = "idle" /\ priorState = "idle"
  /\ approval = None /\ queue = <<>>
  /\ blocks = <<>> /\ cancelSet = FALSE /\ ticks = 0
  /\ submit = "empty"
  /\ driver = "waiting" /\ ctxDone = FALSE
  /\ turn = 0 /\ round = 0
  /\ gated = <<>> /\ call = <<>> /\ answer = <<>>
  /\ inputs = 0
-----------------------------------------------------------------------------
(* The Model's handlers. *)

\* Mutant: activateNextApproval never saves the state it finds.
ActivateNextForgets(q) ==
  IF q = <<>>
  THEN /\ approval' = None /\ queue' = q
       /\ state' = priorState /\ UNCHANGED priorState
  ELSE /\ approval' = Head(q) /\ queue' = Tail(q)
       /\ state' = "approval" /\ UNCHANGED priorState

\* Mutant: the request on display stays in the queue.
ActivateNextPeeks(q) ==
  IF q = <<>>
  THEN /\ approval' = None /\ queue' = q
       /\ state' = priorState /\ UNCHANGED priorState
  ELSE /\ approval' = Head(q) /\ queue' = q
       /\ priorState' = IF state # "approval" THEN state ELSE priorState
       /\ state' = "approval"

\* activateNextApproval, with the queue q it finds.
ActivateNext(q) ==
  IF q = <<>>
  THEN /\ approval' = None /\ queue' = q
       /\ state' = priorState /\ UNCHANGED priorState
  ELSE /\ approval' = Head(q) /\ queue' = Tail(q)
       /\ priorState' = IF state # "approval" THEN state ELSE priorState
       /\ state' = "approval"

\* Mutant: a request is queued, and shown only when another one is answered.
OnApprovalRequestQueues(request) ==
  queue' = Append(queue, request) /\ UNCHANGED <<state, priorState, approval>>

OnApprovalRequest(request) ==
  IF approval = None THEN ActivateNext(Append(queue, request))
  ELSE queue' = Append(queue, request) /\ UNCHANGED <<state, priorState, approval>>

OnTurnStarted ==
  /\ state' = "streaming"
  /\ cancelSet' = TRUE
  /\ blocks' = <<>>
  /\ ticks' = ticks + 1
  /\ UNCHANGED <<priorState, approval, queue>>

\* Mutant: a tool that starts dismisses the modal it takes the screen from.
OnToolStartedDismisses(id, owner) ==
  /\ state' = "toolRunning" /\ approval' = None
  /\ blocks' = Append(blocks, [id |-> id, owner |-> owner, status |-> "running"])
  /\ UNCHANGED <<priorState, queue, cancelSet, ticks>>

OnToolStarted(id, owner) ==
  /\ state' = "toolRunning"
  /\ blocks' = Append(blocks, [id |-> id, owner |-> owner, status |-> "running"])
  /\ UNCHANGED <<priorState, approval, queue, cancelSet, ticks>>

\* Every block with the ID takes the status.
OnToolFinished(id, status) ==
  /\ blocks' = [b \in DOMAIN blocks |->
                  IF blocks[b].id = id THEN [blocks[b] EXCEPT !.status = status]
                  ELSE blocks[b]]
  /\ state' = IF \E b \in DOMAIN blocks : blocks'[b].status = "running"
              THEN state ELSE "streaming"
  /\ UNCHANGED <<priorState, approval, queue, cancelSet, ticks>>

\* Mutant: the end of a turn leaves a modal on display.
OnTurnDoneUnderModal ==
  /\ state' = IF state = "approval" THEN state ELSE "idle"
  /\ cancelSet' = FALSE
  /\ blocks' = <<>>
  /\ UNCHANGED <<priorState, approval, queue, ticks>>

\* finalizeTurn.
OnTurnDone ==
  /\ state' = "idle"
  /\ cancelSet' = FALSE
  /\ blocks' = <<>>
  /\ UNCHANGED <<priorState, approval, queue, ticks>>
-----------------------------------------------------------------------------
(* The driver goroutine. *)

\* A slash command runs on the driver itself and leaves the Model's state alone.
TakeInput ==
  /\ driver = "waiting" /\ submit # "empty"
  /\ driver' = IF submit = "command" THEN "command" ELSE "taken"
  /\ submit' = "empty"
  /\ UNCHANGED <<modelVars, ctxDone, turn, round, roundVars, inputs>>

CommandDone ==
  /\ driver = "command" /\ driver' = "waiting"
  /\ UNCHANGED <<modelVars, submit, ctxDone, turn, round, roundVars, inputs>>

StartTurn ==
  /\ driver = "taken" /\ driver' = "streaming"
  /\ OnTurnStarted
  /\ ctxDone' = FALSE /\ turn' = turn + 1 /\ round' = 0
  /\ UNCHANGED <<submit, roundVars, inputs>>

\* The reply calls tools; one goroutine per call.
ReplyCalls(shape) ==
  /\ driver = "streaming" /\ round < MaxRounds
  /\ driver' = "tools" /\ round' = round + 1
  /\ gated' = shape
  /\ call' = [p \in DOMAIN shape |-> IF shape[p] THEN "ask" ELSE "start"]
  /\ answer' = [p \in DOMAIN shape |-> None]
  /\ UNCHANGED <<modelVars, submit, ctxDone, turn, inputs>>

\* A reply without calls, a provider error, or the end of the context.
ReplyEndsTurn ==
  /\ driver = "streaming" /\ driver' = "ending"
  /\ UNCHANGED <<modelVars, submit, ctxDone, turn, round, roundVars, inputs>>

\* All results are in: ask again, or stop because a guard tripped.
RoundEnds ==
  /\ driver = "tools" /\ \A p \in DOMAIN call : call[p] = "over"
  /\ driver' \in {"streaming", "ending"}
  /\ gated' = <<>> /\ call' = <<>> /\ answer' = <<>>
  /\ UNCHANGED <<modelVars, submit, ctxDone, turn, round, inputs>>

EndTurn ==
  /\ driver = "ending" /\ driver' = "waiting"
  /\ OnTurnDone
  /\ ctxDone' = FALSE
  /\ UNCHANGED <<submit, turn, round, roundVars, inputs>>
-----------------------------------------------------------------------------
(* The goroutine of call p: checkApproval, then the tool. *)

callFrame == <<submit, driver, ctxDone, turn, round, gated, inputs>>

Request(p) == [turn |-> turn, round |-> round, pos |-> p]

CallId(p) == IF SharedIds THEN p ELSE Request(p)

Moves(p, from, to) ==
  /\ driver = "tools" /\ call[p] = from /\ call' = [call EXCEPT ![p] = to]
  /\ UNCHANGED callFrame

\* TUIApprover.Approve: send the request, then wait for the answer or the context.
Ask(p) ==
  /\ Moves(p, "ask", "waiting")
  /\ OnApprovalRequest(Request(p))
  /\ UNCHANGED <<blocks, cancelSet, ticks, answer>>

Granted(p) ==
  /\ answer[p] = "yes" /\ Moves(p, "waiting", "start")
  /\ UNCHANGED <<modelVars, answer>>

\* Mutant: Approve waits for the answer alone.
RefusedByAnswer(p) ==
  /\ answer[p] = "no"
  /\ Moves(p, "waiting", "over")
  /\ UNCHANGED <<modelVars, answer>>

\* Denied calls are never reported to the Model.
Refused(p) ==
  /\ answer[p] = "no" \/ ctxDone
  /\ Moves(p, "waiting", "over")
  /\ UNCHANGED <<modelVars, answer>>

Start(p) ==
  /\ Moves(p, "start", "running")
  /\ OnToolStarted(CallId(p), Request(p))
  /\ UNCHANGED answer

\* The tool returns, or its context ends first.
Finish(p, status) ==
  /\ Moves(p, "running", "over")
  /\ OnToolFinished(CallId(p), status)
  /\ UNCHANGED answer
-----------------------------------------------------------------------------
(* The user's keys, and the tick timer. *)

Enter ==
  /\ state = "idle" /\ submit = "empty" /\ inputs < MaxInputs
  /\ submit' \in {"turn", "command"}
  /\ inputs' = inputs + 1
  /\ UNCHANGED <<modelVars, driver, ctxDone, turn, round, roundVars>>

\* y, n or Esc in the modal: the answer goes into the channel of the request on
\* display, which only a call of the current round still reads.
AnswerKey(verdict) ==
  /\ state = "approval" /\ approval # None
  /\ answer' = [p \in DOMAIN answer |->
                  IF Request(p) = approval THEN verdict ELSE answer[p]]
  /\ ActivateNext(queue)
  /\ UNCHANGED <<blocks, cancelSet, ticks, submit, driver, ctxDone, turn, round, gated,
                 call, inputs>>

TurnLive == driver \in {"streaming", "tools", "ending"}

\* Ctrl+C, or Esc.  A modal takes both: Ctrl+C does nothing there, Esc denies.
CtrlC ==
  /\ MayCancel /\ TurnLive
  /\ state # "approval" /\ cancelSet
  /\ ctxDone' = TRUE
  /\ UNCHANGED <<modelVars, submit, driver, turn, round, roundVars, inputs>>

\* turnTickMsg: a tick that finds the Model idle schedules no other one.
TickStops ==
  /\ ticks > 0 /\ state = "idle"
  /\ ticks' = ticks - 1
  /\ UNCHANGED <<state, priorState, approval, queue, blocks, cancelSet, submit, driver,
                 ctxDone, turn, round, roundVars, inputs>>

DriverStep == TakeInput \/ CommandDone \/ StartTurn \/ RoundEnds \/ EndTurn

ProviderStep == ReplyEndsTurn \/ \E shape \in Rounds : ReplyCalls(shape)

ToolStep(p) == Start(p) \/ Finish(p, "ok") \/ Finish(p, "error")

CallStep(p) == Ask(p) \/ Granted(p) \/ Refused(p) \/ ToolStep(p)

UserAnswers == AnswerKey("yes") \/ AnswerKey("no")

Next ==
  \/ DriverStep \/ ProviderStep
  \/ \E p \in DOMAIN call : CallStep(p)
  \/ Enter \/ UserAnswers \/ CtrlC
  \/ TickStops

Spec == Init /\ [][Next]_vars

Positions == UNION {DOMAIN r : r \in Rounds}

\* Goroutines run, replies and tools return.  Nobody has to press a key.
FairSpec ==
  /\ Spec
  /\ WF_vars(DriverStep) /\ WF_vars(ProviderStep)
  /\ \A p \in Positions : WF_vars(p \in DOMAIN call /\ CallStep(p))
-----------------------------------------------------------------------------
Requests == [turn : 1..MaxInputs, round : 1..MaxRounds, pos : Positions]

Statuses == {"running", "ok", "error"}

Phases == {"ask", "waiting", "start", "running", "over"}

\* The type of every variable of the Model, the driver and the calls.
TypeOK ==
  /\ state \in {"idle", "streaming", "toolRunning", "approval"}
  /\ priorState \in {"idle", "streaming", "toolRunning"}
  /\ approval \in Requests \cup {None} /\ queue \in Seq(Requests)
  /\ \A b \in DOMAIN blocks : blocks[b].status \in Statuses /\ blocks[b].owner \in Requests
  /\ cancelSet \in BOOLEAN /\ ctxDone \in BOOLEAN
  /\ ticks \in 0..MaxInputs /\ inputs \in 0..MaxInputs /\ turn \in 0..MaxInputs
  /\ round \in 0..MaxRounds
  /\ submit \in {"empty", "turn", "command"}
  /\ driver \in {"waiting", "command", "taken", "streaming", "tools", "ending"}
  /\ gated \in Rounds \cup {<<>>} /\ DOMAIN call = DOMAIN gated
  /\ DOMAIN answer = DOMAIN gated
  /\ \A p \in DOMAIN gated :
       call[p] \in Phases /\ answer[p] \in {None, "yes", "no"}

\* The screen leaves its input prompt exactly while a turn runs: no order of
\* started, finished, approval and done messages leaves it idle under a live turn,
\* where Enter would queue a second one, or busy after it, where nothing can be typed.
BusyIffTurn == (state # "idle") <=> TurnLive

\* The channel of an Approve holds one answer, and Update fills it on the program's
\* only goroutine: a request displayed or queued twice, or still there once it was
\* answered, would block the whole interface at the second answer.
UINeverBlocks ==
  /\ \A i, j \in DOMAIN queue : i # j => queue[i] # queue[j]
  /\ \A i \in DOMAIN queue : queue[i] # approval
  /\ \A p \in DOMAIN call :
       answer[p] # None => approval # Request(p) /\ \A i \in DOMAIN queue : queue[i] # Request(p)

\* A modal that takes the keys is about a call that still waits for its answer,
\* unless the turn was cancelled under it.
ModalIsLive ==
  state = "approval" =>
    \/ ctxDone
    \/ \E p \in DOMAIN call : approval = Request(p) /\ call[p] = "waiting"

\* No request gets lost: a call that waits for its answer is the one on display or one
\* behind it, also while a tool's message has the screen, while requests of a cancelled
\* turn still fill the queue, and after any number of answers.  A call that is neither
\* could only be got out of Approve by ending the turn.
WaitersAreAsked ==
  \A p \in DOMAIN call :
    call[p] = "waiting" /\ answer[p] = None =>
      approval = Request(p) \/ \E i \in DOMAIN queue : queue[i] = Request(p)

\* A cancelled turn gives the prompt back without another key, whatever mix of
\* modals, queued requests and tools it was in.
CancelReturns == (ctxDone /\ TurnLive) ~> (driver = "waiting" /\ state = "idle")

\* The user leaves no modal on display for ever.
Attentive == []<>(state # "approval")

\* A request is the Model's current one, and the screen shows something else.
ModalLost == approval # None /\ state # "approval"

\* A turn of an attentive user comes back to the prompt, or a modal lost the screen:
\* nothing else can hold it up.
PromptReturns == Attentive => (TurnLive ~> (state = "idle" \/ ModalLost))

\* model.go:66-67 says that approval "suspends everything else until a modal is
\* answered": a request that was displayed keeps the screen until then.
ModalSuspends == approval # None => state = "approval"
=============================================================================
