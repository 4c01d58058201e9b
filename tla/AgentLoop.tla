----------------------------- MODULE AgentLoop -----------------------------
(***************************************************************************)
(* internal/agent: one Agent driving one conversation.  Run (and RunStream, *)
(* which differs only in how the reply arrives) is a goroutine that asks    *)
(* the provider, hands each tool call of the reply to a goroutine of its    *)
(* own, waits for all of them and asks again, until a reply calls no tool,  *)
(* a guard trips or the provider fails.  Each call may first wait for the   *)
(* user's approval, and then runs in yet another goroutine that is          *)
(* abandoned when the context ends first.                                   *)
(*                                                                          *)
(* Contents are abstracted: what a call does is its ID, with Signature[id]  *)
(* standing for its "name:arguments" text and Gated for the tools that need *)
(* approval.  Token estimates depend on contents, so whether an estimate    *)
(* passes the compaction threshold is a free choice, and so is how much     *)
(* time has passed.                                                         *)
(***************************************************************************)
EXTENDS History

CONSTANTS
  Nil,          \* an entry of runTools' results slice nobody has written yet
  Replies,      \* the messages a provider may answer with
  UsageSteps,   \* the token counts (input + output) one reply may report
  Signature,    \* Signature[id]: the "name:arguments" text of a call
  Gated,        \* the calls whose tool needs approval
  Saved,        \* the conversations /load may bring in
  MaxTurns,     \* Guards.MaxTurns, 0 to disable
  TokenBudget,  \* Guards.TokenBudget, 0 to disable
  WallClock,    \* Guards.WallClock > 0
  ToolTimeout,  \* toolTimeout > 0
  KeepTurns,    \* CompactionPolicy.KeepTurns, 0 when no policy is set
  Scripts       \* bounds of the model: what a behaviour's user and provider may do

RepetitionThreshold == 3

\* Turns the user may still begin, rounds a turn may call tools in, and the replies
\* and token counts the provider chooses from.
Script == [left : Nat, rounds : Nat, replies : SUBSET Replies, usages : SUBSET UsageSteps]

ASSUME AgentAssumption ==
  /\ Nil \notin Ids
  /\ \A m \in Replies : m \in Message /\ m.role = "assistant" /\ m.results = <<>>
  /\ UsageSteps \subseteq Nat
  /\ Gated \subseteq Ids
  /\ \A s \in Saved : s \in Seq(Message) /\ Valid(s)
  /\ MaxTurns \in Nat /\ TokenBudget \in Nat /\ KeepTurns \in Nat
  /\ Scripts \subseteq Script
  /\ WallClock \in BOOLEAN /\ ToolTimeout \in BOOLEAN

VARIABLES
  messages,          \* Agent.history
  pc,                \* where the agent's goroutine is
  job,               \* what a summarization is for: a turn, or /compact
  rs,                \* roundState
  late,              \* the wall-clock guard's duration has passed
  cancelled,         \* the turn's context has been cancelled
  inFlight,          \* the pending provider request left before any cancellation
  calls,             \* the IDs of the round's calls, in call order
  status,            \* how far each call has come
  results,           \* runTools' results slice
  turnUsages,        \* Agent.turnUsages
  lastGuardTripped,  \* Agent.lastGuardTripped
  script             \* the behaviour's bounds

vars == <<messages, pc, job, rs, late, cancelled, inFlight, calls, status, results,
          turnUsages, lastGuardTripped, script>>

roundVars == <<calls, status, results>>

FreshRound == [turns |-> 0, usage |-> 0, streak |-> 0, signature |-> <<>>]

\* Run returns: its context, its roundState and its timers go with it.
Return ==
  /\ pc' = "idle" /\ job' = "turn"
  /\ rs' = FreshRound
  /\ late' = FALSE /\ cancelled' = FALSE /\ inFlight' = FALSE

Init ==
  /\ messages \in {<<>>} \cup Saved
  /\ pc = "idle" /\ job = "turn"
  /\ rs = FreshRound
  /\ late = FALSE /\ cancelled = FALSE /\ inFlight = FALSE
  /\ calls = <<>> /\ status = <<>> /\ results = <<>>
  /\ turnUsages = <<>>
  /\ lastGuardTripped = FALSE
  /\ script \in Scripts
-----------------------------------------------------------------------------
(* Starting a turn: maybeCompact, then the user's message. *)

NextPrompt ==
  /\ script.left > 0
  /\ script' = [script EXCEPT !.left = @ - 1]

BeginTurn(msgs) ==
  /\ messages' = Append(msgs, UserText)
  /\ lastGuardTripped' = FALSE
  /\ rs' = FreshRound
  /\ late' = FALSE
  /\ pc' = "chat" /\ inFlight' = ~cancelled

Run ==
  /\ pc = "idle" /\ NextPrompt
  /\ BeginTurn(messages)
  /\ UNCHANGED <<job, cancelled, roundVars, turnUsages>>

\* maybeCompact finds the estimate over the threshold and turns to elide.
RunCompactingFirst ==
  /\ pc = "idle" /\ NextPrompt
  /\ CompactionBoundary(messages, KeepTurns) > 0
  /\ pc' = "summarizing" /\ inFlight' = TRUE
  /\ UNCHANGED <<messages, job, rs, late, cancelled, roundVars, turnUsages,
                 lastGuardTripped>>

\* /compact; with nothing to elide it changes nothing.
ForceCompact ==
  /\ pc = "idle"
  /\ CompactionBoundary(messages, KeepTurns) > 0
  /\ job' = "compact"
  /\ pc' = "summarizing" /\ inFlight' = TRUE
  /\ UNCHANGED <<messages, rs, late, cancelled, roundVars, turnUsages,
                 lastGuardTripped, script>>

AfterCompaction(msgs) ==
  \/ job = "turn" /\ BeginTurn(msgs) /\ UNCHANGED <<job, cancelled>>
  \/ job = "compact" /\ messages' = msgs /\ Return /\ UNCHANGED lastGuardTripped

\* summarize's text is whatever the reply's Text blocks hold, if anything.
Summarized(summary) ==
  /\ pc = "summarizing" /\ inFlight
  /\ AfterCompaction(Compact(messages, KeepTurns, summary))
  /\ UNCHANGED <<roundVars, turnUsages, script>>

SummarizeFails ==
  /\ pc = "summarizing"
  /\ AfterCompaction(messages)
  /\ UNCHANGED <<roundVars, turnUsages, script>>
-----------------------------------------------------------------------------
(* One round: the provider's reply. *)

Count(usage) == [rs EXCEPT !.turns = @ + 1, !.usage = @ + usage]

\* Mutant: the explanation is returned but not put on record.
ExplainUnrecorded(msgs) == msgs

\* stopWithExplanation.
Explain(msgs) == Append(msgs, AssistantText("words"))

\* The last round of a turn, no tool called: a reply without a word of text is
\* followed by an explanation.
FinalReply(reply, usage) ==
  /\ pc = "chat" /\ inFlight
  /\ reply.uses = <<>>
  /\ turnUsages' = Append(turnUsages, Count(usage).usage)
  /\ messages' = IF reply.text = "words" THEN Append(messages, reply)
                 ELSE Explain(Append(messages, reply))
  /\ Return
  /\ UNCHANGED <<roundVars, lastGuardTripped, script>>

CallSignature(ids) == [p \in DOMAIN ids |-> Signature[ids[p]]]

Streak(ids) == IF CallSignature(ids) = rs.signature THEN rs.streak + 1 ELSE 1

\* runTools starts one goroutine per call; those of ungated tools go straight to
\* the tool, the others to the approver.
CallTools(reply, usage) ==
  /\ pc = "chat" /\ inFlight
  /\ reply.uses # <<>> /\ rs.turns < script.rounds
  /\ messages' = Append(messages, reply)
  /\ rs' = [Count(usage) EXCEPT !.streak = Streak(reply.uses),
                                !.signature = CallSignature(reply.uses)]
  /\ calls' = reply.uses
  /\ status' = [p \in DOMAIN reply.uses |->
                  IF reply.uses[p] \in Gated THEN "approval" ELSE "running"]
  /\ results' = [p \in DOMAIN reply.uses |-> Nil]
  /\ pc' = "tools" /\ inFlight' = FALSE
  /\ UNCHANGED <<job, late, cancelled, turnUsages, lastGuardTripped, script>>

\* Chat, Stream or Render returns an error; Run returns it at once.
ChatFails ==
  /\ pc = "chat"
  /\ Return
  /\ UNCHANGED <<messages, roundVars, turnUsages, lastGuardTripped, script>>
-----------------------------------------------------------------------------
(* The goroutines of a round's calls, and those of the tools they started. *)

toolFrame == <<messages, pc, job, rs, late, cancelled, inFlight, calls, turnUsages,
               lastGuardTripped, script>>

\* Mutant: the goroutines append to the results slice.
AnswerCallAppends(p) ==
  /\ status' = [status EXCEPT ![p] = "answered"]
  /\ results' = Append(results, calls[p])

\* Mutant: results fill the slice in the order the calls complete.
AnswerCallInTurn(p) ==
  /\ status' = [status EXCEPT ![p] = "answered"]
  /\ LET free == {q \in DOMAIN results : results[q] = Nil}
         first == CHOOSE q \in free : \A r \in free : q <= r
     IN results' = [results EXCEPT ![first] = calls[p]]

\* Position p of the results slice is written by the goroutine of call p.
AnswerCall(p) ==
  /\ status' = [status EXCEPT ![p] = "answered"]
  /\ results' = [results EXCEPT ![p] = calls[p]]

Approve(p) ==
  /\ pc = "tools" /\ status[p] = "approval"
  /\ status' = [status EXCEPT ![p] = "running"]
  /\ UNCHANGED <<toolFrame, results>>

\* Mutant: the approver waits for the user alone.
RefuseByUser(p) ==
  /\ pc = "tools" /\ status[p] = "approval" /\ ~cancelled
  /\ AnswerCall(p)
  /\ UNCHANGED toolFrame

\* The approver says no, or fails (a cancelled context, a broken console).
Refuse(p) ==
  /\ pc = "tools" /\ status[p] = "approval"
  /\ AnswerCall(p)
  /\ UNCHANGED toolFrame

\* The tool's goroutine puts its outcome in the done channel: a result, an error, or
\* the error a panic is recovered into.
ToolReturns(p) ==
  /\ pc = "tools" /\ status[p] = "running"
  /\ status' = [status EXCEPT ![p] = "returned"]
  /\ UNCHANGED <<toolFrame, results>>

\* doRunTool's select takes the outcome ...
Collect(p) ==
  /\ pc = "tools" /\ status[p] = "returned"
  /\ AnswerCall(p)
  /\ UNCHANGED toolFrame

\* Mutant: only a cancelled turn abandons a tool, its deadline does not.
AbandonOnCancel(p) ==
  /\ pc = "tools" /\ status[p] \in {"running", "returned"}
  /\ cancelled
  /\ AnswerCall(p)
  /\ UNCHANGED toolFrame

\* ... or the end of the tool's context, even when an outcome is waiting.  A tool that
\* still runs is left behind: the channel has room for what nobody will read.
Abandon(p) ==
  /\ pc = "tools" /\ status[p] \in {"running", "returned"}
  /\ cancelled \/ ToolTimeout
  /\ AnswerCall(p)
  /\ UNCHANGED toolFrame
-----------------------------------------------------------------------------
(* The end of a round. *)

\* Mutant: one round more than the limits allow.
GuardTrippedLate(r) ==
  \/ MaxTurns > 0 /\ r.turns > MaxTurns
  \/ TokenBudget > 0 /\ r.usage > TokenBudget
  \/ WallClock /\ late
  \/ r.streak > RepetitionThreshold

GuardTripped(r) ==
  \/ MaxTurns > 0 /\ r.turns >= MaxTurns
  \/ TokenBudget > 0 /\ r.usage >= TokenBudget
  \/ WallClock /\ late
  \/ r.streak >= RepetitionThreshold

RoundAnswered ==
  /\ pc = "tools"
  /\ \A p \in DOMAIN calls : status[p] = "answered"

NextRound ==
  /\ RoundAnswered /\ ~GuardTripped(rs)
  /\ messages' = Append(messages, ResultMessage(results))
  /\ pc' = "chat" /\ inFlight' = ~cancelled
  /\ calls' = <<>> /\ status' = <<>> /\ results' = <<>>
  /\ UNCHANGED <<job, rs, late, cancelled, turnUsages, lastGuardTripped, script>>

GuardStops ==
  /\ RoundAnswered /\ GuardTripped(rs)
  /\ messages' = Explain(Append(messages, ResultMessage(results)))
  /\ turnUsages' = Append(turnUsages, rs.usage)
  /\ lastGuardTripped' = TRUE
  /\ Return
  /\ calls' = <<>> /\ status' = <<>> /\ results' = <<>>
  /\ UNCHANGED script
-----------------------------------------------------------------------------
(* The surroundings: the user's Ctrl+C, the clock, /new and /load. *)

Cancel ==
  /\ pc # "idle" /\ ~cancelled
  /\ cancelled' = TRUE
  /\ UNCHANGED <<messages, pc, job, rs, late, inFlight, roundVars, turnUsages,
                 lastGuardTripped, script>>

ClockPasses ==
  /\ WallClock /\ pc \in {"chat", "tools"} /\ ~late
  /\ late' = TRUE
  /\ UNCHANGED <<messages, pc, job, rs, cancelled, inFlight, roundVars, turnUsages,
                 lastGuardTripped, script>>

Replace(msgs) ==
  /\ pc = "idle"
  /\ messages' = msgs
  /\ UNCHANGED <<pc, job, rs, late, cancelled, inFlight, roundVars, turnUsages,
                 lastGuardTripped, script>>

Reset == Replace(<<>>)

LoadInto == \E s \in Saved : Replace(s)

CallStep(p) ==
  \/ Approve(p) \/ Refuse(p)
  \/ ToolReturns(p) \/ Collect(p) \/ Abandon(p)

Reply ==
  \E reply \in script.replies, usage \in script.usages :
    FinalReply(reply, usage) \/ CallTools(reply, usage)

SummaryArrives == \E summary \in Texts \ {"none"} : Summarized(summary)

Next ==
  \/ Run \/ RunCompactingFirst \/ ForceCompact
  \/ SummaryArrives \/ SummarizeFails
  \/ Reply \/ ChatFails
  \/ \E p \in DOMAIN calls : CallStep(p)
  \/ NextRound \/ GuardStops
  \/ Cancel \/ ClockPasses
  \/ Reset \/ LoadInto

Spec == Init /\ [][Next]_vars
-----------------------------------------------------------------------------
(* Fairness. *)

CONSTANT Positions      \* the call positions a round may have

\* What ends a wait inside one call, with no user and no tool: an outcome that is
\* there, the tool's deadline, the end of the context.
Wakes(p) == Collect(p) \/ Abandon(p) \/ (cancelled /\ Refuse(p))

\* The agent's own goroutines are scheduled, and provider and approver return an error
\* once the context has ended (the HTTP clients and TUIApprover select on it).  Nothing
\* is assumed of a tool, which may never return, nor, before that, of provider and user.
FairSpec ==
  /\ Spec
  /\ WF_vars(cancelled /\ SummarizeFails)
  /\ WF_vars(cancelled /\ ChatFails)
  /\ \A p \in Positions : WF_vars(p \in DOMAIN calls /\ Wakes(p))
  /\ WF_vars(NextRound \/ GuardStops)
-----------------------------------------------------------------------------
(* Properties. *)

Statuses == {"approval", "running", "returned", "answered"}

\* Types, and which variables are live in which state of the agent's goroutine.
TypeOK ==
  /\ messages \in Seq(Message)
  /\ pc \in {"idle", "summarizing", "chat", "tools"}
  /\ job \in {"turn", "compact"}
  /\ rs \in [turns : Nat, usage : Nat, streak : Nat, signature : Seq({Signature[id] : id \in Ids})]
  /\ late \in BOOLEAN /\ cancelled \in BOOLEAN /\ inFlight \in BOOLEAN
  /\ calls \in Seq(Ids)
  /\ status \in [DOMAIN calls -> Statuses]
  /\ results \in [DOMAIN calls -> Ids \cup {Nil}]
  /\ turnUsages \in Seq(Nat)
  /\ lastGuardTripped \in BOOLEAN
  /\ script \in Script

\* Whenever the record can be saved, loaded over or sent to the provider, every
\* tool call in it is answered by exactly its results in call order: the comment
\* of Run ("history always satisfies invariant 3"), under concurrent tools,
\* refusals, timeouts, cancellation, provider errors and compaction.
AlwaysAnswered == pc # "tools" => Valid(messages)

\* The rounds of the turn in progress: the messages that called tools since the
\* last prompt.
TurnRounds ==
  {i \in 1..Len(messages) : /\ messages[i].uses # <<>>
                            /\ \A j \in TurnStarts(messages) : j < i}

SameCalls(i, j) == CallSignature(messages[i].uses) = CallSignature(messages[j].uses)

\* The provider is never asked for another round of a turn whose record shows
\* MaxTurns rounds, or whose last RepetitionThreshold rounds made the same calls
\* (both read off the record, not off the counters runRound keeps), or whose
\* counted usage has reached the budget.
GuardsBoundTheTurn ==
  pc = "chat" =>
    /\ MaxTurns > 0 => Cardinality(TurnRounds) < MaxTurns
    /\ TokenBudget > 0 => rs.usage < TokenBudget
    /\ ~\E i \in TurnRounds :
          /\ Cardinality({j \in TurnRounds : j >= i}) = RepetitionThreshold
          /\ \A j \in TurnRounds : j >= i => SameCalls(i, j)

\* The Validate backstop in History.Compact never fires: at every point where a
\* summary may arrive, cutting at the boundary yields a well-formed record.
CompactionNeverRefused ==
  pc = "summarizing" =>
    LET b == CompactionBoundary(messages, KeepTurns)
    IN b > 0 /\ Valid(Compacted(messages, b, "words"))

Fails == messages' = messages /\ turnUsages' = turnUsages

Speaks ==
  /\ messages'[Len(messages')].role = "assistant"
  /\ messages'[Len(messages')].text = "words"
  /\ Len(turnUsages') = Len(turnUsages) + 1
  /\ turnUsages'[Len(turnUsages')] >= rs.usage

\* A turn never ends in silence: either it fails, adding nothing and recording
\* no usage, or it leaves the assistant's words last and its usage recorded
\* (the comment in runRound on replies without text).
NoSilentEnd == [][pc' = "idle" /\ pc \in {"chat", "tools"} => Fails \/ Speaks]_vars

\* No request to the provider and no prompt of the approver stays open for ever.
Attended ==
  /\ []<>(pc \notin {"chat", "summarizing"})
  /\ []<>(\A p \in DOMAIN calls : status[p] # "approval")

\* "runTool always produces a ToolResult": with a turn limit, a tool deadline and
\* a provider and user that answer, a turn ends even if no tool ever returns.
TurnEnds == Attended => (pc # "idle" ~> pc = "idle")

\* Ctrl+C alone ends the turn, though the provider answers nothing, no tool returns and
\* nobody is at the prompt.
CancelEndsTurn == cancelled /\ pc # "idle" ~> pc = "idle"

\* The agent implements the conversation: the message that opens a round is not
\* part of it until its answers are.
Abstract == INSTANCE Conversation WITH
  record <- IF pc = "tools" THEN SubSeq(messages, 1, Len(messages) - 1) ELSE messages,
  open   <- pc \in {"chat", "tools"}

\* The record only ever moves by whole steps of Conversation.
WholeSteps == Abstract!Spec
=============================================================================
