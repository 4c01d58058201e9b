------------------------------- MODULE Round -------------------------------
(***************************************************************************)
(* What every tool call of a round goes through, whatever its tool: the     *)
(* approval of the plain REPL's ConsoleApprover, the goroutine of its own,  *)
(* the context that may end first, and the answer.  The calls of a round    *)
(* run at the same time; the next round begins when all of them have been   *)
(* answered, while tools that were abandoned may still be at work.  Once    *)
(* the turn is cancelled it has no next round.                              *)
(*                                                                         *)
(* AgentLoop has the rounds' place in a turn and the guards that end it;    *)
(* here the calls are told apart by what their tools do to the workspace    *)
(* (FileTools) and to the token budget (SubAgent).  ToolRound joins them.   *)
(***************************************************************************)
EXTENDS Integers, Sequences, FiniteSets

CONSTANTS
  Calls,        \* the tool calls the model may issue
  None,         \* nothing, yet
  Tool,         \* Tool[c]: the name of the tool c calls
  WellFormed,   \* the calls whose input satisfies the tool's schema
  Wanted,       \* the calls the user says yes to
  Scenarios     \* the sequences of rounds, each a set of calls, to look at

Gated == {"write_file", "edit_file", "run_command"}

ASSUME RoundAssumption ==
  /\ None \notin Calls \cup {"ok", "error", "denied", "abandoned"}
  /\ Wanted \subseteq Calls /\ WellFormed \subseteq Calls
  /\ \A s \in Scenarios : /\ s \in Seq(SUBSET Calls)
                           /\ \A i, j \in DOMAIN s : i # j => s[i] \cap s[j] = {}

SmallerOf(a, b) == IF a < b THEN a ELSE b

VARIABLES
  todo,       \* the rounds still to come
  round,      \* the calls of the round in progress, or of the last one
  phase,      \* each call's goroutine: later, approval, asking, running, over
  work,       \* how far its tool has come: see FileTools and SubAgent
  answer,     \* its ToolResult: None, ok, error, denied or abandoned
  stopped,    \* the calls whose tool context has ended
  cancelled,  \* the turn's context has ended
  prompts,    \* the console's prompts, in the order they were written
  lines,      \* how many lines the user has typed, one for each prompt in order
  read,       \* how many of those the approvers have read
  consent,    \* history: the prompt whose line a call's approver read
  crossed     \* history: two prompts have waited for an answer at once

callVars == <<phase, work, answer>>
contexts == <<stopped, cancelled>>
console == <<prompts, lines, read, consent, crossed>>
plan == <<todo, round>>

RoundInit ==
  /\ todo \in Scenarios /\ round = {}
  /\ phase = [c \in Calls |-> "later"]
  /\ work = [c \in Calls |-> "start"]
  /\ answer = [c \in Calls |-> None]
  /\ stopped = {} /\ cancelled = FALSE
  /\ prompts = <<>> /\ lines = 0 /\ read = 0
  /\ consent = [c \in Calls |-> None] /\ crossed = FALSE

Answered == \A c \in round : answer[c] # None
Stopped(c) == cancelled \/ c \in stopped

\* Registry.Run on a call whose input the schema does not admit.
Rejects(c) == c \notin WellFormed
-----------------------------------------------------------------------------
\* Mutant: the loop goes on while tools still run, without waiting for the round.
BeginRoundEarly ==
  /\ ~cancelled /\ todo # <<>>
  /\ todo' = Tail(todo) /\ round' = Head(todo)
  /\ phase' = [c \in Calls |-> IF c \in Head(todo) THEN "approval" ELSE phase[c]]
  /\ UNCHANGED <<work, answer, contexts, console>>

\* runTools hands every call of a reply to a goroutine.
BeginRound ==
  /\ Answered /\ ~cancelled /\ todo # <<>>
  /\ todo' = Tail(todo) /\ round' = Head(todo)
  /\ phase' = [c \in Calls |-> IF c \in Head(todo) THEN "approval" ELSE phase[c]]
  /\ UNCHANGED <<work, answer, contexts, console>>

\* checkApproval lets a call of an ungated tool through.
NeedsNoApproval(c) ==
  /\ phase[c] = "approval" /\ Tool[c] \notin Gated
  /\ phase' = [phase EXCEPT ![c] = "running"]
  /\ UNCHANGED <<plan, work, answer, contexts, console>>

\* ConsoleApprover.Approve writes its prompt (after the tool's Preview) ...
Prompt(c) ==
  /\ phase[c] = "approval" /\ Tool[c] \in Gated
  /\ phase' = [phase EXCEPT ![c] = "asking"]
  /\ prompts' = Append(prompts, c)
  /\ crossed' = (crossed \/ \E d \in Calls : phase[d] = "asking")
  /\ UNCHANGED <<plan, work, answer, contexts, lines, read, consent>>

\* ... the user answers the prompts from the first to the last ...
UserTypes ==
  /\ lines < Len(prompts)
  /\ lines' = lines + 1
  /\ UNCHANGED <<plan, callVars, contexts, prompts, read, consent, crossed>>

\* Mutant: any line is a yes.
ReadAnyLine(c) ==
  /\ phase[c] = "asking" /\ read < lines
  /\ read' = read + 1
  /\ consent' = [consent EXCEPT ![c] = prompts[read + 1]]
  /\ phase' = [phase EXCEPT ![c] = "running"]
  /\ UNCHANGED <<plan, work, answer, contexts, prompts, lines, crossed>>

\* ... and whichever approver reads next gets the next line.  It does not look
\* at its context while it waits.
ReadLine(c) ==
  /\ phase[c] = "asking" /\ read < lines
  /\ read' = read + 1
  /\ consent' = [consent EXCEPT ![c] = prompts[read + 1]]
  /\ IF prompts[read + 1] \in Wanted
     THEN phase' = [phase EXCEPT ![c] = "running"] /\ UNCHANGED answer
     ELSE phase' = [phase EXCEPT ![c] = "over"] /\ answer' = [answer EXCEPT ![c] = "denied"]
  /\ UNCHANGED <<plan, work, contexts, prompts, lines, crossed>>

\* toolTimeout passes; the user or a signal cancels the turn.
Deadline(c) ==
  /\ phase[c] = "running" /\ ~Stopped(c)
  /\ stopped' = stopped \cup {c}
  /\ UNCHANGED <<plan, callVars, cancelled, console>>

Cancel ==
  /\ ~Answered /\ ~cancelled
  /\ cancelled' = TRUE
  /\ UNCHANGED <<plan, callVars, stopped, console>>

\* The tool's goroutine has put its outcome in the done channel.
Outcomes == {"ok", "error"}

\* doRunTool's select takes the outcome or, if the context has ended, may not.
Collect(c) ==
  /\ phase[c] = "running" /\ work[c] \in Outcomes
  /\ answer' = [answer EXCEPT ![c] = work[c]]
  /\ phase' = [phase EXCEPT ![c] = "over"]
  /\ UNCHANGED <<plan, work, contexts, console>>

Abandon(c) ==
  /\ phase[c] = "running" /\ Stopped(c)
  /\ answer' = [answer EXCEPT ![c] = "abandoned"]
  /\ phase' = [phase EXCEPT ![c] = "over"]
  /\ stopped' = stopped \cup {c}
  /\ UNCHANGED <<plan, work, cancelled, console>>

\* A tool that has begun goes on, abandoned or not, until it has an outcome.
AtWork(c) == /\ phase[c] = "running" \/ answer[c] = "abandoned"
             /\ work[c] \notin Outcomes

\* One step of c's tool, which moves nothing else of the round.
Works(c, next) ==
  /\ AtWork(c)
  /\ work' = [work EXCEPT ![c] = next]
  /\ UNCHANGED <<plan, phase, answer, contexts, console>>
=============================================================================
