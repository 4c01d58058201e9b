------------------------------ MODULE History ------------------------------
(***************************************************************************)
(* The conversation record of internal/history: what a message is, what    *)
(* makes a list of messages well formed (History.Validate), where it may   *)
(* be cut (CompactionBoundary) and what cutting it yields                  *)
(* (History.Compact).                                                      *)
(*                                                                         *)
(* A Go message is a role and a list of blocks.  Every function of the     *)
(* package looks at one kind of block at a time: the ToolUse IDs in order, *)
(* the ToolResult IDs in order, whether there is a Text block (and whether *)
(* all of its text is empty), whether there is anything else.  The order   *)
(* BETWEEN kinds is observed by nothing, so a message is those four facts. *)
(***************************************************************************)
EXTENDS Integers, Sequences, FiniteSets

CONSTANT Ids            \* the IDs a provider gives its ToolUse blocks

Roles == {"user", "assistant"}

\* "none": no Text block.  "blank": Text blocks, all empty.  "words": some text.
Texts == {"none", "blank", "words"}

Message == [role     : Roles,
            text     : Texts,
            thinking : BOOLEAN,
            uses     : Seq(Ids),
            results  : Seq(Ids)]

UserText == [role |-> "user", text |-> "words", thinking |-> FALSE,
             uses |-> <<>>, results |-> <<>>]

AssistantText(text) == [role |-> "assistant", text |-> text, thinking |-> FALSE,
                        uses |-> <<>>, results |-> <<>>]

ResultMessage(ids) == [role |-> "user", text |-> "none", thinking |-> FALSE,
                       uses |-> <<>>, results |-> ids]

-----------------------------------------------------------------------------
(* Validate and its helpers. *)

\* precededByToolUse: message i follows an assistant message that calls tools.
PrecededByToolUse(msgs, i) ==
  i > 1 /\ msgs[i-1].role = "assistant" /\ msgs[i-1].uses # <<>>

\* validatePairing: next is a user message made of ToolResult blocks only, one
\* for each call and in call order.
ValidPairing(calls, next) ==
  /\ next.role = "user"
  /\ next.text = "none" /\ ~next.thinking /\ next.uses = <<>>
  /\ next.results = calls

ValidAt(msgs, i) ==
  LET m == msgs[i] IN
  /\ m.uses # <<>> => m.role = "assistant"
  /\ m.results # <<>> => PrecededByToolUse(msgs, i)
  /\ m.uses # <<>> => i < Len(msgs) /\ ValidPairing(m.uses, msgs[i+1])

Valid(msgs) == \A i \in 1..Len(msgs) : ValidAt(msgs, i)

-----------------------------------------------------------------------------
(* Compaction. *)

\* Mutant: a message of tool results counts as the start of a turn.
IsTurnStartAnyUser(m) == m.role = "user"

IsTurnStart(m) == m.role = "user" /\ m.text # "none"

TurnStarts(msgs) == {i \in 1..Len(msgs) : IsTurnStart(msgs[i])}

\* The turn starts that are the keepTurns-th counting back from the end: one
\* position, or none when there are fewer turns.
CutPoints(msgs, keepTurns) ==
  {i \in TurnStarts(msgs) :
     Cardinality({j \in TurnStarts(msgs) : i <= j}) = keepTurns}

\* How many messages a compaction drops (the Go index of the first one kept).
CompactionBoundary(msgs, keepTurns) ==
  IF keepTurns <= 0 \/ CutPoints(msgs, keepTurns) = {}
  THEN 0
  ELSE (CHOOSE i \in CutPoints(msgs, keepTurns) : TRUE) - 1

\* Mutant: the cut keeps one message too many.
CompactedOneMore(msgs, boundary, summary) ==
  <<AssistantText(summary)>> \o SubSeq(msgs, boundary, Len(msgs))

\* The list Compact builds before it decides whether to commit it.  The
\* summary is a Text block of an assistant message whatever the model wrote.
Compacted(msgs, boundary, summary) ==
  <<AssistantText(summary)>> \o SubSeq(msgs, boundary + 1, Len(msgs))

\* History.Compact: nothing to drop, or a trial that fails Validate, leaves the
\* record as it was.
Compact(msgs, keepTurns, summary) ==
  LET boundary == CompactionBoundary(msgs, keepTurns)
      trial    == Compacted(msgs, boundary, summary)
  IN IF boundary > 0 /\ Valid(trial) THEN trial ELSE msgs
=============================================================================
