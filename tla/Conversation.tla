---------------------------- MODULE Conversation ----------------------------
(***************************************************************************)
(* What an agent promises about its conversation, with none of the          *)
(* goroutines that produce it.  The record grows by whole steps: a prompt,  *)
(* a round (a message that calls tools together with all its answers), or   *)
(* the assistant's last words of the turn.  Between turns it may be folded  *)
(* at the start of a turn, cleared or replaced; nothing else ever happens   *)
(* to it.                                                                   *)
(***************************************************************************)
EXTENDS History

CONSTANTS KeepTurns, Saved

VARIABLES record,   \* the conversation, up to the last whole step
          open      \* a turn is in progress

vars == <<record, open>>

Init == record \in {<<>>} \cup Saved /\ open = FALSE

Grows(n) == Len(record') = Len(record) + n /\ SubSeq(record', 1, Len(record)) = record

LastWords == LET m == record'[Len(record')] IN m.role = "assistant" /\ m.text = "words" /\ m.uses = <<>>

\* The two messages after position n are a round.
RoundAt(n) ==
  LET asked == record'[n+1] IN
  /\ asked.role = "assistant" /\ asked.uses # <<>>
  /\ record'[n+2] = ResultMessage(asked.uses)

Prompt == ~open /\ open' = TRUE /\ record' = Append(record, UserText)

Round == open /\ open' = TRUE /\ Grows(2) /\ RoundAt(Len(record))

\* A turn that ends well ends with words: an answer, an explanation after an
\* empty reply, or an explanation after the round that tripped a guard.
Answer ==
  /\ open /\ open' = FALSE /\ LastWords
  /\ \/ Grows(1)
     \/ Grows(2) /\ record'[Len(record) + 1].role = "assistant"
                 /\ record'[Len(record) + 1].uses = <<>>
     \/ Grows(3) /\ RoundAt(Len(record))

\* A turn that fails leaves what it had.
Fail == open /\ open' = FALSE /\ record' = record

\* The oldest messages give way to one summary; the last KeepTurns turns stay
\* as they were.  A turn may start in the same step.
FoldTo(msgs) ==
  \E b \in 1..Len(record) - 1, summary \in Texts \ {"none"} :
    /\ msgs = <<AssistantText(summary)>> \o SubSeq(record, b + 1, Len(record))
    /\ IsTurnStart(record[b + 1])
    /\ Cardinality({i \in TurnStarts(record) : i > b}) = KeepTurns

Fold == ~open /\ (\/ open' = FALSE /\ FoldTo(record')
                  \/ open' = TRUE /\ record' # <<>>
                     /\ record'[Len(record')] = UserText
                     /\ FoldTo(SubSeq(record', 1, Len(record') - 1)))

Replace == ~open /\ open' = FALSE /\ record' \in {<<>>} \cup Saved

Next == Prompt \/ Round \/ Answer \/ Fail \/ Fold \/ Replace

Spec == Init /\ [][Next]_vars
=============================================================================
