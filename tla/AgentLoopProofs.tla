-------------------------- MODULE AgentLoopProofs --------------------------
(***************************************************************************)
(* AlwaysAnswered for every set of IDs, every provider and every guard:    *)
(* between rounds the record answers every call it holds.  While a round   *)
(* runs the record ends in an unanswered message, so the invariant is      *)
(* strengthened with what the round still owes: the record becomes well    *)
(* formed once the calls are answered in order (RoundOwed), and each       *)
(* goroutine that is done has written the answer to its own call.          *)
(*                                                                         *)
(* On top of it, TInv says what the turn's goroutine knows of the record:  *)
(* there is something to fold while it summarizes, its counters agree with *)
(* the rounds on record.  From both follow the guards, the unreachable     *)
(* refusal of a compaction, the words that end a turn and, step by step,   *)
(* the refinement of Conversation.                                         *)
(***************************************************************************)
EXTENDS AgentLoop, FiniteSetTheorems, TLAPS

RoundOwed ==
  pc = "tools" =>
    /\ Valid(Append(messages, ResultMessage(calls)))
    /\ \A p \in DOMAIN calls : status[p] = "answered" => results[p] = calls[p]

IInv == TypeOK /\ AlwaysAnswered /\ RoundOwed
-----------------------------------------------------------------------------
(* Well-formed records, for every record and every set of IDs. *)

\* A message that neither calls tools nor answers any may always be added: no
\* call is left open at the end of a well-formed record.
LEMMA AppendPlain ==
  ASSUME NEW s \in Seq(Message), Valid(s),
         NEW m \in Message, m.uses = <<>>, m.results = <<>>
  PROVE  Append(s, m) \in Seq(Message) /\ Valid(Append(s, m))
<1> DEFINE t == Append(s, m)
<1>1. t \in Seq(Message) /\ Len(t) = Len(s) + 1
  OBVIOUS
<1>2. SUFFICES ASSUME NEW i \in 1..Len(t) PROVE ValidAt(t, i)
  BY <1>1 DEF Valid
<1>3. CASE i = Len(t)
  BY <1>3 DEF ValidAt
<1>4. CASE i \in 1..Len(s)
  <2>1. ValidAt(s, i)
    BY <1>4 DEF Valid
  <2>2. t[i] = s[i] /\ (i > 1 => t[i-1] = s[i-1])
    BY <1>4
  <2>3. i < Len(s) => t[i+1] = s[i+1]
    BY <1>4
  <2>4. QED
    BY <2>1, <2>2, <2>3, <1>4 DEF ValidAt, PrecededByToolUse
<1>5. QED
  BY <1>1, <1>3, <1>4

\* A message that calls tools may be added together with the message that
\* answers its calls in order.
LEMMA AppendRound ==
  ASSUME NEW s \in Seq(Message), Valid(s),
         NEW m \in Message, m.role = "assistant", m.uses # <<>>, m.results = <<>>
  PROVE  Valid(Append(Append(s, m), ResultMessage(m.uses)))
<1> DEFINE r == ResultMessage(m.uses)
           t == Append(Append(s, m), r)
<1>1. /\ r \in Message /\ t \in Seq(Message)
      /\ Len(t) = Len(s) + 2 /\ t[Len(s)+1] = m /\ t[Len(s)+2] = r
      /\ \A i \in 1..Len(s) : t[i] = s[i]
  BY DEF ResultMessage, Message, Roles, Texts
<1>2. SUFFICES ASSUME NEW i \in 1..Len(t) PROVE ValidAt(t, i)
  BY <1>1 DEF Valid
<1>3. CASE i = Len(s) + 2
  BY <1>1, <1>3 DEF ValidAt, PrecededByToolUse, ResultMessage
<1>4. CASE i = Len(s) + 1
  BY <1>1, <1>4 DEF ValidAt, ValidPairing, ResultMessage
<1>5. CASE i \in 1..Len(s)
  <2>1. ValidAt(s, i)
    BY <1>5 DEF Valid
  <2>2. t[i] = s[i] /\ (i > 1 => t[i-1] = s[i-1]) /\ (i < Len(s) => t[i+1] = s[i+1])
    BY <1>1, <1>5
  <2>3. QED
    BY <2>1, <2>2, <1>1, <1>5 DEF ValidAt, PrecededByToolUse
<1>6. QED
  BY <1>1, <1>3, <1>4, <1>5

\* Where CompactionBoundary cuts, a turn starts.
LEMMA BoundaryStartsTurn ==
  ASSUME NEW s \in Seq(Message), NEW k \in Nat, CompactionBoundary(s, k) > 0
  PROVE  LET b == CompactionBoundary(s, k)
         IN b \in 1..Len(s) - 1 /\ IsTurnStart(s[b+1])
<1> DEFINE i == CHOOSE i \in CutPoints(s, k) : TRUE
<1>1. CutPoints(s, k) # {} /\ CompactionBoundary(s, k) = i - 1
  BY DEF CompactionBoundary
<1>2. i \in CutPoints(s, k)
  BY <1>1
<1>3. i \in 1..Len(s) /\ IsTurnStart(s[i])
  BY <1>2 DEF CutPoints, TurnStarts
<1>4. QED
  BY <1>1, <1>3

\* The comment of CompactionBoundary, "automatically safe to cut at": cutting a
\* well-formed record where a turn starts leaves a well-formed record.
LEMMA CutIsValid ==
  ASSUME NEW s \in Seq(Message), Valid(s),
         NEW b \in 1..Len(s) - 1, IsTurnStart(s[b+1]),
         NEW summary \in Texts
  PROVE  Compacted(s, b, summary) \in Seq(Message) /\ Valid(Compacted(s, b, summary))
<1> DEFINE head == AssistantText(summary)
           t == Compacted(s, b, summary)
<1>1. /\ head \in Message /\ t \in Seq(Message)
      /\ Len(t) = Len(s) - b + 1 /\ t[1] = head
      /\ \A i \in 2..Len(t) : t[i] = s[i + b - 1]
  <2> DEFINE rest == SubSeq(s, b+1, Len(s))
  <2>1. head \in Message
    BY DEF AssistantText, Message, Roles, Texts
  <2>2. /\ rest \in Seq(Message) /\ Len(rest) = Len(s) - b
        /\ \A i \in 1..Len(rest) : rest[i] = s[i + b]
    OBVIOUS
  <2>3. <<head>> \in Seq(Message) /\ Len(<<head>>) = 1 /\ <<head>>[1] = head
    BY <2>1
  <2> HIDE DEF head, rest
  <2>4. t = <<head>> \o rest
    BY DEF Compacted, head, rest
  <2>5. t \in Seq(Message) /\ Len(t) = 1 + Len(rest)
    BY <2>2, <2>3, <2>4
  <2>6. ASSUME NEW i \in 1..Len(t) PROVE t[i] = IF i = 1 THEN head ELSE rest[i-1]
    BY <2>2, <2>3, <2>4, <2>5
  <2>7. \A i \in 2..Len(t) : t[i] = s[i + b - 1]
    <3> TAKE i \in 2..Len(t)
    <3>1. i - 1 \in 1..Len(rest) /\ (i - 1) + b = i + b - 1
      BY <2>2, <2>5
    <3>2. rest[i-1] = s[(i-1) + b]
      BY <2>2, <3>1
    <3>3. QED
      BY <2>6, <3>1, <3>2
  <2>8. QED
    BY <2>1, <2>2, <2>5, <2>6, <2>7
<1>2. SUFFICES ASSUME NEW i \in 1..Len(t) PROVE ValidAt(t, i)
  BY <1>1 DEF Valid
<1>3. CASE i = 1
  BY <1>1, <1>3 DEF ValidAt, AssistantText
<1>4. CASE i = 2
  <2>1. t[2] = s[b+1] /\ ValidAt(s, b+1)
    BY <1>1, <1>4 DEF Valid
  <2>2. s[b+1].role = "user" /\ s[b+1].text # "none"
    BY DEF IsTurnStart
  <2>3. s[b+1].uses = <<>>
    BY <2>1, <2>2 DEF ValidAt
  <2>4. s[b+1].results = <<>>
    <3>1. ValidAt(s, b)
      BY DEF Valid
    <3>2. s[b].uses # <<>> => s[b+1].text = "none"
      BY <3>1 DEF ValidAt, ValidPairing
    <3>3. QED
      BY <3>2, <2>1, <2>2 DEF ValidAt, PrecededByToolUse
  <2>5. QED
    BY <1>4, <2>1, <2>3, <2>4 DEF ValidAt
<1>5. CASE i \in 3..Len(t)
  <2> DEFINE j == i + b - 1
  <2>1. j \in 2..Len(s) /\ ValidAt(s, j)
    BY <1>1, <1>5 DEF Valid
  <2>2. t[i] = s[j] /\ t[i-1] = s[j-1] /\ (i < Len(t) => t[i+1] = s[j+1])
    <3>1. i \in 2..Len(t) /\ i - 1 \in 2..Len(t) /\ (i < Len(t) => i + 1 \in 2..Len(t))
      BY <1>1, <1>5
    <3>2. (i - 1) + b - 1 = j - 1 /\ (i + 1) + b - 1 = j + 1
      BY <1>5
    <3> HIDE DEF t
    <3>3. \A k \in 2..Len(t) : t[k] = s[k + b - 1]
      BY <1>1
    <3> HIDE DEF j
    <3>4. t[i] = s[i + b - 1] /\ t[i-1] = s[(i-1) + b - 1]
      BY <3>1, <3>3
    <3>5. i < Len(t) => t[i+1] = s[(i+1) + b - 1]
      BY <3>1, <3>3
    <3>6. QED
      BY <3>2, <3>4, <3>5 DEF j
  <2>3. i < Len(t) <=> j < Len(s)
    BY <1>1, <1>5
  <2>4. QED
    BY <2>1, <2>2, <2>3, <1>5 DEF ValidAt, PrecededByToolUse
<1>6. QED
  BY <1>1, <1>3, <1>4, <1>5

\* History.Compact keeps a well-formed record well formed, and when there is
\* something to drop its trial always passes: the refusal is unreachable.
THEOREM CompactSafe ==
  ASSUME NEW s \in Seq(Message), Valid(s), NEW k \in Nat, NEW summary \in Texts
  PROVE  /\ Compact(s, k, summary) \in Seq(Message)
         /\ Valid(Compact(s, k, summary))
         /\ LET b == CompactionBoundary(s, k)
            IN b > 0 => Compact(s, k, summary) = Compacted(s, b, summary)
<1> DEFINE b == CompactionBoundary(s, k)
<1>1. CASE b > 0
  <2>1. b \in 1..Len(s) - 1 /\ IsTurnStart(s[b+1])
    BY <1>1, BoundaryStartsTurn
  <2>2. Compacted(s, b, summary) \in Seq(Message) /\ Valid(Compacted(s, b, summary))
    BY <2>1, CutIsValid
  <2>3. QED
    BY <1>1, <2>2 DEF Compact
<1>2. CASE ~(b > 0)
  BY <1>2 DEF Compact
<1>3. QED
  BY <1>1, <1>2
-----------------------------------------------------------------------------
(* Types of what the actions build. *)

LEMMA TextsAreMessages ==
  /\ UserText \in Message
  /\ \A text \in Texts : AssistantText(text) \in Message
  /\ \A ids \in Seq(Ids) : ResultMessage(ids) \in Message
BY DEF UserText, AssistantText, ResultMessage, Message, Roles, Texts

LEMMA SavedAreValid == \A s \in {<<>>} \cup Saved : s \in Seq(Message) /\ Valid(s)
<1>1. <<>> \in Seq(Message) /\ Valid(<<>>)
  BY DEF Valid
<1>2. \A s \in Saved : s \in Seq(Message) /\ Valid(s)
  BY AgentAssumption DEF AgentAssumption
<1>3. QED
  BY <1>1, <1>2

\* Adding the assistant's text, or the user's, to a well-formed record.
LEMMA SayingIsValid ==
  ASSUME NEW s \in Seq(Message), Valid(s), NEW m,
         m = UserText \/ \E text \in Texts : m = AssistantText(text)
  PROVE  m \in Message /\ Append(s, m) \in Seq(Message) /\ Valid(Append(s, m))
<1>1. m \in Message
  BY TextsAreMessages
<1>2. m.uses = <<>> /\ m.results = <<>>
  BY DEF UserText, AssistantText
<1>3. QED
  BY <1>1, <1>2, AppendPlain

RoundStates == [turns : Nat, usage : Nat, streak : Nat,
                signature : Seq({Signature[id] : id \in Ids})]

LEMMA FreshRoundType == FreshRound \in RoundStates
BY DEF FreshRound, RoundStates

LEMMA TypeInit == Init => TypeOK
<1> SUFFICES ASSUME Init PROVE TypeOK
  OBVIOUS
<1>1. messages \in Seq(Message)
  BY SavedAreValid DEF Init
<1>2. rs \in RoundStates
  BY FreshRoundType DEF Init
<1>3. status \in [DOMAIN calls -> Statuses] /\ results \in [DOMAIN calls -> Ids \cup {Nil}]
  BY DEF Init
<1>4. script \in Script
  BY AgentAssumption DEF Init, AgentAssumption
<1>5. calls \in Seq(Ids) /\ turnUsages \in Seq(Nat)
  BY DEF Init
<1>6. /\ pc \in {"idle", "summarizing", "chat", "tools"} /\ job \in {"turn", "compact"}
      /\ late \in BOOLEAN /\ cancelled \in BOOLEAN /\ inFlight \in BOOLEAN
      /\ lastGuardTripped \in BOOLEAN
  BY DEF Init
<1>7. QED
  BY <1>1, <1>2, <1>3, <1>4, <1>5, <1>6 DEF TypeOK, RoundStates

\* A fresh agent, or one that resumes a saved conversation, satisfies the invariant.
THEOREM InitIInv == Init => IInv
<1> SUFFICES ASSUME Init PROVE IInv
  OBVIOUS
<1>1. Valid(messages) /\ pc = "idle"
  BY SavedAreValid DEF Init
<1>2. QED
  BY <1>1, TypeInit DEF IInv, AlwaysAnswered, RoundOwed
-----------------------------------------------------------------------------
(* The round of calls a state describes. *)

RoundOK ==
  /\ calls \in Seq(Ids)
  /\ status \in [DOMAIN calls -> Statuses]
  /\ results \in [DOMAIN calls -> Ids \cup {Nil}]

LEMMA EmptyRound == calls' = <<>> /\ status' = <<>> /\ results' = <<>> => RoundOK'
<1> SUFFICES ASSUME calls' = <<>>, status' = <<>>, results' = <<>> PROVE RoundOK'
  OBVIOUS
<1>1. calls' \in Seq(Ids)
  OBVIOUS
<1>2. status' \in [DOMAIN calls' -> Statuses] /\ results' \in [DOMAIN calls' -> Ids \cup {Nil}]
  OBVIOUS
<1>3. QED
  BY <1>1, <1>2 DEF RoundOK

\* A step that ends with the agent's goroutine outside runTools.
LEMMA OutsideRound ==
  ASSUME IInv, pc' \in {"idle", "summarizing", "chat"}, job' \in {"turn", "compact"},
         messages' \in Seq(Message), Valid(messages'),
         rs' \in RoundStates,
         late' \in BOOLEAN, cancelled' \in BOOLEAN, inFlight' \in BOOLEAN,
         RoundOK' \/ UNCHANGED roundVars,
         turnUsages' \in Seq(Nat),
         lastGuardTripped' \in BOOLEAN, script' \in Script
  PROVE  IInv'
<1>1. RoundOK'
  BY DEF IInv, TypeOK, RoundOK, roundVars
<1>2. TypeOK'
  BY <1>1 DEF TypeOK, RoundOK, RoundStates
<1>3. AlwaysAnswered' /\ RoundOwed'
  BY DEF AlwaysAnswered, RoundOwed
<1>4. QED
  BY <1>2, <1>3 DEF IInv

\* Return, the common end of a turn.
LEMMA ReturnStep ==
  ASSUME IInv, Return,
         messages' \in Seq(Message), Valid(messages'),
         RoundOK' \/ UNCHANGED roundVars,
         turnUsages' \in Seq(Nat),
         lastGuardTripped' \in BOOLEAN, script' = script
  PROVE  IInv'
<1>1. rs' \in RoundStates
  BY FreshRoundType DEF Return
<1>2. script' \in Script
  BY DEF IInv, TypeOK
<1>3. QED
  BY <1>1, <1>2, OutsideRound DEF Return

\* BeginTurn, whatever well-formed record it starts from.
LEMMA BeginTurnStep ==
  ASSUME IInv, NEW msgs \in Seq(Message), Valid(msgs), BeginTurn(msgs),
         UNCHANGED <<job, cancelled, roundVars, turnUsages>>,
         script' \in Script
  PROVE  IInv'
<1>1. messages' \in Seq(Message) /\ Valid(messages')
  BY SayingIsValid DEF BeginTurn
<1>2. rs' \in RoundStates
  BY FreshRoundType DEF BeginTurn
<1>3. /\ pc' \in {"idle", "summarizing", "chat"} /\ job' \in {"turn", "compact"}
      /\ late' \in BOOLEAN /\ cancelled' \in BOOLEAN /\ lastGuardTripped' \in BOOLEAN
      /\ turnUsages' \in Seq(Nat)
  BY DEF BeginTurn, IInv, TypeOK
<1>4. inFlight' \in BOOLEAN
  BY DEF BeginTurn, IInv, TypeOK
<1>5. QED
  BY <1>1, <1>2, <1>3, <1>4, OutsideRound
-----------------------------------------------------------------------------
(* One lemma per group of actions. *)

LEMMA StartSteps == IInv /\ (Run \/ RunCompactingFirst \/ ForceCompact) => IInv'
<1> SUFFICES ASSUME IInv, Run \/ RunCompactingFirst \/ ForceCompact PROVE IInv'
  OBVIOUS
<1>1. messages \in Seq(Message) /\ pc = "idle" /\ Valid(messages)
  BY DEF IInv, TypeOK, AlwaysAnswered, Run, RunCompactingFirst, ForceCompact
<1>2. script' \in Script
  <2>1. script \in Script
    BY DEF IInv, TypeOK
  <2>2. CASE NextPrompt
    <3>1. script.left \in Nat /\ script.left - 1 \in Nat
      BY <2>1, <2>2 DEF NextPrompt, Script
    <3>2. QED
      BY <2>1, <2>2, <3>1 DEF NextPrompt, Script
  <2>3. CASE script' = script
    BY <2>1, <2>3
  <2>4. QED
    BY <2>2, <2>3 DEF Run, RunCompactingFirst, ForceCompact
<1>3. CASE Run
  BY <1>1, <1>2, <1>3, BeginTurnStep DEF Run
<1>4. CASE RunCompactingFirst \/ ForceCompact
  <2>1. /\ pc' = "summarizing" /\ inFlight' = TRUE /\ job' \in {"turn", "compact"}
        /\ UNCHANGED <<messages, rs, late, cancelled, roundVars, turnUsages, lastGuardTripped>>
    BY <1>4 DEF IInv, TypeOK, RunCompactingFirst, ForceCompact
  <2>2. /\ rs' \in RoundStates /\ late' \in BOOLEAN /\ cancelled' \in BOOLEAN
        /\ turnUsages' \in Seq(Nat) /\ lastGuardTripped' \in BOOLEAN
    BY <2>1 DEF IInv, TypeOK, RoundStates
  <2>3. QED
    BY <1>1, <1>2, <2>1, <2>2, OutsideRound
<1>5. QED
  BY <1>3, <1>4

LEMMA CompactionSteps == IInv /\ (SummaryArrives \/ SummarizeFails) => IInv'
<1> SUFFICES ASSUME IInv, SummaryArrives \/ SummarizeFails PROVE IInv'
  OBVIOUS
<1>1. messages \in Seq(Message) /\ pc = "summarizing" /\ Valid(messages)
  BY DEF IInv, TypeOK, AlwaysAnswered, SummaryArrives, Summarized, SummarizeFails
<1>2. PICK msgs \in Seq(Message) :
        /\ Valid(msgs) /\ AfterCompaction(msgs)
        /\ UNCHANGED <<roundVars, turnUsages, script>>
  <2>1. CASE SummarizeFails
    BY <1>1, <2>1 DEF SummarizeFails
  <2>2. CASE SummaryArrives
    <3>1. PICK summary \in Texts : Summarized(summary)
      BY <2>2 DEF SummaryArrives
    <3>2. KeepTurns \in Nat
      BY AgentAssumption DEF AgentAssumption
    <3>3. LET msgs == Compact(messages, KeepTurns, summary)
          IN msgs \in Seq(Message) /\ Valid(msgs)
      BY <1>1, <3>2, CompactSafe
    <3>4. QED
      BY <3>1, <3>3 DEF Summarized
  <2>3. QED
    BY <2>1, <2>2
<1>3. turnUsages' \in Seq(Nat) /\ script' \in Script /\ lastGuardTripped \in BOOLEAN
  BY <1>2 DEF IInv, TypeOK
<1>4. CASE BeginTurn(msgs) /\ UNCHANGED <<job, cancelled>>
  BY <1>2, <1>3, <1>4, BeginTurnStep
<1>5. CASE messages' = msgs /\ Return /\ UNCHANGED lastGuardTripped
  BY <1>2, <1>3, <1>5, ReturnStep
<1>6. QED
  BY <1>2, <1>4, <1>5 DEF AfterCompaction

LEMMA ReplyTypes ==
  ASSUME NEW reply \in Replies
  PROVE  reply \in Message /\ reply.role = "assistant" /\ reply.results = <<>>
BY AgentAssumption DEF AgentAssumption

\* A reply is one of the provider's, whichever the behaviour's bounds leave it.
LEMMA ReplyIsTheProviders ==
  ASSUME IInv, Reply
  PROVE  \E reply \in Replies, usage \in UsageSteps :
           FinalReply(reply, usage) \/ CallTools(reply, usage)
<1>1. script.replies \subseteq Replies /\ script.usages \subseteq UsageSteps
  BY DEF IInv, TypeOK, Script
<1>2. QED
  BY <1>1 DEF Reply

LEMMA CountType ==
  ASSUME IInv, NEW usage \in UsageSteps
  PROVE  Count(usage) \in RoundStates /\ Count(usage).usage \in Nat
<1>1. usage \in Nat /\ rs \in RoundStates
  BY AgentAssumption DEF AgentAssumption, IInv, TypeOK, RoundStates
<1>2. /\ rs.turns \in Nat /\ rs.usage \in Nat /\ rs.streak \in Nat
      /\ rs.signature \in Seq({Signature[id] : id \in Ids})
  BY <1>1 DEF RoundStates
<1>3. rs.turns + 1 \in Nat /\ rs.usage + usage \in Nat
  BY <1>1, <1>2
<1> DEFINE one == [rs EXCEPT !.turns = rs.turns + 1]
           two == [one EXCEPT !.usage = one.usage + usage]
<1>4. one \in RoundStates /\ one.usage = rs.usage
  BY <1>1, <1>3 DEF RoundStates
<1>5. two \in RoundStates /\ two.usage \in Nat
  BY <1>3, <1>4 DEF RoundStates
<1>6. Count(usage) = two
  BY DEF Count
<1>7. QED
  BY <1>5, <1>6

LEMMA FinalReplyStep ==
  ASSUME IInv, NEW reply \in Replies, NEW usage \in UsageSteps, FinalReply(reply, usage)
  PROVE  IInv'
<1>1. messages \in Seq(Message) /\ Valid(messages) /\ reply.uses = <<>>
  BY DEF FinalReply, IInv, TypeOK, AlwaysAnswered
<1>2. Append(messages, reply) \in Seq(Message) /\ Valid(Append(messages, reply))
  BY <1>1, ReplyTypes, AppendPlain
<1>3. LET msgs == Append(messages, reply)
      IN Explain(msgs) \in Seq(Message) /\ Valid(Explain(msgs))
  BY <1>2, SayingIsValid DEF Explain, Texts
<1>4. messages' \in Seq(Message) /\ Valid(messages')
  BY <1>2, <1>3 DEF FinalReply
<1>5. turnUsages' \in Seq(Nat) /\ lastGuardTripped' \in BOOLEAN
  BY CountType DEF FinalReply, IInv, TypeOK
<1>6. QED
  BY <1>4, <1>5, ReturnStep DEF FinalReply

LEMMA CallToolsStep ==
  ASSUME IInv, NEW reply \in Replies, NEW usage \in UsageSteps, CallTools(reply, usage)
  PROVE  IInv'
<1>1. /\ messages \in Seq(Message) /\ Valid(messages) /\ reply.uses # <<>>
      /\ reply \in Message /\ reply.role = "assistant" /\ reply.results = <<>>
      /\ reply.uses \in Seq(Ids)
  BY ReplyTypes DEF CallTools, IInv, TypeOK, AlwaysAnswered, Message
<1>2. pc' = "tools" /\ calls' = reply.uses /\ messages' = Append(messages, reply)
  BY DEF CallTools
<1>3. messages' \in Seq(Message) /\ Valid(Append(messages', ResultMessage(calls')))
  BY <1>1, <1>2, AppendRound
<1>4. status' \in [DOMAIN calls' -> Statuses]
  BY <1>2 DEF CallTools, Statuses
<1>5. results' \in [DOMAIN calls' -> Ids \cup {Nil}]
  BY <1>2 DEF CallTools
<1>6. \A p \in DOMAIN calls' : status'[p] # "answered"
  BY <1>2 DEF CallTools
<1>7. rs' \in RoundStates
  <2>1. CallSignature(reply.uses) \in Seq({Signature[id] : id \in Ids})
    BY <1>1 DEF CallSignature
  <2>2. Streak(reply.uses) \in Nat
    BY DEF Streak, IInv, TypeOK
  <2>3. QED
    BY <2>1, <2>2, CountType DEF CallTools, RoundStates
<1>8. TypeOK'
  BY <1>1, <1>2, <1>3, <1>4, <1>5, <1>7 DEF CallTools, IInv, TypeOK, RoundStates
<1>9. AlwaysAnswered' /\ RoundOwed'
  BY <1>2, <1>3, <1>6 DEF AlwaysAnswered, RoundOwed
<1>10. QED
  BY <1>8, <1>9 DEF IInv

LEMMA ChatFailsStep == IInv /\ ChatFails => IInv'
<1> SUFFICES ASSUME IInv, ChatFails PROVE IInv'
  OBVIOUS
<1>1. messages' \in Seq(Message) /\ Valid(messages')
  BY DEF ChatFails, IInv, TypeOK, AlwaysAnswered
<1>2. QED
  BY <1>1, ReturnStep DEF ChatFails, IInv, TypeOK

\* A goroutine of the round moves: only status and results change, and a
\* call that becomes answered has its own ID in its own place.
LEMMA RoundStep ==
  ASSUME IInv, pc = "tools", UNCHANGED toolFrame,
         NEW p \in DOMAIN calls, NEW st \in Statuses,
         status' = [status EXCEPT ![p] = st],
         \/ st # "answered" /\ status[p] # "answered" /\ results' = results
         \/ results' = [results EXCEPT ![p] = calls[p]]
  PROVE  IInv'
<1>1. /\ calls \in Seq(Ids) /\ status \in [DOMAIN calls -> Statuses]
      /\ results \in [DOMAIN calls -> Ids \cup {Nil}]
      /\ UNCHANGED <<messages, pc, calls>>
  BY DEF IInv, TypeOK, toolFrame
<1>2. /\ status' \in [DOMAIN calls' -> Statuses]
      /\ results' \in [DOMAIN calls' -> Ids \cup {Nil}]
  BY <1>1
<1>3. TypeOK'
  BY <1>2 DEF IInv, TypeOK, toolFrame
<1>4. \A q \in DOMAIN calls' : status'[q] = "answered" => results'[q] = calls'[q]
  BY <1>1 DEF IInv, RoundOwed
<1>5. AlwaysAnswered' /\ RoundOwed'
  BY <1>1, <1>4 DEF IInv, AlwaysAnswered, RoundOwed
<1>6. QED
  BY <1>3, <1>5 DEF IInv

LEMMA CallSteps == ASSUME IInv, NEW p \in DOMAIN calls, CallStep(p) PROVE IInv'
<1>1. pc = "tools" /\ UNCHANGED toolFrame
  BY DEF CallStep, Approve, Refuse, ToolReturns, Collect, Abandon
<1>2. CASE Approve(p)
  BY <1>1, <1>2, RoundStep DEF Approve, Statuses
<1>3. CASE Refuse(p)
  BY <1>1, <1>3, RoundStep DEF Refuse, AnswerCall, Statuses
<1>4. CASE ToolReturns(p)
  BY <1>1, <1>4, RoundStep DEF ToolReturns, Statuses
<1>5. CASE Collect(p)
  BY <1>1, <1>5, RoundStep DEF Collect, AnswerCall, Statuses
<1>6. CASE Abandon(p)
  BY <1>1, <1>6, RoundStep DEF Abandon, AnswerCall, Statuses
<1>7. QED
  BY <1>2, <1>3, <1>4, <1>5, <1>6 DEF CallStep

\* Once every goroutine of the round is done, the results slice is the answer
\* the record owes.
LEMMA ResultsAreCalls == IInv /\ RoundAnswered => results = calls
<1> SUFFICES ASSUME IInv, RoundAnswered PROVE results = calls
  OBVIOUS
<1>1. \A p \in DOMAIN calls : results[p] = calls[p]
  BY DEF RoundAnswered, IInv, RoundOwed
<1>2. calls \in [DOMAIN calls -> Ids] /\ results \in [DOMAIN calls -> Ids \cup {Nil}]
  BY DEF IInv, TypeOK
<1>3. QED
  BY <1>1, <1>2

LEMMA RoundEndSteps == IInv /\ (NextRound \/ GuardStops) => IInv'
<1> SUFFICES ASSUME IInv, NextRound \/ GuardStops PROVE IInv'
  OBVIOUS
<1> DEFINE answered == Append(messages, ResultMessage(results))
<1>1. answered \in Seq(Message) /\ Valid(answered)
  <2>1. results = calls /\ pc = "tools"
    BY ResultsAreCalls DEF NextRound, GuardStops, RoundAnswered
  <2>2. ResultMessage(calls) \in Message /\ messages \in Seq(Message)
    BY TextsAreMessages DEF IInv, TypeOK
  <2>3. QED
    BY <2>1, <2>2 DEF IInv, RoundOwed
<1>2. RoundOK'
  BY EmptyRound DEF NextRound, GuardStops
<1>3. CASE NextRound
  <2>1. /\ messages' = answered /\ pc' = "chat" /\ inFlight' \in BOOLEAN
        /\ UNCHANGED <<job, rs, late, cancelled, turnUsages, lastGuardTripped, script>>
    BY <1>3 DEF NextRound, IInv, TypeOK
  <2>2. /\ rs' \in RoundStates /\ job' \in {"turn", "compact"}
        /\ late' \in BOOLEAN /\ cancelled' \in BOOLEAN /\ lastGuardTripped' \in BOOLEAN
        /\ turnUsages' \in Seq(Nat) /\ script' \in Script
    BY <2>1 DEF IInv, TypeOK, RoundStates
  <2>3. QED
    BY <1>1, <1>2, <2>1, <2>2, OutsideRound
<1>4. CASE GuardStops
  <2>1. Explain(answered) \in Seq(Message) /\ Valid(Explain(answered))
    BY <1>1, SayingIsValid DEF Explain, Texts
  <2>2. turnUsages' \in Seq(Nat) /\ lastGuardTripped' \in BOOLEAN
    BY <1>4 DEF GuardStops, IInv, TypeOK
  <2>3. QED
    BY <1>2, <1>4, <2>1, <2>2, ReturnStep DEF GuardStops
<1>5. QED
  BY <1>3, <1>4

LEMMA SurroundingSteps == IInv /\ (Cancel \/ ClockPasses \/ Reset \/ LoadInto) => IInv'
<1> SUFFICES ASSUME IInv, Cancel \/ ClockPasses \/ Reset \/ LoadInto PROVE IInv'
  OBVIOUS
<1>1. CASE Cancel \/ ClockPasses
  <2>1. TypeOK'
    BY <1>1 DEF Cancel, ClockPasses, IInv, TypeOK, roundVars
  <2>2. AlwaysAnswered' /\ RoundOwed'
    BY <1>1 DEF Cancel, ClockPasses, IInv, AlwaysAnswered, RoundOwed, roundVars
  <2>3. QED
    BY <2>1, <2>2 DEF IInv
<1>2. CASE Reset \/ LoadInto
  <2>1. PICK msgs \in {<<>>} \cup Saved : Replace(msgs)
    BY <1>2 DEF Reset, LoadInto
  <2>2. msgs \in Seq(Message) /\ Valid(msgs)
    BY SavedAreValid
  <2>3. TypeOK'
    BY <2>1, <2>2 DEF Replace, IInv, TypeOK, roundVars
  <2>4. AlwaysAnswered' /\ RoundOwed'
    BY <2>1, <2>2 DEF Replace, AlwaysAnswered, RoundOwed
  <2>5. QED
    BY <2>3, <2>4 DEF IInv
<1>3. QED
  BY <1>1, <1>2

LEMMA StutterStep == IInv /\ UNCHANGED vars => IInv'
<1> SUFFICES ASSUME IInv, UNCHANGED vars PROVE IInv'
  OBVIOUS
<1>1. TypeOK'
  BY DEF vars, IInv, TypeOK
<1>2. AlwaysAnswered' /\ RoundOwed'
  BY DEF vars, IInv, AlwaysAnswered, RoundOwed
<1>3. QED
  BY <1>1, <1>2 DEF IInv

\* Every step of the agent's goroutines and of their surroundings keeps it.
THEOREM StepIInv == IInv /\ [Next]_vars => IInv'
<1> SUFFICES ASSUME IInv, [Next]_vars PROVE IInv'
  OBVIOUS
<1>1. CASE Run \/ RunCompactingFirst \/ ForceCompact
  BY <1>1, StartSteps
<1>2. CASE SummaryArrives \/ SummarizeFails
  BY <1>2, CompactionSteps
<1>3. CASE Reply
  BY <1>3, ReplyIsTheProviders, FinalReplyStep, CallToolsStep
<1>4. CASE ChatFails
  BY <1>4, ChatFailsStep
<1>5. CASE \E p \in DOMAIN calls : CallStep(p)
  BY <1>5, CallSteps
<1>6. CASE NextRound \/ GuardStops
  BY <1>6, RoundEndSteps
<1>7. CASE Cancel \/ ClockPasses \/ Reset \/ LoadInto
  BY <1>7, SurroundingSteps
<1>8. CASE UNCHANGED vars
  BY <1>8, StutterStep
<1>9. QED
  BY <1>1, <1>2, <1>3, <1>4, <1>5, <1>6, <1>7, <1>8 DEF Next

\* Every variable keeps its type, whatever the provider, the tools and the user do.
THEOREM TypeCorrect == Spec => []TypeOK
<1>1. IInv => TypeOK
  BY DEF IInv
<1>2. QED
  BY <1>1, InitIInv, StepIInv, PTL DEF Spec

\* Run's comment, "history always satisfies CLAUDE.md invariant 3", for every
\* provider, every set of tools and every setting of the guards.
THEOREM HistoryAlwaysAnswered == Spec => []AlwaysAnswered
<1>1. IInv => AlwaysAnswered
  BY DEF IInv
<1>2. QED
  BY <1>1, InitIInv, StepIInv, PTL DEF Spec
-----------------------------------------------------------------------------
(* The rounds of a turn, read off a record. *)

RoundsOf(s) == {i \in 1..Len(s) : s[i].uses # <<>> /\ \A j \in TurnStarts(s) : j < i}

LaterRounds(s, i) == {j \in RoundsOf(s) : j >= i}

SameSince(s, i) ==
  \A j \in LaterRounds(s, i) : CallSignature(s[i].uses) = CallSignature(s[j].uses)

\* What a roundState knows of a record: how many rounds the turn has, and a
\* streak at least as long as any run of equal rounds at its end.
Counted(s, r) ==
  /\ Cardinality(RoundsOf(s)) = r.turns
  /\ \A i \in RoundsOf(s) :
       SameSince(s, i) => /\ CallSignature(s[i].uses) = r.signature
                          /\ Cardinality(LaterRounds(s, i)) <= r.streak

LEMMA RoundsFinite ==
  ASSUME NEW s \in Seq(Message)
  PROVE  /\ IsFiniteSet(RoundsOf(s)) /\ Cardinality(RoundsOf(s)) \in Nat
         /\ \A i : /\ IsFiniteSet(LaterRounds(s, i))
                   /\ Cardinality(LaterRounds(s, i)) \in Nat
<1>1. IsFiniteSet(1..Len(s))
  BY FS_Interval
<1>2. IsFiniteSet(RoundsOf(s))
  BY <1>1, FS_Subset DEF RoundsOf
<1>3. \A i : IsFiniteSet(LaterRounds(s, i))
  BY <1>2, FS_Subset DEF LaterRounds
<1>4. QED
  BY <1>2, <1>3, FS_CardinalityType

LEMMA StartsOfAppend ==
  ASSUME NEW s \in Seq(Message), NEW m \in Message
  PROVE  TurnStarts(Append(s, m)) =
           TurnStarts(s) \cup (IF IsTurnStart(m) THEN {Len(s) + 1} ELSE {})
<1> DEFINE t == Append(s, m)
<1>1. Len(t) = Len(s) + 1 /\ t[Len(s) + 1] = m /\ \A i \in 1..Len(s) : t[i] = s[i]
  OBVIOUS
<1>2. 1..Len(t) = 1..Len(s) \cup {Len(s) + 1}
  BY <1>1
<1> HIDE DEF t
<1>3. QED
  BY <1>1, <1>2 DEF TurnStarts, t

\* A prompt opens a turn without rounds.
LEMMA PromptClearsRounds ==
  ASSUME NEW s \in Seq(Message)
  PROVE  RoundsOf(Append(s, UserText)) = {}
<1>1. UserText \in Message /\ IsTurnStart(UserText)
  BY TextsAreMessages DEF IsTurnStart, UserText
<1>2. Len(s) + 1 \in TurnStarts(Append(s, UserText))
  BY <1>1, StartsOfAppend
<1>3. Len(Append(s, UserText)) = Len(s) + 1 /\ Len(s) \in Nat
  OBVIOUS
<1>4. QED
  BY <1>2, <1>3 DEF RoundsOf

\* A message that starts no turn adds a round exactly when it calls tools.
LEMMA RoundsOfAppend ==
  ASSUME NEW s \in Seq(Message), NEW m \in Message, ~IsTurnStart(m)
  PROVE  RoundsOf(Append(s, m)) =
           RoundsOf(s) \cup (IF m.uses # <<>> THEN {Len(s) + 1} ELSE {})
<1> DEFINE t == Append(s, m)
<1>1. /\ Len(t) = Len(s) + 1 /\ t[Len(s) + 1] = m /\ \A i \in 1..Len(s) : t[i] = s[i]
      /\ Len(s) \in Nat
  OBVIOUS
<1>2. TurnStarts(t) = TurnStarts(s)
  BY StartsOfAppend
<1>3. \A j \in TurnStarts(s) : j \in 1..Len(s)
  BY DEF TurnStarts
<1>4. 1..Len(t) = 1..Len(s) \cup {Len(s) + 1}
  BY <1>1
<1> HIDE DEF t
<1>5. ASSUME NEW i \in 1..Len(s) PROVE i \in RoundsOf(t) <=> i \in RoundsOf(s)
  BY <1>1, <1>2, <1>4 DEF RoundsOf
<1>6. Len(s) + 1 \in RoundsOf(t) <=> m.uses # <<>>
  BY <1>1, <1>2, <1>3, <1>4 DEF RoundsOf
<1>7. RoundsOf(t) \subseteq 1..Len(s) \cup {Len(s) + 1} /\ RoundsOf(s) \subseteq 1..Len(s)
  BY <1>4 DEF RoundsOf
<1>8. RoundsOf(t) = RoundsOf(s) \cup (IF m.uses # <<>> THEN {Len(s) + 1} ELSE {})
  BY <1>5, <1>6, <1>7
<1>9. QED
  BY <1>8 DEF t

LEMMA CountedAfterPrompt ==
  ASSUME NEW s \in Seq(Message)
  PROVE  Counted(Append(s, UserText), FreshRound)
BY PromptClearsRounds, FS_EmptySet DEF Counted, FreshRound

LEMMA CountedAfterResults ==
  ASSUME NEW s \in Seq(Message), NEW m \in Message, ~IsTurnStart(m), m.uses = <<>>,
         NEW r, Counted(s, r)
  PROVE  Counted(Append(s, m), r)
<1> DEFINE t == Append(s, m)
<1>1. RoundsOf(t) = RoundsOf(s)
  BY RoundsOfAppend
<1>2. \A i \in RoundsOf(s) : t[i] = s[i]
  BY DEF RoundsOf
<1> HIDE DEF t
<1>3. \A i : LaterRounds(t, i) = LaterRounds(s, i)
  BY <1>1 DEF LaterRounds
<1>4. \A i \in RoundsOf(s) : SameSince(t, i) <=> SameSince(s, i)
  BY <1>2, <1>3 DEF SameSince, LaterRounds
<1>5. Counted(t, r)
  BY <1>1, <1>2, <1>3, <1>4 DEF Counted
<1>6. QED
  BY <1>5 DEF t

\* A round is counted, and lengthens the streak or starts it anew.
LEMMA CountedAfterCalls ==
  ASSUME NEW s \in Seq(Message), NEW m \in Message, ~IsTurnStart(m), m.uses # <<>>,
         NEW r \in RoundStates, Counted(s, r),
         NEW q \in RoundStates, q.turns = r.turns + 1, q.signature = CallSignature(m.uses),
         q.streak = IF CallSignature(m.uses) = r.signature THEN r.streak + 1 ELSE 1
  PROVE  Counted(Append(s, m), q)
<1> DEFINE t == Append(s, m)
           new == Len(s) + 1
<1>1. /\ RoundsOf(t) = RoundsOf(s) \cup {new}
      /\ RoundsOf(s) \subseteq 1..Len(s)
  BY RoundsOfAppend DEF RoundsOf
<1>2. (\A i \in RoundsOf(s) : t[i] = s[i]) /\ t[new] = m /\ Len(s) \in Nat
  BY DEF RoundsOf
<1> HIDE DEF t
<1>3. new \notin RoundsOf(s) /\ \A i \in RoundsOf(s) : i < new /\ i \in Int
  BY <1>1, <1>2
<1>4. r.turns \in Nat /\ r.streak \in Nat
  BY DEF RoundStates
<1>5. Cardinality(RoundsOf(t)) = q.turns
  BY <1>1, <1>3, RoundsFinite, FS_AddElement DEF Counted
<1>6. ASSUME NEW i \in RoundsOf(t), SameSince(t, i)
      PROVE  CallSignature(t[i].uses) = q.signature /\ Cardinality(LaterRounds(t, i)) <= q.streak
  <2>1. CASE i = new
    <3>1. LaterRounds(t, i) = {new}
      BY <1>1, <1>2, <1>3, <2>1 DEF LaterRounds
    <3>2. Cardinality({new}) = 1
      BY FS_Singleton
    <3>3. q.streak >= 1
      BY <1>4
    <3>4. CallSignature(t[i].uses) = q.signature
      BY <1>2, <2>1
    <3>5. QED
      BY <3>1, <3>2, <3>3, <3>4
  <2>2. CASE i \in RoundsOf(s)
    <3>1. LaterRounds(t, i) = LaterRounds(s, i) \cup {new} /\ new \notin LaterRounds(s, i)
      BY <1>1, <1>3, <2>2 DEF LaterRounds
    <3>2. CallSignature(s[i].uses) = CallSignature(m.uses)
      BY <1>2, <1>6, <2>2, <3>1 DEF SameSince
    <3>3. SameSince(s, i)
      BY <1>2, <1>6, <2>2, <3>1 DEF SameSince, LaterRounds
    <3>4. CallSignature(s[i].uses) = r.signature /\ Cardinality(LaterRounds(s, i)) <= r.streak
      BY <2>2, <3>3 DEF Counted
    <3>5. q.streak = r.streak + 1
      BY <3>2, <3>4
    <3>6. /\ Cardinality(LaterRounds(t, i)) = Cardinality(LaterRounds(s, i)) + 1
          /\ Cardinality(LaterRounds(s, i)) \in Nat
      BY <3>1, RoundsFinite, FS_AddElement
    <3>7. QED
      BY <1>2, <1>4, <2>2, <3>2, <3>4, <3>5, <3>6
  <2>3. QED
    BY <1>1, <2>1, <2>2
<1>7. Counted(t, q)
  BY <1>5, <1>6 DEF Counted
<1>8. QED
  BY <1>7 DEF t
-----------------------------------------------------------------------------
(* What the goroutine of a turn relies on between its steps. *)

\* summarize is only called with something to drop.
FoldPending == pc = "summarizing" => CompactionBoundary(messages, KeepTurns) > 0

\* While a round runs, the record ends in the message that called for it.
RoundOpen ==
  pc = "tools" =>
    /\ calls # <<>> /\ messages # <<>>
    /\ LET m == messages[Len(messages)] IN m.role = "assistant" /\ m.uses = calls

\* roundState's counters agree with the record, and the provider is only asked
\* with all of them below their limits.
TurnCounted ==
  /\ pc \in {"chat", "tools"} => Counted(messages, rs)
  /\ pc = "chat" => /\ MaxTurns > 0 => rs.turns < MaxTurns
                    /\ TokenBudget > 0 => rs.usage < TokenBudget
                    /\ rs.streak < RepetitionThreshold

TInv == FoldPending /\ RoundOpen /\ TurnCounted

LEMMA TInvInit == Init => TInv
BY DEF Init, TInv, FoldPending, RoundOpen, TurnCounted

LEMMA TInvIdle == pc' = "idle" => TInv'
BY DEF TInv, FoldPending, RoundOpen, TurnCounted

LEMMA TInvFrame == TInv /\ UNCHANGED <<messages, pc, rs, calls>> => TInv'
BY DEF TInv, FoldPending, RoundOpen, TurnCounted

LEMMA TInvPrompt ==
  ASSUME NEW msgs \in Seq(Message), BeginTurn(msgs)
  PROVE  TInv'
<1>1. pc' = "chat" /\ messages' = Append(msgs, UserText) /\ rs' = FreshRound
  BY DEF BeginTurn
<1>2. Counted(messages', rs')
  BY <1>1, CountedAfterPrompt
<1>3. /\ MaxTurns > 0 => rs'.turns < MaxTurns
      /\ TokenBudget > 0 => rs'.usage < TokenBudget
      /\ rs'.streak < RepetitionThreshold
  BY <1>1 DEF FreshRound, RepetitionThreshold
<1>4. QED
  BY <1>1, <1>2, <1>3 DEF TInv, FoldPending, RoundOpen, TurnCounted

LEMMA TInvCallTools ==
  ASSUME IInv, TInv, NEW reply \in Replies, NEW usage \in UsageSteps, CallTools(reply, usage)
  PROVE  TInv'
<1>1. /\ messages \in Seq(Message) /\ rs \in RoundStates /\ Counted(messages, rs)
      /\ reply \in Message /\ reply.role = "assistant" /\ reply.uses # <<>>
      /\ reply.uses \in Seq(Ids)
  BY ReplyTypes DEF CallTools, IInv, TypeOK, RoundStates, TInv, TurnCounted, Message
<1>2. /\ pc' = "tools" /\ calls' = reply.uses /\ messages' = Append(messages, reply)
      /\ rs' = [Count(usage) EXCEPT !.streak = Streak(reply.uses),
                                    !.signature = CallSignature(reply.uses)]
  BY DEF CallTools
<1>3. rs'.turns = rs.turns + 1 /\ rs'.signature = CallSignature(reply.uses)
      /\ rs'.streak = Streak(reply.uses)
  BY <1>1, <1>2 DEF Count, RoundStates
<1>4. rs' \in RoundStates
  <2>1. IInv'
    BY CallToolsStep
  <2>2. QED
    BY <2>1 DEF IInv, TypeOK, RoundStates
<1>5. ~IsTurnStart(reply)
  BY <1>1 DEF IsTurnStart
<1>6. Counted(messages', rs')
  BY <1>1, <1>2, <1>3, <1>4, <1>5, CountedAfterCalls DEF Streak
<1>7. messages' # <<>> /\ messages'[Len(messages')] = reply
  BY <1>1, <1>2
<1>8. QED
  BY <1>1, <1>2, <1>6, <1>7 DEF TInv, FoldPending, RoundOpen, TurnCounted

LEMMA TInvNextRound == IInv /\ TInv /\ NextRound => TInv'
<1> SUFFICES ASSUME IInv, TInv, NextRound PROVE TInv'
  OBVIOUS
<1>1. /\ messages \in Seq(Message) /\ rs \in RoundStates /\ Counted(messages, rs)
      /\ pc' = "chat" /\ rs' = rs /\ messages' = Append(messages, ResultMessage(calls))
      /\ ResultMessage(calls) \in Message
  BY ResultsAreCalls, TextsAreMessages
  DEF NextRound, RoundAnswered, IInv, TypeOK, RoundStates, TInv, TurnCounted
<1>2. ~IsTurnStart(ResultMessage(calls)) /\ ResultMessage(calls).uses = <<>>
  BY DEF IsTurnStart, ResultMessage
<1>3. Counted(messages', rs')
  BY <1>1, <1>2, CountedAfterResults
<1>4. /\ MaxTurns > 0 => rs.turns < MaxTurns
      /\ TokenBudget > 0 => rs.usage < TokenBudget
      /\ rs.streak < RepetitionThreshold
  BY <1>1, AgentAssumption
  DEF NextRound, GuardTripped, RoundStates, RepetitionThreshold, AgentAssumption
<1>5. QED
  BY <1>1, <1>3, <1>4 DEF TInv, FoldPending, RoundOpen, TurnCounted

LEMMA TInvStep == IInv /\ TInv /\ [Next]_vars => TInv'
<1> SUFFICES ASSUME IInv, TInv, [Next]_vars PROVE TInv'
  OBVIOUS
<1>1. messages \in Seq(Message)
  BY DEF IInv, TypeOK
<1>2. CASE Run
  BY <1>1, <1>2, TInvPrompt DEF Run
<1>3. CASE RunCompactingFirst \/ ForceCompact
  BY <1>3 DEF RunCompactingFirst, ForceCompact, TInv, FoldPending, RoundOpen, TurnCounted
<1>4. CASE SummaryArrives \/ SummarizeFails
  <2>1. PICK msgs \in Seq(Message) : AfterCompaction(msgs)
    <3>1. CASE SummarizeFails
      BY <1>1, <3>1 DEF SummarizeFails
    <3>2. CASE SummaryArrives
      <4>1. PICK summary \in Texts : Summarized(summary)
        BY <3>2 DEF SummaryArrives
      <4>2. Valid(messages) /\ KeepTurns \in Nat
        BY <4>1, AgentAssumption DEF Summarized, IInv, AlwaysAnswered, AgentAssumption
      <4>3. Compact(messages, KeepTurns, summary) \in Seq(Message)
        BY <1>1, <4>2, CompactSafe
      <4>4. QED
        BY <4>1, <4>3 DEF Summarized
    <3>3. QED
      BY <1>4, <3>1, <3>2
  <2>2. QED
    BY <2>1, TInvPrompt, TInvIdle DEF AfterCompaction, Return
<1>5. CASE Reply
  BY <1>5, ReplyIsTheProviders, TInvIdle, TInvCallTools DEF FinalReply, Return
<1>6. CASE ChatFails \/ GuardStops
  BY <1>6, TInvIdle DEF ChatFails, GuardStops, Return
<1>7. CASE \E p \in DOMAIN calls : CallStep(p)
  BY <1>7, TInvFrame
  DEF CallStep, Approve, Refuse, ToolReturns, Collect, Abandon, toolFrame
<1>8. CASE NextRound
  BY <1>8, TInvNextRound
<1>9. CASE Cancel \/ ClockPasses
  BY <1>9, TInvFrame DEF Cancel, ClockPasses, roundVars
<1>10. CASE Reset \/ LoadInto
  BY <1>10, TInvIdle DEF Reset, LoadInto, Replace
<1>11. CASE UNCHANGED vars
  BY <1>11, TInvFrame DEF vars
<1>12. QED
  BY <1>2, <1>3, <1>4, <1>5, <1>6, <1>7, <1>8, <1>9, <1>10, <1>11 DEF Next

LEMMA Invariants == Spec => [](IInv /\ TInv)
BY InitIInv, StepIInv, TInvInit, TInvStep, PTL DEF Spec
-----------------------------------------------------------------------------
\* The provider is never asked for a round beyond MaxTurns, beyond the budget or
\* after RepetitionThreshold equal rounds, counted on the record itself.
THEOREM GuardsBound == Spec => []GuardsBoundTheTurn
<1>1. IInv /\ TInv => GuardsBoundTheTurn
  <2> SUFFICES ASSUME IInv, TInv, pc = "chat" PROVE GuardsBoundTheTurn
    BY DEF GuardsBoundTheTurn
  <2>1. /\ messages \in Seq(Message) /\ rs \in RoundStates /\ Counted(messages, rs)
        /\ MaxTurns > 0 => rs.turns < MaxTurns
        /\ TokenBudget > 0 => rs.usage < TokenBudget
        /\ rs.streak < RepetitionThreshold
    BY DEF IInv, TypeOK, RoundStates, TInv, TurnCounted
  <2>2. TurnRounds = RoundsOf(messages)
    BY DEF TurnRounds, RoundsOf
  <2>3. ASSUME NEW i \in TurnRounds,
               Cardinality({j \in TurnRounds : j >= i}) = RepetitionThreshold,
               \A j \in TurnRounds : j >= i => SameCalls(i, j)
        PROVE  FALSE
    <3>1. SameSince(messages, i)
      BY <2>2, <2>3 DEF SameSince, SameCalls, LaterRounds
    <3>2. Cardinality(LaterRounds(messages, i)) <= rs.streak
      BY <2>1, <2>2, <3>1 DEF Counted
    <3>3. rs.streak \in Nat /\ Cardinality(LaterRounds(messages, i)) = RepetitionThreshold
      BY <2>1, <2>2, <2>3 DEF LaterRounds, RoundStates
    <3>4. QED
      BY <2>1, <3>2, <3>3 DEF RepetitionThreshold
  <2>4. Cardinality(TurnRounds) = rs.turns
    BY <2>1, <2>2 DEF Counted
  <2>5. QED
    BY <2>1, <2>3, <2>4 DEF GuardsBoundTheTurn
<1>2. QED
  BY <1>1, Invariants, PTL

\* summarize's reply can always be committed: the Validate backstop of
\* History.Compact is unreachable from maybeCompact and from /compact.
THEOREM NeverRefused == Spec => []CompactionNeverRefused
<1>1. IInv /\ TInv => CompactionNeverRefused
  <2> SUFFICES ASSUME IInv, TInv, pc = "summarizing" PROVE CompactionNeverRefused
    BY DEF CompactionNeverRefused
  <2> DEFINE b == CompactionBoundary(messages, KeepTurns)
  <2>1. messages \in Seq(Message) /\ Valid(messages) /\ KeepTurns \in Nat /\ b > 0
    BY AgentAssumption DEF IInv, TypeOK, AlwaysAnswered, TInv, FoldPending, AgentAssumption
  <2>2. b \in 1..Len(messages) - 1 /\ IsTurnStart(messages[b+1])
    BY <2>1, BoundaryStartsTurn
  <2>3. Valid(Compacted(messages, b, "words"))
    BY <2>1, <2>2, CutIsValid DEF Texts
  <2>4. QED
    BY <2>1, <2>3 DEF CompactionNeverRefused
<1>2. QED
  BY <1>1, Invariants, PTL

\* Run returns an error and leaves the record alone, or the record ends in the
\* assistant's words: empty replies and tripped guards are always explained.
THEOREM TurnsEndInWords == Spec => NoSilentEnd
<1> DEFINE Ending == pc' = "idle" /\ pc \in {"chat", "tools"} => Fails \/ Speaks
<1>1. IInv /\ TInv /\ [Next]_vars => [Ending]_vars
  <2> SUFFICES ASSUME IInv, Next, pc' = "idle", pc \in {"chat", "tools"}
               PROVE  Fails \/ Speaks
    OBVIOUS
  <2>1. messages \in Seq(Message) /\ turnUsages \in Seq(Nat) /\ rs \in RoundStates
        /\ rs.usage \in Nat
    BY DEF IInv, TypeOK, RoundStates
  <2>2. \/ ChatFails \/ GuardStops
        \/ \E reply \in Replies, usage \in UsageSteps : FinalReply(reply, usage)
    BY ReplyIsTheProviders
       DEF Next, Run, RunCompactingFirst, ForceCompact, SummaryArrives, Summarized,
           SummarizeFails, CallTools, CallStep, Approve, Refuse, ToolReturns,
           Collect, Abandon, toolFrame, NextRound, Cancel, ClockPasses, Reset, LoadInto,
           Replace
  <2>3. CASE ChatFails
    BY <2>3 DEF ChatFails, Fails
  <2>4. CASE GuardStops
    <3>1. results = calls /\ ResultMessage(calls) \in Message /\ AssistantText("words") \in Message
      BY <2>4, ResultsAreCalls, TextsAreMessages DEF GuardStops, IInv, TypeOK, Texts
    <3>2. messages' = Append(Append(messages, ResultMessage(calls)), AssistantText("words"))
          /\ turnUsages' = Append(turnUsages, rs.usage)
      BY <2>4, <3>1 DEF GuardStops, Explain
    <3>3. messages'[Len(messages')] = AssistantText("words")
      BY <2>1, <3>1, <3>2
    <3>4. Len(turnUsages') = Len(turnUsages) + 1 /\ turnUsages'[Len(turnUsages')] = rs.usage
      BY <2>1, <3>2
    <3>5. QED
      BY <2>1, <3>3, <3>4 DEF Speaks, AssistantText
  <2>5. ASSUME NEW reply \in Replies, NEW usage \in UsageSteps, FinalReply(reply, usage)
        PROVE  Speaks
    <3>1. /\ reply \in Message /\ reply.role = "assistant" /\ AssistantText("words") \in Message
      BY ReplyTypes, TextsAreMessages DEF Texts
    <3>2. turnUsages' = Append(turnUsages, Count(usage).usage)
          /\ messages' = IF reply.text = "words" THEN Append(messages, reply)
                         ELSE Append(Append(messages, reply), AssistantText("words"))
      BY <2>5 DEF FinalReply, Explain
    <3>3. /\ messages'[Len(messages')].role = "assistant"
          /\ messages'[Len(messages')].text = "words"
      <4>1. CASE reply.text = "words"
        BY <2>1, <3>1, <3>2, <4>1
      <4>2. CASE reply.text # "words"
        <5>1. messages'[Len(messages')] = AssistantText("words")
          BY <2>1, <3>1, <3>2, <4>2
        <5>2. QED
          BY <5>1 DEF AssistantText
      <4>3. QED
        BY <4>1, <4>2
    <3>4. usage \in Nat /\ Count(usage).usage = rs.usage + usage
      BY <2>1, AgentAssumption DEF AgentAssumption, Count, RoundStates
    <3>5. Len(turnUsages') = Len(turnUsages) + 1
          /\ turnUsages'[Len(turnUsages')] >= rs.usage
      BY <2>1, <3>2, <3>4
    <3>6. QED
      BY <3>3, <3>5 DEF Speaks
  <2>6. QED
    BY <2>2, <2>3, <2>4, <2>5
<1>2. QED
  BY <1>1, Invariants, PTL DEF Spec, NoSilentEnd
-----------------------------------------------------------------------------
(* The refinement of Conversation. *)

\* The operators of Conversation's copy of History are History's own.
LEMMA SameHistory ==
  /\ Abstract!UserText = UserText
  /\ \A text : Abstract!AssistantText(text) = AssistantText(text)
  /\ \A ids : Abstract!ResultMessage(ids) = ResultMessage(ids)
  /\ Abstract!Texts = Texts
  /\ \A m : Abstract!IsTurnStart(m) <=> IsTurnStart(m)
  /\ \A s : Abstract!TurnStarts(s) = TurnStarts(s)
  /\ \A S : Abstract!Cardinality(S) = Cardinality(S)
<1>1. \A S : Abstract!Cardinality(S) = Cardinality(S)
  BY DEF Abstract!Cardinality, Cardinality
<1>2. QED
  BY <1>1 DEF Abstract!UserText, UserText, Abstract!AssistantText, AssistantText,
              Abstract!ResultMessage, ResultMessage, Abstract!Texts, Texts,
              Abstract!IsTurnStart, IsTurnStart, Abstract!TurnStarts, TurnStarts

\* A summary in the place of the messages before the boundary is a fold.
LEMMA BoundaryFolds ==
  ASSUME pc = "summarizing", messages \in Seq(Message), Valid(messages),
         CompactionBoundary(messages, KeepTurns) > 0, NEW summary \in Texts \ {"none"}
  PROVE  LET msgs == Compact(messages, KeepTurns, summary)
         IN msgs \in Seq(Message) /\ Abstract!FoldTo(msgs)
<1> DEFINE b == CompactionBoundary(messages, KeepTurns)
           msgs == Compact(messages, KeepTurns, summary)
<1>1. KeepTurns \in Nat /\ summary \in Texts
  BY AgentAssumption DEF AgentAssumption
<1>2. msgs \in Seq(Message) /\ msgs = Compacted(messages, b, summary)
  BY <1>1, CompactSafe
<1>3. b \in 1..Len(messages) - 1 /\ IsTurnStart(messages[b+1])
  BY <1>1, BoundaryStartsTurn
<1>4. Cardinality({i \in TurnStarts(messages) : i > b}) = KeepTurns
  <2> DEFINE c == CHOOSE c \in CutPoints(messages, KeepTurns) : TRUE
  <2>1. CutPoints(messages, KeepTurns) # {} /\ b = c - 1
    BY DEF CompactionBoundary
  <2>2. c \in CutPoints(messages, KeepTurns)
    BY <2>1
  <2>3. c \in TurnStarts(messages)
        /\ Cardinality({j \in TurnStarts(messages) : c <= j}) = KeepTurns
    BY <2>2 DEF CutPoints
  <2>4. c \in Int /\ \A j \in TurnStarts(messages) : j \in Int
    BY <2>3 DEF TurnStarts
  <2> HIDE DEF b, c
  <2>5. {j \in TurnStarts(messages) : c <= j} = {i \in TurnStarts(messages) : i > b}
    BY <2>1, <2>4
  <2>6. QED
    BY <2>3, <2>5
<1>5. msgs = <<AssistantText(summary)>> \o SubSeq(messages, b + 1, Len(messages))
  BY <1>2 DEF Compacted
<1> HIDE DEF b, msgs
<1>6. Abstract!FoldTo(msgs)
  <2>1. (IF pc = "tools" THEN SubSeq(messages, 1, Len(messages) - 1) ELSE messages) = messages
    OBVIOUS
  <2>2. Abstract!TurnStarts(messages) = TurnStarts(messages)
        /\ Abstract!IsTurnStart(messages[b+1]) /\ summary \in Abstract!Texts \ {"none"}
        /\ Abstract!AssistantText(summary) = AssistantText(summary)
    BY <1>3, SameHistory
  <2>3. QED
    BY <1>3, <1>4, <1>5, <2>1, <2>2, SameHistory DEF Abstract!FoldTo
<1>7. QED
  BY <1>2, <1>6 DEF msgs

LEMMA SamePrefix ==
  ASSUME NEW S, NEW s \in Seq(S), NEW t \in Seq(S), NEW n \in Nat, n <= Len(s), n <= Len(t),
         \A i \in 1..n : t[i] = s[i]
  PROVE  SubSeq(t, 1, n) = SubSeq(s, 1, n)
OBVIOUS

LEMMA FrontOfAppend ==
  ASSUME NEW S, NEW s \in Seq(S), NEW m \in S
  PROVE  /\ SubSeq(Append(s, m), 1, Len(s)) = s
         /\ SubSeq(Append(s, m), 1, Len(Append(s, m)) - 1) = s
<1> DEFINE t == Append(s, m)
<1>1. t \in Seq(S) /\ Len(t) = Len(s) + 1 /\ (\A i \in 1..Len(s) : t[i] = s[i]) /\ Len(s) \in Nat
  OBVIOUS
<1>2. SubSeq(s, 1, Len(s)) = s
  OBVIOUS
<1> HIDE DEF t
<1>3. SubSeq(t, 1, Len(s)) = s
  BY <1>1, <1>2, SamePrefix
<1>4. Len(t) - 1 = Len(s)
  BY <1>1
<1>5. QED
  BY <1>3, <1>4 DEF t

\* BeginTurn after a fold, or with none.
LEMMA StartRefines ==
  ASSUME NEW msgs \in Seq(Message), messages \in Seq(Message), pc \in {"idle", "summarizing"},
         BeginTurn(msgs), msgs = messages \/ Abstract!FoldTo(msgs)
  PROVE  Abstract!Next
<1>1. /\ messages' = Append(msgs, UserText) /\ UserText \in Message /\ pc' = "chat"
  BY TextsAreMessages DEF BeginTurn
<1>2. CASE msgs = messages
  <2>1. Abstract!Prompt
    BY <1>1, <1>2, SameHistory DEF Abstract!Prompt
  <2>2. QED
    BY <2>1 DEF Abstract!Next
<1>3. CASE Abstract!FoldTo(msgs)
  <2>1. SubSeq(messages', 1, Len(messages') - 1) = msgs
    BY <1>1, FrontOfAppend
  <2>2. messages' # <<>> /\ messages'[Len(messages')] = UserText
    BY <1>1
  <2>3. (IF pc' = "tools" THEN SubSeq(messages', 1, Len(messages') - 1) ELSE messages') = messages'
    BY <1>1
  <2>4. Abstract!Fold
    BY <1>1, <1>3, <2>1, <2>2, <2>3, SameHistory DEF Abstract!Fold
  <2>5. QED
    BY <2>4 DEF Abstract!Next
<1>4. QED
  BY <1>2, <1>3

LEMMA CompactionRefines ==
  ASSUME IInv, TInv, SummaryArrives \/ SummarizeFails
  PROVE  [Abstract!Next]_(Abstract!vars)
<1>1. /\ messages \in Seq(Message) /\ Valid(messages) /\ pc = "summarizing"
      /\ CompactionBoundary(messages, KeepTurns) > 0
  BY DEF IInv, TypeOK, AlwaysAnswered, TInv, FoldPending, SummaryArrives, Summarized, SummarizeFails
<1>2. PICK msgs \in Seq(Message) :
        AfterCompaction(msgs) /\ (msgs = messages \/ Abstract!FoldTo(msgs))
  <2>1. CASE SummarizeFails
    BY <1>1, <2>1 DEF SummarizeFails
  <2>2. CASE SummaryArrives
    <3>1. PICK summary \in Texts \ {"none"} : Summarized(summary)
      BY <2>2 DEF SummaryArrives
    <3>2. QED
      BY <1>1, <3>1, BoundaryFolds DEF Summarized
  <2>3. QED
    BY <2>1, <2>2
<1>3. CASE BeginTurn(msgs)
  BY <1>1, <1>2, <1>3, StartRefines
<1>4. CASE messages' = msgs /\ Return
  <2>1. pc' = "idle"
    BY <1>4 DEF Return
  <2>2. CASE msgs = messages
    BY <1>1, <1>4, <2>1, <2>2 DEF Abstract!vars
  <2>3. CASE Abstract!FoldTo(msgs)
    <3>1. (IF pc' = "tools" THEN SubSeq(messages', 1, Len(messages') - 1) ELSE messages') = msgs
      BY <1>4, <2>1
    <3>2. Abstract!Fold
      BY <1>1, <2>1, <2>3, <3>1 DEF Abstract!Fold
    <3>3. QED
      BY <3>2 DEF Abstract!Next
  <2>4. QED
    BY <1>2, <2>2, <2>3
<1>5. QED
  BY <1>2, <1>3, <1>4 DEF AfterCompaction

LEMMA FinalReplyRefines ==
  ASSUME IInv, NEW reply \in Replies, NEW usage \in UsageSteps, FinalReply(reply, usage)
  PROVE  Abstract!Next
<1> DEFINE spoken == Append(messages, reply)
<1>1. /\ messages \in Seq(Message) /\ pc = "chat" /\ pc' = "idle"
      /\ reply \in Message /\ reply.role = "assistant" /\ reply.uses = <<>>
      /\ AssistantText("words") \in Message /\ Len(messages) \in Nat
  BY ReplyTypes, TextsAreMessages DEF FinalReply, Return, IInv, TypeOK, Texts
<1>2. /\ spoken \in Seq(Message) /\ Len(spoken) = Len(messages) + 1
      /\ spoken[Len(messages) + 1] = reply /\ SubSeq(spoken, 1, Len(messages)) = messages
      /\ \A i \in 1..Len(messages) : spoken[i] = messages[i]
  BY <1>1, FrontOfAppend
<1>3. messages' = IF reply.text = "words" THEN spoken ELSE Append(spoken, AssistantText("words"))
  BY DEF FinalReply, Explain
<1> HIDE DEF spoken
<1>4. CASE reply.text = "words"
  <2>1. messages' = spoken
    BY <1>3, <1>4
  <2>2. Abstract!LastWords
    BY <1>1, <1>2, <1>4, <2>1 DEF Abstract!LastWords
  <2>3. Abstract!Grows(1)
    BY <1>1, <1>2, <2>1 DEF Abstract!Grows
  <2>4. Abstract!Answer
    BY <1>1, <2>2, <2>3 DEF Abstract!Answer
  <2>5. QED
    BY <2>4 DEF Abstract!Next
<1>5. CASE reply.text # "words"
  <2>1. messages' = Append(spoken, AssistantText("words"))
    BY <1>3, <1>5
  <2>2. /\ messages' \in Seq(Message) /\ Len(messages') = Len(messages) + 2
        /\ messages'[Len(messages) + 2] = AssistantText("words")
        /\ \A i \in 1..Len(messages) + 1 : messages'[i] = spoken[i]
    BY <1>1, <1>2, <2>1
  <2>3. SubSeq(messages', 1, Len(messages)) = messages
    <3>1. SubSeq(messages', 1, Len(messages)) = SubSeq(spoken, 1, Len(messages))
      BY <1>1, <1>2, <2>2, SamePrefix
    <3>2. QED
      BY <1>2, <3>1
  <2>4. Abstract!LastWords
    BY <1>1, <2>2 DEF Abstract!LastWords, AssistantText
  <2>5. Abstract!Grows(2)
    BY <1>1, <2>2, <2>3 DEF Abstract!Grows
  <2>6. messages'[Len(messages) + 1] = reply
    BY <1>1, <1>2, <2>2
  <2>7. Abstract!Answer
    BY <1>1, <2>4, <2>5, <2>6 DEF Abstract!Answer
  <2>8. QED
    BY <2>7 DEF Abstract!Next
<1>6. QED
  BY <1>4, <1>5

\* The message that opens a round is not part of the conversation yet.
LEMMA CallToolsRefines ==
  ASSUME IInv, NEW reply \in Replies, NEW usage \in UsageSteps, CallTools(reply, usage)
  PROVE  UNCHANGED Abstract!vars
<1>1. /\ messages \in Seq(Message) /\ reply \in Message
      /\ pc = "chat" /\ pc' = "tools" /\ messages' = Append(messages, reply)
  BY ReplyTypes DEF CallTools, IInv, TypeOK
<1>2. SubSeq(messages', 1, Len(messages') - 1) = messages
  BY <1>1, FrontOfAppend
<1>3. QED
  BY <1>1, <1>2 DEF Abstract!vars

\* It is, together with its answers, when the round ends.
LEMMA RoundEndRefines ==
  ASSUME IInv, TInv, NextRound \/ GuardStops
  PROVE  Abstract!Next
<1> DEFINE n == Len(messages) - 1
           before == SubSeq(messages, 1, n)
           answered == Append(messages, ResultMessage(calls))
<1>1. /\ messages \in Seq(Message) /\ messages # <<>> /\ pc = "tools" /\ results = calls
      /\ messages[Len(messages)].role = "assistant" /\ messages[Len(messages)].uses = calls
      /\ calls # <<>>
      /\ ResultMessage(calls) \in Message /\ AssistantText("words") \in Message
  BY ResultsAreCalls, TextsAreMessages
  DEF NextRound, GuardStops, RoundAnswered, IInv, TypeOK, TInv, RoundOpen, Texts
<1>2. /\ n \in Nat /\ Len(messages) = n + 1 /\ before \in Seq(Message) /\ Len(before) = n
      /\ answered \in Seq(Message) /\ Len(answered) = n + 2
      /\ answered[n + 2] = ResultMessage(calls) /\ answered[n + 1] = messages[n + 1]
      /\ \A i \in 1..n + 1 : answered[i] = messages[i]
  <2>1. n \in Nat /\ Len(messages) = n + 1
    BY <1>1
  <2>2. before \in Seq(Message) /\ Len(before) = n
    BY <1>1, <2>1
  <2>3. /\ answered \in Seq(Message) /\ Len(answered) = Len(messages) + 1
        /\ answered[Len(messages) + 1] = ResultMessage(calls)
        /\ \A i \in 1..Len(messages) : answered[i] = messages[i]
    BY <1>1
  <2> HIDE DEF n, answered, before
  <2>4. Len(messages) + 1 = n + 2 /\ n + 1 \in 1..n + 1
    BY <2>1
  <2>5. QED
    BY <2>1, <2>2, <2>3, <2>4
<1>3. (IF pc = "tools" THEN SubSeq(messages, 1, Len(messages) - 1) ELSE messages) = before
  BY <1>1
<1> HIDE DEF n, answered, before
<1>4. ASSUME NEW t, t = IF pc' = "tools" THEN SubSeq(messages', 1, Len(messages') - 1) ELSE messages',
             t \in Seq(Message), Len(t) >= n + 2, \A i \in 1..n + 2 : t[i] = answered[i]
      PROVE  SubSeq(t, 1, n) = before /\ Abstract!RoundAt(n)
  <2>1. SubSeq(t, 1, n) = before
    <3>1. \A i \in 1..n : t[i] = messages[i]
      BY <1>2, <1>4
    <3>2. n <= Len(t) /\ n <= Len(messages)
      BY <1>2, <1>4
    <3>3. QED
      BY <1>1, <1>2, <1>4, <3>1, <3>2, SamePrefix DEF before
  <2>2. t[n + 1] = messages[n + 1] /\ t[n + 2] = ResultMessage(calls)
    BY <1>2, <1>4
  <2>3. messages[n + 1].role = "assistant" /\ messages[n + 1].uses = calls
    BY <1>1, <1>2
  <2>4. Abstract!RoundAt(n)
    BY <1>1, <1>4, <2>2, <2>3, SameHistory DEF Abstract!RoundAt
  <2>5. QED
    BY <2>1, <2>4
<1>5. CASE NextRound
  <2>1. pc' = "chat" /\ messages' = answered
    BY <1>1, <1>5 DEF NextRound, answered
  <2>2. SubSeq(messages', 1, n) = before /\ Abstract!RoundAt(n)
    BY <1>2, <1>4, <2>1
  <2>3. Abstract!Grows(2)
    BY <1>2, <1>3, <2>1, <2>2 DEF Abstract!Grows
  <2>4. Abstract!Round
    BY <1>1, <1>2, <1>3, <2>1, <2>2, <2>3 DEF Abstract!Round
  <2>5. QED
    BY <2>4 DEF Abstract!Next
<1>6. CASE GuardStops
  <2>1. pc' = "idle" /\ messages' = Append(answered, AssistantText("words"))
    BY <1>1, <1>6 DEF GuardStops, Return, Explain, answered
  <2>2. /\ messages' \in Seq(Message) /\ Len(messages') = n + 3
        /\ messages'[n + 3] = AssistantText("words")
        /\ \A i \in 1..n + 2 : messages'[i] = answered[i]
    BY <1>1, <1>2, <2>1
  <2>3. SubSeq(messages', 1, n) = before /\ Abstract!RoundAt(n)
    BY <1>2, <1>4, <2>1, <2>2
  <2>4. Abstract!Grows(3)
    BY <1>2, <1>3, <2>1, <2>2, <2>3 DEF Abstract!Grows
  <2>5. Abstract!LastWords
    BY <1>2, <2>1, <2>2 DEF Abstract!LastWords, AssistantText
  <2>6. Abstract!Answer
    BY <1>1, <1>2, <1>3, <2>1, <2>3, <2>4, <2>5 DEF Abstract!Answer
  <2>7. QED
    BY <2>6 DEF Abstract!Next
<1>7. QED
  BY <1>5, <1>6

LEMMA StepRefines == IInv /\ TInv /\ [Next]_vars => [Abstract!Next]_(Abstract!vars)
<1> SUFFICES ASSUME IInv, TInv, [Next]_vars PROVE [Abstract!Next]_(Abstract!vars)
  OBVIOUS
<1>1. messages \in Seq(Message)
  BY DEF IInv, TypeOK
<1>2. CASE Run
  BY <1>1, <1>2, StartRefines DEF Run
<1>3. CASE RunCompactingFirst \/ ForceCompact
  BY <1>3 DEF RunCompactingFirst, ForceCompact, Abstract!vars
<1>4. CASE SummaryArrives \/ SummarizeFails
  BY <1>4, CompactionRefines
<1>5. CASE Reply
  BY <1>5, ReplyIsTheProviders, FinalReplyRefines, CallToolsRefines
<1>6. CASE ChatFails
  <2>1. Abstract!Fail
    BY <1>6 DEF ChatFails, Return, Abstract!Fail
  <2>2. QED
    BY <2>1 DEF Abstract!Next
<1>7. CASE \E p \in DOMAIN calls : CallStep(p)
  BY <1>7 DEF CallStep, Approve, Refuse, ToolReturns, Collect, Abandon, toolFrame, Abstract!vars
<1>8. CASE NextRound \/ GuardStops
  BY <1>8, RoundEndRefines
<1>9. CASE Cancel \/ ClockPasses
  BY <1>9 DEF Cancel, ClockPasses, Abstract!vars
<1>10. CASE Reset \/ LoadInto
  <2>1. Abstract!Replace
    BY <1>10 DEF Reset, LoadInto, Replace, Abstract!Replace
  <2>2. QED
    BY <2>1 DEF Abstract!Next
<1>11. CASE UNCHANGED vars
  BY <1>11 DEF vars, Abstract!vars
<1>12. QED
  BY <1>2, <1>3, <1>4, <1>5, <1>6, <1>7, <1>8, <1>9, <1>10, <1>11 DEF Next

\* Run, RunStream, Compact, Reset and LoadInto implement Conversation: seen from
\* outside a round, the record only grows by whole prompts, rounds and answers, is
\* folded at a turn's start, or is replaced.
THEOREM AgentRefinesConversation == Spec => WholeSteps
<1>1. Init => Abstract!Init
  BY DEF Init, Abstract!Init
<1>2. QED
  BY <1>1, StepRefines, Invariants, PTL DEF Spec, WholeSteps, Abstract!Spec
=============================================================================
