-------------------------------- MODULE Wire --------------------------------
(***************************************************************************)
(* What the adapters of internal/llm make of a conversation on its way out, *)
(* and of a whole reply on its way in.                                      *)
(*                                                                         *)
(* Out: OpenAI and Ollama want one flat message for each tool result, the   *)
(* Messages API keeps blocks together.  In: a reply has a thinking trace, a *)
(* text and calls; the Ollama adapter also looks for a call narrated as     *)
(* text, the prompted decorator for one in a fenced block.                  *)
(*                                                                         *)
(* A text is a sequence of tokens.  "{" followed by a name is the JSON      *)
(* object that names that tool; a member of Fences is a whole fenced block. *)
(***************************************************************************)
EXTENDS History, SequencesExt

CONSTANTS
  Backends,     \* "openai", "ollama", "anthropic"
  ToolNames,    \* the tools offered
  Fences,       \* the fenced blocks a prompted reply may hold
  FenceName     \* FenceName[f]: the tool f names, ParseError if it is malformed

ParseError == "__prompted_parse_error__"

ASSUME WireAssumption ==
  /\ Backends \subseteq {"openai", "ollama", "anthropic"}
  /\ FenceName \in [Fences -> ToolNames \cup {ParseError}]

NoAnswer == <<>>

\* chatMessage, api.Message, MessageParam: who speaks, is there text, the calls,
\* the results it carries (one in a flat tool message, any number otherwise).
WireMessage(role, text, uses, answers) ==
  [role |-> role, text |-> text, uses |-> uses, answers |-> answers]

HasText(m) == m.text = "words"

ToUserMessages(m) ==
  (IF HasText(m) THEN <<WireMessage("user", TRUE, <<>>, NoAnswer)>> ELSE <<>>)
  \o [i \in DOMAIN m.results |-> WireMessage("tool", TRUE, <<>>, <<m.results[i]>>)]

\* Mutant: the words of a message that calls tools become a message of their own.
ToAssistantMessagesApart(m) ==
  <<WireMessage("assistant", FALSE, m.uses, NoAnswer)>>
  \o IF HasText(m) THEN <<WireMessage("assistant", TRUE, <<>>, NoAnswer)>> ELSE <<>>

\* Thinking is folded into the text, or has a field of its own (Ollama).
ToAssistantMessages(m) ==
  <<WireMessage("assistant", HasText(m) \/ m.thinking, m.uses, NoAnswer)>>

\* toContentBlocks keeps every block in its message.
ToParam(m) == <<WireMessage(m.role, HasText(m) \/ m.thinking, m.uses, m.results)>>

ToMessages(backend, m) ==
  IF backend = "anthropic" THEN ToParam(m)
  ELSE IF m.role = "user" THEN ToUserMessages(m) ELSE ToAssistantMessages(m)

ToRequest(backend, msgs) ==
  FlattenSeq([i \in DOMAIN msgs |-> ToMessages(backend, msgs[i])])

\* The rule every backend enforces: the results that follow an assistant message
\* at once are those of its calls, and there are no others.
Results(wire, i) ==
  LET last == CHOOSE j \in i .. Len(wire) :
                /\ \A k \in i + 1 .. j : wire[k].answers # NoAnswer
                /\ j = Len(wire) \/ wire[j + 1].answers = NoAnswer
  IN FlattenSeq([k \in 1 .. last - i |-> wire[i + k].answers])

AnswersFollowCalls(wire) ==
  /\ \A i \in DOMAIN wire : wire[i].role = "assistant" => Results(wire, i) = wire[i].uses
  /\ \A i \in DOMAIN wire : wire[i].answers # NoAnswer =>
       i > 1 /\ (wire[i - 1].answers # NoAnswer \/ wire[i - 1].role = "assistant")

Spoken(msgs) == Cardinality({i \in DOMAIN msgs : HasText(msgs[i])})
Said(wire) == Cardinality({i \in DOMAIN wire : wire[i].text /\ wire[i].role # "tool"})
-----------------------------------------------------------------------------
(* Replies. *)

Thinking(words) == [is |-> "thinking", words |-> words]
Text(words) == [is |-> "text", words |-> words]
Call(id, name, args) == [is |-> "call", id |-> id, name |-> name, args |-> args]

NoId == <<"id", 0>>
NoName == ""
MadeUp(n) == <<"call", n>>

\* Arguments are JSON text that may come in pieces; none at all means {}.
EmptyObject == <<"{", "}">>
OrEmpty(args) == IF args = <<>> THEN EmptyObject ELSE args
IsJSON(args) == args = EmptyObject

\* Mutant: arguments in a string stay a string.
DecodedAsIs(call) == call

\* decodeArguments and normalizeToolCallArguments take an object as it is and a
\* string for what it encodes.
Decoded(call) == [call EXCEPT !.quoted = FALSE]

Blank(token) == token = " "

Trimmed(text) ==
  LET solid == {i \in DOMAIN text : ~Blank(text[i])}
  IN IF solid = {} THEN <<>>
     ELSE SubSeq(text, CHOOSE i \in solid : \A j \in solid : i <= j,
                       CHOOSE i \in solid : \A j \in solid : i >= j)

NonBlank(text) == FlattenSeq([i \in DOMAIN text |-> IF Blank(text[i]) THEN <<>> ELSE <<text[i]>>])

LooksLikeObject(text) == Trimmed(text) # <<>> /\ Trimmed(text)[1] = "{"

\* narratedToolCall: exactly one JSON object that names a tool on offer.
Narrates(text) == \E n \in ToolNames : Trimmed(text) = <<"{", n>>
NarratedCall(text) == Call(MadeUp(0), Trimmed(text)[2], EmptyObject)

Optional(block) == IF block.words = <<>> THEN <<>> ELSE <<block>>

\* fromMessage and fromContentBlock, for a reply that did not stream.
FromMessage(backend, reply) ==
  IF backend = "ollama" /\ reply.calls = <<>> /\ Narrates(reply.text)
  THEN <<NarratedCall(reply.text)>>
  ELSE (IF backend = "ollama" THEN Optional(Thinking(reply.think)) ELSE <<>>)
       \o Optional(Text(reply.text))
       \o [i \in DOMAIN reply.calls |->
             LET c == reply.calls[i]
             IN Call(IF c.id = NoId THEN MadeUp(i - 1) ELSE c.id, c.name, OrEmpty(c.args))]

EstimateUsage(text, reported) == IF reported # 0 THEN reported ELSE Len(text)

FromUsage(backend, reply) ==
  IF backend = "ollama" THEN EstimateUsage(reply.text, reply.usage) ELSE reply.usage

Calls(blocks) ==
  FlattenSeq([i \in DOMAIN blocks |-> IF blocks[i].is = "call" THEN <<blocks[i]>> ELSE <<>>])
Words(blocks, kind) ==
  FlattenSeq([i \in DOMAIN blocks |-> IF blocks[i].is = kind THEN blocks[i].words ELSE <<>>])
-----------------------------------------------------------------------------
(* The prompted decorator. *)

\* A fenced block is one token.  fencedJSONRe can also begin to match at the closing
\* backticks of a block with another label; no text here has such a block.
FenceIn(text) == {i \in DOMAIN text : text[i] \in Fences}
FirstFence(text) == CHOOSE i \in FenceIn(text) : \A j \in FenceIn(text) : i <= j

\* extractToolCall: the first fence, with the prose on both sides of it.
ExtractToolCall(text) ==
  LET at == FirstFence(text)
  IN Optional(Text(Trimmed(SubSeq(text, 1, at - 1))))
     \o <<Call(MadeUp(0), FenceName[text[at]], EmptyObject)>>
     \o Optional(Text(Trimmed(SubSeq(text, at + 1, Len(text)))))

HoldFences(blocks) == {i \in DOMAIN blocks : blocks[i].is = "text" /\ FenceIn(blocks[i].words) # {}}

\* Mutant: every text block is searched.
ParseEveryToolCall(blocks) ==
  FlattenSeq([i \in DOMAIN blocks |->
    IF i \in HoldFences(blocks) THEN ExtractToolCall(blocks[i].words) ELSE <<blocks[i]>>])

\* parseToolCall: the first text block with a fence becomes a call.
ParseToolCall(blocks) ==
  FlattenSeq([i \in DOMAIN blocks |->
    IF i \in HoldFences(blocks) /\ \A j \in HoldFences(blocks) : i <= j
    THEN ExtractToolCall(blocks[i].words) ELSE <<blocks[i]>>])
=============================================================================
