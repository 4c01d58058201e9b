------------------------------ MODULE Streams ------------------------------
(***************************************************************************)
(* One streamed reply, from the chunks of a backend's HTTP body to the      *)
(* Response of a renderer.  The adapter's goroutine (llm.StreamEvents)      *)
(* turns each chunk into canonical events and hands them over an unbuffered *)
(* channel to the consumer, CollectStream or a renderer; either may leave   *)
(* when the context ends, and the body may break off anywhere.              *)
(*                                                                         *)
(* The server is external.  It says any legal sequence of a bounded number *)
(* of chunks; "reply" is what it has said so far, which is what the same       *)
(* server would have put into one whole response.                           *)
(***************************************************************************)
EXTENDS Wire

CONSTANTS
  Tokens,       \* Tokens[b]: what a chunk's text may be with backend b
  MaxChunks,    \* MaxChunks[b]: bound of the model, chunks of b that say something
  MaxCalls,     \* bound of the model: calls in a reply
  Conversations,\* what requests are made of
  PlainReplies  \* what a model without native tools says

ASSUME StreamAssumption ==
  /\ NoName \notin ToolNames
  /\ \A b \in Backends : Tokens[b] \subseteq STRING

\* history.Validate admits the conversations; no call is native to a plain reply.
PlainBlock == [is : {"text", "thinking"}, words : Seq(STRING)]
ASSUME RequestAssumption ==
  /\ \A msgs \in Conversations : msgs \in Seq(Message) /\ Valid(msgs)
  /\ PlainReplies \subseteq Seq(PlainBlock)

VARIABLES
  backend,    \* which adapter
  reply,      \* what the server has said
  said,       \* in how many chunks
  acc,        \* the adapter's accumulator
  out,        \* the events it has still to send
  producer,   \* reading, ending (nothing more to read) or closed
  col,        \* what the consumer has collected
  consumer,   \* reading, done, failed or unwritten
  cancelled   \* the context has ended

vars == <<backend, reply, said, acc, out, producer, col, consumer, cancelled>>
server == <<backend, reply, said>>
receiving == <<col, consumer>>

Quiet == [think |-> <<>>, text |-> <<>>, frags |-> <<>>, stop |-> 0, finish |-> FALSE, usage |-> 0]

Init ==
  /\ backend \in Backends
  /\ reply = [think |-> <<>>, text |-> <<>>, calls |-> <<>>, open |-> {}, finished |-> FALSE, usage |-> 0]
  /\ said = 0
  /\ acc = [calls |-> <<>>, text |-> <<>>, pending |-> <<>>, maybe |-> TRUE, seq |-> 0,
            finished |-> FALSE, usage |-> 0, error |-> FALSE]
  /\ out = <<>> /\ producer = "reading"
  /\ col = [blocks |-> <<>>, think |-> <<>>, text |-> <<>>, names |-> <<>>, usage |-> 0]
  /\ consumer = "reading" /\ cancelled = FALSE
-----------------------------------------------------------------------------
(* The server. *)

Frag(index, id, name, args) ==
  [index |-> index, id |-> id, name |-> name, args |-> args, quoted |-> FALSE]

NewIndex == Len(reply.calls) + 1

\* In OpenAI's shape a call may begin without an ID, and with any of its
\* arguments; Anthropic's begin with none, Ollama's with all.
OpeningIds == IF backend = "anthropic" THEN {<<"id", NewIndex>>} ELSE {NoId, <<"id", NewIndex>>}
OpeningArgs == CASE backend = "anthropic" -> {<<>>} [] backend = "openai" -> {<<>>, <<"{">>}
                 [] OTHER -> {EmptyObject}

Openings ==
  IF NewIndex > MaxCalls THEN {}
  ELSE {Frag(NewIndex, id, n, args) : id \in OpeningIds, n \in ToolNames, args \in OpeningArgs}

Braces == {"{", "}"}
Fragments == {Frag(i, NoId, NoName, <<a>>) : i \in reply.open, a \in Braces}

\* Ollama's calls come whole, some with their arguments as an encoded string,
\* which may encode nothing.
WholeCalls == UNION {{<<f>>, <<[f EXCEPT !.quoted = TRUE]>>, <<[f EXCEPT !.quoted = TRUE, !.args = <<"{">>]>>} :
                     f \in Openings}
WholeChunks == {[Quiet EXCEPT !.frags = fs] : fs \in WholeCalls}
Thoughts == {[Quiet EXCEPT !.think = <<"hm">>]}
TextAndCall(t, f) == [Quiet EXCEPT !.text = <<t>>, !.frags = <<f>>]
WithText == {TextAndCall(t, f) : t \in Tokens[backend], f \in Openings}

\* The next chunks that are legal for the backend.  Anthropic's blocks follow one
\* another; OpenAI's calls may grow in turns.
Says ==
  LET texts == {[Quiet EXCEPT !.text = <<t>>] : t \in Tokens[backend]} IN
  CASE backend = "ollama" -> texts \cup Thoughts \cup WholeChunks \cup WithText
    [] backend = "openai" -> texts \cup {[Quiet EXCEPT !.frags = <<f>>] : f \in Openings \cup Fragments}
    [] backend = "anthropic" ->
         IF reply.open = {} THEN texts \cup {[Quiet EXCEPT !.frags = <<f>>] : f \in Openings}
         ELSE {[Quiet EXCEPT !.frags = <<f>>] : f \in Fragments}
              \cup {[Quiet EXCEPT !.stop = i] : i \in reply.open}

Ends ==
  IF backend = "anthropic"
  THEN {[Quiet EXCEPT !.usage = 1]} \cup (IF reply.open = {} THEN {[Quiet EXCEPT !.finish = TRUE]} ELSE {})
  ELSE {[Quiet EXCEPT !.finish = TRUE, !.usage = u] : u \in {0, 1}}

\* With stream_options, OpenAI's usage comes in a chunk after the last.
Trailer == IF backend = "openai" /\ reply.finished THEN {[Quiet EXCEPT !.usage = 2]} ELSE {}

\* A loop over the fragments of a chunk.
Each(Body(_, _), first, frags) ==
  LET after[i \in 0 .. Len(frags)] == IF i = 0 THEN first ELSE Body(after[i - 1], frags[i])
  IN after[Len(frags)]

\* A chunk makes the reply longer: the reference the adapters are compared with.
AddFrag(calls, f) ==
  IF \E i \in DOMAIN calls : calls[i].index = f.index
  THEN [i \in DOMAIN calls |-> IF calls[i].index = f.index
                               THEN [calls[i] EXCEPT !.args = @ \o f.args] ELSE calls[i]]
  ELSE Append(calls, f)

AddFrags(calls, frags) == Each(AddFrag, calls, frags)

Add(k) ==
  [reply EXCEPT !.think = @ \o k.think, !.text = @ \o k.text,
                !.calls = AddFrags(@, k.frags),
                !.open = (@ \cup {k.frags[i].index : i \in DOMAIN k.frags}) \ {k.stop},
                !.finished = @ \/ k.finish,
                !.usage = IF k.usage > 0 THEN k.usage ELSE @]
-----------------------------------------------------------------------------
(* The adapters: what a chunk does to the accumulator and which events it is. *)

TextDelta(words) == [is |-> "text", words |-> words]
ThinkingDelta(words) == [is |-> "thinking", words |-> words]
ToolUseStart(id, name) == [is |-> "start", id |-> id, name |-> name]
ToolUseArgsDelta(id) == [is |-> "args", id |-> id]
ToolUseDone(id, args) == [is |-> "stop", id |-> id, args |-> args]
MessageDone(usage) == [is |-> "done", usage |-> usage]
Error == [is |-> "error"]

\* A step of an adapter: its accumulator and the events so far.
Step(a, events) == [acc |-> a, events |-> events]
Then(s, a, events) == Step(a, s.events \o events)
Fails(s) == Step([s.acc EXCEPT !.error = TRUE], s.events)

Deltas(text) == IF text = <<>> THEN <<>> ELSE <<TextDelta(text)>>

Seen(a, index) == \E i \in DOMAIN a.calls : a.calls[i].index = index
CallAt(a, index) == a.calls[CHOOSE i \in DOMAIN a.calls : a.calls[i].index = index]

Starts(s, f, id) ==
  Then(s, [s.acc EXCEPT !.calls = Append(@, [f EXCEPT !.id = id, !.args = <<>>])],
       <<ToolUseStart(id, f.name)>>)

\* Fragments are only ever concatenated.
Accumulates(s, f) ==
  IF f.args = <<>> THEN s
  ELSE Then(s, [s.acc EXCEPT !.calls = AddFrag(@, f)], <<ToolUseArgsDelta(CallAt(s.acc, f.index).id)>>)

Stops(s, call) ==
  IF IsJSON(OrEmpty(call.args)) THEN Then(s, s.acc, <<ToolUseDone(call.id, OrEmpty(call.args))>>)
  ELSE Fails(s)

OpenAIFragment(s, f) ==
  LET id == IF f.id = NoId THEN MadeUp(f.index - 1) ELSE f.id
  IN Accumulates(IF Seen(s.acc, f.index) THEN s ELSE Starts(s, f, id), f)

OpenAIFragments(s, frags) == Each(OpenAIFragment, s, frags)

\* Every call is done, or one of them is not JSON.
StopsAll(s) ==
  IF \A i \in DOMAIN s.acc.calls : IsJSON(OrEmpty(s.acc.calls[i].args))
  THEN Then(s, s.acc, [i \in DOMAIN s.acc.calls |->
                         ToolUseDone(s.acc.calls[i].id, OrEmpty(s.acc.calls[i].args))])
  ELSE Fails(s)

\* Mutant: the message is done with its last content, whatever comes after.
OpenAIFinishesAtOnce(s) ==
  LET stopped == StopsAll(s)
  IN Then(stopped, [stopped.acc EXCEPT !.finished = TRUE], <<MessageDone(s.acc.usage)>>)

\* finish_reason: every call is done now; usage may still come.
OpenAIFinishes(s) ==
  LET stopped == StopsAll(s)
  IN Step([stopped.acc EXCEPT !.finished = TRUE], stopped.events)

\* streamAccumulator.handle of the OpenAI adapter.
OpenAIHandle(a, k) ==
  LET counted == Step(IF k.usage > 0 THEN [a EXCEPT !.usage = k.usage] ELSE a, <<>>)
      spoken  == Then(counted, counted.acc, Deltas(k.text))
      called  == OpenAIFragments(spoken, k.frags)
  IN IF a.finished THEN counted ELSE IF k.finish THEN OpenAIFinishes(called) ELSE called

\* streamAccumulator.handle of the Anthropic adapter.
AnthropicFragment(s, f) ==
  IF f.name # NoName THEN Starts(s, f, f.id)
  ELSE IF Seen(s.acc, f.index) THEN Accumulates(s, f) ELSE Fails(s)

AnthropicFragments(s, frags) == Each(AnthropicFragment, s, frags)

AnthropicHandle(a, k) ==
  LET counted == Step(IF k.usage > 0 THEN [a EXCEPT !.usage = k.usage] ELSE a, Deltas(k.text))
      called  == AnthropicFragments(counted, k.frags)
  IN IF k.stop # 0 THEN Stops(called, CallAt(a, k.stop))
     ELSE IF k.finish THEN Then(called, called.acc, <<MessageDone(a.usage)>>) ELSE called

\* The Ollama adapter holds text back while it may be a narrated call.
Flushes(s) == Then(s, [s.acc EXCEPT !.pending = <<>>],
                   [i \in DOMAIN s.acc.pending |-> TextDelta(<<s.acc.pending[i]>>)])

\* Mutant: the text that settles it is sent before the text held back.
OllamaSpeaksFirst(s, text) ==
  LET all == s.acc.text \o text
      maybe == s.acc.maybe /\ (Trimmed(all) = <<>> \/ LooksLikeObject(all))
      heard == [s.acc EXCEPT !.text = all, !.maybe = maybe]
  IN IF text = <<>> THEN s
     ELSE IF maybe THEN Step([heard EXCEPT !.pending = @ \o text], s.events)
     ELSE Flushes(Then(s, heard, Deltas(text)))

OllamaSpeaks(s, text) ==
  LET all == s.acc.text \o text
      maybe == s.acc.maybe /\ (Trimmed(all) = <<>> \/ LooksLikeObject(all))
      heard == [s.acc EXCEPT !.text = all, !.maybe = maybe]
  IN IF text = <<>> THEN s
     ELSE IF maybe THEN Step([heard EXCEPT !.pending = @ \o text], s.events)
     ELSE LET flushed == Flushes(Step(heard, s.events)) IN Then(flushed, flushed.acc, Deltas(text))

\* Mutant: made-up IDs count the calls of a line.
OllamaCallsByLine(s, f) ==
  LET id == IF f.id = NoId THEN MadeUp(0) ELSE f.id
  IN IF Decoded(f).quoted \/ ~IsJSON(f.args) THEN Fails(s)
     ELSE Then(s, [s.acc EXCEPT !.seq = @ + 1],
               <<ToolUseStart(id, f.name), ToolUseDone(id, f.args)>>)

OllamaCalls(s, f) ==
  LET id == IF f.id = NoId THEN MadeUp(s.acc.seq) ELSE f.id
  IN IF Decoded(f).quoted \/ ~IsJSON(f.args) THEN Fails(s)
     ELSE Then(s, [s.acc EXCEPT !.seq = @ + 1],
               <<ToolUseStart(id, f.name), ToolUseDone(id, f.args)>>)

OllamaCallsEach(s, frags) == Each(OllamaCalls, s, frags)

\* chunk.Done: a narrated call is recovered, anything else is let go as it is.
OllamaDone(s, usage) ==
  LET settled ==
        IF s.acc.maybe /\ Narrates(s.acc.text)
        THEN LET c == NarratedCall(s.acc.text)
             IN Then(s, [s.acc EXCEPT !.pending = <<>>], <<ToolUseStart(c.id, c.name), ToolUseDone(c.id, c.args)>>)
        ELSE Flushes(s)
  IN Then(settled, settled.acc, <<MessageDone(EstimateUsage(s.acc.text, usage))>>)

\* Mutant: calls leave the text before them held back.
OllamaReleasesNothing(s, k) ==
  IF k.frags # <<>> /\ s.acc.maybe THEN Step([s.acc EXCEPT !.maybe = FALSE, !.pending = <<>>], s.events) ELSE s

OllamaReleases(s, k) ==
  IF k.frags # <<>> /\ s.acc.maybe THEN Flushes(Step([s.acc EXCEPT !.maybe = FALSE], s.events)) ELSE s

OllamaHandle(a, k) ==
  LET released == OllamaReleases(Step(a, <<>>), k)
      thought  == Then(released, released.acc,
                       IF k.think = <<>> THEN <<>> ELSE <<ThinkingDelta(k.think)>>)
      called   == OllamaCallsEach(OllamaSpeaks(thought, k.text), k.frags)
  IN IF k.finish THEN OllamaDone(called, k.usage) ELSE called

Handle(a, k) == CASE backend = "openai" -> OpenAIHandle(a, k)
                  [] backend = "anthropic" -> AnthropicHandle(a, k)
                  [] backend = "ollama" -> OllamaHandle(a, k)
-----------------------------------------------------------------------------
(* The goroutine of StreamEvents. *)

Speaks(k) ==
  LET s == Handle(acc, k) IN
  /\ producer = "reading" /\ out = <<>>
  /\ reply' = Add(k)
  /\ acc' = s.acc
  /\ out' = IF s.acc.error THEN <<Error>> ELSE s.events
  /\ producer' = IF s.acc.error \/ (backend = "ollama" /\ k.finish) THEN "ending" ELSE "reading"
  /\ UNCHANGED <<backend, receiving, cancelled>>

Receive == \/ /\ ~reply.finished /\ said < MaxChunks[backend]
              /\ \E k \in Says : Speaks(k) /\ said' = said + 1
           \/ \E k \in Ends : ~reply.finished /\ (k.finish \/ reply.usage = 0) /\ Speaks(k) /\ UNCHANGED said
           \/ \E k \in Trailer : reply.usage # k.usage /\ Speaks(k) /\ UNCHANGED said

\* The body ends: OpenAI's message is done only now.
BodyEnds ==
  /\ producer = "reading" /\ out = <<>>
  /\ out' = IF acc.finished THEN <<MessageDone(acc.usage)>> ELSE <<>>
  /\ producer' = "ending"
  /\ UNCHANGED <<server, acc, receiving, cancelled>>

\* The connection breaks, or is given up because the context ended.
BodyFails ==
  /\ producer = "reading" /\ out = <<>>
  /\ out' = <<Error>> /\ producer' = "ending"
  /\ UNCHANGED <<server, acc, receiving, cancelled>>

\* Mutant: a send waits for the consumer only.
SendsForEver == FALSE /\ UNCHANGED vars

\* send returns false: the rest is never sent.
GivesUp ==
  /\ out # <<>> /\ cancelled
  /\ out' = <<>> /\ producer' = "closed"
  /\ UNCHANGED <<server, acc, receiving, cancelled>>

Close ==
  /\ producer = "ending" /\ out = <<>>
  /\ producer' = "closed"
  /\ UNCHANGED <<server, acc, out, receiving, cancelled>>
-----------------------------------------------------------------------------
(* CollectStream, PlainRenderer.Render and TUIRenderer.Render. *)

FlushThinking(c) == [c EXCEPT !.blocks = @ \o Optional(Thinking(c.think)), !.think = <<>>]
FlushText(c) == [c EXCEPT !.blocks = @ \o Optional(Text(c.text)), !.text = <<>>]

Take(c, e) ==
  CASE e.is = "thinking" -> [c EXCEPT !.think = @ \o e.words]
    [] e.is = "text" -> [FlushThinking(c) EXCEPT !.text = @ \o e.words]
    [] e.is = "start" -> [FlushText(FlushThinking(c)) EXCEPT !.names = Append(@, <<e.id, e.name>>)]
    [] e.is = "args" -> c
    [] e.is = "stop" ->
         LET named == CHOOSE i \in DOMAIN c.names : /\ c.names[i][1] = e.id
                                                    /\ \A j \in i + 1 .. Len(c.names) : c.names[j][1] # e.id
         IN [c EXCEPT !.blocks = Append(@, Call(e.id, c.names[named][2], e.args))]
    [] e.is = "done" -> [FlushText(FlushThinking(c)) EXCEPT !.usage = e.usage]
    [] e.is = "error" -> c

Send ==
  /\ out # <<>> /\ producer # "closed" /\ consumer = "reading"
  /\ col' = Take(col, Head(out))
  /\ out' = Tail(out)
  /\ consumer' = CASE Head(out).is = "done" -> "done" [] Head(out).is = "error" -> "failed" [] OTHER -> "reading"
  /\ UNCHANGED <<server, acc, producer, cancelled>>

\* The plain renderer's output cannot be written: Render returns at once, and the
\* process, whose context nobody ends, returns the error from main.
WriteFails ==
  /\ out # <<>> /\ producer # "closed" /\ consumer = "reading" /\ Head(out).is = "text"
  /\ out' = Tail(out)
  /\ consumer' = "unwritten"
  /\ UNCHANGED <<server, acc, producer, col, cancelled>>

\* Mutant: a closed channel is taken for an empty event.
SeesClosedIgnored == producer = "closed" /\ consumer = "reading" /\ UNCHANGED vars

SeesClosed ==
  /\ producer = "closed" /\ consumer = "reading"
  /\ consumer' = "failed"
  /\ UNCHANGED <<server, acc, out, producer, col, cancelled>>

SeesContext ==
  /\ cancelled /\ consumer = "reading"
  /\ consumer' = "failed"
  /\ UNCHANGED <<server, acc, out, producer, col, cancelled>>

Cancel ==
  /\ ~cancelled /\ consumer = "reading"
  /\ cancelled' = TRUE
  /\ UNCHANGED <<server, acc, out, producer, receiving>>

Next == \/ Receive \/ BodyEnds \/ BodyFails \/ GivesUp \/ Close
        \/ Send \/ WriteFails \/ SeesClosed \/ SeesContext \/ Cancel

Spec == Init /\ [][Next]_vars

\* Both goroutines run; a body is given up when its context ends, and a server
\* ends the body of a reply that is finished.  It may say nothing for ever.
FairSpec ==
  /\ Spec
  /\ WF_vars(Send) /\ WF_vars(GivesUp) /\ WF_vars(Close)
  /\ WF_vars(SeesClosed) /\ WF_vars(SeesContext)
  /\ WF_vars(cancelled /\ BodyFails) /\ WF_vars(reply.finished /\ BodyEnds)
-----------------------------------------------------------------------------
\* The type of every variable; nothing is left to send on a closed channel.
TypeOK ==
  /\ producer \in {"reading", "ending", "closed"}
  /\ consumer \in {"reading", "done", "failed", "unwritten"}
  /\ \A i \in DOMAIN out : out[i].is \in {"thinking", "text", "start", "args", "stop", "done", "error"}
  /\ producer = "closed" => out = <<>>
  /\ said \in 0 .. MaxChunks[backend]

WholeFails == \E i \in DOMAIN reply.calls : ~IsJSON(OrEmpty(reply.calls[i].args))

\* collect.go:10-12, "the same shape a non-streaming call would produce": however
\* the server cuts its reply into chunks, the words, the calls with their IDs and
\* arguments and the usage are those of the same reply in one piece, and a reply
\* is refused only if its arguments are not JSON.  No two calls share an ID, by
\* which history.Validate answers them.  (Not the order of text and
\* calls; nor the thinking before a narrated call, which only a stream keeps.)
\* Mutants: OllamaReleasesNothing, OpenAIFinishesAtOnce, OllamaCallsByLine, DecodedAsIs.
StreamedIsWhole ==
  LET whole == FromMessage(backend, reply) IN
  /\ acc.error => WholeFails
  /\ consumer = "done" =>
       /\ ~WholeFails
       /\ Calls(col.blocks) = Calls(whole)
       /\ \A i, j \in DOMAIN Calls(whole) : i # j => Calls(whole)[i].id # Calls(whole)[j].id
       /\ Words(col.blocks, "text") = Words(whole, "text")
       /\ Words(whole, "thinking") \in {<<>>, Words(col.blocks, "thinking")}
       /\ col.usage = FromUsage(backend, reply)

\* No text is lost, repeated or moved between the server and the screen, and none
\* is held back but what may yet be a narrated call, until the call is made of it.
\* Mutant: OllamaSpeaksFirst.
Heard == Words(col.blocks, "text") \o col.text
OnItsWay == Words(out, "text")
TextInOrder ==
  consumer = "reading" /\ producer = "reading" /\ ~reply.finished =>
    /\ Heard \o OnItsWay \o acc.pending = reply.text
    /\ acc.pending # <<>> => Trimmed(reply.text) = <<>> \/ LooksLikeObject(reply.text)

\* The request made of a conversation that history.Validate admits has every result right
\* after its call, as the backends ask, and no text less than the conversation.
\* Mutant: ToAssistantMessagesApart.
RequestsAreWellFormed ==
  said = 0 /\ out = <<>> /\ col.blocks = <<>> /\ producer = "reading" =>
    \A msgs \in Conversations :
      LET wire == ToRequest(backend, msgs)
      IN AnswersFollowCalls(wire) /\ Said(wire) >= Spoken(msgs)

\* A prompted reply with a fence has one call, that of the first fence, and all
\* the other words, in their order; a reply without one stays as it is.
\* Mutant: ParseEveryToolCall.
OnePromptedCall ==
  said = 0 /\ producer = "reading" =>
    \A blocks \in PlainReplies :
      LET parsed == ParseToolCall(blocks)
          words == Words(blocks, "text")
      IN IF FenceIn(words) = {} THEN parsed = blocks
         ELSE /\ Calls(parsed) = <<Call(MadeUp(0), FenceName[words[FirstFence(words)]], EmptyObject)>>
              /\ NonBlank(Words(parsed, "text")) = NonBlank(RemoveAt(words, FirstFence(words)))

\* The Anthropic adapter goes on reading after message_stop: if the connection
\* breaks then, it has an Error for a consumer that is gone.
BrokenLate == backend = "anthropic" /\ consumer = "done" /\ out = <<Error>>

\* The goroutine of a stream ends once its consumer has an outcome: it never has
\* an event left that nobody takes, but in BrokenLate (and but for a consumer
\* whose output failed, with which the process ends).  Mutant: SendsForEver.
ProducerEnds == consumer \in {"done", "failed"} ~> producer = "closed" \/ BrokenLate

\* A consumer has an outcome however the body ends, with a terminal event or by
\* breaking off, and on Ctrl+C though the server says nothing.
\* Mutant: SeesClosedIgnored.
OutcomeComes == producer # "reading" \/ cancelled ~> consumer # "reading"
=============================================================================
