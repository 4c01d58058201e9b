--------------------------- MODULE StreamsProofs ---------------------------
(***************************************************************************)
(* The invariants of Streams for all tokens, tools, fences, conversations,  *)
(* plain replies and bounds of the model: TextInOrder, StreamedIsWhole,     *)
(* RequestsAreWellFormed and OnePromptedCall.                               *)
(*                                                                         *)
(* The invariant IInv is a balance.  Conveys says that what the consumer    *)
(* has collected and the events on their way to it are together the reply   *)
(* the server has made so far: the same names in order of their starts, the *)
(* same arguments in order of their ends, the same words of each kind.      *)
(* AccumulatorOK says, for each adapter, what its accumulator knows of that *)
(* reply, and so what it still owes: Ollama the words held back, OpenAI the *)
(* ends of its calls, Anthropic the end of the call that is open.  Refused  *)
(* and Delivered are the two ends of a stream.                              *)
(*                                                                         *)
(* A chunk is proved in two parts.  For each adapter and kind of chunk,     *)
(* Advances: the adapter's events carry exactly what the chunk added to the *)
(* reply.  For all of them at once, SpeaksStep: IInv then holds again.      *)
(*                                                                         *)
(* RequestsAreWellFormed and OnePromptedCall speak of no stream.  A request *)
(* is made message by message, and a well-formed one goes on with a message *)
(* that neither calls nor answers, or with a call and its answer together.  *)
(* A plain reply is what is before the first fence, the fence and the rest. *)
(***************************************************************************)
EXTENDS Streams, LineDiffProofs, FiniteSetTheorems

\* What a sequence's members hold, one after the other: m says what each holds.
Mapped(m, s) == [i \in DOMAIN s |-> m[s[i]]]
PiecesOf(m, s) == FlattenSeq(Mapped(m, s))

\* The tokens, the literals among them; the IDs; what is sent and what is collected.
Tok == STRING \cup {"hm", "{", "}"}
Id == {MadeUp(n) : n \in Nat} \cup {<<"id", n>> : n \in Nat}

Event == [is : {"text", "thinking"}, words : Seq(Tok)]
         \cup [is : {"start"}, id : Id, name : ToolNames]
         \cup [is : {"args"}, id : Id]
         \cup [is : {"stop"}, id : Id, args : Seq(Tok)]
         \cup [is : {"done"}, usage : Nat]
         \cup [is : {"error"}]

Block == [is : {"text", "thinking"}, words : Seq(Tok)]
         \cup [is : {"call"}, id : Id, name : ToolNames, args : Seq(Tok)]

\* What an event or a block holds of each kind.
WordsIn(E, kind) == [e \in E |-> IF e.is = kind THEN e.words ELSE <<>>]
StartIn == [e \in Event |-> IF e.is = "start" THEN <<<<e.id, e.name>>>> ELSE <<>>]
StopIn == [e \in Event |-> IF e.is = "stop" THEN <<<<e.id, e.args>>>> ELSE <<>>]
CallIn == [b \in Block |-> IF b.is = "call" THEN <<<<b.id, b.args>>>> ELSE <<>>]

Pairs == Seq(Id \X ToolNames)
Dones == Seq(Id \X Seq(Tok))

\* The ID the adapters give a call.
IdOf(calls, i) == IF calls[i].id = NoId THEN MadeUp(i - 1) ELSE calls[i].id

\* The calls as an accumulator has them.
Identified(call, id) == [call EXCEPT !.id = id]
WithIds(calls) == [i \in 1..Len(calls) |-> Identified(calls[i], IdOf(calls, i))]

\* What starts the calls, and what ends the first n of them.
NamesOf(calls) == [i \in 1..Len(calls) |-> <<IdOf(calls, i), calls[i].name>>]
MadeOf(calls, n) == [i \in 1..n |-> <<IdOf(calls, i), OrEmpty(calls[i].args)>>]

\* The calls of a reply and of an accumulator, and the records of Init.
CallRecord == [index : Nat, id : Id, name : ToolNames, args : Seq(Tok), quoted : BOOLEAN]

Reply == [think : Seq(Tok), text : Seq(Tok), calls : Seq(CallRecord), open : SUBSET Nat,
          finished : BOOLEAN, usage : Nat]

Accumulator == [calls : Seq(CallRecord), text : Seq(Tok), pending : Seq(Tok), maybe : BOOLEAN,
                seq : Nat, finished : BOOLEAN, usage : Nat, error : BOOLEAN]

Collection == [blocks : Seq(Block), think : Seq(Tok), text : Seq(Tok), names : Pairs, usage : Nat]

\* What a consumer that has collected c will have been told with the events es.
Delivers(c, es, names, made, text, think) ==
  /\ c.names \o PiecesOf(StartIn, es) = names
  /\ PiecesOf(CallIn, c.blocks) \o PiecesOf(StopIn, es) = made
  /\ (PiecesOf(WordsIn(Block, "text"), c.blocks) \o c.text) \o PiecesOf(WordsIn(Event, "text"), es) = text
  /\ (PiecesOf(WordsIn(Block, "thinking"), c.blocks) \o c.think) \o PiecesOf(WordsIn(Event, "thinking"), es) = think

\* A call has started before it stops.
StartsFirst(c, es) ==
  \A i \in DOMAIN es : es[i].is = "stop" =>
    \/ \E j \in DOMAIN c.names : c.names[j][1] = es[i].id
    \/ \E j \in 1..i - 1 : es[j].is = "start" /\ es[j].id = es[i].id

\* A call that was collected has the name of one that started.
BlocksNamed(c) == \A i \in DOMAIN c.blocks : c.blocks[i].is = "call" =>
  \E j \in DOMAIN c.names : c.names[j] = <<c.blocks[i].id, c.blocks[i].name>>

\* What the server keeps to: calls are numbered in order, and its IDs say their number;
\* Anthropic has one block open at a time.
ReplyOK(r) ==
  /\ r \in Reply
  /\ \A i \in 1..Len(r.calls) : /\ r.calls[i].index = i
                                /\ r.calls[i].id \in {NoId, <<"id", i>>}
                                /\ backend = "anthropic" => r.calls[i].id # NoId
  /\ r.open \subseteq 1..Len(r.calls)
  /\ backend = "anthropic" => r.open \subseteq {Len(r.calls)}
  /\ backend # "ollama" => r.think = <<>>

AllJSON(calls) == \A i \in 1..Len(calls) : IsJSON(OrEmpty(calls[i].args))

\* The accumulator mirrors the reply.  When OpenAI's is finished its calls are made.
OpenAIOK(r, a) ==
  /\ a.pending = <<>> /\ a.calls = WithIds(r.calls)
  /\ a.finished = r.finished /\ a.usage = r.usage
  /\ a.finished => AllJSON(r.calls)

\* A call is made when its block stops.
AnthropicOK(r, a) ==
  /\ a.pending = <<>> /\ a.calls = WithIds(r.calls)
  /\ ~a.finished /\ a.usage = r.usage
  /\ r.finished => r.open = {}
  /\ \A i \in 1..Len(r.calls) : i \notin r.open => IsJSON(OrEmpty(r.calls[i].args))

\* The text is held back exactly while it may be a narrated call.
OllamaOK(r, a) ==
  /\ a.text = r.text /\ a.seq = Len(r.calls) /\ ~a.finished
  /\ \A i \in 1..Len(r.calls) : IsJSON(r.calls[i].args)
  /\ ~r.finished => r.usage = 0
  /\ a.maybe => r.calls = <<>> /\ (Trimmed(r.text) = <<>> \/ LooksLikeObject(r.text))
  /\ ~a.maybe => r.calls # <<>> \/ (Trimmed(r.text) # <<>> /\ ~LooksLikeObject(r.text))
  /\ ~r.finished => a.pending = IF a.maybe THEN r.text ELSE <<>>

AccumulatorOK(r, a) == CASE backend = "openai" -> OpenAIOK(r, a)
                [] backend = "anthropic" -> AnthropicOK(r, a)
                [] backend = "ollama" -> OllamaOK(r, a)

\* The reply is a narrated call; how many of its calls have been made.
Narrated(r) == backend = "ollama" /\ r.finished /\ r.calls = <<>> /\ Narrates(r.text)
Complete(r, a) == CASE backend = "ollama" -> Len(r.calls)
                    [] backend = "openai" -> IF r.finished THEN Len(r.calls) ELSE 0
                    [] OTHER -> IF r.open = {} THEN Len(r.calls) ELSE Len(r.calls) - 1

\* What a consumer is to have been told of reply r: starts, ends and text.
TheNames(r) == IF Narrated(r) THEN <<<<MadeUp(0), Trimmed(r.text)[2]>>>> ELSE NamesOf(r.calls)
TheMade(r, a) == IF Narrated(r) THEN <<<<MadeUp(0), EmptyObject>>>> ELSE MadeOf(r.calls, Complete(r, a))
TheText(r, a) == IF Narrated(r) \/ (backend = "ollama" /\ ~r.finished /\ a.maybe) THEN <<>> ELSE r.text

Conveys(c, es, r, a) == Delivers(c, es, TheNames(r), TheMade(r, a), TheText(r, a), r.think)

\* Nothing more is said that counts; Anthropic's adapter reads on.
Final == reply.finished /\ (producer = "reading" => backend = "anthropic")

Types ==
  /\ backend \in Backends /\ acc \in Accumulator /\ col \in Collection /\ out \in Seq(Event)
  /\ producer \in {"reading", "ending", "closed"}
  /\ consumer \in {"reading", "done", "failed", "unwritten"}

\* An error of the adapter ends the stream, and the whole reply would fail too.
Refused ==
  acc.error =>
    /\ WholeFails /\ producer # "reading" /\ consumer # "done"
    /\ \A i \in DOMAIN out : out[i].is = "error"

Accumulated == ~acc.error => AccumulatorOK(reply, acc)

\* Nothing is lost, doubled or reordered between the server and a consumer that reads.
OnTheWay ==
  ~acc.error /\ consumer = "reading" /\ producer # "closed" =>
    Conveys(col, out, reply, acc) /\ StartsFirst(col, out)

\* The terminal event comes last, with the usage of the whole reply.
DoneIsLast ==
  consumer = "reading" =>
    \A i \in DOMAIN out : out[i].is = "done" =>
      i = Len(out) /\ Final /\ out[i].usage = FromUsage(backend, reply)

\* A consumer that is done has all of it.
Delivered ==
  consumer = "done" =>
    /\ Final /\ Conveys(col, <<>>, reply, acc)
    /\ col.text = <<>> /\ col.think = <<>> /\ col.usage = FromUsage(backend, reply)

IInv ==
  /\ Types /\ ReplyOK(reply) /\ BlocksNamed(col)
  /\ Refused /\ Accumulated /\ OnTheWay /\ DoneIsLast /\ Delivered
-----------------------------------------------------------------------------
(* Loops over the fragments of a chunk, of which there is at most one. *)

\* A loop over no fragment leaves what it began with, over one it is one step:
\* the calls of a reply.
LEMMA EachAddFrag ==
  ASSUME NEW x, NEW frags
  PROVE  /\ frags = <<>> => AddFrags(x, frags) = x
         /\ \A f : frags = <<f>> => AddFrags(x, frags) = AddFrag(x, f)
<1>1. ASSUME frags = <<>> PROVE AddFrags(x, frags) = x
  <2> DEFINE A(h) == h = [i \in 0 .. Len(frags) |-> IF i = 0 THEN x ELSE AddFrag(h[i - 1], frags[i])]
             e == CHOOSE h : A(h)
  <2>1. Len(frags) = 0
    BY <1>1
  <2>2. A([i \in 0 .. 0 |-> x])
    BY <2>1
  <2>3. A(e)
    BY <2>2
  <2>4. AddFrags(x, frags) = e[Len(frags)]
    BY DEF Each, AddFrags, OpenAIFragments, AnthropicFragments, OllamaCallsEach
  <2>5. QED
    BY <2>1, <2>3, <2>4
<1>2. ASSUME NEW f, frags = <<f>> PROVE AddFrags(x, frags) = AddFrag(x, f)
  <2> DEFINE A(h) == h = [i \in 0 .. Len(frags) |-> IF i = 0 THEN x ELSE AddFrag(h[i - 1], frags[i])]
             e == CHOOSE h : A(h)
  <2>1. Len(frags) = 1 /\ frags[1] = f
    BY <1>2
  <2>2. A([i \in 0 .. 1 |-> IF i = 0 THEN x ELSE AddFrag(x, f)])
    BY <2>1
  <2>3. A(e)
    BY <2>2
  <2>4. AddFrags(x, frags) = e[Len(frags)]
    BY DEF Each, AddFrags, OpenAIFragments, AnthropicFragments, OllamaCallsEach
  <2> HIDE DEF e
  <2>5. e[0] = x /\ e[1] = AddFrag(e[0], f)
    BY <2>1, <2>3
  <2>6. QED
    BY <2>1, <2>4, <2>5
<1>3. QED
  BY <1>1, <1>2

\* The same of the OpenAI adapter's loop.
LEMMA EachOpenAI ==
  ASSUME NEW x, NEW frags
  PROVE  /\ frags = <<>> => OpenAIFragments(x, frags) = x
         /\ \A f : frags = <<f>> => OpenAIFragments(x, frags) = OpenAIFragment(x, f)
<1>1. ASSUME frags = <<>> PROVE OpenAIFragments(x, frags) = x
  <2> DEFINE A(h) == h = [i \in 0 .. Len(frags) |-> IF i = 0 THEN x ELSE OpenAIFragment(h[i - 1], frags[i])]
             e == CHOOSE h : A(h)
  <2>1. Len(frags) = 0
    BY <1>1
  <2>2. A([i \in 0 .. 0 |-> x])
    BY <2>1
  <2>3. A(e)
    BY <2>2
  <2>4. OpenAIFragments(x, frags) = e[Len(frags)]
    BY DEF Each, AddFrags, OpenAIFragments, AnthropicFragments, OllamaCallsEach
  <2>5. QED
    BY <2>1, <2>3, <2>4
<1>2. ASSUME NEW f, frags = <<f>> PROVE OpenAIFragments(x, frags) = OpenAIFragment(x, f)
  <2> DEFINE A(h) == h = [i \in 0 .. Len(frags) |-> IF i = 0 THEN x ELSE OpenAIFragment(h[i - 1], frags[i])]
             e == CHOOSE h : A(h)
  <2>1. Len(frags) = 1 /\ frags[1] = f
    BY <1>2
  <2>2. A([i \in 0 .. 1 |-> IF i = 0 THEN x ELSE OpenAIFragment(x, f)])
    BY <2>1
  <2>3. A(e)
    BY <2>2
  <2>4. OpenAIFragments(x, frags) = e[Len(frags)]
    BY DEF Each, AddFrags, OpenAIFragments, AnthropicFragments, OllamaCallsEach
  <2> HIDE DEF e
  <2>5. e[0] = x /\ e[1] = OpenAIFragment(e[0], f)
    BY <2>1, <2>3
  <2>6. QED
    BY <2>1, <2>4, <2>5
<1>3. QED
  BY <1>1, <1>2

\* The same of the Anthropic adapter's loop.
LEMMA EachAnthropic ==
  ASSUME NEW x, NEW frags
  PROVE  /\ frags = <<>> => AnthropicFragments(x, frags) = x
         /\ \A f : frags = <<f>> => AnthropicFragments(x, frags) = AnthropicFragment(x, f)
<1>1. ASSUME frags = <<>> PROVE AnthropicFragments(x, frags) = x
  <2> DEFINE A(h) == h = [i \in 0 .. Len(frags) |-> IF i = 0 THEN x ELSE AnthropicFragment(h[i - 1], frags[i])]
             e == CHOOSE h : A(h)
  <2>1. Len(frags) = 0
    BY <1>1
  <2>2. A([i \in 0 .. 0 |-> x])
    BY <2>1
  <2>3. A(e)
    BY <2>2
  <2>4. AnthropicFragments(x, frags) = e[Len(frags)]
    BY DEF Each, AddFrags, OpenAIFragments, AnthropicFragments, OllamaCallsEach
  <2>5. QED
    BY <2>1, <2>3, <2>4
<1>2. ASSUME NEW f, frags = <<f>> PROVE AnthropicFragments(x, frags) = AnthropicFragment(x, f)
  <2> DEFINE A(h) == h = [i \in 0 .. Len(frags) |-> IF i = 0 THEN x ELSE AnthropicFragment(h[i - 1], frags[i])]
             e == CHOOSE h : A(h)
  <2>1. Len(frags) = 1 /\ frags[1] = f
    BY <1>2
  <2>2. A([i \in 0 .. 1 |-> IF i = 0 THEN x ELSE AnthropicFragment(x, f)])
    BY <2>1
  <2>3. A(e)
    BY <2>2
  <2>4. AnthropicFragments(x, frags) = e[Len(frags)]
    BY DEF Each, AddFrags, OpenAIFragments, AnthropicFragments, OllamaCallsEach
  <2> HIDE DEF e
  <2>5. e[0] = x /\ e[1] = AnthropicFragment(e[0], f)
    BY <2>1, <2>3
  <2>6. QED
    BY <2>1, <2>4, <2>5
<1>3. QED
  BY <1>1, <1>2

\* The same of the Ollama adapter's loop.
LEMMA EachOllama ==
  ASSUME NEW x, NEW frags
  PROVE  /\ frags = <<>> => OllamaCallsEach(x, frags) = x
         /\ \A f : frags = <<f>> => OllamaCallsEach(x, frags) = OllamaCalls(x, f)
<1>1. ASSUME frags = <<>> PROVE OllamaCallsEach(x, frags) = x
  <2> DEFINE A(h) == h = [i \in 0 .. Len(frags) |-> IF i = 0 THEN x ELSE OllamaCalls(h[i - 1], frags[i])]
             e == CHOOSE h : A(h)
  <2>1. Len(frags) = 0
    BY <1>1
  <2>2. A([i \in 0 .. 0 |-> x])
    BY <2>1
  <2>3. A(e)
    BY <2>2
  <2>4. OllamaCallsEach(x, frags) = e[Len(frags)]
    BY DEF Each, AddFrags, OpenAIFragments, AnthropicFragments, OllamaCallsEach
  <2>5. QED
    BY <2>1, <2>3, <2>4
<1>2. ASSUME NEW f, frags = <<f>> PROVE OllamaCallsEach(x, frags) = OllamaCalls(x, f)
  <2> DEFINE A(h) == h = [i \in 0 .. Len(frags) |-> IF i = 0 THEN x ELSE OllamaCalls(h[i - 1], frags[i])]
             e == CHOOSE h : A(h)
  <2>1. Len(frags) = 1 /\ frags[1] = f
    BY <1>2
  <2>2. A([i \in 0 .. 1 |-> IF i = 0 THEN x ELSE OllamaCalls(x, f)])
    BY <2>1
  <2>3. A(e)
    BY <2>2
  <2>4. OllamaCallsEach(x, frags) = e[Len(frags)]
    BY DEF Each, AddFrags, OpenAIFragments, AnthropicFragments, OllamaCallsEach
  <2> HIDE DEF e
  <2>5. e[0] = x /\ e[1] = OllamaCalls(e[0], f)
    BY <2>1, <2>3
  <2>6. QED
    BY <2>1, <2>4, <2>5
<1>3. QED
  BY <1>1, <1>2
-----------------------------------------------------------------------------
(* What the members of a sequence hold. *)

\* What the members hold is a sequence, as long as theirs.
LEMMA PieceSeq ==
  ASSUME NEW E, NEW S, NEW m \in [E -> Seq(S)], NEW s \in Seq(E)
  PROVE  Mapped(m, s) \in Seq(Seq(S)) /\ Len(Mapped(m, s)) = Len(s)
<1> DEFINE n == Len(s)
           p == [i \in 1..n |-> m[s[i]]]
<1>1. n \in Nat /\ DOMAIN s = 1..n /\ (\A i \in 1..n : s[i] \in E)
  OBVIOUS
<1>2. p \in [1..n -> Seq(S)]
  BY <1>1
<1> HIDE DEF n, p
<1>3. ASSUME NEW V, NEW q \in [1..n -> V] PROVE q \in Seq(V) /\ Len(q) = n
  BY <1>1, SeqDef, LenProperties
<1>4. p \in Seq(Seq(S)) /\ Len(p) = n
  BY <1>2, <1>3
<1>5. QED
  BY <1>1, <1>4 DEF p, n, Mapped

\* Its pieces joined are a sequence of the elements they are made of.
LEMMA PiecesType ==
  ASSUME NEW E, NEW S, NEW m \in [E -> Seq(S)], NEW s \in Seq(E)
  PROVE  PiecesOf(m, s) \in Seq(S)
BY PieceSeq, FlattenType DEF PiecesOf

\* No member, no piece.
LEMMA PiecesEmpty == ASSUME NEW m PROVE PiecesOf(m, <<>>) = <<>>
<1>1. Mapped(m, <<>>) = <<>>
  BY DEF Mapped
<1>2. QED
  BY <1>1, FlattenEmpty DEF PiecesOf

\* One member, its own piece.
LEMMA PiecesOne ==
  ASSUME NEW E, NEW S, NEW m \in [E -> Seq(S)], NEW e \in E
  PROVE  PiecesOf(m, <<e>>) = m[e]
<1>1. Mapped(m, <<e>>) = <<m[e]>> /\ m[e] \in Seq(S)
  BY DEF Mapped
<1>2. QED
  BY <1>1, FlattenOne DEF PiecesOf

\* The pieces of two sequences joined are those of one, then of the other.
LEMMA PiecesConcat ==
  ASSUME NEW E, NEW S, NEW m \in [E -> Seq(S)], NEW s \in Seq(E), NEW t \in Seq(E)
  PROVE  PiecesOf(m, s \o t) = PiecesOf(m, s) \o PiecesOf(m, t)
<1>1. \A u \in Seq(E) : Mapped(m, u) \in Seq(Seq(S)) /\ Len(Mapped(m, u)) = Len(u)
  BY PieceSeq, ZenonT(60)
<1> DEFINE P(u) == Mapped(m, u)
<1>0. P(s) \in Seq(Seq(S)) /\ P(t) \in Seq(Seq(S)) /\ Len(P(s)) = Len(s) /\ Len(P(t)) = Len(t)
  <2>1. P(s) \in Seq(Seq(S)) /\ Len(P(s)) = Len(s)
    BY <1>1
  <2>2. P(t) \in Seq(Seq(S)) /\ Len(P(t)) = Len(t)
    BY <1>1
  <2>3. QED
    BY <2>1, <2>2
<1>2. P(s \o t) = P(s) \o P(t)
  <2>1. /\ DOMAIN (s \o t) = 1..Len(s) + Len(t) /\ DOMAIN s = 1..Len(s) /\ DOMAIN t = 1..Len(t)
        /\ Len(s) \in Nat /\ Len(t) \in Nat
    OBVIOUS
  <2>2. ASSUME NEW i \in 1..Len(s) + Len(t) PROVE (P(s) \o P(t))[i] = m[(s \o t)[i]]
    <3>1. CASE i <= Len(s)
      <4>1. (s \o t)[i] = s[i] /\ i \in DOMAIN s
        BY <2>1, <3>1
      <4>2. (P(s) \o P(t))[i] = P(s)[i]
        BY <1>0, <2>1, <3>1
      <4>3. QED
        BY <4>1, <4>2 DEF Mapped
    <3>2. CASE ~(i <= Len(s))
      <4>1. (s \o t)[i] = t[i - Len(s)] /\ i - Len(s) \in DOMAIN t
        BY <2>1, <3>2
      <4>2. (P(s) \o P(t))[i] = P(t)[i - Len(s)]
        BY <1>0, <2>1, <3>2
      <4>3. QED
        BY <4>1, <4>2 DEF Mapped
    <3>3. QED
      BY <3>1, <3>2
  <2>3. /\ P(s) \o P(t) = [i \in 1..Len(s) + Len(t) |-> (P(s) \o P(t))[i]]
        /\ P(s \o t) = [i \in 1..Len(s) + Len(t) |-> m[(s \o t)[i]]]
    BY <1>0, <2>1 DEF Mapped
  <2>4. QED
    BY <2>2, <2>3
<1> HIDE DEF P
<1>3. FlattenSeq(P(s \o t)) = FlattenSeq(P(s)) \o FlattenSeq(P(t))
  BY <1>0, <1>2, FlattenConcat
<1>4. QED
  BY <1>3 DEF P, PiecesOf

\* What an event or a block holds of each kind, by type.
LEMMA PieceTypes ==
  /\ WordsIn(Event, "text") \in [Event -> Seq(Tok)]
  /\ WordsIn(Event, "thinking") \in [Event -> Seq(Tok)]
  /\ StartIn \in [Event -> Pairs] /\ StopIn \in [Event -> Dones]
  /\ WordsIn(Block, "text") \in [Block -> Seq(Tok)]
  /\ WordsIn(Block, "thinking") \in [Block -> Seq(Tok)]
  /\ CallIn \in [Block -> Dones]
<1>1. ASSUME NEW V PROVE <<>> \in Seq(V)
  OBVIOUS
<1>2. ASSUME NEW V, NEW v \in V PROVE <<v>> \in Seq(V)
  OBVIOUS
<1>3. ASSUME NEW e \in Event
      PROVE  /\ e.is \in {"text", "thinking"} => e.words \in Seq(Tok)
             /\ e.is = "start" => e.id \in Id /\ e.name \in ToolNames
             /\ e.is = "stop" => e.id \in Id /\ e.args \in Seq(Tok)
  BY DEF Event
<1>4. ASSUME NEW b \in Block
      PROVE  /\ b.is \in {"text", "thinking"} => b.words \in Seq(Tok)
             /\ b.is = "call" => b.id \in Id /\ b.args \in Seq(Tok)
  BY DEF Block
<1>5. ASSUME NEW kind \in {"text", "thinking"}
      PROVE  /\ WordsIn(Event, kind) \in [Event -> Seq(Tok)]
             /\ WordsIn(Block, kind) \in [Block -> Seq(Tok)]
  BY <1>1, <1>3, <1>4 DEF WordsIn
<1>6. StartIn \in [Event -> Pairs]
  <2>1. ASSUME NEW e \in Event PROVE StartIn[e] \in Pairs
    BY <1>1, <1>2, <1>3 DEF StartIn, Pairs
  <2>2. QED
    BY <2>1 DEF StartIn
<1>7. StopIn \in [Event -> Dones]
  <2>1. ASSUME NEW e \in Event PROVE StopIn[e] \in Dones
    BY <1>1, <1>2, <1>3 DEF StopIn, Dones
  <2>2. QED
    BY <2>1 DEF StopIn
<1>8. CallIn \in [Block -> Dones]
  <2>1. ASSUME NEW b \in Block PROVE CallIn[b] \in Dones
    BY <1>1, <1>2, <1>4 DEF CallIn, Dones
  <2>2. QED
    BY <2>1 DEF CallIn
<1>9. QED
  BY <1>5, <1>6, <1>7, <1>8

\* Each kind of event, and what is in it.
Holds(e, start, stop, text, think) ==
  /\ e \in Event
  /\ StartIn[e] = start /\ StopIn[e] = stop
  /\ WordsIn(Event, "text")[e] = text /\ WordsIn(Event, "thinking")[e] = think

\* A TextDelta holds its words.
LEMMA TextHolds ==
  ASSUME NEW w \in Seq(Tok) PROVE Holds(TextDelta(w), <<>>, <<>>, w, <<>>)
<1>1. TextDelta(w) \in Event
  BY DEF TextDelta, Event
<1>2. QED
  BY <1>1 DEF Holds, TextDelta, StartIn, StopIn, WordsIn

\* A ThinkingDelta holds its words.
LEMMA ThinkingHolds ==
  ASSUME NEW w \in Seq(Tok) PROVE Holds(ThinkingDelta(w), <<>>, <<>>, <<>>, w)
<1>1. ThinkingDelta(w) \in Event
  BY DEF ThinkingDelta, Event
<1>2. QED
  BY <1>1 DEF Holds, ThinkingDelta, StartIn, StopIn, WordsIn

\* A ToolUseStart holds the ID and the name of its call.
LEMMA StartHolds ==
  ASSUME NEW id \in Id, NEW n \in ToolNames
  PROVE  Holds(ToolUseStart(id, n), <<<<id, n>>>>, <<>>, <<>>, <<>>)
<1>1. ToolUseStart(id, n) \in Event
  BY DEF ToolUseStart, Event
<1>2. QED
  BY <1>1 DEF Holds, ToolUseStart, StartIn, StopIn, WordsIn

\* A ToolUseArgsDelta holds nothing a consumer collects.
LEMMA ArgsHolds ==
  ASSUME NEW id \in Id PROVE Holds(ToolUseArgsDelta(id), <<>>, <<>>, <<>>, <<>>)
<1>1. ToolUseArgsDelta(id) \in Event
  BY DEF ToolUseArgsDelta, Event
<1>2. QED
  BY <1>1 DEF Holds, ToolUseArgsDelta, StartIn, StopIn, WordsIn

\* A ToolUseDone holds the ID and the arguments of its call.
LEMMA StopHolds ==
  ASSUME NEW id \in Id, NEW args \in Seq(Tok)
  PROVE  Holds(ToolUseDone(id, args), <<>>, <<<<id, args>>>>, <<>>, <<>>)
<1>1. ToolUseDone(id, args) \in Event
  BY DEF ToolUseDone, Event
<1>2. QED
  BY <1>1 DEF Holds, ToolUseDone, StartIn, StopIn, WordsIn

\* A MessageDone holds no words and no call.
LEMMA DoneHolds ==
  ASSUME NEW usage \in Nat PROVE Holds(MessageDone(usage), <<>>, <<>>, <<>>, <<>>)
<1>1. MessageDone(usage) \in Event
  BY DEF MessageDone, Event
<1>2. QED
  BY <1>1 DEF Holds, MessageDone, StartIn, StopIn, WordsIn

\* Nor does an Error.
LEMMA ErrorHolds == Holds(Error, <<>>, <<>>, <<>>, <<>>)
<1>1. Error \in Event
  BY DEF Error, Event
<1>2. QED
  BY <1>1 DEF Holds, Error, StartIn, StopIn, WordsIn
-----------------------------------------------------------------------------
(* What the consumer collects. *)

\* The empty sequence is neutral.
LEMMA AfterNothing == ASSUME NEW S, NEW s \in Seq(S) PROVE s \o <<>> = s /\ <<>> \o s = s
  BY ConcatEmptySeq

\* Sequences join in any grouping.
LEMMA Grouping == 
  ASSUME NEW S, NEW s \in Seq(S), NEW t \in Seq(S), NEW u \in Seq(S)
  PROVE  (s \o t) \o u = s \o (t \o u) /\ s \o t \in Seq(S) /\ t \o u \in Seq(S)
  BY ConcatAssociative, ConcatProperties

\* What a list of events holds of each kind.
Carries(es, names, made, text, think) ==
  /\ es \in Seq(Event)
  /\ PiecesOf(StartIn, es) = names /\ PiecesOf(StopIn, es) = made
  /\ PiecesOf(WordsIn(Event, "text"), es) = text
  /\ PiecesOf(WordsIn(Event, "thinking"), es) = think

\* The contents of a list of events, by type.
LEMMA ContentsType ==
  ASSUME NEW es \in Seq(Event)
  PROVE  /\ PiecesOf(StartIn, es) \in Pairs /\ PiecesOf(StopIn, es) \in Dones
         /\ PiecesOf(WordsIn(Event, "text"), es) \in Seq(Tok)
         /\ PiecesOf(WordsIn(Event, "thinking"), es) \in Seq(Tok)
BY PieceTypes, PiecesType DEF Pairs, Dones

\* No event carries nothing.
LEMMA NoneCarries == Carries(<<>>, <<>>, <<>>, <<>>, <<>>)
<1>1. <<>> \in Seq(Event)
  OBVIOUS
<1>2. QED
  BY <1>1, PiecesEmpty DEF Carries

\* One event carries what it holds.
LEMMA OneCarries ==
  ASSUME NEW e, NEW names, NEW made, NEW text, NEW think, Holds(e, names, made, text, think)
  PROVE  Carries(<<e>>, names, made, text, think)
<1>1. e \in Event
  BY DEF Holds
<1>2. <<e>> \in Seq(Event)
  BY <1>1
<1>3. /\ PiecesOf(StartIn, <<e>>) = StartIn[e] /\ PiecesOf(StopIn, <<e>>) = StopIn[e]
      /\ PiecesOf(WordsIn(Event, "text"), <<e>>) = WordsIn(Event, "text")[e]
      /\ PiecesOf(WordsIn(Event, "thinking"), <<e>>) = WordsIn(Event, "thinking")[e]
  BY <1>1, PieceTypes, PiecesOne DEF Pairs, Dones
<1>4. QED
  BY <1>2, <1>3 DEF Carries, Holds

\* Two lists of events carry what one carries, then the other.
LEMMA BothCarry ==
  ASSUME NEW es, NEW names, NEW made, NEW text, NEW think, Carries(es, names, made, text, think),
         NEW fs, NEW names2, NEW made2, NEW text2, NEW think2, Carries(fs, names2, made2, text2, think2)
  PROVE  Carries(es \o fs, names \o names2, made \o made2, text \o text2, think \o think2)
<1>1. es \in Seq(Event) /\ fs \in Seq(Event)
  BY DEF Carries
<1>2. es \o fs \in Seq(Event)
  BY <1>1
<1>0. \A S : \A m \in [Event -> Seq(S)] : \A s, t \in Seq(Event) : PiecesOf(m, s \o t) = PiecesOf(m, s) \o PiecesOf(m, t)
  BY PiecesConcat
<1>3. \A s, t \in Seq(Event) : PiecesOf(StartIn, s \o t) = PiecesOf(StartIn, s) \o PiecesOf(StartIn, t)
  BY <1>0, PieceTypes DEF Pairs
<1>4. \A s, t \in Seq(Event) : PiecesOf(StopIn, s \o t) = PiecesOf(StopIn, s) \o PiecesOf(StopIn, t)
  BY <1>0, PieceTypes DEF Dones
<1>5. \A s, t \in Seq(Event) : PiecesOf(WordsIn(Event, "text"), s \o t)
                                 = PiecesOf(WordsIn(Event, "text"), s) \o PiecesOf(WordsIn(Event, "text"), t)
  BY <1>0, PieceTypes
<1>6. \A s, t \in Seq(Event) : PiecesOf(WordsIn(Event, "thinking"), s \o t)
                                 = PiecesOf(WordsIn(Event, "thinking"), s) \o PiecesOf(WordsIn(Event, "thinking"), t)
  BY <1>0, PieceTypes
<1>7. QED
  BY <1>1, <1>2, <1>3, <1>4, <1>5, <1>6 DEF Carries
-----------------------------------------------------------------------------
\* What the consumer has of each.
TextOf(c) == PiecesOf(WordsIn(Block, "text"), c.blocks) \o c.text
ThoughtOf(c) == PiecesOf(WordsIn(Block, "thinking"), c.blocks) \o c.think

\* The parts of a collection, by type.
LEMMA CollectionType ==
  ASSUME NEW c \in Collection
  PROVE  /\ c.blocks \in Seq(Block) /\ c.names \in Pairs /\ c.usage \in Nat
         /\ c.text \in Seq(Tok) /\ c.think \in Seq(Tok)
         /\ PiecesOf(CallIn, c.blocks) \in Dones
         /\ PiecesOf(WordsIn(Block, "text"), c.blocks) \in Seq(Tok)
         /\ PiecesOf(WordsIn(Block, "thinking"), c.blocks) \in Seq(Tok)
         /\ TextOf(c) \in Seq(Tok) /\ ThoughtOf(c) \in Seq(Tok)
<1>1. /\ c.blocks \in Seq(Block) /\ c.names \in Pairs /\ c.usage \in Nat
      /\ c.text \in Seq(Tok) /\ c.think \in Seq(Tok)
  BY DEF Collection
<1>2. PiecesOf(CallIn, c.blocks) \in Dones
  BY <1>1, PieceTypes, PiecesType DEF Dones
<1>3. /\ PiecesOf(WordsIn(Block, "text"), c.blocks) \in Seq(Tok)
      /\ PiecesOf(WordsIn(Block, "thinking"), c.blocks) \in Seq(Tok)
  BY <1>1, PieceTypes, PiecesType
<1>4. TextOf(c) \in Seq(Tok) /\ ThoughtOf(c) \in Seq(Tok)
  BY <1>1, <1>3, ConcatProperties DEF TextOf, ThoughtOf
<1>5. QED
  BY <1>1, <1>2, <1>3, <1>4

\* The adapter's events join what was delivered.
LEMMA DeliversMore ==
  ASSUME NEW c, NEW names, NEW made, NEW text, NEW think,
         Delivers(c, <<>>, names, made, text, think), c \in Collection,
         NEW es, NEW names2, NEW made2, NEW text2, NEW think2, Carries(es, names2, made2, text2, think2)
  PROVE  Delivers(c, es, names \o names2, made \o made2, text \o text2, think \o think2)
<1>1. /\ PiecesOf(StartIn, <<>>) = <<>> /\ PiecesOf(StopIn, <<>>) = <<>>
      /\ PiecesOf(WordsIn(Event, "text"), <<>>) = <<>> /\ PiecesOf(WordsIn(Event, "thinking"), <<>>) = <<>>
  BY PiecesEmpty
<1>2. c.names \o <<>> = c.names /\ PiecesOf(CallIn, c.blocks) \o <<>> = PiecesOf(CallIn, c.blocks)
  BY CollectionType, AfterNothing DEF Pairs, Dones
<1>3. TextOf(c) \o <<>> = TextOf(c) /\ ThoughtOf(c) \o <<>> = ThoughtOf(c)
  BY CollectionType, AfterNothing
<1>4. c.names = names /\ PiecesOf(CallIn, c.blocks) = made /\ TextOf(c) = text /\ ThoughtOf(c) = think
  BY <1>1, <1>2, <1>3 DEF Delivers, TextOf, ThoughtOf
<1>5. QED
  BY <1>4 DEF Delivers, Carries, TextOf, ThoughtOf

\* One more block.
LEMMA OneMoreBlock ==
  ASSUME NEW blocks \in Seq(Block), NEW b \in Block
  PROVE  /\ blocks \o <<b>> \in Seq(Block)
         /\ PiecesOf(CallIn, blocks \o <<b>>) = PiecesOf(CallIn, blocks) \o CallIn[b]
         /\ PiecesOf(WordsIn(Block, "text"), blocks \o <<b>>)
              = PiecesOf(WordsIn(Block, "text"), blocks) \o WordsIn(Block, "text")[b]
         /\ PiecesOf(WordsIn(Block, "thinking"), blocks \o <<b>>)
              = PiecesOf(WordsIn(Block, "thinking"), blocks) \o WordsIn(Block, "thinking")[b]
<1>1. <<b>> \in Seq(Block)
  OBVIOUS
<1>2. \A S : \A m \in [Block -> Seq(S)] : \A s, t \in Seq(Block) :
        PiecesOf(m, s \o t) = PiecesOf(m, s) \o PiecesOf(m, t)
  BY PiecesConcat
<1>3. \A S : \A m \in [Block -> Seq(S)] : PiecesOf(m, <<b>>) = m[b]
  BY PiecesOne
<1>4. \A S : \A m \in [Block -> Seq(S)] : PiecesOf(m, blocks \o <<b>>) = PiecesOf(m, blocks) \o m[b]
  BY <1>1, <1>2, <1>3
<1>5. blocks \o <<b>> \in Seq(Block)
  BY <1>1
<1>6. PiecesOf(CallIn, blocks \o <<b>>) = PiecesOf(CallIn, blocks) \o CallIn[b]
  BY <1>4, PieceTypes DEF Dones
<1>7. PiecesOf(WordsIn(Block, "text"), blocks \o <<b>>)
              = PiecesOf(WordsIn(Block, "text"), blocks) \o WordsIn(Block, "text")[b]
  BY <1>4, PieceTypes
<1>8. PiecesOf(WordsIn(Block, "thinking"), blocks \o <<b>>)
              = PiecesOf(WordsIn(Block, "thinking"), blocks) \o WordsIn(Block, "thinking")[b]
  BY <1>4, PieceTypes
<1>9. QED
  BY <1>5, <1>6, <1>7, <1>8

\* Letting go of the words collected moves them to a block and loses nothing.
SameBut(d, c) ==
  /\ d \in Collection
  /\ d.names = c.names /\ d.usage = c.usage
  /\ PiecesOf(CallIn, d.blocks) = PiecesOf(CallIn, c.blocks)
  /\ TextOf(d) = TextOf(c) /\ ThoughtOf(d) = ThoughtOf(c)
  /\ BlocksNamed(c) => BlocksNamed(d)

\* A block that is no call needs no name.
LEMMA NamedStill ==
  ASSUME NEW blocks \in Seq(Block), NEW b \in Block, b.is # "call", NEW c, NEW d,
         c.blocks = blocks, d.blocks = blocks \o <<b>>, d.names = c.names, BlocksNamed(c)
  PROVE  BlocksNamed(d)
<1> SUFFICES ASSUME NEW i \in DOMAIN d.blocks, d.blocks[i].is = "call"
             PROVE  \E j \in DOMAIN d.names : d.names[j] = <<d.blocks[i].id, d.blocks[i].name>>
  BY DEF BlocksNamed
<1>1. /\ Len(blocks) \in Nat /\ DOMAIN blocks = 1..Len(blocks) /\ DOMAIN (blocks \o <<b>>) = 1..Len(blocks) + 1
      /\ (blocks \o <<b>>)[Len(blocks) + 1] = b
      /\ \A k \in 1..Len(blocks) : (blocks \o <<b>>)[k] = blocks[k]
  OBVIOUS
<1>2. i \in 1..Len(blocks) /\ d.blocks[i] = c.blocks[i]
  BY <1>1
<1>3. QED
  BY <1>1, <1>2 DEF BlocksNamed

\* FlushThinking moves the thinking into a block and loses none of it.
LEMMA ThinkingLetGo ==
  ASSUME NEW c \in Collection
  PROVE  SameBut(FlushThinking(c), c) /\ FlushThinking(c).think = <<>> /\ FlushThinking(c).text = c.text
<1> DEFINE d == FlushThinking(c)
           b == Thinking(c.think)
<1>0. <<>> \in Seq(Tok)
  OBVIOUS
<1>1. /\ d.names = c.names /\ d.usage = c.usage /\ d.text = c.text /\ d.think = <<>>
      /\ d.blocks = c.blocks \o Optional(b)
      /\ d = [c EXCEPT !.blocks = d.blocks, !.think = <<>>]
  BY DEF FlushThinking, Collection
<1>2. CASE c.think = <<>>
  <2>1. d.blocks = c.blocks
    BY <1>1, <1>2, CollectionType, AfterNothing DEF Optional, Thinking
  <2>2. d = c
    BY <1>1, <1>2, <2>1 DEF Collection
  <2>3. QED
    BY <1>2, <2>2 DEF SameBut
<1>3. CASE c.think # <<>>
  <2>1. b \in Block /\ CallIn[b] = <<>> /\ WordsIn(Block, "text")[b] = <<>>
        /\ WordsIn(Block, "thinking")[b] = c.think /\ b.is # "call"
    <3>1. b \in Block
      BY CollectionType DEF Thinking, Block
    <3>2. QED
      BY <3>1 DEF Thinking, CallIn, WordsIn
  <2>2. d.blocks = c.blocks \o <<b>>
    BY <1>1, <1>3 DEF Optional, Thinking
  <2> HIDE DEF b
  <2>3. /\ d.blocks \in Seq(Block)
        /\ PiecesOf(CallIn, d.blocks) = PiecesOf(CallIn, c.blocks) \o <<>>
        /\ PiecesOf(WordsIn(Block, "text"), d.blocks) = PiecesOf(WordsIn(Block, "text"), c.blocks) \o <<>>
        /\ PiecesOf(WordsIn(Block, "thinking"), d.blocks) = PiecesOf(WordsIn(Block, "thinking"), c.blocks) \o c.think
    BY <2>1, <2>2, OneMoreBlock, CollectionType
  <2>4. /\ PiecesOf(CallIn, d.blocks) = PiecesOf(CallIn, c.blocks)
        /\ PiecesOf(WordsIn(Block, "text"), d.blocks) = PiecesOf(WordsIn(Block, "text"), c.blocks)
    <3>1. PiecesOf(CallIn, c.blocks) \o <<>> = PiecesOf(CallIn, c.blocks)
      BY CollectionType, AfterNothing DEF Dones
    <3>2. PiecesOf(WordsIn(Block, "text"), c.blocks) \o <<>> = PiecesOf(WordsIn(Block, "text"), c.blocks)
      BY CollectionType, AfterNothing
    <3>3. QED
      BY <2>3, <3>1, <3>2
  <2>5. TextOf(d) = TextOf(c)
    BY <1>1, <2>4 DEF TextOf
  <2>6. ThoughtOf(d) = ThoughtOf(c)
    <3>1. ThoughtOf(c) \o <<>> = ThoughtOf(c)
      BY CollectionType, AfterNothing
    <3>2. QED
      BY <1>1, <2>3, <3>1 DEF ThoughtOf
  <2>7. d \in Collection
    BY <1>0, <1>1, <2>3 DEF Collection
  <2>8. BlocksNamed(c) => BlocksNamed(d)
    BY <1>1, <2>1, <2>2, CollectionType, NamedStill
  <2>9. QED
    BY <1>1, <2>4, <2>5, <2>6, <2>7, <2>8 DEF SameBut
<1>4. QED
  BY <1>2, <1>3

\* FlushText does the same with the text.
LEMMA TextLetGo ==
  ASSUME NEW c \in Collection
  PROVE  SameBut(FlushText(c), c) /\ FlushText(c).text = <<>> /\ FlushText(c).think = c.think
<1> DEFINE d == FlushText(c)
           b == Text(c.text)
<1>0. <<>> \in Seq(Tok)
  OBVIOUS
<1>1. /\ d.names = c.names /\ d.usage = c.usage /\ d.think = c.think /\ d.text = <<>>
      /\ d.blocks = c.blocks \o Optional(b)
      /\ d = [c EXCEPT !.blocks = d.blocks, !.text = <<>>]
  BY DEF FlushText, Collection
<1>2. CASE c.text = <<>>
  <2>1. d.blocks = c.blocks
    BY <1>1, <1>2, CollectionType, AfterNothing DEF Optional, Text
  <2>2. d = c
    BY <1>1, <1>2, <2>1 DEF Collection
  <2>3. QED
    BY <1>2, <2>2 DEF SameBut
<1>3. CASE c.text # <<>>
  <2>1. b \in Block /\ CallIn[b] = <<>> /\ WordsIn(Block, "text")[b] = c.text
        /\ WordsIn(Block, "thinking")[b] = <<>> /\ b.is # "call"
    <3>1. b \in Block
      BY CollectionType DEF Text, Block
    <3>2. QED
      BY <3>1 DEF Text, CallIn, WordsIn
  <2>2. d.blocks = c.blocks \o <<b>>
    BY <1>1, <1>3 DEF Optional, Text
  <2> HIDE DEF b
  <2>3. /\ d.blocks \in Seq(Block)
        /\ PiecesOf(CallIn, d.blocks) = PiecesOf(CallIn, c.blocks) \o <<>>
        /\ PiecesOf(WordsIn(Block, "text"), d.blocks) = PiecesOf(WordsIn(Block, "text"), c.blocks) \o c.text
        /\ PiecesOf(WordsIn(Block, "thinking"), d.blocks) = PiecesOf(WordsIn(Block, "thinking"), c.blocks) \o <<>>
    BY <2>1, <2>2, OneMoreBlock, CollectionType
  <2>4. /\ PiecesOf(CallIn, d.blocks) = PiecesOf(CallIn, c.blocks)
        /\ PiecesOf(WordsIn(Block, "thinking"), d.blocks) = PiecesOf(WordsIn(Block, "thinking"), c.blocks)
    <3>1. PiecesOf(CallIn, c.blocks) \o <<>> = PiecesOf(CallIn, c.blocks)
      BY CollectionType, AfterNothing DEF Dones
    <3>2. PiecesOf(WordsIn(Block, "thinking"), c.blocks) \o <<>> = PiecesOf(WordsIn(Block, "thinking"), c.blocks)
      BY CollectionType, AfterNothing
    <3>3. QED
      BY <2>3, <3>1, <3>2
  <2>5. ThoughtOf(d) = ThoughtOf(c)
    BY <1>1, <2>4 DEF ThoughtOf
  <2>6. TextOf(d) = TextOf(c)
    <3>1. TextOf(c) \o <<>> = TextOf(c)
      BY CollectionType, AfterNothing
    <3>2. QED
      BY <1>1, <2>3, <3>1 DEF TextOf
  <2>7. d \in Collection
    BY <1>0, <1>1, <2>3 DEF Collection
  <2>8. BlocksNamed(c) => BlocksNamed(d)
    BY <1>1, <2>1, <2>2, CollectionType, NamedStill
  <2>9. QED
    BY <1>1, <2>4, <2>5, <2>6, <2>7, <2>8 DEF SameBut
<1>4. QED
  BY <1>2, <1>3
-----------------------------------------------------------------------------
\* An event taken: what it holds is collected.
Takes(c, e, d) ==
  /\ d \in Collection
  /\ d.names = c.names \o StartIn[e]
  /\ PiecesOf(CallIn, d.blocks) = PiecesOf(CallIn, c.blocks) \o StopIn[e]
  /\ TextOf(d) = TextOf(c) \o WordsIn(Event, "text")[e]
  /\ ThoughtOf(d) = ThoughtOf(c) \o WordsIn(Event, "thinking")[e]
  /\ BlocksNamed(c) => BlocksNamed(d)
  /\ e.is # "done" => d.usage = c.usage
  /\ e.is = "done" => d.text = <<>> /\ d.think = <<>> /\ d.usage = e.usage

\* A collection that gains nothing stays what it was.
LEMMA NothingTaken ==
  ASSUME NEW c \in Collection
  PROVE  /\ c.names \o <<>> = c.names /\ PiecesOf(CallIn, c.blocks) \o <<>> = PiecesOf(CallIn, c.blocks)
         /\ TextOf(c) \o <<>> = TextOf(c) /\ ThoughtOf(c) \o <<>> = ThoughtOf(c)
<1>1. c.names \o <<>> = c.names
  BY CollectionType, AfterNothing DEF Pairs
<1>2. PiecesOf(CallIn, c.blocks) \o <<>> = PiecesOf(CallIn, c.blocks)
  BY CollectionType, AfterNothing DEF Dones
<1>3. TextOf(c) \o <<>> = TextOf(c) /\ ThoughtOf(c) \o <<>> = ThoughtOf(c)
  BY CollectionType, AfterNothing
<1>4. QED
  BY <1>1, <1>2, <1>3

\* Taking a ThinkingDelta adds its words.
LEMMA ThinkingTaken ==
  ASSUME NEW c \in Collection, NEW e \in Event, e.is = "thinking"
  PROVE  Takes(c, e, Take(c, e))
<1> DEFINE d == Take(c, e)
<1>1. /\ StartIn[e] = <<>> /\ StopIn[e] = <<>> /\ WordsIn(Event, "text")[e] = <<>>
      /\ WordsIn(Event, "thinking")[e] = e.words /\ e.words \in Seq(Tok)
  BY DEF StartIn, StopIn, WordsIn, Event
<1>2. d = [c EXCEPT !.think = @ \o e.words]
  BY DEF Take
<1>3. /\ d.blocks = c.blocks /\ d.names = c.names /\ d.text = c.text /\ d.usage = c.usage
      /\ d.think = c.think \o e.words
  BY <1>2 DEF Collection
<1>4. d \in Collection
  <2>1. c.think \o e.words \in Seq(Tok)
    BY <1>1, CollectionType, ConcatProperties
  <2>2. QED
    BY <1>2, <2>1 DEF Collection
<1> HIDE DEF d
<1>5. ThoughtOf(d) = ThoughtOf(c) \o e.words
  <2>1. \A r, t, u \in Seq(Tok) : (r \o t) \o u = r \o (t \o u)
    BY ConcatAssociative
  <2> DEFINE p == PiecesOf(WordsIn(Block, "thinking"), c.blocks)
  <2>2. p \in Seq(Tok) /\ c.think \in Seq(Tok)
    BY CollectionType
  <2>3. ThoughtOf(c) = p \o c.think /\ ThoughtOf(d) = p \o (c.think \o e.words)
    BY <1>3 DEF ThoughtOf
  <2> HIDE DEF p
  <2>4. (p \o c.think) \o e.words = p \o (c.think \o e.words)
    BY <1>1, <2>1, <2>2
  <2>5. QED
    BY <2>3, <2>4
<1>6. TextOf(d) = TextOf(c)
  BY <1>3 DEF TextOf
<1>7. BlocksNamed(c) => BlocksNamed(d)
  BY <1>3 DEF BlocksNamed
<1>8. Takes(c, e, d)
  BY <1>1, <1>3, <1>4, <1>5, <1>6, <1>7, NothingTaken DEF Takes
<1>9. QED
  BY <1>8 DEF d

\* Taking a TextDelta adds its words, after the thinking is let go.
LEMMA TextTaken ==
  ASSUME NEW c \in Collection, NEW e \in Event, e.is = "text"
  PROVE  Takes(c, e, Take(c, e))
<1> DEFINE f == FlushThinking(c)
           d == Take(c, e)
<1>1. /\ StartIn[e] = <<>> /\ StopIn[e] = <<>> /\ WordsIn(Event, "thinking")[e] = <<>>
      /\ WordsIn(Event, "text")[e] = e.words /\ e.words \in Seq(Tok)
  BY DEF StartIn, StopIn, WordsIn, Event
<1>0. SameBut(f, c) /\ f \in Collection
  BY ThinkingLetGo DEF SameBut
<1>2. d = [f EXCEPT !.text = @ \o e.words]
  BY DEF Take
<1> HIDE DEF f
<1>3. /\ d.blocks = f.blocks /\ d.names = f.names /\ d.think = f.think /\ d.usage = f.usage
      /\ d.text = f.text \o e.words
  BY <1>0, <1>2 DEF Collection
<1>4. d \in Collection
  <2>1. f.text \o e.words \in Seq(Tok)
    BY <1>0, <1>1, CollectionType, ConcatProperties
  <2>2. QED
    BY <1>0, <1>2, <2>1 DEF Collection
<1> HIDE DEF d
<1>5. TextOf(d) = TextOf(f) \o e.words
  <2>1. \A r, t, u \in Seq(Tok) : (r \o t) \o u = r \o (t \o u)
    BY ConcatAssociative
  <2> DEFINE p == PiecesOf(WordsIn(Block, "text"), f.blocks)
  <2>2. p \in Seq(Tok) /\ f.text \in Seq(Tok)
    BY <1>0, CollectionType
  <2>3. TextOf(f) = p \o f.text /\ TextOf(d) = p \o (f.text \o e.words)
    BY <1>3 DEF TextOf
  <2> HIDE DEF p
  <2>4. (p \o f.text) \o e.words = p \o (f.text \o e.words)
    BY <1>1, <2>1, <2>2
  <2>5. QED
    BY <2>3, <2>4
<1>6. ThoughtOf(d) = ThoughtOf(f)
  BY <1>3 DEF ThoughtOf
<1>7. BlocksNamed(f) => BlocksNamed(d)
  BY <1>3 DEF BlocksNamed
<1>8. Takes(c, e, d)
  BY <1>0, <1>1, <1>3, <1>4, <1>5, <1>6, <1>7, NothingTaken DEF Takes, SameBut
<1>9. QED
  BY <1>8 DEF d

\* The consumer lets go of everything.
LEMMA AllLetGo ==
  ASSUME NEW c \in Collection
  PROVE  LET f == FlushText(FlushThinking(c)) IN SameBut(f, c) /\ f.text = <<>> /\ f.think = <<>>
<1> DEFINE f == FlushThinking(c)
           g == FlushText(f)
<1>1. SameBut(f, c) /\ f \in Collection /\ f.think = <<>>
  BY ThinkingLetGo DEF SameBut
<1>2. SameBut(g, f) /\ g.text = <<>> /\ g.think = f.think
  BY <1>1, TextLetGo
<1>3. SameBut(g, c) /\ g.text = <<>> /\ g.think = <<>>
  BY <1>1, <1>2 DEF SameBut
<1>4. QED
  BY <1>3

\* Taking a ToolUseStart adds a name.
LEMMA StartTaken ==
  ASSUME NEW c \in Collection, NEW e \in Event, e.is = "start"
  PROVE  Takes(c, e, Take(c, e))
<1> DEFINE f == FlushText(FlushThinking(c))
           d == Take(c, e)
<1>1. /\ StartIn[e] = <<<<e.id, e.name>>>> /\ StopIn[e] = <<>> /\ WordsIn(Event, "thinking")[e] = <<>>
      /\ WordsIn(Event, "text")[e] = <<>> /\ <<e.id, e.name>> \in Id \X ToolNames
  BY DEF StartIn, StopIn, WordsIn, Event
<1>0. SameBut(f, c) /\ f \in Collection
  BY AllLetGo DEF SameBut
<1>2. d = [f EXCEPT !.names = Append(@, <<e.id, e.name>>)]
  BY DEF Take
<1> HIDE DEF f
<1>3. /\ d.blocks = f.blocks /\ d.text = f.text /\ d.think = f.think /\ d.usage = f.usage
      /\ d.names = Append(f.names, <<e.id, e.name>>)
  BY <1>0, <1>2 DEF Collection
<1>4. Append(f.names, <<e.id, e.name>>) = f.names \o <<<<e.id, e.name>>>>
      /\ Append(f.names, <<e.id, e.name>>) \in Pairs
      /\ Len(f.names) \in Nat /\ DOMAIN f.names = 1..Len(f.names)
      /\ DOMAIN Append(f.names, <<e.id, e.name>>) = 1..Len(f.names) + 1
      /\ \A j \in 1..Len(f.names) : Append(f.names, <<e.id, e.name>>)[j] = f.names[j]
  <2> DEFINE V == Id \X ToolNames
             p == <<e.id, e.name>>
             s == f.names
  <2>1. s \in Seq(V) /\ p \in V
    BY <1>0, <1>1, CollectionType DEF Pairs
  <2> HIDE DEF V, p, s
  <2>2. /\ Append(s, p) = s \o <<p>> /\ Append(s, p) \in Seq(V)
        /\ Len(s) \in Nat /\ DOMAIN s = 1..Len(s) /\ DOMAIN Append(s, p) = 1..Len(s) + 1
        /\ \A j \in 1..Len(s) : Append(s, p)[j] = s[j]
    BY <2>1, AppendIsConcat, AppendProperties, LenProperties
  <2>3. QED
    BY <2>2 DEF V, p, s, Pairs
<1>5. d \in Collection
  BY <1>0, <1>2, <1>4 DEF Collection
<1> HIDE DEF d
<1>6. TextOf(d) = TextOf(f) /\ ThoughtOf(d) = ThoughtOf(f)
  BY <1>3 DEF TextOf, ThoughtOf
<1>7. BlocksNamed(f) => BlocksNamed(d)
  <2> SUFFICES ASSUME BlocksNamed(f), NEW i \in DOMAIN d.blocks, d.blocks[i].is = "call"
               PROVE  \E j \in DOMAIN d.names : d.names[j] = <<d.blocks[i].id, d.blocks[i].name>>
    BY DEF BlocksNamed
  <2>1. PICK j \in DOMAIN f.names : f.names[j] = <<d.blocks[i].id, d.blocks[i].name>>
    BY <1>3 DEF BlocksNamed
  <2>2. j \in DOMAIN d.names /\ d.names[j] = f.names[j]
    BY <1>3, <1>4, <2>1
  <2>3. QED
    BY <2>1, <2>2
<1>8. Takes(c, e, d)
  BY <1>0, <1>1, <1>3, <1>4, <1>5, <1>6, <1>7, NothingTaken DEF Takes, SameBut
<1>9. QED
  BY <1>8 DEF d

\* The name of the call that stops is the last started with its ID.
LEMMA LastOfName ==
  ASSUME NEW names \in Pairs, NEW id, NEW j \in DOMAIN names, names[j][1] = id
  PROVE  \E i \in DOMAIN names : /\ names[i][1] = id
                                 /\ \A k \in i + 1..Len(names) : names[k][1] # id
<1> DEFINE n == Len(names)
           T == {m \in Nat : \E i \in DOMAIN names : names[i][1] = id /\ m = n - i}
<1>1. n \in Nat /\ DOMAIN names = 1..n
  BY LenProperties DEF Pairs
<1> HIDE DEF n
<1>2. n - j \in T
  BY <1>1
<1>3. PICK m \in T : \A k \in T : m <= k
  BY <1>2, LeastExists
<1>4. PICK i \in DOMAIN names : names[i][1] = id /\ m = n - i
  BY <1>3
<1>5. ASSUME NEW k \in i + 1..n PROVE names[k][1] # id
  BY <1>1, <1>3, <1>4
<1>6. QED
  BY <1>4, <1>5 DEF n

\* Taking a ToolUseDone adds a call with the name that was started with its ID.
LEMMA StopTaken ==
  ASSUME NEW c \in Collection, NEW e \in Event, e.is = "stop",
         NEW j \in DOMAIN c.names, c.names[j][1] = e.id
  PROVE  Takes(c, e, Take(c, e))
<1> DEFINE named == CHOOSE i \in DOMAIN c.names : /\ c.names[i][1] = e.id
                                                  /\ \A k \in i + 1..Len(c.names) : c.names[k][1] # e.id
           b == Call(e.id, c.names[named][2], e.args)
           d == Take(c, e)
<1>1. /\ StartIn[e] = <<>> /\ StopIn[e] = <<<<e.id, e.args>>>> /\ WordsIn(Event, "thinking")[e] = <<>>
      /\ WordsIn(Event, "text")[e] = <<>> /\ e.id \in Id /\ e.args \in Seq(Tok)
  BY DEF StartIn, StopIn, WordsIn, Event
<1>2. named \in DOMAIN c.names /\ c.names[named][1] = e.id
  BY CollectionType, LastOfName
<1>3. d = [c EXCEPT !.blocks = Append(@, b)]
  BY DEF Take
<1> HIDE DEF named
<1>4. c.names[named] \in Id \X ToolNames
  BY <1>2, CollectionType, LenProperties, ElementOfSeq DEF Pairs
<1>5. c.names[named] = <<e.id, c.names[named][2]>> /\ c.names[named][2] \in ToolNames
  BY <1>2, <1>4
<1>6. /\ b \in Block /\ CallIn[b] = <<<<e.id, e.args>>>> /\ WordsIn(Block, "text")[b] = <<>>
      /\ WordsIn(Block, "thinking")[b] = <<>> /\ b.id = e.id /\ b.name = c.names[named][2]
  <2>1. b \in Block
    BY <1>1, <1>5 DEF Call, Block
  <2>2. QED
    BY <2>1 DEF Call, CallIn, WordsIn
<1> HIDE DEF b
<1>7. /\ d.names = c.names /\ d.usage = c.usage /\ d.text = c.text /\ d.think = c.think
      /\ d.blocks = Append(c.blocks, b)
  BY <1>3 DEF Collection
<1>8. c.blocks \in Seq(Block) /\ Append(c.blocks, b) = c.blocks \o <<b>>
  BY <1>6, CollectionType, AppendIsConcat
<1>9. d \in Collection
  <2>1. Append(c.blocks, b) \in Seq(Block)
    BY <1>6, <1>8, AppendProperties
  <2>2. QED
    BY <1>3, <2>1 DEF Collection
<1> HIDE DEF d
<1>10. /\ PiecesOf(CallIn, d.blocks) = PiecesOf(CallIn, c.blocks) \o <<<<e.id, e.args>>>>
       /\ PiecesOf(WordsIn(Block, "text"), d.blocks) = PiecesOf(WordsIn(Block, "text"), c.blocks) \o <<>>
       /\ PiecesOf(WordsIn(Block, "thinking"), d.blocks) = PiecesOf(WordsIn(Block, "thinking"), c.blocks) \o <<>>
  <2>1. d.blocks = c.blocks \o <<b>>
    BY <1>7, <1>8
  <2>2. /\ PiecesOf(CallIn, c.blocks \o <<b>>) = PiecesOf(CallIn, c.blocks) \o CallIn[b]
        /\ PiecesOf(WordsIn(Block, "text"), c.blocks \o <<b>>)
             = PiecesOf(WordsIn(Block, "text"), c.blocks) \o WordsIn(Block, "text")[b]
        /\ PiecesOf(WordsIn(Block, "thinking"), c.blocks \o <<b>>)
             = PiecesOf(WordsIn(Block, "thinking"), c.blocks) \o WordsIn(Block, "thinking")[b]
    BY <1>6, <1>8, OneMoreBlock
  <2>3. QED
    BY <1>6, <2>1, <2>2
<1>11. TextOf(d) = TextOf(c) /\ ThoughtOf(d) = ThoughtOf(c)
  <2>1. /\ PiecesOf(WordsIn(Block, "text"), c.blocks) \o <<>> = PiecesOf(WordsIn(Block, "text"), c.blocks)
        /\ PiecesOf(WordsIn(Block, "thinking"), c.blocks) \o <<>> = PiecesOf(WordsIn(Block, "thinking"), c.blocks)
    BY CollectionType, AfterNothing
  <2>2. QED
    BY <1>7, <1>10, <2>1 DEF TextOf, ThoughtOf
<1>12. BlocksNamed(c) => BlocksNamed(d)
  <2> SUFFICES ASSUME BlocksNamed(c), NEW i \in DOMAIN d.blocks, d.blocks[i].is = "call"
               PROVE  \E k \in DOMAIN d.names : d.names[k] = <<d.blocks[i].id, d.blocks[i].name>>
    BY DEF BlocksNamed
  <2>1. /\ Len(c.blocks) \in Nat /\ DOMAIN c.blocks = 1..Len(c.blocks) /\ DOMAIN d.blocks = 1..Len(c.blocks) + 1
        /\ d.blocks[Len(c.blocks) + 1] = b
        /\ \A k \in 1..Len(c.blocks) : d.blocks[k] = c.blocks[k]
    BY <1>6, <1>7, <1>8, AppendProperties, LenProperties
  <2>2. CASE i \in 1..Len(c.blocks)
    BY <1>7, <2>1, <2>2 DEF BlocksNamed
  <2>3. CASE i = Len(c.blocks) + 1
    BY <1>2, <1>5, <1>6, <1>7, <2>1, <2>3
  <2>4. QED
    BY <2>1, <2>2, <2>3
<1>13. Takes(c, e, d)
  BY <1>1, <1>7, <1>9, <1>10, <1>11, <1>12, NothingTaken DEF Takes
<1>14. QED
  BY <1>13 DEF d

\* Taking a MessageDone lets go of what is open.
LEMMA DoneTaken ==
  ASSUME NEW c \in Collection, NEW e \in Event, e.is = "done"
  PROVE  Takes(c, e, Take(c, e))
<1> DEFINE f == FlushText(FlushThinking(c))
           d == Take(c, e)
<1>1. /\ StartIn[e] = <<>> /\ StopIn[e] = <<>> /\ WordsIn(Event, "thinking")[e] = <<>>
      /\ WordsIn(Event, "text")[e] = <<>> /\ e.usage \in Nat
  BY DEF StartIn, StopIn, WordsIn, Event
<1>0. SameBut(f, c) /\ f \in Collection /\ f.text = <<>> /\ f.think = <<>>
  BY AllLetGo DEF SameBut
<1>2. d = [f EXCEPT !.usage = e.usage]
  BY DEF Take
<1> HIDE DEF f
<1>3. /\ d.blocks = f.blocks /\ d.text = f.text /\ d.think = f.think /\ d.names = f.names
      /\ d.usage = e.usage
  BY <1>0, <1>2 DEF Collection
<1>4. d \in Collection
  BY <1>0, <1>1, <1>2 DEF Collection
<1> HIDE DEF d
<1>5. TextOf(d) = TextOf(f) /\ ThoughtOf(d) = ThoughtOf(f)
  BY <1>3 DEF TextOf, ThoughtOf
<1>6. BlocksNamed(f) => BlocksNamed(d)
  BY <1>3 DEF BlocksNamed
<1>7. Takes(c, e, d)
  BY <1>0, <1>1, <1>3, <1>4, <1>5, <1>6, NothingTaken DEF Takes, SameBut
<1>8. QED
  BY <1>7 DEF d

\* Arguments in progress and errors add nothing.
LEMMA NothingInIt ==
  ASSUME NEW c \in Collection, NEW e \in Event, e.is \in {"args", "error"}
  PROVE  Takes(c, e, Take(c, e))
<1>1. /\ StartIn[e] = <<>> /\ StopIn[e] = <<>> /\ WordsIn(Event, "thinking")[e] = <<>>
      /\ WordsIn(Event, "text")[e] = <<>>
  BY DEF StartIn, StopIn, WordsIn, Event
<1>2. Take(c, e) = c
  BY DEF Take
<1>3. QED
  BY <1>1, <1>2, NothingTaken DEF Takes

\* Taking any event adds exactly what it holds.
LEMMA EventTaken ==
  ASSUME NEW c \in Collection, NEW e \in Event,
         e.is = "stop" => \E j \in DOMAIN c.names : c.names[j][1] = e.id
  PROVE  Takes(c, e, Take(c, e))
<1>1. e.is \in {"text", "thinking", "start", "args", "stop", "done", "error"}
  BY DEF Event
<1>2. CASE e.is = "stop"
  BY <1>2, StopTaken
<1>3. CASE e.is # "stop"
  BY <1>1, <1>3, TextTaken, ThinkingTaken, StartTaken, DoneTaken, NothingInIt
<1>4. QED
  BY <1>2, <1>3

\* The contents of a list of events are those of its head, then of its tail.
LEMMA HeadFirst ==
  ASSUME NEW es \in Seq(Event), es # <<>>
  PROVE  /\ Head(es) \in Event /\ Tail(es) \in Seq(Event)
         /\ PiecesOf(StartIn, es) = StartIn[Head(es)] \o PiecesOf(StartIn, Tail(es))
         /\ PiecesOf(StopIn, es) = StopIn[Head(es)] \o PiecesOf(StopIn, Tail(es))
         /\ PiecesOf(WordsIn(Event, "text"), es)
              = WordsIn(Event, "text")[Head(es)] \o PiecesOf(WordsIn(Event, "text"), Tail(es))
         /\ PiecesOf(WordsIn(Event, "thinking"), es)
              = WordsIn(Event, "thinking")[Head(es)] \o PiecesOf(WordsIn(Event, "thinking"), Tail(es))
<1>1. Head(es) \in Event /\ Tail(es) \in Seq(Event) /\ es = <<Head(es)>> \o Tail(es)
  OBVIOUS
<1>2. Holds(Head(es), StartIn[Head(es)], StopIn[Head(es)], WordsIn(Event, "text")[Head(es)],
            WordsIn(Event, "thinking")[Head(es)])
  BY <1>1 DEF Holds
<1>3. Carries(<<Head(es)>>, StartIn[Head(es)], StopIn[Head(es)], WordsIn(Event, "text")[Head(es)],
              WordsIn(Event, "thinking")[Head(es)])
  BY <1>2, OneCarries
<1>4. Carries(Tail(es), PiecesOf(StartIn, Tail(es)), PiecesOf(StopIn, Tail(es)),
              PiecesOf(WordsIn(Event, "text"), Tail(es)), PiecesOf(WordsIn(Event, "thinking"), Tail(es)))
  BY <1>1 DEF Carries
<1>5. Carries(<<Head(es)>> \o Tail(es),
              StartIn[Head(es)] \o PiecesOf(StartIn, Tail(es)), StopIn[Head(es)] \o PiecesOf(StopIn, Tail(es)),
              WordsIn(Event, "text")[Head(es)] \o PiecesOf(WordsIn(Event, "text"), Tail(es)),
              WordsIn(Event, "thinking")[Head(es)] \o PiecesOf(WordsIn(Event, "thinking"), Tail(es)))
  BY <1>3, <1>4, BothCarry
<1>6. QED
  BY <1>1, <1>5 DEF Carries

\* What is delivered stays the same whichever of the events have been taken.
LEMMA DeliveredOn ==
  ASSUME NEW c \in Collection, NEW es \in Seq(Event), es # <<>>,
         NEW names, NEW made, NEW text, NEW think,
         Delivers(c, es, names, made, text, think), StartsFirst(c, es)
  PROVE  /\ Takes(c, Head(es), Take(c, Head(es)))
         /\ Delivers(Take(c, Head(es)), Tail(es), names, made, text, think)
         /\ StartsFirst(Take(c, Head(es)), Tail(es))
<1>0. \A S : \A s, t, u \in Seq(S) : (s \o t) \o u = s \o (t \o u)
  BY ConcatAssociative
<1> DEFINE e == Head(es)
           d == Take(c, e)
           fs == Tail(es)
<1>1. /\ Len(es) \in Nat \ {0} /\ DOMAIN es = 1..Len(es) /\ es[1] = e
      /\ Len(fs) = Len(es) - 1 /\ DOMAIN fs = 1..Len(fs) /\ \A i \in 1..Len(fs) : fs[i] = es[i + 1]
      /\ e \in Event /\ fs \in Seq(Event)
  BY HeadTailProperties, LenProperties, EmptySeq, HeadFirst
<1>2. e.is = "stop" => \E j \in DOMAIN c.names : c.names[j][1] = e.id
  <2>1. 1 \in DOMAIN es /\ 1..1 - 1 = {}
    BY <1>1
  <2>2. QED
    BY <1>1, <2>1 DEF StartsFirst
<1>3. Takes(c, e, d)
  BY <1>1, <1>2, EventTaken
<1> DEFINE sn == PiecesOf(StartIn, fs)
           sm == PiecesOf(StopIn, fs)
           st == PiecesOf(WordsIn(Event, "text"), fs)
           sh == PiecesOf(WordsIn(Event, "thinking"), fs)
           en == StartIn[e]
           em == StopIn[e]
           et == WordsIn(Event, "text")[e]
           eh == WordsIn(Event, "thinking")[e]
           cm == PiecesOf(CallIn, c.blocks)
<1>4. /\ sn \in Pairs /\ sm \in Dones /\ st \in Seq(Tok) /\ sh \in Seq(Tok)
      /\ c.names \in Pairs /\ cm \in Dones /\ TextOf(c) \in Seq(Tok) /\ ThoughtOf(c) \in Seq(Tok)
  BY <1>1, ContentsType, CollectionType
<1>5. en \in Pairs /\ em \in Dones /\ et \in Seq(Tok) /\ eh \in Seq(Tok)
  BY <1>1, PieceTypes
<1>6. /\ c.names \o (en \o sn) = names
      /\ cm \o (em \o sm) = made
      /\ TextOf(c) \o (et \o st) = text
      /\ ThoughtOf(c) \o (eh \o sh) = think
  BY HeadFirst DEF Delivers, TextOf, ThoughtOf
<1>7. /\ d.names = c.names \o en /\ PiecesOf(CallIn, d.blocks) = cm \o em
      /\ TextOf(d) = TextOf(c) \o et /\ ThoughtOf(d) = ThoughtOf(c) \o eh
  BY <1>3 DEF Takes
<1>8. (c.names \o en) \o sn = c.names \o (en \o sn)
  <2> DEFINE V == Id \X ToolNames
             p == c.names
  <2>1. p \in Seq(V) /\ en \in Seq(V) /\ sn \in Seq(V)
    BY <1>4, <1>5 DEF Pairs
  <2> HIDE DEF V, p, en, sn
  <2>2. (p \o en) \o sn = p \o (en \o sn)
    BY <1>0, <2>1
  <2>3. QED
    BY <2>2 DEF p
<1>9. (cm \o em) \o sm = cm \o (em \o sm)
  <2> DEFINE V == Id \X Seq(Tok)
  <2>1. cm \in Seq(V) /\ em \in Seq(V) /\ sm \in Seq(V)
    BY <1>4, <1>5 DEF Dones
  <2> HIDE DEF V, cm, em, sm
  <2>2. QED
    BY <1>0, <2>1
<1>10. (TextOf(c) \o et) \o st = TextOf(c) \o (et \o st) /\ (ThoughtOf(c) \o eh) \o sh = ThoughtOf(c) \o (eh \o sh)
  <2> DEFINE V == Tok
             p == TextOf(c)
             q == ThoughtOf(c)
  <2>1. /\ p \in Seq(V) /\ et \in Seq(V) /\ st \in Seq(V)
        /\ q \in Seq(V) /\ eh \in Seq(V) /\ sh \in Seq(V)
    BY <1>4, <1>5
  <2> HIDE DEF V, p, q, et, eh, st, sh
  <2>5. \A r, t, u \in Seq(V) : (r \o t) \o u = r \o (t \o u)
    BY <1>0
  <2>2. (p \o et) \o st = p \o (et \o st)
    BY <2>5, <2>1, SMTT(30)
  <2>3. (q \o eh) \o sh = q \o (eh \o sh)
    BY <2>5, <2>1
  <2>4. QED
    BY <2>2, <2>3 DEF p, q
<1>11. Delivers(d, fs, names, made, text, think)
  <2>1. d.names \o sn = names /\ PiecesOf(CallIn, d.blocks) \o sm = made
    BY <1>6, <1>7, <1>8, <1>9
  <2>2. TextOf(d) \o st = text /\ ThoughtOf(d) \o sh = think
    BY <1>6, <1>7, <1>10
  <2>3. QED
    BY <2>1, <2>2 DEF Delivers, TextOf, ThoughtOf
<1> HIDE DEF d, e, fs, en
<1>12. StartsFirst(d, fs)
  <2> SUFFICES ASSUME NEW i \in DOMAIN fs, fs[i].is = "stop"
               PROVE  \/ \E j \in DOMAIN d.names : d.names[j][1] = fs[i].id
                      \/ \E j \in 1..i - 1 : fs[j].is = "start" /\ fs[j].id = fs[i].id
    BY DEF StartsFirst
  <2>1. i \in 1..Len(fs) /\ i + 1 \in DOMAIN es /\ es[i + 1] = fs[i]
    BY <1>1
  <2>2. /\ \A j \in DOMAIN c.names : j \in DOMAIN d.names /\ d.names[j] = c.names[j]
        /\ en = <<>> \/ (\E j \in DOMAIN d.names : d.names[j] = en[1])
    <3> DEFINE V == Id \X ToolNames
               s == c.names
    <3>1. s \in Seq(V) /\ en \in Seq(V) /\ d.names = s \o en
      BY <1>4, <1>5, <1>7 DEF Pairs
    <3> HIDE DEF V, s
    <3>2. /\ Len(s) \in Nat /\ Len(en) \in Nat /\ DOMAIN s = 1..Len(s) /\ DOMAIN (s \o en) = 1..Len(s) + Len(en)
          /\ \A j \in 1..Len(s) + Len(en) : (s \o en)[j] = IF j <= Len(s) THEN s[j] ELSE en[j - Len(s)]
      BY <3>1, ConcatProperties, LenProperties
    <3>3. \A j \in DOMAIN s : j \in DOMAIN d.names /\ d.names[j] = s[j]
      BY <3>1, <3>2
    <3>4. CASE en # <<>>
      <4>1. Len(en) >= 1
        BY <3>1, <3>4, EmptySeq
      <4>2. Len(s) + 1 \in DOMAIN d.names /\ d.names[Len(s) + 1] = en[1]
        BY <3>1, <3>2, <4>1
      <4>3. QED
        BY <3>3, <4>2 DEF s
    <3>5. QED
      BY <3>3, <3>4 DEF s
  <2>3. CASE \E j \in DOMAIN c.names : c.names[j][1] = fs[i].id
    BY <2>2, <2>3
  <2>4. CASE \E j \in 1..i : es[j].is = "start" /\ es[j].id = fs[i].id
    <3>1. PICK j \in 1..i : es[j].is = "start" /\ es[j].id = fs[i].id
      BY <2>4
    <3>2. CASE j = 1
      <4>1. en = <<<<e.id, e.name>>>>
        BY <1>1, <3>1, <3>2 DEF en, StartIn
      <4>2. en # <<>> /\ en[1][1] = fs[i].id
        BY <1>1, <3>1, <3>2, <4>1
      <4>3. QED
        BY <2>2, <4>2
    <3>3. CASE j # 1
      <4>1. j - 1 \in 1..i - 1 /\ j - 1 \in 1..Len(fs)
        BY <1>1, <2>1, <3>3
      <4>2. fs[j - 1] = es[j]
        BY <1>1, <4>1
      <4>3. QED
        BY <3>1, <4>1, <4>2
    <3>4. QED
      BY <3>2, <3>3
  <2>5. i + 1 - 1 = i
    BY <2>1
  <2>6. QED
    BY <2>1, <2>3, <2>4, <2>5 DEF StartsFirst
<1>13. QED
  BY <1>3, <1>11, <1>12 DEF d, e, fs
-----------------------------------------------------------------------------
(* The steps that bring no chunk. *)

\* Events that carry nothing deliver nothing.
LEMMA DeliversStill ==
  ASSUME NEW c, NEW names, NEW made, NEW text, NEW think, Delivers(c, <<>>, names, made, text, think),
         NEW es, Carries(es, <<>>, <<>>, <<>>, <<>>)
  PROVE  Delivers(c, es, names, made, text, think)
BY PiecesEmpty DEF Delivers, Carries

\* Nor do they change what is conveyed.
LEMMA NothingConveysStill ==
  ASSUME NEW es, Carries(es, <<>>, <<>>, <<>>, <<>>), NEW c, NEW r, NEW a, Conveys(c, <<>>, r, a)
  PROVE  Conveys(c, es, r, a)
BY DeliversStill DEF Conveys

\* The body ends, with a MessageDone for OpenAI.
LEMMA BodyEndsStep ==
  ASSUME IInv, BodyEnds
  PROVE  IInv'
<1>1. /\ producer = "reading" /\ out = <<>> /\ producer' = "ending" /\ ~acc.error
      /\ out' = IF acc.finished THEN <<MessageDone(acc.usage)>> ELSE <<>>
      /\ backend' = backend /\ reply' = reply /\ acc' = acc /\ col' = col /\ consumer' = consumer
  BY DEF BodyEnds, IInv, Refused, server, receiving
<1>2. acc.finished => backend = "openai" /\ reply.finished /\ acc.usage = reply.usage
  BY <1>1, WireAssumption DEF IInv, Types, Accumulated, AccumulatorOK, OpenAIOK, AnthropicOK, OllamaOK
<1>3. acc.usage \in Nat
  BY DEF IInv, Types, Accumulator
<1>4. Carries(out', <<>>, <<>>, <<>>, <<>>)
  <2>1. Carries(<<MessageDone(acc.usage)>>, <<>>, <<>>, <<>>, <<>>)
    BY <1>3, DoneHolds, OneCarries
  <2>2. QED
    BY <1>1, <2>1, NoneCarries
<1>5. \A i \in DOMAIN out' : out'[i].is = "done" /\ i = 1 /\ i = Len(out') /\ out'[i].usage = acc.usage /\ acc.finished
  BY <1>1 DEF MessageDone
<1>6. Types'
  BY <1>1, <1>4 DEF IInv, Types, Carries
<1>7. ReplyOK(reply)' /\ BlocksNamed(col)'
  BY <1>1 DEF IInv, ReplyOK, BlocksNamed
<1>8. Refused' /\ Accumulated'
  BY <1>1 DEF IInv, Refused, Accumulated, AccumulatorOK, OpenAIOK, AnthropicOK, OllamaOK
<1>9. OnTheWay'
  <2> SUFFICES ASSUME consumer = "reading"
               PROVE  Conveys(col, out, reply, acc)' /\ StartsFirst(col, out)'
    BY <1>1 DEF OnTheWay
  <2>1. Conveys(col, out', reply, acc)
    BY <1>1, <1>4, NothingConveysStill DEF IInv, OnTheWay
  <2>2. StartsFirst(col, out')
    BY <1>5 DEF StartsFirst
  <2>3. QED
    BY <1>1, <2>1, <2>2 DEF Conveys, TheNames, TheMade, TheText, Narrated, Complete, StartsFirst
<1>10. DoneIsLast'
  BY <1>1, <1>2, <1>5 DEF DoneIsLast, Final, FromUsage
<1>11. Delivered'
  BY <1>1 DEF IInv, Delivered, Final, Conveys, TheNames, TheMade, TheText, Narrated, Complete
<1>12. QED
  BY <1>6, <1>7, <1>8, <1>9, <1>10, <1>11 DEF IInv

\* The connection breaks: an Error carries nothing.
LEMMA BodyFailsStep ==
  ASSUME IInv, BodyFails
  PROVE  IInv'
<1>1. /\ producer = "reading" /\ out = <<>> /\ producer' = "ending" /\ ~acc.error
      /\ out' = <<Error>>
      /\ backend' = backend /\ reply' = reply /\ acc' = acc /\ col' = col /\ consumer' = consumer
  BY DEF BodyFails, IInv, Refused, server, receiving
<1>4. Carries(out', <<>>, <<>>, <<>>, <<>>)
  BY <1>1, ErrorHolds, OneCarries
<1>5. \A i \in DOMAIN out' : out'[i].is = "error"
  BY <1>1 DEF Error
<1>6. Types'
  BY <1>1, <1>4 DEF IInv, Types, Carries
<1>7. ReplyOK(reply)' /\ BlocksNamed(col)'
  BY <1>1 DEF IInv, ReplyOK, BlocksNamed
<1>8. Refused' /\ Accumulated'
  BY <1>1 DEF IInv, Refused, Accumulated, AccumulatorOK, OpenAIOK, AnthropicOK, OllamaOK
<1>9. OnTheWay'
  <2> SUFFICES ASSUME consumer = "reading"
               PROVE  Conveys(col, out, reply, acc)' /\ StartsFirst(col, out)'
    BY <1>1 DEF OnTheWay
  <2>1. Conveys(col, out', reply, acc)
    BY <1>1, <1>4, NothingConveysStill DEF IInv, OnTheWay
  <2>2. StartsFirst(col, out')
    BY <1>5 DEF StartsFirst
  <2>3. QED
    BY <1>1, <2>1, <2>2 DEF Conveys, TheNames, TheMade, TheText, Narrated, Complete, StartsFirst
<1>10. DoneIsLast'
  BY <1>5 DEF DoneIsLast
<1>11. Delivered'
  BY <1>1 DEF IInv, Delivered, Final, Conveys, TheNames, TheMade, TheText, Narrated, Complete
<1>12. QED
  BY <1>6, <1>7, <1>8, <1>9, <1>10, <1>11 DEF IInv

\* The consumer takes an event.
LEMMA SendStep ==
  ASSUME IInv, Send
  PROVE  IInv'
<1> DEFINE e == Head(out)
<1>1. /\ out # <<>> /\ producer # "closed" /\ consumer = "reading"
      /\ col' = Take(col, e) /\ out' = Tail(out)
      /\ consumer' = CASE e.is = "done" -> "done" [] e.is = "error" -> "failed" [] OTHER -> "reading"
      /\ backend' = backend /\ reply' = reply /\ acc' = acc /\ producer' = producer
  BY DEF Send, server
<1>2. /\ out \in Seq(Event) /\ col \in Collection
      /\ Len(out) \in Nat \ {0} /\ 1 \in DOMAIN out /\ DOMAIN out = 1..Len(out) /\ out[1] = e
      /\ Tail(out) \in Seq(Event) /\ Len(Tail(out)) = Len(out) - 1 /\ DOMAIN Tail(out) = 1..Len(Tail(out))
      /\ \A i \in 1..Len(Tail(out)) : Tail(out)[i] = out[i + 1] /\ i + 1 \in DOMAIN out
      /\ e \in Event
  <2>1. out \in Seq(Event) /\ col \in Collection
    BY DEF IInv, Types
  <2>2. QED
    BY <1>1, <2>1, HeadTailProperties, LenProperties, EmptySeq
<1>3. Takes(col, e, col')
  <2>1. CASE acc.error
    <3>1. e.is = "error"
      BY <1>2, <2>1 DEF IInv, Refused
    <3>2. QED
      BY <1>1, <1>2, <3>1, NothingInIt
  <2>2. CASE ~acc.error
    <3>1. Conveys(col, out, reply, acc) /\ StartsFirst(col, out)
      BY <1>1, <2>2 DEF IInv, OnTheWay
    <3>2. Takes(col, e, Take(col, e))
      BY <1>1, <1>2, <3>1, DeliveredOn DEF Conveys
    <3>3. QED
      BY <1>1, <3>2
  <2>3. QED
    BY <2>1, <2>2
<1>4. ~acc.error => Conveys(col', Tail(out), reply, acc) /\ StartsFirst(col', Tail(out))
  <2> SUFFICES ASSUME ~acc.error PROVE Conveys(col', Tail(out), reply, acc) /\ StartsFirst(col', Tail(out))
    OBVIOUS
  <2>1. Conveys(col, out, reply, acc) /\ StartsFirst(col, out)
    BY <1>1 DEF IInv, OnTheWay
  <2>2. /\ Delivers(Take(col, e), Tail(out), TheNames(reply), TheMade(reply, acc), TheText(reply, acc), reply.think)
        /\ StartsFirst(Take(col, e), Tail(out))
    BY <1>1, <1>2, <2>1, DeliveredOn DEF Conveys
  <2>3. QED
    BY <1>1, <2>2 DEF Conveys
<1> HIDE DEF e
<1>5. Types'
  BY <1>1, <1>2, <1>3 DEF IInv, Types, Takes
<1>6. ReplyOK(reply)' /\ BlocksNamed(col')
  BY <1>1, <1>3 DEF IInv, ReplyOK, Takes
<1>7. Accumulated'
  BY <1>1 DEF IInv, Accumulated, AccumulatorOK, OpenAIOK, AnthropicOK, OllamaOK
<1>8. Refused'
  <2> SUFFICES ASSUME acc.error
               PROVE  WholeFails' /\ producer' # "reading" /\ consumer' # "done"
                      /\ \A i \in DOMAIN out' : out'[i].is = "error"
    BY <1>1 DEF Refused
  <2>1. WholeFails /\ producer # "reading" /\ \A i \in DOMAIN out : out[i].is = "error"
    BY DEF IInv, Refused
  <2>2. QED
    BY <1>1, <1>2, <2>1 DEF WholeFails
<1>9. OnTheWay'
  <2> SUFFICES ASSUME ~acc.error
               PROVE  Conveys(col, out, reply, acc)' /\ StartsFirst(col, out)'
    BY <1>1 DEF OnTheWay
  <2>1. QED
    BY <1>1, <1>4 DEF Conveys, TheNames, TheMade, TheText, Narrated, Complete, StartsFirst
<1>10. \A i \in DOMAIN out : out[i].is = "done" => i = Len(out) /\ Final /\ out[i].usage = FromUsage(backend, reply)
  BY <1>1 DEF IInv, DoneIsLast
<1>11. DoneIsLast'
  <2> SUFFICES ASSUME NEW i \in DOMAIN out', out'[i].is = "done"
               PROVE  i = Len(out') /\ Final /\ out'[i].usage = FromUsage(backend, reply)
    BY <1>1 DEF DoneIsLast, Final
  <2>1. i \in 1..Len(Tail(out)) /\ out[i + 1].is = "done" /\ i + 1 \in DOMAIN out /\ out'[i] = out[i + 1]
    BY <1>1, <1>2
  <2>2. QED
    BY <1>1, <1>2, <1>10, <2>1
<1>12. Delivered'
  <2> SUFFICES ASSUME consumer' = "done"
               PROVE  /\ Final /\ Conveys(col, <<>>, reply, acc)'
                      /\ col'.text = <<>> /\ col'.think = <<>> /\ col'.usage = FromUsage(backend, reply)
    BY <1>1 DEF Delivered, Final
  <2>1. e.is = "done"
    BY <1>1
  <2>2. Len(out) = 1 /\ Final /\ e.usage = FromUsage(backend, reply)
    BY <1>2, <1>10, <2>1
  <2>3. Tail(out) = <<>>
    BY <1>2, <2>2, EmptySeq
  <2>4. ~acc.error
    BY <1>2, <2>1 DEF IInv, Refused
  <2>5. Conveys(col', <<>>, reply, acc)
    BY <1>4, <2>3, <2>4
  <2>6. col'.text = <<>> /\ col'.think = <<>> /\ col'.usage = e.usage
    BY <1>3, <2>1 DEF Takes
  <2>7. QED
    BY <1>1, <2>2, <2>5, <2>6 DEF Conveys, TheNames, TheMade, TheText, Narrated, Complete
<1>13. QED
  BY <1>1, <1>5, <1>6, <1>7, <1>8, <1>9, <1>11, <1>12 DEF IInv, BlocksNamed

\* Nobody takes the events any more.
LEMMA NoMoreStep ==
  ASSUME IInv, GivesUp \/ Close \/ WriteFails \/ SeesClosed \/ SeesContext \/ Cancel
  PROVE  IInv'
<1>1. /\ backend' = backend /\ reply' = reply /\ acc' = acc /\ col' = col
      /\ out' = out \/ out' = <<>> \/ (out # <<>> /\ out' = Tail(out) /\ consumer' = "unwritten")
      /\ consumer' = consumer \/ consumer' \in {"failed", "unwritten"}
      /\ producer' = producer \/ producer' = "closed"
      /\ consumer' = consumer /\ producer' # "closed" => out' = out /\ producer' = producer
  BY DEF GivesUp, Close, WriteFails, SeesClosed, SeesContext, Cancel, server, receiving
<1>2. /\ out' \in Seq(Event)
      /\ \A i \in DOMAIN out' : \E j \in DOMAIN out : out'[i] = out[j]
  <2>1. out \in Seq(Event)
    BY DEF IInv, Types
  <2>2. CASE out' = <<>>
    BY <2>2
  <2>3. CASE out # <<>> /\ out' = Tail(out)
    <3>1. /\ Tail(out) \in Seq(Event) /\ Len(out) \in Nat /\ DOMAIN out = 1..Len(out)
          /\ Len(Tail(out)) = Len(out) - 1 /\ DOMAIN Tail(out) = 1..Len(Tail(out))
          /\ \A i \in 1..Len(Tail(out)) : Tail(out)[i] = out[i + 1]
      BY <2>1, <2>3, HeadTailProperties, LenProperties
    <3>2. \A i \in DOMAIN Tail(out) : i + 1 \in DOMAIN out /\ Tail(out)[i] = out[i + 1]
      BY <3>1
    <3>3. QED
      BY <2>3, <3>1, <3>2
  <2>4. CASE out' = out
    BY <2>1, <2>4
  <2>5. QED
    BY <1>1, <2>2, <2>3, <2>4
<1>3. consumer' = "reading" => consumer = "reading" /\ (out' = out \/ out' = <<>>)
  BY <1>1
<1>4. Types'
  BY <1>1, <1>2 DEF IInv, Types
<1>5. ReplyOK(reply)' /\ BlocksNamed(col)' /\ Accumulated'
  BY <1>1 DEF IInv, ReplyOK, BlocksNamed, Accumulated, AccumulatorOK, OpenAIOK, AnthropicOK, OllamaOK
<1>6. Refused'
  <2>1. acc.error => \A i \in DOMAIN out' : out'[i].is = "error"
    BY <1>2 DEF IInv, Refused
  <2>2. QED
    BY <1>1, <2>1 DEF IInv, Refused, WholeFails
<1>7. OnTheWay'
  BY <1>1, <1>3 DEF IInv, OnTheWay, Conveys, TheNames, TheMade, TheText, Narrated, Complete, StartsFirst
<1>8. DoneIsLast'
  <2> SUFFICES ASSUME consumer' = "reading", NEW i \in DOMAIN out', out'[i].is = "done"
               PROVE  i = Len(out') /\ Final' /\ out'[i].usage = FromUsage(backend, reply)
    BY <1>1 DEF DoneIsLast
  <2>1. out' = out /\ consumer = "reading"
    BY <1>3
  <2>2. i = Len(out) /\ Final /\ out[i].usage = FromUsage(backend, reply)
    BY <2>1 DEF IInv, DoneIsLast
  <2>3. QED
    BY <1>1, <2>1, <2>2 DEF Final
<1>9. Delivered'
  BY <1>1 DEF IInv, Delivered, Final, Conveys, TheNames, TheMade, TheText, Narrated, Complete
<1>10. QED
  BY <1>4, <1>5, <1>6, <1>7, <1>8, <1>9 DEF IInv

\* A stutter keeps the invariant.
LEMMA StutterStep ==
  ASSUME IInv, UNCHANGED vars
  PROVE  IInv'
<1>1. /\ backend' = backend /\ reply' = reply /\ acc' = acc /\ col' = col /\ out' = out
      /\ producer' = producer /\ consumer' = consumer
  BY DEF vars
<1>2. (Types /\ ReplyOK(reply) /\ BlocksNamed(col) /\ Refused /\ Accumulated)'
  BY <1>1 DEF IInv, Types, ReplyOK, BlocksNamed, Refused, WholeFails, Accumulated, AccumulatorOK, OpenAIOK, AnthropicOK, OllamaOK
<1>3. (OnTheWay /\ DoneIsLast /\ Delivered)'
  BY <1>1 DEF IInv, OnTheWay, DoneIsLast, Delivered, Final, Conveys, TheNames, TheMade, TheText, Narrated, Complete, StartsFirst
<1>4. QED
  BY <1>2, <1>3 DEF IInv
-----------------------------------------------------------------------------
(* How a chunk makes the reply longer, and what that asks of the adapter. *)

Numbered(calls) == \A i \in 1..Len(calls) : calls[i].index = i

\* NoId is an ID, and so are those the adapters and the servers give.
LEMMA NoIdIsId == NoId \in Id /\ (\A n \in Nat : MadeUp(n) \in Id /\ <<"id", n>> \in Id)
BY DEF NoId, Id

\* The parts of a call, by type.
LEMMA IdOfType ==
  ASSUME NEW calls \in Seq(CallRecord), NEW i \in 1..Len(calls)
  PROVE  IdOf(calls, i) \in Id /\ calls[i].name \in ToolNames /\ calls[i].args \in Seq(Tok) /\ calls[i] \in CallRecord
<1>1. calls[i] \in CallRecord
  BY ElementOfSeq
<1>2. i - 1 \in Nat
  OBVIOUS
<1>3. QED
  BY <1>1, <1>2, NoIdIsId DEF IdOf, CallRecord

\* The names and the calls made of a reply, by type.
LEMMA CallsTypes ==
  ASSUME NEW calls \in Seq(CallRecord)
  PROVE  /\ NamesOf(calls) \in Pairs /\ Len(NamesOf(calls)) = Len(calls)
         /\ \A n \in 0..Len(calls) : MadeOf(calls, n) \in Dones
         /\ WithIds(calls) \in Seq(CallRecord) /\ Len(WithIds(calls)) = Len(calls)
         /\ DOMAIN WithIds(calls) = 1..Len(calls) /\ DOMAIN calls = 1..Len(calls) /\ Len(calls) \in Nat
<1>1. Len(calls) \in Nat /\ DOMAIN calls = 1..Len(calls)
  BY LenProperties
<1>2. ASSUME NEW V, NEW n \in Nat, NEW q \in [1..n -> V] PROVE q \in Seq(V) /\ Len(q) = n /\ DOMAIN q = 1..n
  BY SeqDef, LenProperties
<1>3. NamesOf(calls) \in [1..Len(calls) -> Id \X ToolNames]
  BY IdOfType DEF NamesOf
<1>4. NamesOf(calls) \in Pairs /\ Len(NamesOf(calls)) = Len(calls)
  BY <1>1, <1>2, <1>3 DEF Pairs
<1>5. ASSUME NEW n \in 0..Len(calls) PROVE MadeOf(calls, n) \in Dones
  <2>1. n \in Nat /\ 1..n \subseteq 1..Len(calls)
    BY <1>1
  <2>2. EmptyObject \in Seq(Tok)
    BY DEF EmptyObject, Tok
  <2>3. \A i \in 1..n : OrEmpty(calls[i].args) \in Seq(Tok)
    BY <2>1, <2>2, IdOfType DEF OrEmpty
  <2>4. MadeOf(calls, n) \in [1..n -> Id \X Seq(Tok)]
    BY <2>1, <2>3, IdOfType DEF MadeOf
  <2>5. QED
    BY <1>2, <2>1, <2>4 DEF Dones
<1>6. WithIds(calls) \in [1..Len(calls) -> CallRecord]
  <2>1. ASSUME NEW i \in 1..Len(calls) PROVE Identified(calls[i], IdOf(calls, i)) \in CallRecord
    BY IdOfType DEF CallRecord, Identified
  <2>2. QED
    BY <2>1 DEF WithIds
<1>7. WithIds(calls) \in Seq(CallRecord) /\ Len(WithIds(calls)) = Len(calls) /\ DOMAIN WithIds(calls) = 1..Len(calls)
  BY <1>1, <1>2, <1>6
<1>8. QED
  BY <1>1, <1>4, <1>5, <1>7

\* A call with its ID is otherwise the same.
LEMMA WithIdsAt ==
  ASSUME NEW calls \in Seq(CallRecord), NEW i \in 1..Len(calls)
  PROVE  /\ WithIds(calls)[i].id = IdOf(calls, i) /\ WithIds(calls)[i].index = calls[i].index
         /\ WithIds(calls)[i].name = calls[i].name /\ WithIds(calls)[i].args = calls[i].args
BY IdOfType DEF WithIds, CallRecord, Identified

\* A call that was not there joins the others.
LEMMA CallJoins ==
  ASSUME NEW calls \in Seq(CallRecord), Numbered(calls), NEW f \in CallRecord, f.index = Len(calls) + 1,
         NEW id, id = IF f.id = NoId THEN MadeUp(f.index - 1) ELSE f.id
  PROVE  /\ AddFrag(calls, f) = Append(calls, f)
         /\ Append(calls, f) \in Seq(CallRecord) /\ Len(Append(calls, f)) = Len(calls) + 1
         /\ Numbered(Append(calls, f))
         /\ \A i \in 1..Len(calls) : Append(calls, f)[i] = calls[i]
         /\ Append(calls, f)[Len(calls) + 1] = f
         /\ WithIds(Append(calls, f)) = Append(WithIds(calls), Identified(f, id))
         /\ NamesOf(Append(calls, f)) = NamesOf(calls) \o <<<<id, f.name>>>>
         /\ \A n \in 0..Len(calls) : MadeOf(Append(calls, f), n) = MadeOf(calls, n)
         /\ id \in Id
<1> DEFINE n == Len(calls)
           more == Append(calls, f)
<1>1. /\ n \in Nat /\ DOMAIN calls = 1..n /\ more \in Seq(CallRecord) /\ Len(more) = n + 1
      /\ DOMAIN more = 1..n + 1
      /\ (\A i \in 1..n : more[i] = calls[i]) /\ more[n + 1] = f
  BY AppendProperties, LenProperties
<1>2. AddFrag(calls, f) = more
  <2>1. \A i \in 1..n : calls[i].index # f.index
    BY <1>1 DEF Numbered
  <2>2. QED
    BY <1>1, <2>1 DEF AddFrag
<1> HIDE DEF more
<1>3. Numbered(more)
  BY <1>1 DEF Numbered
<1>4. IdOf(more, n + 1) = id /\ \A i \in 1..n : IdOf(more, i) = IdOf(calls, i)
  BY <1>1 DEF IdOf
<1>5. id \in Id
  BY <1>1, <1>4, IdOfType
<1>6. WithIds(more) = Append(WithIds(calls), Identified(f, id))
  <2> DEFINE g == Identified(f, id)
             w == WithIds(calls)
  <2>1. w \in Seq(CallRecord) /\ Len(w) = n /\ DOMAIN w = 1..n
    BY <1>1, CallsTypes
  <2>2. g \in CallRecord
    BY <1>5 DEF CallRecord, Identified
  <2>3. Append(w, g) = [i \in 1..n + 1 |-> IF i <= n THEN w[i] ELSE g]
    BY <1>1, <2>1, <2>2
  <2>4. \A i \in 1..n : w[i] = Identified(calls[i], IdOf(calls, i))
    BY DEF WithIds
  <2>5. WithIds(more) = [i \in 1..n + 1 |-> Identified(more[i], IdOf(more, i))]
    BY <1>1 DEF WithIds
  <2> HIDE DEF w, g
  <2>6. \A i \in 1..n + 1 : Identified(more[i], IdOf(more, i)) = IF i <= n THEN w[i] ELSE g
    <3> TAKE i \in 1..n + 1
    <3>1. CASE i \in 1..n
      BY <1>1, <1>4, <2>4, <3>1
    <3>2. CASE i = n + 1
      BY <1>1, <1>4, <3>2 DEF g
    <3>3. QED
      BY <1>1, <3>1, <3>2
  <2>7. QED
    BY <2>3, <2>5, <2>6 DEF w, g
<1>7. NamesOf(more) = NamesOf(calls) \o <<<<id, f.name>>>>
  <2> DEFINE w == NamesOf(calls)
             p == <<id, f.name>>
  <2>1. w \in Seq(Id \X ToolNames) /\ Len(w) = n
    BY CallsTypes DEF Pairs
  <2>2. \A i \in 1..n : w[i] = <<IdOf(calls, i), calls[i].name>>
    BY DEF NamesOf
  <2>3. NamesOf(more) = [i \in 1..n + 1 |-> <<IdOf(more, i), more[i].name>>]
    BY <1>1 DEF NamesOf
  <2> HIDE DEF w, p
  <2>4. w \o <<p>> = [i \in 1..n + 1 |-> IF i <= n THEN w[i] ELSE p]
    BY <1>1, <2>1
  <2>5. \A i \in 1..n + 1 : <<IdOf(more, i), more[i].name>> = IF i <= n THEN w[i] ELSE p
    BY <1>1, <1>4, <2>2 DEF p
  <2>6. QED
    BY <2>3, <2>4, <2>5 DEF w, p
<1>8. ASSUME NEW m \in 0..n PROVE MadeOf(more, m) = MadeOf(calls, m)
  <2>1. \A i \in 1..m : IdOf(more, i) = IdOf(calls, i) /\ more[i] = calls[i]
    BY <1>1, <1>4
  <2>2. QED
    BY <2>1 DEF MadeOf
<1>9. QED
  BY <1>1, <1>2, <1>3, <1>5, <1>6, <1>7, <1>8 DEF more

Grown(call, args) == [call EXCEPT !.args = @ \o args]

\* Giving an ID and growing do not disturb each other.
LEMMA IdentifiedThenGrown ==
  ASSUME NEW call \in CallRecord, NEW id, NEW args
  PROVE  Identified(Grown(call, args), id) = Grown(Identified(call, id), args)
BY DEF Identified, Grown, CallRecord

\* Arguments join those of their call.
LEMMA CallGrows ==
  ASSUME NEW calls \in Seq(CallRecord), Numbered(calls), NEW f, f.index \in 1..Len(calls), f.args \in Seq(Tok)
  PROVE  LET more == AddFrag(calls, f) IN
         /\ more \in Seq(CallRecord) /\ Len(more) = Len(calls) /\ Numbered(more)
         /\ \A i \in 1..Len(calls) : /\ more[i].id = calls[i].id /\ more[i].name = calls[i].name
                                     /\ i # f.index => more[i] = calls[i]
         /\ WithIds(more) = AddFrag(WithIds(calls), f)
         /\ NamesOf(more) = NamesOf(calls)
         /\ \A n \in 0..Len(calls) : n < f.index => MadeOf(more, n) = MadeOf(calls, n)
<1> DEFINE n == Len(calls)
           more == AddFrag(calls, f)
<1>1. n \in Nat /\ DOMAIN calls = 1..n
  BY LenProperties
<1>2. more = [i \in 1..n |-> IF calls[i].index = f.index THEN Grown(calls[i], f.args) ELSE calls[i]]
  BY <1>1 DEF AddFrag, Numbered, Grown
<1>3. \A i \in 1..n : calls[i] \in CallRecord /\ calls[i].args \o f.args \in Seq(Tok)
  BY IdOfType, ConcatProperties
<1>4. \A i \in 1..n : /\ more[i] \in CallRecord
                      /\ more[i].id = calls[i].id /\ more[i].name = calls[i].name /\ more[i].index = i
                      /\ i # f.index => more[i] = calls[i]
  BY <1>2, <1>3, ZenonT(60) DEF CallRecord, Numbered, Grown
<1>5. more \in Seq(CallRecord) /\ Len(more) = n
  <2>1. more \in [1..n -> CallRecord]
    BY <1>2, <1>4
  <2>2. QED
    BY <1>1, <2>1, SeqDef, LenProperties
<1> HIDE DEF more
<1>6. \A i \in 1..n : IdOf(more, i) = IdOf(calls, i)
  BY <1>4 DEF IdOf
<1>7. WithIds(more) = AddFrag(WithIds(calls), f)
  <2>1. /\ DOMAIN WithIds(calls) = 1..n
        /\ \A i \in 1..n : /\ WithIds(calls)[i] = Identified(calls[i], IdOf(calls, i))
                           /\ WithIds(calls)[i].index = i
    BY CallsTypes, WithIdsAt DEF WithIds, Numbered
  <2>2. AddFrag(WithIds(calls), f)
          = [i \in 1..n |-> IF i = f.index THEN Grown(WithIds(calls)[i], f.args) ELSE WithIds(calls)[i]]
    BY <2>1 DEF AddFrag, Grown
  <2>3. WithIds(more) = [i \in 1..n |-> Identified(more[i], IdOf(more, i))]
    BY <1>5 DEF WithIds
  <2>4. ASSUME NEW i \in 1..n
        PROVE  Identified(more[i], IdOf(more, i))
                 = IF i = f.index THEN Grown(WithIds(calls)[i], f.args) ELSE WithIds(calls)[i]
    <3>1. CASE i = f.index
      <4>1. more[i] = Grown(calls[i], f.args)
        BY <1>2, <3>1 DEF Numbered
      <4>2. calls[i] \in CallRecord /\ IdOf(calls, i) \in Id
        BY IdOfType
      <4>3. Identified(Grown(calls[i], f.args), IdOf(calls, i))
              = Grown(Identified(calls[i], IdOf(calls, i)), f.args)
        BY <4>2, IdentifiedThenGrown
      <4>4. QED
        BY <1>6, <2>1, <3>1, <4>1, <4>3
    <3>2. CASE i # f.index
      BY <1>4, <1>6, <2>1, <3>2
    <3>3. QED
      BY <3>1, <3>2
  <2>5. QED
    BY <2>2, <2>3, <2>4
<1>8. NamesOf(more) = NamesOf(calls)
  BY <1>4, <1>5, <1>6 DEF NamesOf
<1>9. ASSUME NEW m \in 0..n, m < f.index PROVE MadeOf(more, m) = MadeOf(calls, m)
  <2>1. \A i \in 1..m : IdOf(more, i) = IdOf(calls, i) /\ more[i] = calls[i]
    BY <1>1, <1>4, <1>6, <1>9
  <2>2. QED
    BY <2>1 DEF MadeOf
<1>10. Numbered(more)
  BY <1>4, <1>5 DEF Numbered
<1>11. QED
  BY <1>4, <1>5, <1>7, <1>8, <1>9, <1>10 DEF more

\* One more call is complete.
LEMMA OneMoreMade ==
  ASSUME NEW calls \in Seq(CallRecord), NEW i \in 1..Len(calls)
  PROVE  MadeOf(calls, i) = MadeOf(calls, i - 1) \o <<<<IdOf(calls, i), OrEmpty(calls[i].args)>>>>
<1> DEFINE w == MadeOf(calls, i - 1)
           p == <<IdOf(calls, i), OrEmpty(calls[i].args)>>
<1>1. i - 1 \in 0..Len(calls) /\ i - 1 \in Nat /\ i \in Nat
  OBVIOUS
<1>2. w \in Seq(Id \X Seq(Tok))
  BY <1>1, CallsTypes DEF Dones
<1>3. w = [j \in 1..i - 1 |-> <<IdOf(calls, j), OrEmpty(calls[j].args)>>]
  BY DEF MadeOf
<1>4. DOMAIN w = 1..i - 1
  BY <1>3
<1>5. MadeOf(calls, i) = [j \in 1..i |-> <<IdOf(calls, j), OrEmpty(calls[j].args)>>]
  BY DEF MadeOf
<1>6. \A j \in 1..i - 1 : w[j] = <<IdOf(calls, j), OrEmpty(calls[j].args)>>
  BY <1>3
<1> HIDE DEF w
<1>7. Len(w) = i - 1
  BY <1>1, <1>2, <1>4, LenProperties
<1>11. p \in Id \X Seq(Tok)
  <2>1. EmptyObject \in Seq(Tok)
    BY DEF EmptyObject, Tok
  <2>2. QED
    BY <2>1, IdOfType DEF OrEmpty
<1> HIDE DEF p
<1>8. w \o <<p>> = [j \in 1..i |-> IF j <= i - 1 THEN w[j] ELSE p]
  BY <1>1, <1>2, <1>7, <1>11
<1>9. \A j \in 1..i : <<IdOf(calls, j), OrEmpty(calls[j].args)>> = IF j <= i - 1 THEN w[j] ELSE p
  BY <1>1, <1>6 DEF p
<1>10. QED
  BY <1>5, <1>8, <1>9 DEF w, p

\* What a chunk brings: the adapter's accumulator fits the reply as it is with
\* the chunk, and its events say what the chunk added, or the reply is refused.
Brings(k, q, s) ==
  /\ Carries(s.events, PiecesOf(StartIn, s.events), PiecesOf(StopIn, s.events),
             PiecesOf(WordsIn(Event, "text"), s.events), PiecesOf(WordsIn(Event, "thinking"), s.events))
  /\ TheNames(q) = TheNames(reply) \o PiecesOf(StartIn, s.events)
  /\ TheMade(q, s.acc) = TheMade(reply, acc) \o PiecesOf(StopIn, s.events)
  /\ TheText(q, s.acc) = TheText(reply, acc) \o PiecesOf(WordsIn(Event, "text"), s.events)
  /\ q.think = reply.think \o PiecesOf(WordsIn(Event, "thinking"), s.events)
  /\ StartsFirst([names |-> TheNames(reply)], s.events)
  /\ \A i \in DOMAIN s.events : s.events[i].is = "done" =>
       /\ i = Len(s.events) /\ q.finished /\ s.events[i].usage = FromUsage(backend, q)
       /\ backend = "anthropic" \/ (backend = "ollama" /\ k.finish)

Advances(k, q, s) ==
  /\ ReplyOK(q) /\ s.acc \in Accumulator
  /\ s.acc.error => ~AllJSON(q.calls)
  /\ ~s.acc.error => AccumulatorOK(q, s.acc) /\ Brings(k, q, s)

\* What a consumer has collected when nothing is on its way.
LEMMA DeliveredSoFar ==
  ASSUME NEW c \in Collection, NEW r, NEW a, Conveys(c, <<>>, r, a)
  PROVE  c.names = TheNames(r) /\ PiecesOf(CallIn, c.blocks) = TheMade(r, a)
         /\ TextOf(c) = TheText(r, a) /\ ThoughtOf(c) = r.think
<1>1. /\ PiecesOf(StartIn, <<>>) = <<>> /\ PiecesOf(StopIn, <<>>) = <<>>
      /\ PiecesOf(WordsIn(Event, "text"), <<>>) = <<>> /\ PiecesOf(WordsIn(Event, "thinking"), <<>>) = <<>>
  BY PiecesEmpty
<1>2. c.names \o <<>> = c.names /\ PiecesOf(CallIn, c.blocks) \o <<>> = PiecesOf(CallIn, c.blocks)
  BY CollectionType, AfterNothing DEF Pairs, Dones
<1>3. TextOf(c) \o <<>> = TextOf(c) /\ ThoughtOf(c) \o <<>> = ThoughtOf(c)
  BY CollectionType, AfterNothing
<1>4. QED
  BY <1>1, <1>2, <1>3 DEF Conveys, Delivers, TextOf, ThoughtOf

\* A chunk that the adapter advances on keeps the invariant.
LEMMA SpeaksStep ==
  ASSUME IInv, NEW k, Speaks(k), Advances(k, Add(k), Handle(acc, k)), reply.finished => backend = "openai"
  PROVE  IInv'
<1> DEFINE q == Add(k)
           s == Handle(acc, k)
<1>1. /\ producer = "reading" /\ out = <<>> /\ ~acc.error
      /\ reply' = q /\ acc' = s.acc
      /\ out' = IF s.acc.error THEN <<Error>> ELSE s.events
      /\ producer' = IF s.acc.error \/ (backend = "ollama" /\ k.finish) THEN "ending" ELSE "reading"
      /\ backend' = backend /\ col' = col /\ consumer' = consumer
  BY DEF Speaks, IInv, Refused, receiving
<1>2. Advances(k, q, s)
  OBVIOUS
<1> HIDE DEF q, s
<1>3. consumer # "done"
  BY <1>1 DEF IInv, Delivered, Final
<1>4. out' \in Seq(Event)
  <2>1. <<Error>> \in Seq(Event)
    BY ErrorHolds, OneCarries DEF Carries
  <2>2. ~s.acc.error => s.events \in Seq(Event)
    BY <1>2 DEF Advances, Brings, Carries
  <2>3. QED
    BY <1>1, <2>1, <2>2
<1>5. Types'
  BY <1>1, <1>2, <1>4 DEF IInv, Types, Advances
<1>6. ReplyOK(reply)' /\ BlocksNamed(col)' /\ Accumulated'
  BY <1>1, <1>2 DEF IInv, ReplyOK, BlocksNamed, Advances, Accumulated, AccumulatorOK, OpenAIOK, AnthropicOK, OllamaOK
<1>7. Refused'
  <2> SUFFICES ASSUME s.acc.error
               PROVE  WholeFails' /\ producer' # "reading" /\ consumer' # "done"
                      /\ \A i \in DOMAIN out' : out'[i].is = "error"
    BY <1>1 DEF Refused
  <2>1. WholeFails'
    <3>1. ~AllJSON(q.calls) /\ q.calls \in Seq(CallRecord)
      BY <1>2 DEF Advances, ReplyOK, Reply
    <3>2. DOMAIN q.calls = 1..Len(q.calls)
      BY <3>1, LenProperties
    <3>3. QED
      BY <1>1, <3>1, <3>2 DEF WholeFails, AllJSON
  <2>2. QED
    BY <1>1, <1>3, <2>1 DEF Error
<1>8. OnTheWay'
  <2> SUFFICES ASSUME ~s.acc.error, consumer = "reading"
               PROVE  Conveys(col, out, reply, acc)' /\ StartsFirst(col, out)'
    BY <1>1 DEF OnTheWay
  <2>1. Conveys(col, <<>>, reply, acc) /\ col \in Collection
    BY <1>1 DEF IInv, OnTheWay, Types
  <2>2. Brings(k, q, s)
    BY <1>2 DEF Advances
  <2>3. Delivers(col, s.events, TheNames(q), TheMade(q, s.acc), TheText(q, s.acc), q.think)
    <3>1. Delivers(col, <<>>, TheNames(reply), TheMade(reply, acc), TheText(reply, acc), reply.think)
      BY <2>1 DEF Conveys
    <3>2. Delivers(col, s.events, TheNames(reply) \o PiecesOf(StartIn, s.events), TheMade(reply, acc) \o PiecesOf(StopIn, s.events),
                   TheText(reply, acc) \o PiecesOf(WordsIn(Event, "text"), s.events),
                   reply.think \o PiecesOf(WordsIn(Event, "thinking"), s.events))
      BY <2>1, <2>2, <3>1, DeliversMore DEF Brings
    <3>3. QED
      BY <2>2, <3>2 DEF Brings
  <2>4. StartsFirst(col, s.events)
    <3>1. col.names = TheNames(reply)
      BY <2>1, DeliveredSoFar
    <3>2. StartsFirst([names |-> TheNames(reply)], s.events)
      BY <2>2 DEF Brings
    <3>3. QED
      BY <3>1, <3>2 DEF StartsFirst
  <2>5. Conveys(col, s.events, q, s.acc)
    BY <2>3 DEF Conveys
  <2>6. QED
    BY <1>1, <2>4, <2>5 DEF Conveys, TheNames, TheMade, TheText, Narrated, Complete, StartsFirst
<1>9. DoneIsLast'
  <2> SUFFICES ASSUME NEW i \in DOMAIN out', out'[i].is = "done"
               PROVE  i = Len(out') /\ Final' /\ out'[i].usage = FromUsage(backend, reply)'
    BY DEF DoneIsLast
  <2>1. ~s.acc.error
    BY <1>1 DEF Error
  <2>2. /\ i = Len(s.events) /\ q.finished /\ s.events[i].usage = FromUsage(backend, q)
        /\ backend = "anthropic" \/ (backend = "ollama" /\ k.finish)
    BY <1>1, <1>2, <2>1 DEF Advances, Brings
  <2>3. QED
    BY <1>1, <2>1, <2>2 DEF Final
<1>10. Delivered'
  BY <1>1, <1>3 DEF Delivered
<1>11. QED
  BY <1>5, <1>6, <1>7, <1>8, <1>9, <1>10 DEF IInv
-----------------------------------------------------------------------------
\* The fields of a reply after a chunk.
LEMMA AddSets ==
  ASSUME reply \in Reply, NEW k
  PROVE  LET q == Add(k) IN
         /\ q.calls = AddFrags(reply.calls, k.frags)
         /\ q.open = (reply.open \cup {k.frags[i].index : i \in DOMAIN k.frags}) \ {k.stop}
         /\ q.text = reply.text \o k.text /\ q.think = reply.think \o k.think
         /\ q.finished = (reply.finished \/ k.finish)
         /\ q.usage = IF k.usage > 0 THEN k.usage ELSE reply.usage
         /\ q = [think |-> q.think, text |-> q.text, calls |-> q.calls, open |-> q.open, finished |-> q.finished, usage |-> q.usage]
<1> DEFINE q == Add(k)
           calls == AddFrags(reply.calls, k.frags)
           open == (reply.open \cup {k.frags[i].index : i \in DOMAIN k.frags}) \ {k.stop}
           text == reply.text \o k.text
           think == reply.think \o k.think
           finished == reply.finished \/ k.finish
           usage == IF k.usage > 0 THEN k.usage ELSE reply.usage
<1>1. q = [reply EXCEPT !.think = think, !.text = text, !.calls = calls, !.open = open, !.finished = finished, !.usage = usage]
  BY DEF Add
<1> HIDE DEF calls, open, text, think, finished, usage, q
<1>2. q = [think |-> think, text |-> text, calls |-> calls, open |-> open, finished |-> finished, usage |-> usage]
  BY <1>1 DEF Reply
<1>3. /\ q.calls = calls /\ q.open = open /\ q.text = text /\ q.think = think /\ q.finished = finished /\ q.usage = usage
  BY <1>2
<1>4. QED
  BY <1>2, <1>3 DEF calls, open, text, think, finished, usage, q

\* The replies and accumulators that a chunk without calls leads to.
LEMMA PlainAdd ==
  ASSUME ReplyOK(reply), NEW k, k.frags = <<>>, k.stop \notin Nat \ {0} \/ k.stop \in reply.open,
         k.think \in Seq(Tok), k.text \in Seq(Tok), k.finish \in BOOLEAN, k.usage \in Nat,
         backend # "ollama" => k.think = <<>>
  PROVE  /\ ReplyOK(Add(k))
         /\ Add(k).calls = reply.calls /\ Add(k).open = reply.open \ {k.stop}
         /\ Add(k).text = reply.text \o k.text /\ Add(k).think = reply.think \o k.think
         /\ Add(k).finished = (reply.finished \/ k.finish)
         /\ Add(k).usage = IF k.usage > 0 THEN k.usage ELSE reply.usage
<1> DEFINE q == Add(k)
<1>1. reply \in Reply
  BY DEF ReplyOK
<1>2. /\ q.calls = AddFrags(reply.calls, k.frags)
      /\ q.open = (reply.open \cup {k.frags[i].index : i \in DOMAIN k.frags}) \ {k.stop}
      /\ q.text = reply.text \o k.text /\ q.think = reply.think \o k.think
      /\ q.finished = (reply.finished \/ k.finish)
      /\ q.usage = IF k.usage > 0 THEN k.usage ELSE reply.usage
      /\ q = [think |-> q.think, text |-> q.text, calls |-> q.calls, open |-> q.open, finished |-> q.finished, usage |-> q.usage]
  BY <1>1, AddSets
<1>3. q.calls = reply.calls
  BY <1>2, EachAddFrag
<1>4. q.open = reply.open \ {k.stop}
  <2>1. DOMAIN <<>> = {}
    OBVIOUS
  <2>2. QED
    BY <1>2, <2>1
<1> HIDE DEF q
<1>5. q \in Reply
  <2>1. q.text \in Seq(Tok) /\ q.think \in Seq(Tok)
    BY <1>1, <1>2, ConcatProperties DEF Reply
  <2>2. q.calls \in Seq(CallRecord) /\ q.open \in SUBSET Nat /\ q.finished \in BOOLEAN /\ q.usage \in Nat
    BY <1>1, <1>2, <1>3, <1>4 DEF Reply
  <2>3. QED
    BY <1>2, <2>1, <2>2 DEF Reply
<1>6. backend # "ollama" => q.think = <<>>
  <2>1. backend # "ollama" => q.think = <<>> \o <<>>
    BY <1>2 DEF ReplyOK
  <2>2. <<>> \o <<>> = <<>>
    OBVIOUS
  <2>3. QED
    BY <2>1, <2>2
<1>7. ReplyOK(q)
  BY <1>3, <1>4, <1>5, <1>6 DEF ReplyOK
<1>8. QED
  BY <1>2, <1>3, <1>4, <1>7 DEF q

\* A chunk that brings a call, or more of one.
LEMMA CallAdd ==
  ASSUME ReplyOK(reply), NEW k, NEW f, k.frags = <<f>>, k.stop = 0,
         k.think = <<>>, k.text \in Seq(Tok), k.finish = FALSE, k.usage = 0,
         \/ /\ f \in CallRecord /\ f.index = Len(reply.calls) + 1
            /\ f.id \in {NoId, <<"id", f.index>>}
            /\ backend = "anthropic" => f.id # NoId /\ reply.open = {}
         \/ /\ f.index \in reply.open /\ f.args \in Seq(Tok)
  PROVE  /\ ReplyOK(Add(k))
         /\ Add(k).calls = AddFrag(reply.calls, f) /\ Add(k).open = reply.open \cup {f.index}
         /\ Add(k).text = reply.text \o k.text /\ Add(k).think = reply.think
         /\ Add(k).finished = reply.finished /\ Add(k).usage = reply.usage
<1> DEFINE q == Add(k)
<1>1. reply \in Reply /\ Numbered(reply.calls) /\ reply.open \subseteq 1..Len(reply.calls) /\ Len(reply.calls) \in Nat
      /\ reply.calls \in Seq(CallRecord)
  BY CallsTypes DEF ReplyOK, Reply, Numbered
<1>2. /\ q.calls = AddFrags(reply.calls, k.frags)
      /\ q.open = (reply.open \cup {k.frags[i].index : i \in DOMAIN k.frags}) \ {k.stop}
      /\ q.text = reply.text \o k.text /\ q.think = reply.think \o k.think
      /\ q.finished = (reply.finished \/ k.finish)
      /\ q.usage = IF k.usage > 0 THEN k.usage ELSE reply.usage
      /\ q = [think |-> q.think, text |-> q.text, calls |-> q.calls, open |-> q.open, finished |-> q.finished, usage |-> q.usage]
  BY <1>1, AddSets
<1>3. q.calls = AddFrag(reply.calls, f)
  BY <1>2, EachAddFrag
<1>4. q.open = reply.open \cup {f.index} /\ f.index \in Nat /\ f.index # 0
  <2>1. {<<f>>[i].index : i \in DOMAIN <<f>>} = {f.index}
    OBVIOUS
  <2>2. f.index # 0 /\ f.index \in Nat
    BY <1>1
  <2>3. 0 \notin reply.open
    BY <1>1
  <2>4. QED
    BY <1>2, <2>1, <2>2, <2>3
<1> HIDE DEF q
<1>5. q.think = reply.think
  BY <1>1, <1>2, AfterNothing DEF Reply
<1>6. /\ q.calls \in Seq(CallRecord) /\ Numbered(q.calls) /\ q.open \subseteq 1..Len(q.calls)
      /\ backend = "anthropic" => q.open \subseteq {Len(q.calls)}
      /\ \A i \in 1..Len(q.calls) : /\ q.calls[i].id \in {NoId, <<"id", i>>}
                                    /\ backend = "anthropic" => q.calls[i].id # NoId
  <2>1. CASE f \in CallRecord /\ f.index = Len(reply.calls) + 1 /\ f.id \in {NoId, <<"id", f.index>>}
             /\ (backend = "anthropic" => f.id # NoId /\ reply.open = {})
    <3>1. /\ q.calls = Append(reply.calls, f)
          /\ q.calls \in Seq(CallRecord) /\ Len(q.calls) = Len(reply.calls) + 1 /\ Numbered(q.calls)
          /\ \A i \in 1..Len(reply.calls) : q.calls[i] = reply.calls[i]
          /\ q.calls[Len(reply.calls) + 1] = f
      <4> DEFINE id == IF f.id = NoId THEN MadeUp(f.index - 1) ELSE f.id
      <4>1. AddFrag(reply.calls, f) = Append(reply.calls, f)
        BY <1>1, <2>1, CallJoins
      <4>2. /\ Append(reply.calls, f) \in Seq(CallRecord) /\ Len(Append(reply.calls, f)) = Len(reply.calls) + 1
            /\ Numbered(Append(reply.calls, f))
            /\ \A i \in 1..Len(reply.calls) : Append(reply.calls, f)[i] = reply.calls[i]
            /\ Append(reply.calls, f)[Len(reply.calls) + 1] = f
        BY <1>1, <2>1, CallJoins
      <4>3. QED
        BY <1>3, <4>1, <4>2
    <3>2. q.open \subseteq 1..Len(q.calls)
      BY <1>1, <1>4, <2>1, <3>1
    <3>3. \A i \in 1..Len(q.calls) : i \in 1..Len(reply.calls) \/ i = Len(reply.calls) + 1
      BY <1>1, <3>1
    <3>4. QED
      BY <1>4, <2>1, <3>1, <3>2, <3>3 DEF ReplyOK
  <2>2. CASE f.index \in reply.open /\ f.args \in Seq(Tok)
    <3>1. f.index \in 1..Len(reply.calls) /\ q.open = reply.open
      BY <1>1, <1>4, <2>2
    <3>2. /\ q.calls \in Seq(CallRecord) /\ Len(q.calls) = Len(reply.calls) /\ Numbered(q.calls)
          /\ \A i \in 1..Len(reply.calls) : q.calls[i].id = reply.calls[i].id
      BY <1>1, <1>3, <2>2, <3>1, CallGrows
    <3>3. QED
      BY <1>1, <3>1, <3>2 DEF ReplyOK
  <2>3. QED
    BY <2>1, <2>2
<1>7. q \in Reply
  <2>1. q.text \in Seq(Tok) /\ q.think \in Seq(Tok)
    BY <1>1, <1>2, <1>5, ConcatProperties DEF Reply
  <2>2. q.open \in SUBSET Nat /\ q.finished \in BOOLEAN /\ q.usage \in Nat
    BY <1>1, <1>2, <1>4 DEF Reply
  <2>3. QED
    BY <1>2, <1>6, <2>1, <2>2 DEF Reply
<1>8. ReplyOK(q)
  BY <1>5, <1>6, <1>7 DEF ReplyOK, Numbered
<1>9. q.finished = reply.finished /\ q.usage = reply.usage
  <2>1. reply.finished \in BOOLEAN
    BY <1>1 DEF Reply
  <2>2. q.finished = reply.finished
    BY <1>2, <2>1
  <2>3. QED
    BY <1>2, <2>2
<1>10. QED
  BY <1>2, <1>3, <1>4, <1>5, <1>8, <1>9 DEF q
-----------------------------------------------------------------------------
(* The events of a step. *)

\* The events of a step, as they are made.
LEMMA StepIs ==
  ASSUME NEW a, NEW es, NEW s, NEW fs
  PROVE  /\ Step(a, es).acc = a /\ Step(a, es).events = es
         /\ Then(s, a, fs).acc = a /\ Then(s, a, fs).events = s.events \o fs
         /\ Fails(s).acc = [s.acc EXCEPT !.error = TRUE]
BY DEF Step, Then, Fails

\* An accumulator with an error is one.
LEMMA FailedAccumulator ==
  ASSUME NEW a \in Accumulator
  PROVE  [a EXCEPT !.error = TRUE] \in Accumulator /\ [a EXCEPT !.error = TRUE].error
BY DEF Accumulator

\* The deltas of a chunk carry its words.
LEMMA DeltasCarry ==
  ASSUME NEW w \in Seq(Tok)
  PROVE  Carries(Deltas(w), <<>>, <<>>, w, <<>>)
<1>1. CASE w = <<>>
  BY <1>1, NoneCarries DEF Deltas
<1>2. CASE w # <<>>
  BY <1>2, TextHolds, OneCarries DEF Deltas
<1>3. QED
  BY <1>1, <1>2

\* What every event of a list satisfies: kinds of events that end or finish nothing.
Kinds(es, kinds) == \A i \in DOMAIN es : es[i].is \in kinds

\* And are text.
LEMMA DeltasKind == ASSUME NEW w PROVE Kinds(Deltas(w), {"text"})
BY DEF Deltas, TextDelta, Kinds

\* The first n calls stop.
StopsOf(calls, n) == [i \in 1..n |-> ToolUseDone(calls[i].id, OrEmpty(calls[i].args))]

\* Arguments are never empty once OrEmpty has seen them.
LEMMA EmptyObjectType == EmptyObject \in Seq(Tok) /\ EmptyObject # <<>> /\ \A s \in Seq(Tok) : OrEmpty(s) \in Seq(Tok)
<1>1. EmptyObject \in Seq(Tok) /\ EmptyObject # <<>>
  BY DEF EmptyObject, Tok
<1>2. QED
  BY <1>1 DEF OrEmpty

\* Stopping every call carries them all.
LEMMA StopsCarry ==
  ASSUME NEW calls \in Seq(CallRecord)
  PROVE  Carries(StopsOf(WithIds(calls), Len(calls)), <<>>, MadeOf(calls, Len(calls)), <<>>, <<>>)
<1> DEFINE n == Len(calls)
           ids == WithIds(calls)
           T == {m \in Nat : m <= n => Carries(StopsOf(ids, m), <<>>, MadeOf(calls, m), <<>>, <<>>)}
<1>1. 0 \in T
  <2>1. StopsOf(ids, 0) = <<>> /\ MadeOf(calls, 0) = <<>>
    BY DEF StopsOf, MadeOf
  <2>2. QED
    BY <2>1, NoneCarries
<1>2. ASSUME NEW m \in Nat, m \in T PROVE m + 1 \in T
  <2> SUFFICES ASSUME m + 1 <= n
               PROVE  Carries(StopsOf(ids, m + 1), <<>>, MadeOf(calls, m + 1), <<>>, <<>>)
    OBVIOUS
  <2> DEFINE e == ToolUseDone(ids[m + 1].id, OrEmpty(ids[m + 1].args))
             w == StopsOf(ids, m)
             d == <<IdOf(calls, m + 1), OrEmpty(calls[m + 1].args)>>
  <2>1. n \in Nat /\ m + 1 \in 1..n
    BY CallsTypes
  <2>2. Carries(w, <<>>, MadeOf(calls, m), <<>>, <<>>)
    BY <1>2, <2>1
  <2>3. Carries(<<e>>, <<>>, <<d>>, <<>>, <<>>)
    <3>1. /\ ids[m + 1].id = IdOf(calls, m + 1) /\ ids[m + 1].args = calls[m + 1].args
          /\ IdOf(calls, m + 1) \in Id /\ calls[m + 1].args \in Seq(Tok)
      BY <2>1, WithIdsAt, IdOfType
    <3>2. Holds(e, <<>>, <<d>>, <<>>, <<>>)
      BY <3>1, EmptyObjectType, StopHolds
    <3>3. QED
      BY <3>2, OneCarries
  <2>4. Carries(w \o <<e>>, <<>> \o <<>>, MadeOf(calls, m) \o <<d>>, <<>> \o <<>>, <<>> \o <<>>)
    <3> HIDE DEF w, e, d
    <3>1. QED
      BY <2>2, <2>3, BothCarry
  <2>5. MadeOf(calls, m) \o <<d>> = MadeOf(calls, m + 1)
    <3>1. MadeOf(calls, m + 1) = MadeOf(calls, m + 1 - 1) \o <<d>>
      BY <2>1, OneMoreMade
    <3>2. m + 1 - 1 = m
      OBVIOUS
    <3>3. QED
      BY <3>1, <3>2
  <2>6. w \o <<e>> = StopsOf(ids, m + 1)
    <3>1. /\ w = [i \in 1..m |-> ToolUseDone(ids[i].id, OrEmpty(ids[i].args))]
          /\ StopsOf(ids, m + 1) = [i \in 1..m + 1 |-> ToolUseDone(ids[i].id, OrEmpty(ids[i].args))]
      BY DEF StopsOf
    <3>2. w \in Seq(Event) /\ DOMAIN w = 1..m /\ \A i \in 1..m : w[i] = ToolUseDone(ids[i].id, OrEmpty(ids[i].args))
      BY <2>2, <3>1 DEF Carries
    <3> HIDE DEF w
    <3>3. Len(w) = m
      BY <3>2, LenProperties
    <3>4. <<e>> \in Seq(Event)
      BY <2>3 DEF Carries
    <3>5. w \o <<e>> = [i \in 1..m + 1 |-> IF i <= m THEN w[i] ELSE e]
      BY <3>2, <3>3, <3>4
    <3>6. \A i \in 1..m + 1 : (IF i <= m THEN w[i] ELSE e) = ToolUseDone(ids[i].id, OrEmpty(ids[i].args))
      BY <3>2
    <3>7. QED
      BY <3>1, <3>5, <3>6
  <2>7. <<>> \o <<>> = <<>>
    OBVIOUS
  <2>8. QED
    BY <2>4, <2>5, <2>6, <2>7
<1>3. Nat \subseteq T
  <2> HIDE DEF T
  <2>1. QED
    BY <1>1, <1>2, Induction
<1>4. n \in Nat /\ n <= n
  BY CallsTypes
<1>5. QED
  BY <1>3, <1>4

\* The words held back, one by one.
HeldBack(words, n) == [i \in 1..n |-> TextDelta(<<words[i]>>)]

\* The words held back, sent one by one, are the words.
LEMMA HeldBackCarry ==
  ASSUME NEW words \in Seq(Tok)
  PROVE  Carries([i \in DOMAIN words |-> TextDelta(<<words[i]>>)], <<>>, <<>>, words, <<>>)
<1> DEFINE n == Len(words)
           First(m) == SubSeq(words, 1, m)
           T == {m \in Nat : m <= n => Carries(HeldBack(words, m), <<>>, <<>>, First(m), <<>>)}
<1>0. n \in Nat /\ DOMAIN words = 1..n
  BY LenProperties
<1>1. 0 \in T
  <2>1. HeldBack(words, 0) = <<>> /\ First(0) = <<>>
    BY DEF HeldBack
  <2>2. QED
    BY <2>1, NoneCarries
<1>2. ASSUME NEW m \in Nat, m \in T PROVE m + 1 \in T
  <2> SUFFICES ASSUME m + 1 <= n
               PROVE  Carries(HeldBack(words, m + 1), <<>>, <<>>, First(m + 1), <<>>)
    OBVIOUS
  <2> DEFINE d == <<words[m + 1]>>
             e == TextDelta(d)
             w == HeldBack(words, m)
  <2>1. m + 1 \in 1..n /\ words[m + 1] \in Tok
    BY <1>0, ElementOfSeq
  <2>2. Carries(w, <<>>, <<>>, First(m), <<>>)
    BY <1>2, <2>1
  <2>3. Carries(<<e>>, <<>>, <<>>, d, <<>>)
    <3>1. d \in Seq(Tok)
      BY <2>1
    <3>2. Holds(e, <<>>, <<>>, d, <<>>)
      BY <3>1, TextHolds
    <3>3. QED
      BY <3>2, OneCarries
  <2>4. Carries(w \o <<e>>, <<>> \o <<>>, <<>> \o <<>>, First(m) \o d, <<>> \o <<>>)
    <3> HIDE DEF w, e, d, First
    <3>1. QED
      BY <2>2, <2>3, BothCarry
  <2>5. First(m) \o d = First(m + 1)
    <3>1. 1 \in 1..n /\ m + 1 \in 1..n
      BY <1>0, <2>1
    <3>2. SubSeq(words, 1, m + 1) = SubSeq(words, 1, m + 1 - 1) \o <<words[m + 1]>>
      BY <3>1, SubSeqRecursiveSecond
    <3>3. m + 1 - 1 = m
      OBVIOUS
    <3>4. QED
      BY <3>2, <3>3
  <2>6. w \o <<e>> = HeldBack(words, m + 1)
    <3>1. /\ w = [i \in 1..m |-> TextDelta(<<words[i]>>)]
          /\ HeldBack(words, m + 1) = [i \in 1..m + 1 |-> TextDelta(<<words[i]>>)]
      BY DEF HeldBack
    <3>2. w \in Seq(Event) /\ DOMAIN w = 1..m /\ \A i \in 1..m : w[i] = TextDelta(<<words[i]>>)
      BY <2>2, <3>1 DEF Carries
    <3> HIDE DEF w
    <3>3. Len(w) = m
      BY <3>2, LenProperties
    <3>4. <<e>> \in Seq(Event)
      BY <2>3 DEF Carries
    <3>5. w \o <<e>> = [i \in 1..m + 1 |-> IF i <= m THEN w[i] ELSE e]
      BY <3>2, <3>3, <3>4
    <3>6. \A i \in 1..m + 1 : (IF i <= m THEN w[i] ELSE e) = TextDelta(<<words[i]>>)
      BY <3>2
    <3>7. QED
      BY <3>1, <3>5, <3>6
  <2>7. <<>> \o <<>> = <<>>
    OBVIOUS
  <2>8. QED
    BY <2>4, <2>5, <2>6, <2>7
<1>3. Nat \subseteq T
  <2> HIDE DEF T
  <2>1. QED
    BY <1>1, <1>2, Induction
<1>4. n <= n /\ First(n) = words
  BY <1>0, SubSeqFull
<1>5. Carries(HeldBack(words, n), <<>>, <<>>, words, <<>>)
  BY <1>0, <1>3, <1>4
<1>6. QED
  BY <1>0, <1>5 DEF HeldBack

\* Events that carry what the reply gained bring it.
LEMMA BringsIf ==
  ASSUME NEW k, NEW q, NEW s, NEW names, NEW made, NEW text, NEW think,
         Carries(s.events, names, made, text, think),
         TheNames(q) = TheNames(reply) \o names, TheMade(q, s.acc) = TheMade(reply, acc) \o made,
         TheText(q, s.acc) = TheText(reply, acc) \o text, q.think = reply.think \o think,
         StartsFirst([names |-> TheNames(reply)], s.events),
         \A i \in DOMAIN s.events : s.events[i].is = "done" =>
           /\ i = Len(s.events) /\ q.finished /\ s.events[i].usage = FromUsage(backend, q)
           /\ backend = "anthropic" \/ (backend = "ollama" /\ k.finish)
  PROVE  Brings(k, q, s)
BY DEF Brings, Carries

\* Where nothing stops, everything has started first.
LEMMA QuietStarts ==
  ASSUME NEW c, NEW es, Kinds(es, {"text", "thinking", "start", "args", "done"})
  PROVE  StartsFirst(c, es)
BY DEF Kinds, StartsFirst

\* These kinds are not MessageDone.
LEMMA NoDone ==
  ASSUME NEW es, Kinds(es, {"text", "thinking", "start", "args", "stop"})
  PROVE  \A i \in DOMAIN es : es[i].is # "done"
BY DEF Kinds

\* The adapter that reads.
Reads(b) == /\ backend = b /\ ReplyOK(reply) /\ acc \in Accumulator /\ ~acc.error
            /\ AccumulatorOK(reply, acc)

\* The parts of a legal reply, by type.
LEMMA ReplyFacts ==
  ASSUME NEW r, ReplyOK(r)
  PROVE  /\ r \in Reply /\ r.calls \in Seq(CallRecord) /\ Numbered(r.calls) /\ Len(r.calls) \in Nat
         /\ DOMAIN r.calls = 1..Len(r.calls)
         /\ r.open \subseteq 1..Len(r.calls) /\ r.text \in Seq(Tok) /\ r.think \in Seq(Tok)
         /\ r.usage \in Nat /\ r.finished \in BOOLEAN
<1>1. r \in Reply /\ r.open \subseteq 1..Len(r.calls) /\ Numbered(r.calls)
  BY DEF ReplyOK, Numbered
<1>2. r.calls \in Seq(CallRecord) /\ r.text \in Seq(Tok) /\ r.think \in Seq(Tok)
         /\ r.usage \in Nat /\ r.finished \in BOOLEAN
  BY <1>1 DEF Reply
<1>3. QED
  BY <1>1, <1>2, LenProperties

\* A reply that gains nothing.
LEMMA NothingMore ==
  ASSUME NEW r, ReplyOK(r), NEW n \in 0..Len(r.calls)
  PROVE  /\ NamesOf(r.calls) \o <<>> = NamesOf(r.calls) /\ MadeOf(r.calls, n) \o <<>> = MadeOf(r.calls, n)
         /\ r.text \o <<>> = r.text /\ r.think \o <<>> = r.think
<1>1. NamesOf(r.calls) \o <<>> = NamesOf(r.calls)
  BY ReplyFacts, CallsTypes, AfterNothing DEF Pairs
<1>2. MadeOf(r.calls, n) \o <<>> = MadeOf(r.calls, n)
  <2>1. MadeOf(r.calls, n) \in Dones
    BY ReplyFacts, CallsTypes
  <2>2. QED
    BY <2>1, AfterNothing DEF Dones
<1>3. r.text \o <<>> = r.text /\ r.think \o <<>> = r.think
  BY ReplyFacts, AfterNothing
<1>4. QED
  BY <1>1, <1>2, <1>3

\* No call is made yet.
LEMMA NothingMade == ASSUME NEW calls PROVE MadeOf(calls, 0) = <<>>
BY DEF MadeOf

\* A call is started without arguments, which follow.
Unfilled(f, id) == [f EXCEPT !.id = id, !.args = <<>>]

\* A call started empty and then filled is the call that came.
LEMMA StartThenFill ==
  ASSUME NEW calls \in Seq(CallRecord), Numbered(calls), NEW f \in CallRecord, f.index = Len(calls) + 1, NEW id \in Id
  PROVE  /\ Unfilled(f, id) \in CallRecord
         /\ f.args = <<>> => Unfilled(f, id) = Identified(f, id)
         /\ AddFrag(Append(calls, Unfilled(f, id)), f) = Append(calls, Identified(f, id))
         /\ Append(calls, Unfilled(f, id)) \in Seq(CallRecord)
         /\ Append(calls, Identified(f, id)) \in Seq(CallRecord)
         /\ \A a : a.calls = Append(calls, Unfilled(f, id)) => CallAt(a, f.index).id = id
<1> DEFINE n == Len(calls)
           g == Unfilled(f, id)
           h == Identified(f, id)
           more == Append(calls, g)
<1>1. g \in CallRecord /\ h \in CallRecord
  <2>1. <<>> \in Seq(Tok)
    OBVIOUS
  <2>2. QED
    BY <2>1 DEF CallRecord, Identified, Unfilled
<1>2. f.args = <<>> => g = h
  BY DEF CallRecord, Identified, Unfilled
<1>3. Grown(g, f.args) = h /\ g.index = n + 1 /\ g.id = id
  <2>1. <<>> \o f.args = f.args
    BY AfterNothing DEF CallRecord
  <2>2. QED
    BY <2>1 DEF CallRecord, Identified, Grown, Unfilled
<1> HIDE DEF g, h
<1>4. /\ n \in Nat /\ DOMAIN calls = 1..n /\ more \in Seq(CallRecord) /\ Len(more) = n + 1
      /\ DOMAIN more = 1..n + 1 /\ Append(calls, h) \in Seq(CallRecord)
      /\ (\A i \in 1..n : more[i] = calls[i]) /\ more[n + 1] = g
  BY <1>1, AppendProperties, LenProperties
<1>5. Append(calls, h) = [i \in 1..n + 1 |-> IF i <= n THEN calls[i] ELSE h]
  <2>1. h \in CallRecord /\ calls \in Seq(CallRecord) /\ n \in Nat /\ n = Len(calls)
    BY <1>1, <1>4
  <2>2. Append(calls, h) \in Seq(CallRecord) /\ Len(Append(calls, h)) = n + 1
        /\ \A i \in 1..n : Append(calls, h)[i] = calls[i]
        /\ Append(calls, h)[n + 1] = h
    BY <2>1, AppendProperties
  <2>3. Append(calls, h) \in [1..n + 1 -> CallRecord]
    BY <2>2, LenProperties
  <2>4. Append(calls, h) = [i \in 1..n + 1 |-> Append(calls, h)[i]]
    BY <2>3
  <2>5. \A i \in 1..n + 1 : Append(calls, h)[i] = IF i <= n THEN calls[i] ELSE h
    BY <2>1, <2>2
  <2>6. QED
    BY <2>4, <2>5
<1> HIDE DEF more
<1>6. \A i \in 1..n + 1 : more[i].index = f.index <=> i = n + 1
  BY <1>3, <1>4 DEF Numbered
<1>7. AddFrag(more, f) = [i \in 1..n + 1 |-> IF more[i].index = f.index THEN Grown(more[i], f.args) ELSE more[i]]
  <2>1. n + 1 \in DOMAIN more /\ more[n + 1].index = f.index
    BY <1>4, <1>6
  <2>2. QED
    BY <1>4, <2>1 DEF AddFrag, Grown
<1>8. \A i \in 1..n + 1 : (IF more[i].index = f.index THEN Grown(more[i], f.args) ELSE more[i])
                            = IF i <= n THEN calls[i] ELSE h
  BY <1>3, <1>4, <1>6
<1>9. AddFrag(more, f) = Append(calls, h)
  BY <1>5, <1>7, <1>8
<1>10. ASSUME NEW a, a.calls = more PROVE CallAt(a, f.index).id = id
  <2> DEFINE at == CHOOSE i \in DOMAIN a.calls : a.calls[i].index = f.index
  <2>1. n + 1 \in DOMAIN a.calls /\ a.calls[n + 1].index = f.index
    BY <1>4, <1>6, <1>10
  <2>2. at \in DOMAIN a.calls /\ a.calls[at].index = f.index
    BY <2>1
  <2>3. CallAt(a, f.index) = a.calls[at]
    BY DEF CallAt
  <2> HIDE DEF at
  <2>4. at = n + 1
    BY <1>4, <1>6, <1>10, <2>2
  <2>5. QED
    BY <1>3, <1>4, <1>10, <2>3, <2>4
<1>11. QED
  BY <1>1, <1>2, <1>4, <1>9, <1>10 DEF g, h, more

\* The accumulator finds a call by its index.
LEMMA CallSeen ==
  ASSUME NEW calls \in Seq(CallRecord), Numbered(calls), NEW a, a.calls = WithIds(calls), NEW index
  PROVE  /\ Seen(a, index) <=> index \in 1..Len(calls)
         /\ index \in 1..Len(calls) =>
              /\ CallAt(a, index).id = IdOf(calls, index) /\ IdOf(calls, index) \in Id
              /\ CallAt(a, index).args = calls[index].args
<1>1. DOMAIN a.calls = 1..Len(calls) /\ \A i \in 1..Len(calls) : a.calls[i].index = i
  BY CallsTypes, WithIdsAt DEF Numbered
<1>2. Seen(a, index) <=> index \in 1..Len(calls)
  BY <1>1 DEF Seen
<1>3. ASSUME index \in 1..Len(calls)
      PROVE  CallAt(a, index).id = IdOf(calls, index) /\ IdOf(calls, index) \in Id
             /\ CallAt(a, index).args = calls[index].args
  <2> DEFINE at == CHOOSE i \in DOMAIN a.calls : a.calls[i].index = index
  <2>1. at = index
    BY <1>1, <1>3
  <2>2. CallAt(a, index) = a.calls[at]
    BY DEF CallAt
  <2>3. CallAt(a, index) = WithIds(calls)[index]
    BY <2>1, <2>2
  <2>4. QED
    BY <1>3, <2>3, WithIdsAt, IdOfType
<1>4. QED
  BY <1>2, <1>3
-----------------------------------------------------------------------------
(* The OpenAI adapter. *)

\* What the OpenAI adapter has told of a reply.
LEMMA OpenAITells ==
  ASSUME backend = "openai", NEW r, NEW a
  PROVE  /\ TheNames(r) = NamesOf(r.calls) /\ TheText(r, a) = r.text
         /\ r.finished => TheMade(r, a) = MadeOf(r.calls, Len(r.calls))
         /\ ~r.finished => TheMade(r, a) = <<>>
BY NothingMade DEF TheNames, TheText, TheMade, Narrated, Complete

\* Words.
LEMMA OpenAIHears ==
  ASSUME Reads("openai"), ~reply.finished, NEW k, k.frags = <<>>, k.stop = 0, k.think = <<>>,
         k.text \in Seq(Tok), k.finish = FALSE, k.usage = 0
  PROVE  Advances(k, Add(k), Handle(acc, k))
<1> DEFINE q == Add(k)
           s == Handle(acc, k)
<1>1. /\ backend = "openai" /\ ReplyOK(reply) /\ acc \in Accumulator /\ ~acc.error /\ OpenAIOK(reply, acc)
  BY DEF Reads, AccumulatorOK
<1>2. /\ ReplyOK(q) /\ q.calls = reply.calls /\ q.text = reply.text \o k.text
      /\ q.think = reply.think \o <<>> /\ q.finished = reply.finished /\ q.usage = reply.usage
  <2>1. <<>> \in Seq(Tok) /\ 0 \in Nat
    OBVIOUS
  <2>2. reply.finished \in BOOLEAN
    BY <1>1, ReplyFacts
  <2>3. ReplyOK(q) /\ q.calls = reply.calls /\ q.text = reply.text \o k.text
        /\ q.think = reply.think \o k.think /\ q.finished = (reply.finished \/ k.finish)
        /\ q.usage = IF k.usage > 0 THEN k.usage ELSE reply.usage
    BY <1>1, <2>1, PlainAdd
  <2>4. QED
    BY <2>2, <2>3
<1>3. s.acc = acc /\ s.events = <<>> \o Deltas(k.text)
  <2>1. OpenAIFragments(Then(Step(acc, <<>>), acc, Deltas(k.text)), k.frags) = Then(Step(acc, <<>>), acc, Deltas(k.text))
    BY EachOpenAI
  <2>2. s = OpenAIFragments(Then(Step(acc, <<>>), Step(acc, <<>>).acc, Deltas(k.text)), k.frags)
    BY <1>1 DEF Handle, OpenAIHandle, OpenAIOK
  <2>3. QED
    BY <2>1, <2>2 DEF Step, Then
<1>4. Carries(s.events, <<>>, <<>>, k.text, <<>>) /\ Kinds(s.events, {"text"})
  <2>1. Carries(Deltas(k.text), <<>>, <<>>, k.text, <<>>)
    BY DeltasCarry
  <2>2. <<>> \o Deltas(k.text) = Deltas(k.text)
    BY <2>1, AfterNothing DEF Carries
  <2>3. QED
    BY <1>3, <2>1, <2>2, DeltasKind
<1> HIDE DEF q, s
<1>5. AccumulatorOK(q, s.acc)
  BY <1>1, <1>2, <1>3 DEF AccumulatorOK, OpenAIOK
<1>6. Brings(k, q, s)
  <2>1. /\ TheNames(q) = TheNames(reply) \o <<>> /\ TheMade(q, s.acc) = TheMade(reply, acc) \o <<>>
        /\ TheText(q, s.acc) = TheText(reply, acc) \o k.text
    <3>1. 0 \in 0..Len(reply.calls)
      BY <1>1, ReplyFacts
    <3>2. NamesOf(reply.calls) \o <<>> = NamesOf(reply.calls) /\ <<>> \o <<>> = <<>>
      BY <1>1, <3>1, NothingMore
    <3>3. QED
      BY <1>1, <1>2, <3>2, OpenAITells
  <2>2. StartsFirst([names |-> TheNames(reply)], s.events)
    BY <1>4, QuietStarts DEF Kinds
  <2>3. QED
    BY <1>2, <1>4, <2>1, <2>2, BringsIf DEF Kinds
<1>7. QED
  BY <1>1, <1>2, <1>3, <1>5, <1>6 DEF Advances, q, s

\* A call begins.
LEMMA OpenAIStarts ==
  ASSUME Reads("openai"), ~reply.finished, NEW k, NEW f, k.frags = <<f>>, k.stop = 0, k.think = <<>>,
         k.text = <<>>, k.finish = FALSE, k.usage = 0,
         f \in CallRecord, f.index = Len(reply.calls) + 1, f.id \in {NoId, <<"id", f.index>>}
  PROVE  Advances(k, Add(k), Handle(acc, k))
<1> DEFINE q == Add(k)
           s == Handle(acc, k)
           id == IF f.id = NoId THEN MadeUp(f.index - 1) ELSE f.id
           calls == reply.calls
<1>1. /\ backend = "openai" /\ ReplyOK(reply) /\ acc \in Accumulator /\ ~acc.error /\ OpenAIOK(reply, acc)
  BY DEF Reads, AccumulatorOK
<1>2. /\ ReplyOK(q) /\ q.calls = AddFrag(calls, f) /\ q.text = reply.text \o <<>>
      /\ q.think = reply.think /\ q.finished = reply.finished /\ q.usage = reply.usage
  <2>1. <<>> \in Seq(Tok)
    OBVIOUS
  <2>2. QED
    BY <1>1, <2>1, CallAdd
<1>3. /\ calls \in Seq(CallRecord) /\ Numbered(calls) /\ Len(calls) \in Nat
  BY <1>1, ReplyFacts
<1>4. /\ q.calls = Append(calls, f)
      /\ WithIds(q.calls) = Append(WithIds(calls), Identified(f, id))
      /\ NamesOf(q.calls) = NamesOf(calls) \o <<<<id, f.name>>>>
      /\ id \in Id /\ f.name \in ToolNames
  <2>1. f.name \in ToolNames
    BY DEF CallRecord
  <2>2. QED
    BY <1>2, <1>3, <2>1, CallJoins, ZenonT(60)
<1> DEFINE s0 == Step(acc, <<>>)
           a1 == [acc EXCEPT !.calls = Append(WithIds(calls), Unfilled(f, id))]
           a2 == [acc EXCEPT !.calls = WithIds(q.calls)]
           es1 == <<ToolUseStart(id, f.name)>>
           es2 == <<ToolUseStart(id, f.name)>> \o <<ToolUseArgsDelta(id)>>
           s1 == Starts(s0, f, id)
           s2 == Accumulates(s1, f)
<1>5. s = s2
  <2>1. acc.calls = WithIds(calls) /\ ~acc.finished
    BY <1>1 DEF OpenAIOK
  <2>2. ~Seen(s0.acc, f.index)
    <3>1. s0.acc = acc /\ f.index \notin 1..Len(calls)
      BY <1>3 DEF Step
    <3>2. QED
      BY <1>3, <2>1, <3>1, CallSeen
  <2>3. OpenAIFragment(s0, f) = s2
    BY <2>2 DEF OpenAIFragment
  <2>4. OpenAIFragments(s0, k.frags) = OpenAIFragment(s0, f)
    BY EachOpenAI
  <2>5. Then(s0, s0.acc, Deltas(<<>>)) = s0
    BY DEF Then, Step, Deltas
  <2>6. s = OpenAIFragments(Then(s0, s0.acc, Deltas(<<>>)), k.frags)
    BY <1>1, <2>1 DEF Handle, OpenAIHandle
  <2>7. QED
    BY <2>3, <2>4, <2>5, <2>6
<1> HIDE DEF id, s, q
<1>6. s1.acc = a1 /\ s1.events = es1
  <2>1. acc.calls = WithIds(calls)
    BY <1>1 DEF OpenAIOK
  <2>2. s1 = Then(s0, a1, es1)
    BY <2>1 DEF Starts, Step, Unfilled
  <2>3. <<>> \o es1 = es1
    OBVIOUS
  <2>4. QED
    BY <2>2, <2>3 DEF Step, Then
<1>7. /\ Unfilled(f, id) \in CallRecord
      /\ f.args = <<>> => Unfilled(f, id) = Identified(f, id)
      /\ AddFrag(Append(WithIds(calls), Unfilled(f, id)), f) = WithIds(q.calls)
      /\ Append(WithIds(calls), Unfilled(f, id)) \in Seq(CallRecord)
      /\ WithIds(q.calls) \in Seq(CallRecord)
      /\ a1.calls = Append(WithIds(calls), Unfilled(f, id)) => CallAt(a1, f.index).id = id
  <2>1. WithIds(calls) \in Seq(CallRecord) /\ Numbered(WithIds(calls)) /\ Len(WithIds(calls)) = Len(calls)
    BY <1>3, CallsTypes, WithIdsAt DEF Numbered
  <2>2. QED
    BY <1>4, <2>1, StartThenFill
<1>8. a1.calls = Append(WithIds(calls), Unfilled(f, id)) /\ a1 \in Accumulator /\ a2 \in Accumulator
      /\ a2.calls = WithIds(q.calls)
      /\ [a1 EXCEPT !.calls = WithIds(q.calls)] = a2
  BY <1>1, <1>7 DEF Accumulator
<1>9. s2.acc = a2 /\ (s2.events = es1 \/ s2.events = es2)
  <2>1. CASE f.args = <<>>
    <3>1. s2 = s1
      BY <2>1 DEF Accumulates
    <3>2. a1 = a2
      BY <1>4, <1>7, <2>1
    <3>3. QED
      BY <1>6, <3>1, <3>2
  <2>2. CASE f.args # <<>>
    <3>1. s2 = Then(s1, [a1 EXCEPT !.calls = AddFrag(a1.calls, f)], <<ToolUseArgsDelta(CallAt(a1, f.index).id)>>)
      BY <1>6, <2>2 DEF Accumulates
    <3>2. AddFrag(a1.calls, f) = WithIds(q.calls) /\ CallAt(a1, f.index).id = id
      BY <1>7, <1>8
    <3>3. s2 = Then(s1, a2, <<ToolUseArgsDelta(id)>>)
      BY <1>8, <3>1, <3>2
    <3>4. QED
      <4> HIDE DEF s1, s2, a2, es1
      <4>1. s2.acc = a2 /\ s2.events = s1.events \o <<ToolUseArgsDelta(id)>>
        BY <3>3 DEF Step, Then
      <4>2. QED
        BY <1>6, <4>1 DEF es1
  <2>3. QED
    BY <2>1, <2>2
<1>10. Carries(s.events, <<<<id, f.name>>>>, <<>>, <<>>, <<>>) /\ Kinds(s.events, {"start", "args"})
  <2>1. Carries(es1, <<<<id, f.name>>>>, <<>>, <<>>, <<>>)
    BY <1>4, StartHolds, OneCarries
  <2>2. Carries(es2, <<<<id, f.name>>>>, <<>>, <<>>, <<>>)
    <3>1. Carries(<<ToolUseArgsDelta(id)>>, <<>>, <<>>, <<>>, <<>>)
      BY <1>4, ArgsHolds, OneCarries
    <3>2. Carries(es2, <<<<id, f.name>>>> \o <<>>, <<>> \o <<>>, <<>> \o <<>>, <<>> \o <<>>)
      BY <2>1, <3>1, BothCarry
    <3>3. <<<<id, f.name>>>> \o <<>> = <<<<id, f.name>>>> /\ <<>> \o <<>> = <<>>
      OBVIOUS
    <3>4. QED
      BY <3>2, <3>3
  <2>3. Kinds(es1, {"start", "args"}) /\ Kinds(es2, {"start", "args"})
    BY DEF Kinds, ToolUseStart, ToolUseArgsDelta
  <2>4. QED
    BY <1>5, <1>9, <2>1, <2>2, <2>3
<1> HIDE DEF a1, a2, es1, es2, s1, s2, s0, calls
<1>11. a2.pending = acc.pending /\ a2.finished = acc.finished /\ a2.usage = acc.usage /\ a2.error = acc.error
       /\ a2.calls = WithIds(q.calls)
  BY <1>1, <1>8 DEF a2, Accumulator
<1>12. AccumulatorOK(q, a2)
  BY <1>1, <1>2, <1>11 DEF AccumulatorOK, OpenAIOK
<1>13. Brings(k, q, s)
  <2>1. /\ TheNames(q) = TheNames(reply) \o <<<<id, f.name>>>> /\ TheMade(q, s.acc) = TheMade(reply, acc) \o <<>>
        /\ TheText(q, s.acc) = TheText(reply, acc) \o <<>> /\ q.think = reply.think \o <<>>
    <3>1. 0 \in 0..Len(reply.calls)
      BY <1>1, ReplyFacts
    <3>2. <<>> \o <<>> = <<>> /\ reply.think \o <<>> = reply.think
      BY <1>1, <3>1, NothingMore
    <3>3. QED
      BY <1>1, <1>2, <1>4, <3>2, OpenAITells DEF calls
  <2>2. StartsFirst([names |-> TheNames(reply)], s.events)
    BY <1>10, QuietStarts DEF Kinds
  <2>3. QED
    BY <1>2, <1>10, <2>1, <2>2, BringsIf DEF Kinds
<1>14. QED
  BY <1>1, <1>2, <1>5, <1>8, <1>9, <1>11, <1>12, <1>13 DEF Advances, q, s

\* A call gets more of its arguments.
LEMMA OpenAIGrows ==
  ASSUME Reads("openai"), ~reply.finished, NEW k, NEW f, k.frags = <<f>>, k.stop = 0, k.think = <<>>,
         k.text = <<>>, k.finish = FALSE, k.usage = 0,
         f.index \in reply.open, f.args \in Seq(Tok), f.args # <<>>
  PROVE  Advances(k, Add(k), Handle(acc, k))
<1> DEFINE q == Add(k)
           s == Handle(acc, k)
           calls == reply.calls
           id == IdOf(calls, f.index)
           s0 == Step(acc, <<>>)
           a2 == [acc EXCEPT !.calls = WithIds(q.calls)]
           es == <<ToolUseArgsDelta(id)>>
<1>1. /\ backend = "openai" /\ ReplyOK(reply) /\ acc \in Accumulator /\ ~acc.error /\ OpenAIOK(reply, acc)
  BY DEF Reads, AccumulatorOK
<1>2. /\ ReplyOK(q) /\ q.calls = AddFrag(calls, f) /\ q.text = reply.text \o <<>>
      /\ q.think = reply.think /\ q.finished = reply.finished /\ q.usage = reply.usage
  <2>1. <<>> \in Seq(Tok)
    OBVIOUS
  <2>2. QED
    BY <1>1, <2>1, CallAdd
<1>3. /\ calls \in Seq(CallRecord) /\ Numbered(calls) /\ Len(calls) \in Nat /\ f.index \in 1..Len(calls)
  BY <1>1, ReplyFacts
<1>4. /\ q.calls \in Seq(CallRecord) /\ WithIds(q.calls) = AddFrag(WithIds(calls), f)
      /\ NamesOf(q.calls) = NamesOf(calls)
  BY <1>2, <1>3, CallGrows
<1>5. acc.calls = WithIds(calls) /\ ~acc.finished
  BY <1>1 DEF OpenAIOK
<1>6. Seen(acc, f.index) /\ CallAt(acc, f.index).id = id /\ id \in Id
  BY <1>3, <1>5, CallSeen
<1>7. s = Then(s0, a2, es)
  <2>1. s0.acc = acc
    BY StepIs
  <2>2. OpenAIFragment(s0, f) = Accumulates(s0, f)
    BY <1>6, <2>1 DEF OpenAIFragment
  <2>3. Accumulates(s0, f) = Then(s0, a2, es)
    BY <1>4, <1>5, <1>6, <2>1 DEF Accumulates
  <2>4. OpenAIFragments(s0, k.frags) = OpenAIFragment(s0, f)
    BY EachOpenAI
  <2>5. Then(s0, s0.acc, Deltas(<<>>)) = s0
    BY DEF Then, Step, Deltas
  <2>6. s = OpenAIFragments(Then(s0, s0.acc, Deltas(<<>>)), k.frags)
    BY <1>1, <1>5 DEF Handle, OpenAIHandle
  <2>7. QED
    BY <2>2, <2>3, <2>4, <2>5, <2>6
<1>8. s.acc = a2 /\ s.events = es
  <2>1. <<>> \o es = es
    OBVIOUS
  <2>2. QED
    BY <1>7, <2>1 DEF Step, Then
<1>9. Carries(es, <<>>, <<>>, <<>>, <<>>) /\ Kinds(es, {"args"})
  <2>1. Kinds(es, {"args"})
    BY DEF Kinds, ToolUseArgsDelta
  <2>2. QED
    BY <1>6, <2>1, ArgsHolds, OneCarries
<1>10. a2 \in Accumulator
       /\ a2.pending = acc.pending /\ a2.finished = acc.finished /\ a2.usage = acc.usage /\ a2.error = acc.error
       /\ a2.calls = WithIds(q.calls)
  <2>1. WithIds(q.calls) \in Seq(CallRecord)
    BY <1>4, CallsTypes
  <2>2. QED
    BY <1>1, <2>1 DEF Accumulator
<1> HIDE DEF a2, es, s0, s, q
<1>12. AccumulatorOK(q, a2)
  BY <1>1, <1>2, <1>10 DEF AccumulatorOK, OpenAIOK
<1>13. Brings(k, q, s)
  <2>1. /\ TheNames(q) = TheNames(reply) \o <<>> /\ TheMade(q, s.acc) = TheMade(reply, acc) \o <<>>
        /\ TheText(q, s.acc) = TheText(reply, acc) \o <<>> /\ q.think = reply.think \o <<>>
    <3>1. 0 \in 0..Len(reply.calls)
      BY <1>1, ReplyFacts
    <3>2. <<>> \o <<>> = <<>> /\ reply.think \o <<>> = reply.think /\ NamesOf(reply.calls) \o <<>> = NamesOf(reply.calls)
      BY <1>1, <3>1, NothingMore
    <3>3. QED
      BY <1>1, <1>2, <1>4, <3>2, OpenAITells
  <2>2. StartsFirst([names |-> TheNames(reply)], s.events)
    BY <1>8, <1>9, QuietStarts DEF Kinds
  <2>3. QED
    BY <1>2, <1>8, <1>9, <2>1, <2>2, BringsIf DEF Kinds
<1>14. QED
  BY <1>1, <1>2, <1>8, <1>10, <1>12, <1>13 DEF Advances, q, s

\* Usage comes with a chunk or does not.
Counting(a, usage) == IF usage > 0 THEN [a EXCEPT !.usage = usage] ELSE a

\* Counting usage changes nothing else.
LEMMA CountingKeeps ==
  ASSUME NEW a \in Accumulator, NEW usage \in Nat
  PROVE  LET b == Counting(a, usage) IN
         /\ b \in Accumulator
         /\ b.calls = a.calls /\ b.text = a.text /\ b.pending = a.pending /\ b.maybe = a.maybe /\ b.seq = a.seq
         /\ b.finished = a.finished /\ b.error = a.error
         /\ b.usage = IF usage > 0 THEN usage ELSE a.usage
BY DEF Counting, Accumulator

\* A step followed by no event.
LEMMA NothingThen == ASSUME NEW a, NEW es \in Seq(Event) PROVE Then(Step(a, es), a, <<>>) = Step(a, es)
<1>1. es \o <<>> = es
  BY AfterNothing
<1>2. QED
  BY <1>1 DEF Then, Step

\* The reply's usage comes after the rest.
LEMMA OpenAITrails ==
  ASSUME Reads("openai"), reply.finished, NEW k, k.frags = <<>>, k.stop = 0, k.think = <<>>,
         k.text = <<>>, k.finish = FALSE, k.usage \in Nat
  PROVE  Advances(k, Add(k), Handle(acc, k))
<1> DEFINE q == Add(k)
           s == Handle(acc, k)
           b == Counting(acc, k.usage)
<1>1. /\ backend = "openai" /\ ReplyOK(reply) /\ acc \in Accumulator /\ ~acc.error /\ OpenAIOK(reply, acc)
  BY DEF Reads, AccumulatorOK
<1>2. /\ ReplyOK(q) /\ q.calls = reply.calls /\ q.text = reply.text \o <<>>
      /\ q.think = reply.think \o <<>> /\ q.finished = reply.finished
      /\ q.usage = IF k.usage > 0 THEN k.usage ELSE reply.usage
  <2>1. <<>> \in Seq(Tok)
    OBVIOUS
  <2>2. reply.finished \in BOOLEAN
    BY <1>1, ReplyFacts
  <2>3. ReplyOK(q) /\ q.calls = reply.calls /\ q.text = reply.text \o k.text
        /\ q.think = reply.think \o k.think /\ q.finished = (reply.finished \/ k.finish)
        /\ q.usage = IF k.usage > 0 THEN k.usage ELSE reply.usage
    BY <1>1, <2>1, PlainAdd
  <2>4. QED
    BY <2>2, <2>3
<1>3. s = Step(b, <<>>)
  BY <1>1 DEF Handle, OpenAIHandle, OpenAIOK, Counting
<1>4. s.acc = b /\ s.events = <<>>
  BY <1>3 DEF Step
<1> HIDE DEF q, s, b
<1>5. AccumulatorOK(q, b) /\ b \in Accumulator /\ ~b.error
  BY <1>1, <1>2, CountingKeeps DEF AccumulatorOK, OpenAIOK, b
<1>6. Brings(k, q, s)
  <2>1. /\ TheNames(q) = TheNames(reply) \o <<>> /\ TheMade(q, s.acc) = TheMade(reply, acc) \o <<>>
        /\ TheText(q, s.acc) = TheText(reply, acc) \o <<>>
    <3>1. Len(reply.calls) \in 0..Len(reply.calls)
      BY <1>1, ReplyFacts
    <3>2. NamesOf(reply.calls) \o <<>> = NamesOf(reply.calls)
          /\ MadeOf(reply.calls, Len(reply.calls)) \o <<>> = MadeOf(reply.calls, Len(reply.calls))
      BY <1>1, <3>1, NothingMore
    <3>3. QED
      BY <1>1, <1>2, <3>2, OpenAITells
  <2>2. StartsFirst([names |-> TheNames(reply)], s.events)
    BY <1>4 DEF StartsFirst
  <2>3. \A i \in DOMAIN s.events : FALSE
    BY <1>4
  <2>4. QED
    BY <1>2, <1>4, <2>1, <2>2, <2>3, NoneCarries, BringsIf
<1>7. QED
  BY <1>2, <1>4, <1>5, <1>6 DEF Advances, q, s

\* finish_reason.
LEMMA OpenAIEnds ==
  ASSUME Reads("openai"), ~reply.finished, NEW k, k.frags = <<>>, k.stop = 0, k.think = <<>>,
         k.text = <<>>, k.finish = TRUE, k.usage \in Nat
  PROVE  Advances(k, Add(k), Handle(acc, k))
<1> DEFINE q == Add(k)
           s == Handle(acc, k)
           b == Counting(acc, k.usage)
           c == [b EXCEPT !.finished = TRUE]
           e == [[b EXCEPT !.error = TRUE] EXCEPT !.finished = TRUE]
           calls == reply.calls
           es == StopsOf(WithIds(calls), Len(calls))
<1>1. /\ backend = "openai" /\ ReplyOK(reply) /\ acc \in Accumulator /\ ~acc.error /\ OpenAIOK(reply, acc)
  BY DEF Reads, AccumulatorOK
<1>2. /\ ReplyOK(q) /\ q.calls = calls /\ q.text = reply.text \o <<>>
      /\ q.think = reply.think \o <<>> /\ q.finished
      /\ q.usage = IF k.usage > 0 THEN k.usage ELSE reply.usage
  <2>1. <<>> \in Seq(Tok)
    OBVIOUS
  <2>3. ReplyOK(q) /\ q.calls = reply.calls /\ q.text = reply.text \o k.text
        /\ q.think = reply.think \o k.think /\ q.finished = (reply.finished \/ k.finish)
        /\ q.usage = IF k.usage > 0 THEN k.usage ELSE reply.usage
    BY <1>1, <2>1, PlainAdd
  <2>4. QED
    BY <2>3
<1>3. calls \in Seq(CallRecord) /\ Len(calls) \in Nat /\ q.finished \in BOOLEAN
  BY <1>1, <1>2, ReplyFacts
<1>4. /\ b \in Accumulator /\ b.calls = WithIds(calls) /\ b.pending = <<>> /\ ~b.error /\ b.usage = q.usage
      /\ c \in Accumulator /\ c.calls = WithIds(calls) /\ c.pending = <<>> /\ ~c.error /\ c.usage = q.usage /\ c.finished = TRUE
      /\ e \in Accumulator /\ e.error
  <2>1. b \in Accumulator /\ b.calls = WithIds(calls) /\ b.pending = <<>> /\ ~b.error /\ b.usage = q.usage
    BY <1>1, <1>2, CountingKeeps DEF OpenAIOK
  <2> HIDE DEF b
  <2>2. QED
    BY <2>1 DEF Accumulator
<1>5. s = OpenAIFinishes(Step(b, <<>>))
  <2>1. Step(b, <<>>).acc = b
    BY DEF Step
  <2>2. Then(Step(b, <<>>), Step(b, <<>>).acc, Deltas(<<>>)) = Step(b, <<>>)
    BY <2>1, NothingThen, NoneCarries DEF Deltas, Carries
  <2>3. OpenAIFragments(Step(b, <<>>), k.frags) = Step(b, <<>>)
    BY EachOpenAI
  <2>4. s = OpenAIFinishes(OpenAIFragments(Then(Step(b, <<>>), Step(b, <<>>).acc, Deltas(<<>>)), k.frags))
    BY <1>1 DEF Handle, OpenAIHandle, OpenAIOK, Counting
  <2>5. QED
    BY <2>2, <2>3, <2>4
<1> HIDE DEF b, q, s
<1>6. /\ DOMAIN b.calls = 1..Len(calls)
      /\ \A i \in 1..Len(calls) : b.calls[i].id = IdOf(calls, i) /\ b.calls[i].args = calls[i].args
  BY <1>3, <1>4, CallsTypes, WithIdsAt
<1>7. CASE ~AllJSON(calls)
  <2>1. ~\A i \in DOMAIN b.calls : IsJSON(OrEmpty(b.calls[i].args))
    BY <1>6, <1>7 DEF AllJSON
  <2>2. s = Step([[b EXCEPT !.error = TRUE] EXCEPT !.finished = TRUE], <<>>)
    BY <1>5, <2>1 DEF OpenAIFinishes, StopsAll, Fails, Step
  <2>3. s.acc = e
    BY <2>2 DEF Step
  <2>4. QED
    BY <1>2, <1>4, <1>7, <2>3 DEF Advances, q, s
<1>8. CASE AllJSON(calls)
  <2>1. \A i \in DOMAIN b.calls : IsJSON(OrEmpty(b.calls[i].args))
    BY <1>6, <1>8 DEF AllJSON
  <2>2. [i \in DOMAIN b.calls |-> ToolUseDone(b.calls[i].id, OrEmpty(b.calls[i].args))] = es
    BY <1>4, <1>6 DEF StopsOf
  <2>3. Carries(es, <<>>, MadeOf(calls, Len(calls)), <<>>, <<>>)
    BY <1>3, StopsCarry
  <2>4. <<>> \o es = es
    BY <2>3, AfterNothing DEF Carries
  <2>5. StopsAll(Step(b, <<>>)) = Step(b, es)
    <3>1. Step(b, <<>>).acc = b /\ Step(b, <<>>).events = <<>>
      BY DEF Step
    <3>2. StopsAll(Step(b, <<>>)) = Then(Step(b, <<>>), b, es)
      BY <2>1, <2>2, <3>1 DEF StopsAll
    <3>3. QED
      BY <2>4, <3>1, <3>2 DEF Then, Step
  <2> HIDE DEF es
  <2>6. s.acc = c /\ s.events = es
    <3>1. Step(b, es).acc = b /\ Step(b, es).events = es
      BY DEF Step
    <3>2. s = Step([b EXCEPT !.finished = TRUE], es)
      BY <1>5, <2>5, <3>1 DEF OpenAIFinishes
    <3>3. QED
      BY <3>2 DEF Step
  <2> HIDE DEF c
  <2>7. AccumulatorOK(q, c)
    BY <1>1, <1>2, <1>3, <1>4, <1>8 DEF AccumulatorOK, OpenAIOK
  <2>8. /\ TheNames(q) = TheNames(reply) \o <<>> /\ TheMade(q, s.acc) = TheMade(reply, acc) \o MadeOf(calls, Len(calls))
        /\ TheText(q, s.acc) = TheText(reply, acc) \o <<>>
    <3>1. Len(reply.calls) \in 0..Len(reply.calls)
      BY <1>1, ReplyFacts
    <3>2. NamesOf(reply.calls) \o <<>> = NamesOf(reply.calls)
      BY <1>1, <3>1, NothingMore
    <3>3. <<>> \o MadeOf(calls, Len(calls)) = MadeOf(calls, Len(calls))
      BY <1>3, CallsTypes, AfterNothing DEF Dones
    <3>4. QED
      BY <1>1, <1>2, <3>2, <3>3, OpenAITells
  <2>9. \A i \in DOMAIN es : i \in 1..Len(calls) /\ es[i].is = "stop" /\ es[i].id = IdOf(calls, i)
    BY <1>4, <1>6 DEF es, StopsOf, ToolUseDone
  <2>10. StartsFirst([names |-> TheNames(reply)], s.events)
    <3>1. TheNames(reply) = NamesOf(calls) /\ DOMAIN NamesOf(calls) = 1..Len(calls)
          /\ \A i \in 1..Len(calls) : NamesOf(calls)[i][1] = IdOf(calls, i)
      BY <1>1, OpenAITells DEF NamesOf
    <3>2. QED
      BY <2>6, <2>9, <3>1 DEF StartsFirst
  <2>11. \A i \in DOMAIN s.events : s.events[i].is # "done"
    BY <2>6, <2>9
  <2>12. Brings(k, q, s)
    BY <1>2, <2>3, <2>6, <2>8, <2>10, <2>11, BringsIf
  <2>13. QED
    BY <1>2, <1>4, <2>6, <2>7, <2>12 DEF Advances, q, s
<1>9. QED
  BY <1>7, <1>8
-----------------------------------------------------------------------------
(* The Anthropic adapter. *)

\* What the Anthropic adapter has told of a reply.
LEMMA AnthropicTells ==
  ASSUME backend = "anthropic", NEW r, NEW a
  PROVE  /\ TheNames(r) = NamesOf(r.calls) /\ TheText(r, a) = r.text
         /\ r.open = {} => TheMade(r, a) = MadeOf(r.calls, Len(r.calls))
         /\ r.open # {} => TheMade(r, a) = MadeOf(r.calls, Len(r.calls) - 1)
BY DEF TheNames, TheText, TheMade, Narrated, Complete

\* Words, or the usage.
LEMMA AnthropicHears ==
  ASSUME Reads("anthropic"), ~reply.finished, NEW k, k.frags = <<>>, k.stop = 0, k.think = <<>>,
         k.text \in Seq(Tok), k.finish = FALSE, k.usage \in Nat
  PROVE  Advances(k, Add(k), Handle(acc, k))
<1> DEFINE q == Add(k)
           s == Handle(acc, k)
           b == Counting(acc, k.usage)
           es == Deltas(k.text)
<1>1. /\ backend = "anthropic" /\ ReplyOK(reply) /\ acc \in Accumulator /\ ~acc.error /\ AnthropicOK(reply, acc)
  BY DEF Reads, AccumulatorOK
<1>2. /\ ReplyOK(q) /\ q.calls = reply.calls /\ q.open = reply.open /\ q.text = reply.text \o k.text
      /\ q.think = reply.think \o <<>> /\ q.finished = reply.finished
      /\ q.usage = IF k.usage > 0 THEN k.usage ELSE reply.usage
  <2>1. <<>> \in Seq(Tok)
    OBVIOUS
  <2>2. reply.finished \in BOOLEAN /\ reply.open \subseteq 1..Len(reply.calls) /\ Len(reply.calls) \in Nat
    BY <1>1, ReplyFacts
  <2>3. ReplyOK(q) /\ q.calls = reply.calls /\ q.open = reply.open \ {k.stop} /\ q.text = reply.text \o k.text
        /\ q.think = reply.think \o k.think /\ q.finished = (reply.finished \/ k.finish)
        /\ q.usage = IF k.usage > 0 THEN k.usage ELSE reply.usage
    BY <1>1, <2>1, PlainAdd
  <2>4. reply.open \ {0} = reply.open
    BY <2>2
  <2>5. QED
    BY <2>2, <2>3, <2>4
<1>3. s.acc = b /\ s.events = es
  <2>1. AnthropicFragments(Step(b, es), k.frags) = Step(b, es)
    BY EachAnthropic
  <2>2. s = AnthropicFragments(Step(b, es), k.frags)
    BY <1>1 DEF Handle, AnthropicHandle, Counting
  <2>3. QED
    BY <2>1, <2>2 DEF Step
<1>4. Carries(s.events, <<>>, <<>>, k.text, <<>>) /\ Kinds(s.events, {"text"})
  BY <1>3, DeltasCarry, DeltasKind
<1> HIDE DEF q, s, b
<1>5. AccumulatorOK(q, b) /\ b \in Accumulator /\ ~b.error
  BY <1>1, <1>2, CountingKeeps DEF AccumulatorOK, AnthropicOK, b
<1>6. Brings(k, q, s)
  <2>1. /\ TheNames(q) = TheNames(reply) \o <<>> /\ TheMade(q, s.acc) = TheMade(reply, acc) \o <<>>
        /\ TheText(q, s.acc) = TheText(reply, acc) \o k.text
    <3>1. Len(reply.calls) \in 0..Len(reply.calls) /\ (reply.open # {} => Len(reply.calls) - 1 \in 0..Len(reply.calls))
      BY <1>1, ReplyFacts
    <3>2. NamesOf(reply.calls) \o <<>> = NamesOf(reply.calls)
          /\ \A n \in 0..Len(reply.calls) : MadeOf(reply.calls, n) \o <<>> = MadeOf(reply.calls, n)
      BY <1>1, <3>1, NothingMore
    <3>3. QED
      BY <1>1, <1>2, <3>1, <3>2, AnthropicTells
  <2>2. StartsFirst([names |-> TheNames(reply)], s.events)
    BY <1>4, QuietStarts DEF Kinds
  <2>3. QED
    BY <1>2, <1>4, <2>1, <2>2, BringsIf DEF Kinds
<1>7. QED
  BY <1>2, <1>3, <1>5, <1>6 DEF Advances, q, s

\* message_stop.
LEMMA AnthropicEnds ==
  ASSUME Reads("anthropic"), ~reply.finished, NEW k, k.frags = <<>>, k.stop = 0, k.think = <<>>,
         k.text = <<>>, k.finish = TRUE, k.usage = 0, reply.open = {}
  PROVE  Advances(k, Add(k), Handle(acc, k))
<1> DEFINE q == Add(k)
           s == Handle(acc, k)
           es == <<MessageDone(acc.usage)>>
<1>1. /\ backend = "anthropic" /\ ReplyOK(reply) /\ acc \in Accumulator /\ ~acc.error /\ AnthropicOK(reply, acc)
  BY DEF Reads, AccumulatorOK
<1>2. /\ ReplyOK(q) /\ q.calls = reply.calls /\ q.open = {} /\ q.text = reply.text \o <<>>
      /\ q.think = reply.think \o <<>> /\ q.finished /\ q.usage = reply.usage
  <2>1. <<>> \in Seq(Tok) /\ 0 \in Nat
    OBVIOUS
  <2>3. ReplyOK(q) /\ q.calls = reply.calls /\ q.open = reply.open \ {k.stop} /\ q.text = reply.text \o k.text
        /\ q.think = reply.think \o k.think /\ q.finished = (reply.finished \/ k.finish)
        /\ q.usage = IF k.usage > 0 THEN k.usage ELSE reply.usage
    BY <1>1, <2>1, PlainAdd
  <2>4. reply.open \ {k.stop} = {}
    OBVIOUS
  <2> HIDE DEF q
  <2>5. q.usage = reply.usage
    BY <2>3
  <2>7. q.finished
    BY <2>3
  <2>6. QED
    BY <2>3, <2>4, <2>5, <2>7
<1>3. s.acc = acc /\ s.events = es
  <2>1. AnthropicFragments(Step(acc, <<>>), k.frags) = Step(acc, <<>>)
    BY EachAnthropic
  <2>2. s = Then(AnthropicFragments(Step(acc, <<>>), k.frags), AnthropicFragments(Step(acc, <<>>), k.frags).acc, es)
    BY <1>1 DEF Handle, AnthropicHandle, Deltas
  <2>3. <<>> \o es = es
    OBVIOUS
  <2>4. s = Then(Step(acc, <<>>), Step(acc, <<>>).acc, es)
    BY <2>1, <2>2
  <2> HIDE DEF es, s
  <2>5. QED
    BY <2>3, <2>4 DEF Step, Then
<1>4. Carries(s.events, <<>>, <<>>, <<>>, <<>>) /\ Kinds(s.events, {"done"}) /\ Len(es) = 1 /\ acc.usage = q.usage
      /\ FromUsage(backend, q) = q.usage
  <2>1. acc.usage = q.usage
    BY <1>1, <1>2 DEF AnthropicOK
  <2>2. acc.usage \in Nat
    BY <1>1 DEF Accumulator
  <2>3. Kinds(es, {"done"})
    BY DEF Kinds, MessageDone
  <2>4. FromUsage(backend, q) = q.usage
    BY <1>1 DEF FromUsage
  <2>5. QED
    BY <1>3, <2>1, <2>2, <2>3, <2>4, DoneHolds, OneCarries
<1>5. \A i \in DOMAIN s.events : i = Len(s.events) /\ s.events[i].usage = acc.usage
  BY <1>3 DEF MessageDone
<1> HIDE DEF q, s, es
<1>6. AccumulatorOK(q, acc)
  BY <1>1, <1>2 DEF AccumulatorOK, AnthropicOK
<1>7. Brings(k, q, s)
  <2>1. /\ TheNames(q) = TheNames(reply) \o <<>> /\ TheMade(q, s.acc) = TheMade(reply, acc) \o <<>>
        /\ TheText(q, s.acc) = TheText(reply, acc) \o <<>>
    <3>1. Len(reply.calls) \in 0..Len(reply.calls)
      BY <1>1, ReplyFacts
    <3>2. NamesOf(reply.calls) \o <<>> = NamesOf(reply.calls)
          /\ MadeOf(reply.calls, Len(reply.calls)) \o <<>> = MadeOf(reply.calls, Len(reply.calls))
      BY <1>1, <3>1, NothingMore
    <3>3. QED
      BY <1>1, <1>2, <3>2, AnthropicTells
  <2>2. StartsFirst([names |-> TheNames(reply)], s.events)
    BY <1>4, QuietStarts DEF Kinds
  <2>3. QED
    BY <1>1, <1>2, <1>4, <1>5, <2>1, <2>2, BringsIf
<1>8. QED
  BY <1>1, <1>2, <1>3, <1>6, <1>7 DEF Advances, q, s

\* A call that comes with its ID joins the others as it is.
LEMMA NamedCallJoins ==
  ASSUME NEW calls \in Seq(CallRecord), Numbered(calls), NEW f \in CallRecord, f.index = Len(calls) + 1,
         f.id # NoId
  PROVE  /\ AddFrag(calls, f) = Append(calls, f)
         /\ Len(Append(calls, f)) = Len(calls) + 1
         /\ \A i \in 1..Len(calls) : Append(calls, f)[i] = calls[i]
         /\ WithIds(Append(calls, f)) = Append(WithIds(calls), Identified(f, f.id))
         /\ NamesOf(Append(calls, f)) = NamesOf(calls) \o <<<<f.id, f.name>>>>
         /\ \A n \in 0..Len(calls) : MadeOf(Append(calls, f), n) = MadeOf(calls, n)
         /\ f.id \in Id
<1> DEFINE id == f.id
<1>1. id = IF f.id = NoId THEN MadeUp(f.index - 1) ELSE f.id
  OBVIOUS
<1>2. id = f.id
  OBVIOUS
<1> HIDE DEF id
<1>3. NamesOf(Append(calls, f)) = NamesOf(calls) \o <<<<id, f.name>>>>
  BY <1>1, CallJoins
<1>4. QED
  BY <1>1, <1>2, <1>3, CallJoins

\* content_block_start of a tool_use.
LEMMA AnthropicStarts ==
  ASSUME Reads("anthropic"), ~reply.finished, NEW k, NEW f, k.frags = <<f>>, k.stop = 0, k.think = <<>>,
         k.text = <<>>, k.finish = FALSE, k.usage = 0, NoName \notin ToolNames,
         f \in CallRecord, f.index = Len(reply.calls) + 1, f.id = <<"id", f.index>>, f.id # NoId, f.args = <<>>,
         reply.open = {}
  PROVE  Advances(k, Add(k), Handle(acc, k))
<1> DEFINE q == Add(k)
           s == Handle(acc, k)
           id == IF f.id = NoId THEN MadeUp(f.index - 1) ELSE f.id
           calls == reply.calls
           s0 == Step(acc, <<>>)
           a1 == [acc EXCEPT !.calls = Append(WithIds(calls), Unfilled(f, id))]
           es == <<ToolUseStart(id, f.name)>>
<1>1. /\ backend = "anthropic" /\ ReplyOK(reply) /\ acc \in Accumulator /\ ~acc.error /\ AnthropicOK(reply, acc)
  BY DEF Reads, AccumulatorOK
<1>2. /\ ReplyOK(q) /\ q.calls = AddFrag(calls, f) /\ q.open = {f.index} /\ q.text = reply.text \o <<>>
      /\ q.think = reply.think /\ q.finished = reply.finished /\ q.usage = reply.usage
  <2>1. <<>> \in Seq(Tok)
    OBVIOUS
  <2>2. ReplyOK(q) /\ q.calls = AddFrag(calls, f) /\ q.open = reply.open \cup {f.index} /\ q.text = reply.text \o k.text
      /\ q.think = reply.think /\ q.finished = reply.finished /\ q.usage = reply.usage
    BY <1>1, <2>1, CallAdd
  <2>3. QED
    BY <2>2
<1>3. /\ calls \in Seq(CallRecord) /\ Numbered(calls) /\ Len(calls) \in Nat
  BY <1>1, ReplyFacts
<1>4. /\ q.calls = Append(calls, f) /\ Len(q.calls) = Len(calls) + 1
      /\ \A i \in 1..Len(calls) : q.calls[i] = calls[i]
      /\ WithIds(q.calls) = Append(WithIds(calls), Identified(f, id))
      /\ NamesOf(q.calls) = NamesOf(calls) \o <<<<id, f.name>>>>
      /\ MadeOf(q.calls, Len(calls)) = MadeOf(calls, Len(calls))
      /\ id \in Id /\ f.name \in ToolNames
  <2>1. f.name \in ToolNames
    BY DEF CallRecord
  <2>3. Len(calls) \in 0..Len(calls)
    BY <1>3
  <2>4. QED
    <3>1. id = f.id /\ f.id # NoId /\ f \in CallRecord /\ f.index = Len(calls) + 1
      OBVIOUS
    <3> HIDE DEF q, calls, id
    <3>2. /\ AddFrag(calls, f) = Append(calls, f)
          /\ Len(Append(calls, f)) = Len(calls) + 1
          /\ \A i \in 1..Len(calls) : Append(calls, f)[i] = calls[i]
          /\ \A n \in 0..Len(calls) : MadeOf(Append(calls, f), n) = MadeOf(calls, n)
          /\ f.id \in Id
      BY <1>3, <3>1, NamedCallJoins
    <3>3. WithIds(Append(calls, f)) = Append(WithIds(calls), Identified(f, f.id))
      BY <1>3, <3>1, NamedCallJoins
    <3>4. NamesOf(Append(calls, f)) = NamesOf(calls) \o <<<<f.id, f.name>>>>
      BY <1>3, <3>1, NamedCallJoins, Zenon
    <3>5. NamesOf(Append(calls, f)) = NamesOf(calls) \o <<<<id, f.name>>>>
      BY <3>1, <3>4
    <3>6. QED
      BY <1>2, <2>1, <2>3, <3>1, <3>2, <3>3, <3>5
<1>5. s = Starts(s0, f, id)
  <2>1. AnthropicFragment(s0, f) = Starts(s0, f, id)
    <3>1. f.name # NoName
      BY <1>4
    <3>2. id = f.id
      OBVIOUS
    <3>3. QED
      BY <3>1, <3>2 DEF AnthropicFragment
  <2>2. AnthropicFragments(s0, k.frags) = AnthropicFragment(s0, f)
    BY EachAnthropic
  <2>3. s = AnthropicFragments(s0, k.frags)
    BY <1>1 DEF Handle, AnthropicHandle, Deltas
  <2>4. QED
    BY <2>1, <2>2, <2>3
<1>6. s.acc = a1 /\ s.events = es
  <2>1. acc.calls = WithIds(calls)
    BY <1>1 DEF AnthropicOK
  <2>2. s = Then(s0, a1, es)
    BY <1>5, <2>1 DEF Starts, Step, Unfilled
  <2>3. <<>> \o es = es
    OBVIOUS
  <2>4. QED
    BY <2>2, <2>3 DEF Step, Then
<1>7. /\ Unfilled(f, id) = Identified(f, id) /\ Append(WithIds(calls), Unfilled(f, id)) \in Seq(CallRecord)
  <2>1. WithIds(calls) \in Seq(CallRecord) /\ Numbered(WithIds(calls)) /\ Len(WithIds(calls)) = Len(calls)
    BY <1>3, CallsTypes, WithIdsAt DEF Numbered
  <2>2. QED
    BY <1>4, <2>1, StartThenFill
<1>8. /\ a1 \in Accumulator /\ a1.calls = WithIds(q.calls)
      /\ a1.pending = acc.pending /\ a1.finished = acc.finished /\ a1.usage = acc.usage /\ a1.error = acc.error
  BY <1>1, <1>4, <1>7 DEF Accumulator
<1>9. Carries(es, <<<<id, f.name>>>>, <<>>, <<>>, <<>>) /\ Kinds(es, {"start"})
  <2>1. Kinds(es, {"start"})
    BY DEF Kinds, ToolUseStart
  <2>2. QED
    BY <1>4, <2>1, StartHolds, OneCarries
<1> HIDE DEF a1, es, s0, calls, q, s, id
<1>10. AccumulatorOK(q, a1)
  <2>1. \A i \in 1..Len(q.calls) : i \notin q.open => IsJSON(OrEmpty(q.calls[i].args))
    <3>1. \A i \in 1..Len(q.calls) : i \notin q.open => i \in 1..Len(calls)
      BY <1>2, <1>3, <1>4 DEF calls
    <3>2. \A i \in 1..Len(calls) : IsJSON(OrEmpty(calls[i].args))
      BY <1>1 DEF AnthropicOK, calls
    <3>3. QED
      BY <1>4, <3>1, <3>2
  <2>2. QED
    BY <1>1, <1>2, <1>8, <2>1 DEF AccumulatorOK, AnthropicOK
<1>11. Brings(k, q, s)
  <2>1. /\ TheNames(q) = TheNames(reply) \o <<<<id, f.name>>>> /\ TheMade(q, s.acc) = TheMade(reply, acc) \o <<>>
        /\ TheText(q, s.acc) = TheText(reply, acc) \o <<>> /\ q.think = reply.think \o <<>>
    <3>1. Len(calls) \in 0..Len(reply.calls) /\ q.open # {}
      BY <1>2, <1>3 DEF calls
    <3>2. MadeOf(calls, Len(calls)) \o <<>> = MadeOf(calls, Len(calls)) /\ reply.think \o <<>> = reply.think
      BY <1>1, <3>1, NothingMore DEF calls
    <3>3. TheMade(q, s.acc) = MadeOf(q.calls, Len(q.calls) - 1) /\ Len(q.calls) - 1 = Len(calls)
      <4>1. TheMade(q, s.acc) = MadeOf(q.calls, Len(q.calls) - 1)
        BY <1>1, <3>1, AnthropicTells
      <4>2. Len(q.calls) - 1 = Len(calls)
        BY <1>3, <1>4 DEF calls
      <4>3. QED
        BY <4>1, <4>2
    <3>4. TheMade(reply, acc) = MadeOf(calls, Len(calls))
      BY <1>1, AnthropicTells DEF calls
    <3>5. QED
      BY <1>1, <1>2, <1>4, <3>2, <3>3, <3>4, AnthropicTells DEF calls
  <2>2. StartsFirst([names |-> TheNames(reply)], s.events)
    BY <1>6, <1>9, QuietStarts DEF Kinds
  <2>3. QED
    BY <1>2, <1>6, <1>9, <2>1, <2>2, BringsIf DEF Kinds
<1>12. QED
  BY <1>1, <1>2, <1>6, <1>8, <1>10, <1>11 DEF Advances, q, s

\* input_json_delta.
LEMMA AnthropicGrows ==
  ASSUME Reads("anthropic"), ~reply.finished, NEW k, NEW f, k.frags = <<f>>, k.stop = 0, k.think = <<>>,
         k.text = <<>>, k.finish = FALSE, k.usage = 0,
         f.index \in reply.open, f.args \in Seq(Tok), f.args # <<>>, f.name = NoName
  PROVE  Advances(k, Add(k), Handle(acc, k))
<1> DEFINE q == Add(k)
           s == Handle(acc, k)
           calls == reply.calls
           id == IdOf(calls, f.index)
           s0 == Step(acc, <<>>)
           a2 == [acc EXCEPT !.calls = WithIds(q.calls)]
           es == <<ToolUseArgsDelta(id)>>
<1>1. /\ backend = "anthropic" /\ ReplyOK(reply) /\ acc \in Accumulator /\ ~acc.error /\ AnthropicOK(reply, acc)
  BY DEF Reads, AccumulatorOK
<1>2. /\ ReplyOK(q) /\ q.calls = AddFrag(calls, f) /\ q.open = reply.open /\ q.text = reply.text \o <<>>
      /\ q.think = reply.think /\ q.finished = reply.finished /\ q.usage = reply.usage
  <2>1. <<>> \in Seq(Tok)
    OBVIOUS
  <2>2. /\ ReplyOK(q) /\ q.calls = AddFrag(calls, f) /\ q.open = reply.open \cup {f.index} /\ q.text = reply.text \o k.text
        /\ q.think = reply.think /\ q.finished = reply.finished /\ q.usage = reply.usage
    BY <1>1, <2>1, CallAdd
  <2>3. QED
    BY <2>2
<1>3. /\ calls \in Seq(CallRecord) /\ Numbered(calls) /\ Len(calls) \in Nat /\ f.index \in 1..Len(calls)
      /\ f.index = Len(calls)
  <2>1. reply.open \subseteq {Len(calls)}
    BY <1>1 DEF ReplyOK
  <2>2. QED
    BY <1>1, <2>1, ReplyFacts
<1>4. /\ q.calls \in Seq(CallRecord) /\ WithIds(q.calls) = AddFrag(WithIds(calls), f)
      /\ NamesOf(q.calls) = NamesOf(calls) /\ Len(q.calls) = Len(calls)
      /\ MadeOf(q.calls, Len(calls) - 1) = MadeOf(calls, Len(calls) - 1)
      /\ \A i \in 1..Len(calls) : i # f.index => q.calls[i] = calls[i]
  <2>1. Len(calls) - 1 \in 0..Len(calls) /\ Len(calls) - 1 < f.index
    BY <1>3
  <2>2. QED
    BY <1>2, <1>3, <2>1, CallGrows
<1>5. acc.calls = WithIds(calls)
  BY <1>1 DEF AnthropicOK
<1>6. Seen(acc, f.index) /\ CallAt(acc, f.index).id = id /\ id \in Id
  BY <1>3, <1>5, CallSeen
<1>7. s = Then(s0, a2, es)
  <2>1. s0.acc = acc
    BY StepIs
  <2>2. AnthropicFragment(s0, f) = Accumulates(s0, f)
    BY <1>6, <2>1 DEF AnthropicFragment
  <2>3. Accumulates(s0, f) = Then(s0, a2, es)
    BY <1>4, <1>5, <1>6, <2>1 DEF Accumulates
  <2>4. AnthropicFragments(s0, k.frags) = AnthropicFragment(s0, f)
    BY EachAnthropic
  <2>6. s = AnthropicFragments(s0, k.frags)
    BY <1>1 DEF Handle, AnthropicHandle, Deltas
  <2>7. QED
    BY <2>2, <2>3, <2>4, <2>6
<1>8. s.acc = a2 /\ s.events = es
  <2>1. <<>> \o es = es
    OBVIOUS
  <2>2. QED
    BY <1>7, <2>1 DEF Step, Then
<1>9. Carries(es, <<>>, <<>>, <<>>, <<>>) /\ Kinds(es, {"args"})
  <2>1. Kinds(es, {"args"})
    BY DEF Kinds, ToolUseArgsDelta
  <2>2. QED
    BY <1>6, <2>1, ArgsHolds, OneCarries
<1>10. a2 \in Accumulator
       /\ a2.pending = acc.pending /\ a2.finished = acc.finished /\ a2.usage = acc.usage /\ a2.error = acc.error
       /\ a2.calls = WithIds(q.calls)
  <2>1. WithIds(q.calls) \in Seq(CallRecord)
    BY <1>4, CallsTypes
  <2>2. QED
    BY <1>1, <2>1 DEF Accumulator
<1> HIDE DEF a2, es, s0, s, q, calls
<1>12. AccumulatorOK(q, a2)
  <2>1. \A i \in 1..Len(q.calls) : i \notin q.open => IsJSON(OrEmpty(q.calls[i].args))
    BY <1>1, <1>2, <1>4 DEF AnthropicOK, calls
  <2>2. QED
    BY <1>1, <1>2, <1>10, <2>1 DEF AccumulatorOK, AnthropicOK
<1>13. Brings(k, q, s)
  <2>1. /\ TheNames(q) = TheNames(reply) \o <<>> /\ TheMade(q, s.acc) = TheMade(reply, acc) \o <<>>
        /\ TheText(q, s.acc) = TheText(reply, acc) \o <<>> /\ q.think = reply.think \o <<>>
    <3>1. Len(calls) - 1 \in 0..Len(reply.calls) /\ q.open # {} /\ reply.open # {}
      BY <1>2, <1>3 DEF calls
    <3>2. MadeOf(calls, Len(calls) - 1) \o <<>> = MadeOf(calls, Len(calls) - 1) /\ reply.think \o <<>> = reply.think
          /\ NamesOf(calls) \o <<>> = NamesOf(calls)
      BY <1>1, <3>1, NothingMore DEF calls
    <3>3. TheMade(q, s.acc) = MadeOf(q.calls, Len(calls) - 1) /\ TheMade(reply, acc) = MadeOf(calls, Len(calls) - 1)
      BY <1>1, <1>4, <3>1, AnthropicTells DEF calls
    <3>5. QED
      BY <1>1, <1>2, <1>4, <3>2, <3>3, AnthropicTells DEF calls
  <2>2. StartsFirst([names |-> TheNames(reply)], s.events)
    BY <1>8, <1>9, QuietStarts DEF Kinds
  <2>3. QED
    BY <1>2, <1>8, <1>9, <2>1, <2>2, BringsIf DEF Kinds
<1>14. QED
  BY <1>1, <1>2, <1>8, <1>10, <1>12, <1>13 DEF Advances, q, s

\* content_block_stop of a tool_use.
LEMMA AnthropicStops ==
  ASSUME Reads("anthropic"), ~reply.finished, NEW k, k.frags = <<>>, k.stop \in reply.open, k.think = <<>>,
         k.text = <<>>, k.finish = FALSE, k.usage = 0
  PROVE  Advances(k, Add(k), Handle(acc, k))
<1> DEFINE q == Add(k)
           s == Handle(acc, k)
           calls == reply.calls
           n == Len(calls)
           id == IdOf(calls, n)
           args == OrEmpty(calls[n].args)
           s0 == Step(acc, <<>>)
           e == [acc EXCEPT !.error = TRUE]
           es == <<ToolUseDone(id, args)>>
<1>1. /\ backend = "anthropic" /\ ReplyOK(reply) /\ acc \in Accumulator /\ ~acc.error /\ AnthropicOK(reply, acc)
  BY DEF Reads, AccumulatorOK
<1>3. /\ calls \in Seq(CallRecord) /\ Numbered(calls) /\ n \in Nat /\ n \in 1..n
      /\ k.stop = n /\ reply.open = {n} /\ k.stop # 0
  <2>1. reply.open \subseteq {n}
    BY <1>1 DEF ReplyOK
  <2>2. QED
    BY <1>1, <2>1, ReplyFacts
<1>2. /\ ReplyOK(q) /\ q.calls = calls /\ q.open = {} /\ q.text = reply.text \o <<>>
      /\ q.think = reply.think \o <<>> /\ q.finished = reply.finished /\ q.usage = reply.usage
  <2>1. <<>> \in Seq(Tok) /\ 0 \in Nat
    OBVIOUS
  <2>2. reply.finished \in BOOLEAN
    BY <1>1, ReplyFacts
  <2>3. ReplyOK(q) /\ q.calls = reply.calls /\ q.open = reply.open \ {k.stop} /\ q.text = reply.text \o k.text
        /\ q.think = reply.think \o k.think /\ q.finished = (reply.finished \/ k.finish)
        /\ q.usage = IF k.usage > 0 THEN k.usage ELSE reply.usage
    BY <1>1, <2>1, PlainAdd
  <2> HIDE DEF q
  <2>4. reply.open \ {k.stop} = {}
    BY <1>3
  <2>5. q.usage = reply.usage
    BY <2>3
  <2>6. QED
    BY <2>2, <2>3, <2>4, <2>5
<1>4. acc.calls = WithIds(calls)
  BY <1>1 DEF AnthropicOK
<1>5. /\ CallAt(acc, n).id = id /\ CallAt(acc, n).args = calls[n].args /\ id \in Id /\ args \in Seq(Tok)
  <2>1. calls[n].args \in Seq(Tok)
    BY <1>3, IdOfType
  <2>2. QED
    BY <1>3, <1>4, <2>1, CallSeen, EmptyObjectType
<1>6. s = Stops(s0, CallAt(acc, n))
  <2>1. AnthropicFragments(s0, k.frags) = s0
    BY EachAnthropic
  <2>2. s = Stops(AnthropicFragments(s0, k.frags), CallAt(acc, n))
    BY <1>1, <1>3 DEF Handle, AnthropicHandle, Deltas
  <2>3. QED
    BY <2>1, <2>2
<1>7. /\ IsJSON(args) => s.acc = acc /\ s.events = es
      /\ ~IsJSON(args) => s.acc = e
  <2>1. <<>> \o es = es
    OBVIOUS
  <2>2. CASE IsJSON(args)
    <3>1. s = Then(s0, s0.acc, es)
      BY <1>5, <1>6, <2>2 DEF Stops
    <3> HIDE DEF es, s
    <3>2. QED
      BY <2>1, <2>2, <3>1 DEF Step, Then
  <2>3. CASE ~IsJSON(args)
    <3>1. s = Fails(s0)
      BY <1>5, <1>6, <2>3 DEF Stops
    <3> HIDE DEF s
    <3>2. QED
      BY <2>3, <3>1 DEF Step, Fails
  <2>4. QED
    BY <2>2, <2>3
<1>8. Carries(es, <<>>, <<<<id, args>>>>, <<>>, <<>>)
  <2> HIDE DEF id, args
  <2>1. QED
    BY <1>5, StopHolds, OneCarries
<1>9. \A i \in DOMAIN es : es[i].is = "stop" /\ es[i].id = id
  BY DEF ToolUseDone
<1> HIDE DEF q, s, es, e
<1>10. ASSUME ~IsJSON(args) PROVE Advances(k, q, s)
  <2>1. s.acc \in Accumulator /\ s.acc.error
    BY <1>1, <1>7, <1>10, FailedAccumulator DEF e
  <2>2. ~AllJSON(q.calls)
    BY <1>2, <1>3, <1>10 DEF AllJSON
  <2>3. QED
    BY <1>2, <2>1, <2>2 DEF Advances
<1>11. ASSUME IsJSON(args) PROVE Advances(k, q, s)
  <2>1. AccumulatorOK(q, acc)
    <3>1. \A i \in 1..Len(q.calls) : IsJSON(OrEmpty(q.calls[i].args))
      BY <1>1, <1>2, <1>3, <1>11 DEF AnthropicOK
    <3>2. QED
      BY <1>1, <1>2, <3>1 DEF AccumulatorOK, AnthropicOK
  <2>2. Brings(k, q, s)
    <3>1. /\ TheNames(q) = TheNames(reply) \o <<>> /\ TheMade(q, s.acc) = TheMade(reply, acc) \o <<<<id, args>>>>
          /\ TheText(q, s.acc) = TheText(reply, acc) \o <<>>
      <4>1. MadeOf(calls, n) = MadeOf(calls, n - 1) \o <<<<id, args>>>>
        BY <1>3, OneMoreMade
      <4>2. NamesOf(calls) \o <<>> = NamesOf(calls)
        <5>1. n \in 0..Len(reply.calls)
          BY <1>3
        <5>2. QED
          BY <1>1, <5>1, NothingMore
      <4>3. TheMade(q, s.acc) = MadeOf(calls, n) /\ TheMade(reply, acc) = MadeOf(calls, n - 1)
        <5>1. reply.open # {}
          BY <1>3
        <5>2. QED
          BY <1>1, <1>2, <5>1, AnthropicTells
      <4>4. QED
        BY <1>1, <1>2, <4>1, <4>2, <4>3, AnthropicTells
    <3>2. StartsFirst([names |-> TheNames(reply)], s.events)
      <4>1. TheNames(reply) = NamesOf(calls) /\ DOMAIN NamesOf(calls) = 1..n /\ NamesOf(calls)[n][1] = id
        BY <1>1, <1>3, AnthropicTells DEF NamesOf
      <4>2. n \in DOMAIN TheNames(reply) /\ TheNames(reply)[n][1] = id
        BY <1>3, <4>1
      <4> HIDE DEF id
      <4>3. QED
        BY <1>7, <1>9, <1>11, <4>2 DEF StartsFirst
    <3>3. \A i \in DOMAIN s.events : s.events[i].is # "done"
      BY <1>7, <1>9, <1>11
    <3>4. Carries(s.events, <<>>, <<<<id, args>>>>, <<>>, <<>>)
      BY <1>7, <1>8, <1>11
    <3>5. QED
      BY <1>2, <3>1, <3>2, <3>3, <3>4, BringsIf
  <2>3. QED
    BY <1>1, <1>2, <1>7, <1>11, <2>1, <2>2 DEF Advances
<1>12. QED
  BY <1>10, <1>11 DEF q, s
-----------------------------------------------------------------------------
(* The Ollama adapter. *)

\* What begins a text that is not blank.
Solid(text) == {i \in DOMAIN text : ~Blank(text[i])}

\* A trimmed text begins with the first of its words that is not blank.
LEMMA TrimmedFirst ==
  ASSUME NEW t \in Seq(Tok)
  PROVE  /\ Solid(t) = {} => Trimmed(t) = <<>>
         /\ Solid(t) # {} => \E i \in Solid(t) : /\ \A j \in Solid(t) : i <= j
                                                 /\ Trimmed(t) # <<>> /\ Trimmed(t)[1] = t[i]
<1> DEFINE n == Len(t)
           a == CHOOSE i \in Solid(t) : \A j \in Solid(t) : i <= j
           z == CHOOSE i \in Solid(t) : \A j \in Solid(t) : i >= j
<1>1. Trimmed(t) = IF Solid(t) = {} THEN <<>> ELSE SubSeq(t, a, z)
  BY DEF Trimmed, Solid
<1>2. n \in Nat /\ DOMAIN t = 1..n /\ Solid(t) \subseteq 1..n
  BY LenProperties DEF Solid
<1>3. ASSUME Solid(t) # {}
      PROVE  \E i \in Solid(t) : \A j \in Solid(t) : i <= j
  BY <1>2, <1>3, LeastExists
<1>4. ASSUME Solid(t) # {}
      PROVE  \E i \in Solid(t) : \A j \in Solid(t) : i >= j
  <2> DEFINE T == {n - i : i \in Solid(t)}
  <2>1. T \subseteq Nat /\ T # {}
    BY <1>2, <1>4
  <2>2. PICK m \in T : \A y \in T : m <= y
    <3> HIDE DEF T
    <3>1. QED
      BY <2>1, LeastExists
  <2>3. PICK i \in Solid(t) : m = n - i
    BY <2>2
  <2>4. \A j \in Solid(t) : n - i <= n - j
    BY <2>2, <2>3
  <2>5. QED
    BY <1>2, <2>3, <2>4
<1>5. ASSUME Solid(t) # {}
      PROVE  a \in Solid(t) /\ (\A j \in Solid(t) : a <= j) /\ z \in Solid(t) /\ a <= z
  <2>1. a \in Solid(t) /\ \A j \in Solid(t) : a <= j
    BY <1>3, <1>5
  <2>2. z \in Solid(t)
    BY <1>4, <1>5
  <2>3. QED
    BY <2>1, <2>2
<1> HIDE DEF a, z
<1>6. ASSUME Solid(t) # {}
      PROVE  SubSeq(t, a, z) # <<>> /\ SubSeq(t, a, z)[1] = t[a]
  <2>1. a \in 1..n /\ z \in 1..n /\ a <= z
    BY <1>2, <1>5, <1>6
  <2>2. Len(SubSeq(t, a, z)) = z - a + 1 /\ \A i \in 1..(z - a + 1) : SubSeq(t, a, z)[i] = t[a + i - 1]
    BY <2>1, SubSeqProperties
  <2>3. 1 \in 1..(z - a + 1) /\ a + 1 - 1 = a /\ z - a + 1 # 0
    BY <2>1
  <2>4. QED
    BY <2>2, <2>3
<1>7. QED
  BY <1>1, <1>5, <1>6

\* Once it is known how a text begins, it is known for good.
LEMMA BegunForGood ==
  ASSUME NEW t \in Seq(Tok), NEW u \in Seq(Tok), Trimmed(t) # <<>>
  PROVE  Trimmed(t \o u) # <<>> /\ (LooksLikeObject(t \o u) <=> LooksLikeObject(t))
<1>1. /\ t \o u \in Seq(Tok) /\ Len(t) \in Nat /\ Len(u) \in Nat /\ DOMAIN t = 1..Len(t)
      /\ DOMAIN (t \o u) = 1..(Len(t) + Len(u))
      /\ \A i \in 1..Len(t) : (t \o u)[i] = t[i]
  BY ConcatProperties, LenProperties
<1>2. PICK i \in Solid(t) : (\A j \in Solid(t) : i <= j) /\ Trimmed(t)[1] = t[i]
  BY TrimmedFirst
<1>3. i \in Solid(t \o u)
  BY <1>1, <1>2 DEF Solid
<1>4. PICK k \in Solid(t \o u) : /\ \A j \in Solid(t \o u) : k <= j
                                 /\ Trimmed(t \o u) # <<>> /\ Trimmed(t \o u)[1] = (t \o u)[k]
  <2>1. Solid(t \o u) # {}
    BY <1>3
  <2>2. QED
    BY <1>1, <2>1, TrimmedFirst
<1>5. k = i
  <2>1. k <= i /\ k \in 1..(Len(t) + Len(u)) /\ i \in 1..Len(t)
    BY <1>1, <1>2, <1>3, <1>4 DEF Solid
  <2>2. k \in 1..Len(t)
    BY <1>1, <2>1
  <2>3. k \in Solid(t)
    BY <1>1, <1>4, <2>2 DEF Solid
  <2>4. QED
    BY <1>2, <2>1, <2>3
<1>6. (t \o u)[i] = t[i]
  BY <1>1, <1>2 DEF Solid
<1>7. Trimmed(t \o u)[1] = Trimmed(t)[1]
  BY <1>2, <1>4, <1>5, <1>6
<1>8. QED
  BY <1>4, <1>7 DEF LooksLikeObject

\* A narrated call is an object that names a tool.
LEMMA NarratedObject ==
  ASSUME NEW t, Narrates(t)
  PROVE  Trimmed(t) # <<>> /\ LooksLikeObject(t) /\ Trimmed(t)[2] \in ToolNames
<1>1. PICK n \in ToolNames : Trimmed(t) = <<"{", n>>
  BY DEF Narrates
<1>2. <<"{", n>> # <<>> /\ <<"{", n>>[1] = "{" /\ <<"{", n>>[2] = n
  OBVIOUS
<1>3. QED
  BY <1>1, <1>2 DEF LooksLikeObject
-----------------------------------------------------------------------------
\* What an accumulator that listens changes: it holds the text back, or does not.
Awaits(a, text, pending) == [a EXCEPT !.text = text, !.maybe = TRUE, !.pending = pending]
Settled(a, text, pending) == [a EXCEPT !.text = text, !.maybe = FALSE, !.pending = pending]
LetGo(a) == [a EXCEPT !.pending = <<>>]

Unlike(a, b) == b.calls = a.calls /\ b.seq = a.seq /\ b.finished = a.finished /\ b.usage = a.usage /\ b.error = a.error

\* An accumulator that has settled that its text is no narrated call.
LEMMA SettledIs ==
  ASSUME NEW a \in Accumulator, NEW text \in Seq(Tok), NEW pending \in Seq(Tok)
  PROVE  /\ Settled(a, text, pending) \in Accumulator /\ Unlike(a, Settled(a, text, pending))
         /\ Settled(a, text, pending).text = text /\ ~Settled(a, text, pending).maybe
         /\ Settled(a, text, pending).pending = pending
         /\ LetGo(Settled(a, text, pending)) = Settled(a, text, <<>>)
BY DEF Settled, Accumulator, LetGo, Unlike

\* Only the last of its texts and of the words held back counts.
LEMMA SettledTwice ==
  ASSUME NEW a \in Accumulator, NEW text \in Seq(Tok), NEW pending \in Seq(Tok), NEW u \in Seq(Tok), NEW p \in Seq(Tok)
  PROVE  Settled(Settled(a, text, pending), u, p) = Settled(a, u, p)
BY DEF Settled, Accumulator

\* An accumulator whose text may still be a narrated call.
LEMMA AwaitsIs ==
  ASSUME NEW a \in Accumulator, NEW text \in Seq(Tok), NEW pending \in Seq(Tok)
  PROVE  /\ Awaits(a, text, pending) \in Accumulator /\ Unlike(a, Awaits(a, text, pending))
         /\ Awaits(a, text, pending).text = text /\ Awaits(a, text, pending).maybe
         /\ Awaits(a, text, pending).pending = pending
BY DEF Awaits, Accumulator, Unlike

\* An accumulator that holds nothing back.
LEMMA LetGoIs ==
  ASSUME NEW a \in Accumulator
  PROVE  /\ LetGo(a) \in Accumulator /\ Unlike(a, LetGo(a))
         /\ LetGo(a).text = a.text /\ LetGo(a).maybe = a.maybe /\ LetGo(a).pending = <<>>
<1>1. <<>> \in Seq(Tok)
  OBVIOUS
<1>2. QED
  BY <1>1 DEF LetGo, Accumulator, Unlike

HeldAll(words) == [i \in DOMAIN words |-> TextDelta(<<words[i]>>)]

\* All words held back, sent one by one, are the words, and text.
LEMMA HeldAllCarry ==
  ASSUME NEW words \in Seq(Tok)
  PROVE  /\ Carries(HeldAll(words), <<>>, <<>>, words, <<>>) /\ Kinds(HeldAll(words), {"text"})
         /\ words = <<>> => HeldAll(words) = <<>>
<1>1. Carries(HeldAll(words), <<>>, <<>>, words, <<>>)
  BY HeldBackCarry DEF HeldAll
<1>2. Kinds(HeldAll(words), {"text"})
  BY DEF HeldAll, Kinds, TextDelta
<1>3. words = <<>> => HeldAll(words) = <<>>
  BY DEF HeldAll
<1>4. QED
  BY <1>1, <1>2, <1>3

\* Two lists of events of some kinds are one.
LEMMA BothKinds ==
  ASSUME NEW es \in Seq(Event), NEW fs \in Seq(Event), NEW kinds, Kinds(es, kinds), Kinds(fs, kinds)
  PROVE  Kinds(es \o fs, kinds)
<1>1. DOMAIN (es \o fs) = 1..(Len(es) + Len(fs)) /\ DOMAIN es = 1..Len(es) /\ DOMAIN fs = 1..Len(fs)
      /\ Len(es) \in Nat /\ Len(fs) \in Nat
      /\ \A i \in 1..(Len(es) + Len(fs)) : (es \o fs)[i] = IF i <= Len(es) THEN es[i] ELSE fs[i - Len(es)]
  BY ConcatProperties, LenProperties
<1>2. QED
  BY <1>1 DEF Kinds

StillMaybe(a, text) == a.maybe /\ (Trimmed(a.text \o text) = <<>> \/ LooksLikeObject(a.text \o text))

\* Flushing sends the words held back.
LEMMA OllamaFlushes ==
  ASSUME NEW a, NEW es
  PROVE  Flushes(Step(a, es)) = Step(LetGo(a), es \o HeldAll(a.pending))
<1>1. Step(a, es).acc = a /\ Step(a, es).events = es
  BY DEF Step
<1>2. Flushes(Step(a, es)) = Then(Step(a, es), [a EXCEPT !.pending = <<>>], HeldAll(a.pending))
  BY <1>1 DEF Flushes, HeldAll
<1>3. QED
  BY <1>1, <1>2 DEF Then, LetGo

\* A text is heard: it is held back while it may be a narrated call, else all of it
\* is sent, what was held back first.
LEMMA OllamaListens ==
  ASSUME NEW a \in Accumulator, NEW es \in Seq(Event), NEW text \in Seq(Tok), text # <<>>
  PROVE  /\ StillMaybe(a, text) =>
              OllamaSpeaks(Step(a, es), text) = Step(Awaits(a, a.text \o text, a.pending \o text), es)
         /\ ~StillMaybe(a, text) =>
              OllamaSpeaks(Step(a, es), text)
                = Step(Settled(a, a.text \o text, <<>>), (es \o HeldAll(a.pending)) \o Deltas(text))
<1> DEFINE all == a.text \o text
           maybe == StillMaybe(a, text)
           held == a.pending \o text
           heard == [a EXCEPT !.text = all, !.maybe = maybe]
           s == OllamaSpeaks(Step(a, es), text)
<1>1. /\ all \in Seq(Tok) /\ a.pending \in Seq(Tok) /\ held \in Seq(Tok) /\ <<>> \in Seq(Tok)
      /\ a.maybe \in BOOLEAN /\ a.text \in Seq(Tok)
  BY ConcatProperties DEF Accumulator
<1>2. maybe \in BOOLEAN
  BY <1>1 DEF StillMaybe
<1>3. Step(a, es).acc = a /\ Step(a, es).events = es
  BY DEF Step
<1>4. s = IF maybe THEN Step([heard EXCEPT !.pending = heard.pending \o text], es)
          ELSE Then(Flushes(Step(heard, es)), Flushes(Step(heard, es)).acc, Deltas(text))
  BY <1>3 DEF OllamaSpeaks, StillMaybe
<1> HIDE DEF all, maybe, s, held
<1>5. heard.pending = a.pending
  BY <1>1, <1>2 DEF Accumulator
<1>6. ASSUME maybe PROVE [heard EXCEPT !.pending = held] = Awaits(a, all, held)
  <2>1. maybe = TRUE
    BY <1>2, <1>6
  <2>2. QED
    BY <1>1, <2>1 DEF Awaits, Accumulator
<1>7. ASSUME ~maybe PROVE heard = Settled(a, all, a.pending)
  <2>1. maybe = FALSE
    BY <1>2, <1>7
  <2>2. QED
    BY <1>1, <2>1 DEF Settled, Accumulator
<1> HIDE DEF heard
<1>8. ASSUME maybe PROVE s = Step(Awaits(a, all, held), es)
  <2>1. s = Step([heard EXCEPT !.pending = held], es)
    BY <1>4, <1>5, <1>8 DEF held
  <2>2. QED
    BY <1>6, <1>8, <2>1
<1>9. ASSUME ~maybe PROVE s = Step(Settled(a, all, <<>>), (es \o HeldAll(a.pending)) \o Deltas(text))
  <2> DEFINE h == Settled(a, all, a.pending)
             g == Settled(a, all, <<>>)
             fs == es \o HeldAll(a.pending)
  <2>1. h.pending = a.pending /\ LetGo(h) = g
    <3>1. \A u, p \in Seq(Tok) : Settled(a, u, p).pending = p /\ LetGo(Settled(a, u, p)) = Settled(a, u, <<>>)
      BY SettledIs
    <3>2. QED
      BY <1>1, <3>1
  <2> HIDE DEF h, g
  <2>2. Flushes(Step(h, es)) = Step(LetGo(h), es \o HeldAll(h.pending))
    BY OllamaFlushes
  <2>3. Flushes(Step(h, es)) = Step(g, fs)
    BY <2>1, <2>2
  <2>4. heard = h
    BY <1>7, <1>9 DEF h
  <2>5. s = Then(Step(g, fs), Step(g, fs).acc, Deltas(text))
    BY <1>4, <1>9, <2>3, <2>4
  <2> HIDE DEF fs
  <2>6. s = Step(g, fs \o Deltas(text))
    BY <2>5 DEF Step, Then
  <2>7. QED
    BY <2>6 DEF g, fs
<1>10. QED
  BY <1>8, <1>9 DEF maybe, all, held, s

\* A line with calls: the text held back is let go, its own text follows.
LEMMA OllamaLetsGo ==
  ASSUME NEW a \in Accumulator, ~a.maybe => a.pending = <<>>, NEW k, k.frags # <<>>, k.think = <<>>, k.text \in Seq(Tok)
  PROVE  OllamaHandle(a, k) =
           LET called == OllamaCallsEach(Step(Settled(a, a.text \o k.text, <<>>),
                                              HeldAll(a.pending) \o Deltas(k.text)), k.frags)
           IN IF k.finish THEN OllamaDone(called, k.usage) ELSE called
<1> DEFINE r == OllamaReleases(Step(a, <<>>), k)
           b == Settled(a, a.text, <<>>)
           h == HeldAll(a.pending)
           c == Settled(a, a.text \o k.text, <<>>)
<1>1. /\ a.pending \in Seq(Tok) /\ <<>> \in Seq(Tok) /\ a.maybe \in BOOLEAN /\ a.text \in Seq(Tok)
      /\ a.text \o k.text \in Seq(Tok)
  BY ConcatProperties DEF Accumulator
<1>2. h \in Seq(Event) /\ <<>> \o h = h /\ h \o <<>> = h
  <2>1. h \in Seq(Event)
    BY <1>1, HeldAllCarry DEF Carries
  <2> HIDE DEF h
  <2>2. QED
    BY <2>1, AfterNothing
<1>3. b \in Accumulator /\ b.text = a.text /\ ~b.maybe /\ b.pending = <<>>
  <2>1. \A u, p \in Seq(Tok) : /\ Settled(a, u, p) \in Accumulator
                               /\ Settled(a, u, p).text = u /\ ~Settled(a, u, p).maybe /\ Settled(a, u, p).pending = p
    BY SettledIs
  <2>2. QED
    BY <1>1, <2>1
<1>4. r = Step(b, h)
  <2>1. Step(a, <<>>).acc = a /\ Step(a, <<>>).events = <<>>
    BY DEF Step
  <2>2. CASE a.maybe
    <3> DEFINE d == [a EXCEPT !.maybe = FALSE]
    <3>1. r = Flushes(Step(d, <<>>))
      BY <2>1, <2>2 DEF OllamaReleases
    <3>2. d.pending = a.pending /\ LetGo(d) = b
      BY DEF Accumulator, LetGo, Settled
    <3> HIDE DEF d, r, b, h
    <3>3. Flushes(Step(d, <<>>)) = Step(LetGo(d), <<>> \o HeldAll(d.pending))
      BY OllamaFlushes
    <3>4. QED
      BY <1>2, <3>1, <3>2, <3>3 DEF h
  <2>3. CASE ~a.maybe
    <3>1. r = Step(a, <<>>)
      BY <2>1, <2>3 DEF OllamaReleases
    <3>2. a.maybe = FALSE /\ a.pending = <<>>
      BY <1>1, <2>3
    <3>3. a = b
      BY <1>1, <3>2 DEF Settled, Accumulator
    <3>4. h = <<>>
      BY <1>1, <3>2, HeldAllCarry
    <3> HIDE DEF r, h
    <3>5. QED
      BY <3>1, <3>3, <3>4
  <2>4. QED
    BY <2>2, <2>3
<1>5. Settled(b, a.text \o k.text, <<>>) = c
  <2>1. \A u, v, p \in Seq(Tok) : Settled(Settled(a, u, p), v, p) = Settled(a, v, p)
    BY SettledTwice
  <2>2. QED
    BY <1>1, <2>1
<1> HIDE DEF r, b, h, c
<1>6. Then(r, r.acc, <<>>) = r
  <2>1. r.acc = b
    BY <1>4 DEF Step
  <2>2. QED
    BY <1>2, <1>4, <2>1, NothingThen
<1>7. OllamaSpeaks(r, k.text) = Step(c, h \o Deltas(k.text))
  <2>1. CASE k.text = <<>>
    <3>1. OllamaSpeaks(r, k.text) = r
      BY <2>1 DEF OllamaSpeaks
    <3>2. a.text \o k.text = a.text
      BY <1>1, <2>1, AfterNothing
    <3>3. Deltas(k.text) = <<>>
      BY <2>1 DEF Deltas
    <3>4. b = c
      BY <3>2 DEF b, c
    <3>5. QED
      BY <1>2, <1>4, <3>1, <3>3, <3>4
  <2>2. CASE k.text # <<>>
    <3>1. ~StillMaybe(b, k.text)
      BY <1>3 DEF StillMaybe
    <3>2. OllamaSpeaks(Step(b, h), k.text)
             = Step(Settled(b, b.text \o k.text, <<>>), (h \o HeldAll(b.pending)) \o Deltas(k.text))
      BY <1>2, <1>3, <2>2, <3>1, OllamaListens
    <3>3. HeldAll(b.pending) = <<>>
      BY <1>1, <1>3, HeldAllCarry
    <3>4. QED
      BY <1>2, <1>3, <1>4, <1>5, <3>2, <3>3
  <2>3. QED
    BY <2>1, <2>2
<1>8. OllamaHandle(a, k) =
           LET called == OllamaCallsEach(OllamaSpeaks(Then(r, r.acc, <<>>), k.text), k.frags)
           IN IF k.finish THEN OllamaDone(called, k.usage) ELSE called
  BY DEF OllamaHandle, r
<1>9. QED
  BY <1>6, <1>7, <1>8 DEF c, h

\* What the Ollama adapter has told of a reply.
LEMMA OllamaTells ==
  ASSUME backend = "ollama", NEW r, NEW a, ~r.finished
  PROVE  /\ TheNames(r) = NamesOf(r.calls) /\ TheMade(r, a) = MadeOf(r.calls, Len(r.calls))
         /\ TheText(r, a) = IF a.maybe THEN <<>> ELSE r.text
BY DEF TheNames, TheMade, TheText, Narrated, Complete

\* What is held back belongs to what has been told.
LEMMA HeldBelongs ==
  ASSUME Reads("ollama"), ~reply.finished, NEW t \in Seq(Tok)
  PROVE  /\ TheText(reply, acc) \o (acc.pending \o t) = reply.text \o t
         /\ TheText(reply, acc) \o acc.pending = reply.text
         /\ acc.pending \in Seq(Tok)
<1>1. backend = "ollama" /\ OllamaOK(reply, acc) /\ acc \in Accumulator /\ reply.text \in Seq(Tok)
  BY ReplyFacts DEF Reads, AccumulatorOK
<1>2. acc.pending = (IF acc.maybe THEN reply.text ELSE <<>>) /\ TheText(reply, acc) = (IF acc.maybe THEN <<>> ELSE reply.text)
  BY <1>1, OllamaTells DEF OllamaOK
<1>3. acc.pending \in Seq(Tok)
  BY <1>1 DEF Accumulator
<1>4. reply.text \o t \in Seq(Tok)
  BY <1>1, ConcatProperties
<1>5. CASE acc.maybe
  BY <1>1, <1>2, <1>3, <1>4, <1>5, AfterNothing
<1>6. CASE ~acc.maybe
  BY <1>1, <1>2, <1>3, <1>6, AfterNothing
<1>7. QED
  BY <1>5, <1>6

\* A line without calls, step by step.
LEMMA OllamaWithoutCalls ==
  ASSUME NEW a, NEW k, k.frags = <<>>
  PROVE  LET thought == IF k.think = <<>> THEN <<>> ELSE <<ThinkingDelta(k.think)>>
             spoken == OllamaSpeaks(Step(a, thought), k.text)
         IN OllamaHandle(a, k) = IF k.finish THEN OllamaDone(spoken, k.usage) ELSE spoken
<1> DEFINE thought == IF k.think = <<>> THEN <<>> ELSE <<ThinkingDelta(k.think)>>
           spoken == OllamaSpeaks(Step(a, thought), k.text)
           s0 == Step(a, <<>>)
<1>1. OllamaReleases(s0, k) = s0
  BY DEF OllamaReleases
<1>2. Then(s0, s0.acc, thought) = Step(a, thought)
  <2>1. <<>> \o thought = thought
    OBVIOUS
  <2> HIDE DEF thought
  <2>2. QED
    BY <2>1 DEF Then, Step
<1> HIDE DEF thought, s0
<1>3. OllamaCallsEach(spoken, k.frags) = spoken
  <2> HIDE DEF spoken
  <2>1. QED
    BY EachOllama
<1> HIDE DEF spoken
<1>4. OllamaHandle(a, k) =
        LET called == OllamaCallsEach(OllamaSpeaks(Then(OllamaReleases(s0, k), OllamaReleases(s0, k).acc, thought), k.text), k.frags)
        IN IF k.finish THEN OllamaDone(called, k.usage) ELSE called
  BY DEF OllamaHandle, thought, s0
<1>5. OllamaSpeaks(Step(a, thought), k.text) = spoken
  BY DEF spoken
<1>6. OllamaCallsEach(OllamaSpeaks(Then(OllamaReleases(s0, k), OllamaReleases(s0, k).acc, thought), k.text), k.frags) = spoken
  BY <1>1, <1>2, <1>3, <1>5
<1>7. QED
  BY <1>4, <1>6 DEF spoken, thought

\* Words.
LEMMA OllamaHears ==
  ASSUME Reads("ollama"), ~reply.finished, NEW k, k.frags = <<>>, k.stop = 0, k.think = <<>>,
         k.text \in Seq(Tok), k.text # <<>>, k.finish = FALSE, k.usage = 0
  PROVE  Advances(k, Add(k), Handle(acc, k))
<1> DEFINE q == Add(k)
           s == Handle(acc, k)
           maybe == StillMaybe(acc, k.text)
           all == reply.text \o k.text
           heard == acc.text \o k.text
           held == acc.pending \o k.text
           still == Awaits(acc, heard, held)
           settled == Settled(acc, heard, <<>>)
           es == HeldAll(acc.pending) \o Deltas(k.text)
<1>1. /\ backend = "ollama" /\ ReplyOK(reply) /\ acc \in Accumulator /\ ~acc.error /\ OllamaOK(reply, acc)
      /\ acc.text = reply.text /\ reply.text \in Seq(Tok) /\ all \in Seq(Tok) /\ acc.pending \in Seq(Tok)
      /\ acc.pending \o k.text \in Seq(Tok) /\ <<>> \in Seq(Tok)
  <2>1. backend = "ollama" /\ ReplyOK(reply) /\ acc \in Accumulator /\ ~acc.error /\ OllamaOK(reply, acc)
    BY DEF Reads, AccumulatorOK
  <2>2. acc.pending \in Seq(Tok) /\ reply.text \in Seq(Tok)
    BY <2>1, ReplyFacts DEF Accumulator
  <2>3. QED
    BY <2>1, <2>2, ConcatProperties DEF OllamaOK
<1>2. /\ ReplyOK(q) /\ q.calls = reply.calls /\ q.text = all
      /\ q.think = reply.think \o <<>> /\ q.finished = reply.finished /\ q.usage = reply.usage
  <2>1. 0 \in Nat
    OBVIOUS
  <2>2. reply.finished \in BOOLEAN
    BY <1>1, ReplyFacts
  <2>3. ReplyOK(q) /\ q.calls = reply.calls /\ q.text = reply.text \o k.text
        /\ q.think = reply.think \o k.think /\ q.finished = (reply.finished \/ k.finish)
        /\ q.usage = IF k.usage > 0 THEN k.usage ELSE reply.usage
    BY <1>1, <2>1, PlainAdd
  <2>4. QED
    BY <2>2, <2>3
<1>3. s = OllamaSpeaks(Step(acc, <<>>), k.text)
  BY <1>1, OllamaWithoutCalls DEF Handle
<1> HIDE DEF q, s
<1>4. Carries(es, <<>>, <<>>, acc.pending \o k.text, <<>>) /\ Kinds(es, {"text"}) /\ es \in Seq(Event)
      /\ (<<>> \o HeldAll(acc.pending)) \o Deltas(k.text) = es
  <2>1. Carries(HeldAll(acc.pending), <<>>, <<>>, acc.pending, <<>>) /\ Carries(Deltas(k.text), <<>>, <<>>, k.text, <<>>)
        /\ Kinds(HeldAll(acc.pending), {"text"}) /\ Kinds(Deltas(k.text), {"text"})
    BY <1>1, HeldAllCarry, DeltasCarry, DeltasKind
  <2>2. HeldAll(acc.pending) \in Seq(Event) /\ Deltas(k.text) \in Seq(Event)
    BY <2>1 DEF Carries
  <2>3. Carries(es, <<>> \o <<>>, <<>> \o <<>>, acc.pending \o k.text, <<>> \o <<>>)
    BY <2>1, BothCarry, ZenonT(60)
  <2>4. <<>> \o <<>> = <<>>
    OBVIOUS
  <2>5. Kinds(es, {"text"})
    BY <2>1, <2>2, BothKinds
  <2>6. <<>> \o HeldAll(acc.pending) = HeldAll(acc.pending)
    BY <2>2, AfterNothing
  <2>7. QED
    BY <2>3, <2>4, <2>5, <2>6 DEF Carries
<1>5. /\ maybe => s.acc = still /\ s.events = <<>>
      /\ ~maybe => s.acc = settled /\ s.events = es
  <2>1. <<>> \in Seq(Event)
    OBVIOUS
  <2>2. ASSUME maybe PROVE s = Step(still, <<>>)
    BY <1>1, <1>3, <2>1, <2>2, OllamaListens
  <2>3. ASSUME ~maybe PROVE s = Step(settled, (<<>> \o HeldAll(acc.pending)) \o Deltas(k.text))
    BY <1>1, <1>3, <2>1, <2>3, OllamaListens
  <2> HIDE DEF still, settled, es, maybe
  <2>4. ASSUME ~maybe PROVE s = Step(settled, es)
    BY <1>4, <2>3, <2>4
  <2>5. \A a, fs : Step(a, fs).acc = a /\ Step(a, fs).events = fs
    BY DEF Step
  <2>6. QED
    BY <2>2, <2>4, <2>5
<1>6. /\ still \in Accumulator /\ Unlike(acc, still) /\ still.text = all /\ still.maybe
      /\ still.pending = acc.pending \o k.text
      /\ settled \in Accumulator /\ Unlike(acc, settled) /\ settled.text = all /\ ~settled.maybe
      /\ settled.pending = <<>>
  <2>1. \A t, p \in Seq(Tok) :
          /\ Awaits(acc, t, p) \in Accumulator /\ Unlike(acc, Awaits(acc, t, p)) /\ Awaits(acc, t, p).text = t
          /\ Awaits(acc, t, p).maybe /\ Awaits(acc, t, p).pending = p
    BY <1>1, AwaitsIs
  <2>2. \A t, p \in Seq(Tok) :
          /\ Settled(acc, t, p) \in Accumulator /\ Unlike(acc, Settled(acc, t, p)) /\ Settled(acc, t, p).text = t
          /\ ~Settled(acc, t, p).maybe /\ Settled(acc, t, p).pending = p
    BY <1>1, SettledIs
  <2>3. acc.text \o k.text = all
    BY <1>1
  <2>6. heard \in Seq(Tok) /\ held \in Seq(Tok)
    BY <1>1, <2>3
  <2> HIDE DEF heard, held
  <2>4. /\ still \in Accumulator /\ Unlike(acc, still) /\ still.text = heard /\ still.maybe
        /\ still.pending = held
    BY <2>1, <2>6
  <2>5. /\ settled \in Accumulator /\ Unlike(acc, settled) /\ settled.text = heard /\ ~settled.maybe
        /\ settled.pending = <<>>
    BY <1>1, <2>2, <2>6, ZenonT(60)
  <2> HIDE DEF all, still, settled
  <2>7. heard = all
    BY <2>3 DEF heard
  <2>8. QED
    BY <2>4, <2>5, <2>7 DEF held
<1>7. TheNames(q) = TheNames(reply) \o <<>> /\ TheMade(q, s.acc) = TheMade(reply, acc) \o <<>>
  <2>1. Len(reply.calls) \in 0..Len(reply.calls)
    BY <1>1, ReplyFacts
  <2>2. NamesOf(reply.calls) \o <<>> = NamesOf(reply.calls)
        /\ MadeOf(reply.calls, Len(reply.calls)) \o <<>> = MadeOf(reply.calls, Len(reply.calls))
    BY <1>1, <2>1, NothingMore
  <2>3. QED
    BY <1>1, <1>2, <2>2, OllamaTells
<1>8. /\ OllamaOK(reply, acc) /\ q.calls = reply.calls /\ q.text = all /\ ~q.finished /\ q.usage = 0
      /\ maybe <=> acc.maybe /\ (Trimmed(all) = <<>> \/ LooksLikeObject(all))
  BY <1>1, <1>2 DEF OllamaOK, StillMaybe
<1> HIDE DEF still, settled, es, maybe, all, heard, held
<1>9. CASE maybe
  <2>1. AccumulatorOK(q, still)
    <3>1. acc.maybe /\ acc.pending = reply.text /\ reply.calls = <<>>
      BY <1>8, <1>9 DEF OllamaOK
    <3>2. still.pending = q.text
      BY <1>2, <1>6, <3>1 DEF all
    <3>3. OllamaOK(q, still)
      BY <1>6, <1>8, <1>9, <3>1, <3>2 DEF OllamaOK, Unlike
    <3>4. QED
      BY <1>1, <3>3 DEF AccumulatorOK
  <2>2. TheText(q, still) = TheText(reply, acc) \o <<>>
    <3>1. TheText(q, still) = <<>> /\ TheText(reply, acc) = <<>>
      BY <1>1, <1>6, <1>8, <1>9, OllamaTells
    <3>2. <<>> \o <<>> = <<>>
      OBVIOUS
    <3>3. QED
      BY <3>1, <3>2
  <2>3. StartsFirst([names |-> TheNames(reply)], <<>>)
    BY DEF StartsFirst
  <2>4. Brings(k, q, s)
    <3>1. \A i \in DOMAIN s.events : FALSE
      BY <1>5, <1>9
    <3>2. QED
      BY <1>2, <1>5, <1>7, <1>9, <2>2, <2>3, <3>1, NoneCarries, BringsIf
  <2>5. ~still.error
    BY <1>1, <1>6 DEF Unlike
  <2>6. QED
    BY <1>2, <1>5, <1>6, <1>9, <2>1, <2>4, <2>5 DEF Advances, q, s
<1>10. CASE ~maybe
  <2>1. AccumulatorOK(q, settled)
    <3>1. q.calls # <<>> \/ (Trimmed(q.text) # <<>> /\ ~LooksLikeObject(q.text))
      <4>1. CASE acc.maybe
        BY <1>8, <1>10, <4>1
      <4>2. CASE ~acc.maybe
        <5>1. reply.calls # <<>> \/ (Trimmed(reply.text) # <<>> /\ ~LooksLikeObject(reply.text))
          BY <1>1, <4>2 DEF OllamaOK
        <5>2. QED
          BY <1>1, <1>8, <5>1, BegunForGood DEF all
      <4>3. QED
        BY <4>1, <4>2
    <3>2. OllamaOK(q, settled)
      BY <1>6, <1>8, <3>1 DEF OllamaOK, Unlike
    <3>3. QED
      BY <1>1, <3>2 DEF AccumulatorOK
  <2>2. TheText(q, settled) = TheText(reply, acc) \o (acc.pending \o k.text)
    <3>1. TheText(q, settled) = q.text
      BY <1>1, <1>6, <1>8, OllamaTells
    <3>2. QED
      BY <1>8, <3>1, HeldBelongs DEF all
  <2>3. StartsFirst([names |-> TheNames(reply)], s.events)
    BY <1>4, <1>5, <1>10, QuietStarts DEF Kinds
  <2>4. Brings(k, q, s)
    BY <1>2, <1>4, <1>5, <1>7, <1>10, <2>2, <2>3, BringsIf DEF Kinds
  <2>5. ~settled.error
    BY <1>1, <1>6 DEF Unlike
  <2>6. QED
    BY <1>2, <1>5, <1>6, <1>10, <2>1, <2>4, <2>5 DEF Advances, q, s
<1>11. QED
  BY <1>9, <1>10

\* Thinking.
LEMMA OllamaThinks ==
  ASSUME Reads("ollama"), ~reply.finished, NEW k, k.frags = <<>>, k.stop = 0, k.think \in Seq(Tok), k.think # <<>>,
         k.text = <<>>, k.finish = FALSE, k.usage = 0
  PROVE  Advances(k, Add(k), Handle(acc, k))
<1> DEFINE q == Add(k)
           s == Handle(acc, k)
           es == <<ThinkingDelta(k.think)>>
<1>1. backend = "ollama" /\ ReplyOK(reply) /\ acc \in Accumulator /\ ~acc.error /\ OllamaOK(reply, acc)
  BY DEF Reads, AccumulatorOK
<1>2. /\ ReplyOK(q) /\ q.calls = reply.calls /\ q.text = reply.text \o <<>>
      /\ q.think = reply.think \o k.think /\ q.finished = reply.finished /\ q.usage = reply.usage
  <2>1. 0 \in Nat /\ <<>> \in Seq(Tok)
    OBVIOUS
  <2>2. reply.finished \in BOOLEAN
    BY <1>1, ReplyFacts
  <2>3. ReplyOK(q) /\ q.calls = reply.calls /\ q.text = reply.text \o k.text
        /\ q.think = reply.think \o k.think /\ q.finished = (reply.finished \/ k.finish)
        /\ q.usage = IF k.usage > 0 THEN k.usage ELSE reply.usage
    BY <1>1, <2>1, PlainAdd
  <2>4. QED
    BY <2>2, <2>3
<1>3. s.acc = acc /\ s.events = es
  <2>1. s = OllamaSpeaks(Step(acc, es), k.text)
    BY <1>1, OllamaWithoutCalls DEF Handle
  <2>2. s = Step(acc, es)
    BY <2>1 DEF OllamaSpeaks
  <2> HIDE DEF s, es
  <2>3. QED
    BY <2>2 DEF Step
<1>4. Carries(es, <<>>, <<>>, <<>>, k.think) /\ Kinds(es, {"thinking"})
  <2>1. Kinds(es, {"thinking"})
    BY DEF Kinds, ThinkingDelta
  <2>2. QED
    BY <2>1, ThinkingHolds, OneCarries
<1> HIDE DEF q, s, es
<1>5. q.text = reply.text
  BY <1>1, <1>2, NothingMore, ReplyFacts, AfterNothing
<1>6. /\ TheNames(q) = TheNames(reply) \o <<>> /\ TheMade(q, s.acc) = TheMade(reply, acc) \o <<>>
      /\ TheText(q, s.acc) = TheText(reply, acc) \o <<>>
  <2>1. Len(reply.calls) \in 0..Len(reply.calls)
    BY <1>1, ReplyFacts
  <2>2. NamesOf(reply.calls) \o <<>> = NamesOf(reply.calls) /\ reply.text \o <<>> = reply.text
        /\ MadeOf(reply.calls, Len(reply.calls)) \o <<>> = MadeOf(reply.calls, Len(reply.calls))
    BY <1>1, <2>1, NothingMore
  <2>3. <<>> \o <<>> = <<>>
    OBVIOUS
  <2>4. QED
    BY <1>1, <1>2, <1>3, <1>5, <2>2, <2>3, OllamaTells
<1>7. AccumulatorOK(q, acc)
  BY <1>1, <1>2, <1>5 DEF AccumulatorOK, OllamaOK
<1>8. Brings(k, q, s)
  <2>1. StartsFirst([names |-> TheNames(reply)], s.events)
    BY <1>3, <1>4, QuietStarts DEF Kinds
  <2>2. QED
    BY <1>2, <1>3, <1>4, <1>6, <2>1, BringsIf DEF Kinds
<1>9. QED
  BY <1>1, <1>2, <1>3, <1>7, <1>8 DEF Advances, q, s

\* One more call of an accumulator.
Counted(a) == [a EXCEPT !.seq = @ + 1]

\* Counting a call changes nothing else.
LEMMA CountedIs ==
  ASSUME NEW a \in Accumulator
  PROVE  /\ Counted(a) \in Accumulator /\ Counted(a).seq = a.seq + 1
         /\ Counted(a).text = a.text /\ Counted(a).maybe = a.maybe /\ Counted(a).pending = a.pending
         /\ Counted(a).finished = a.finished /\ Counted(a).usage = a.usage /\ Counted(a).error = a.error
<1> DEFINE n == a.seq + 1
<1>1. n \in Nat /\ Counted(a) = [a EXCEPT !.seq = n]
  BY DEF Counted, Accumulator
<1> HIDE DEF n
<1>2. QED
  BY <1>1 DEF Accumulator, n

\* A whole call: started and stopped at once, or refused.
LEMMA OllamaCallsOne ==
  ASSUME NEW a \in Accumulator, NEW es, NEW f \in CallRecord, NEW id, id = IF f.id = NoId THEN MadeUp(a.seq) ELSE f.id
  PROVE  /\ IsJSON(f.args) =>
              OllamaCalls(Step(a, es), f)
                = Step(Counted(a), es \o <<ToolUseStart(id, f.name), ToolUseDone(id, f.args)>>)
         /\ ~IsJSON(f.args) => OllamaCalls(Step(a, es), f) = Step([a EXCEPT !.error = TRUE], es)
<1>1. Step(a, es).acc = a /\ Step(a, es).events = es
  BY DEF Step
<1>2. Decoded(f).quoted = FALSE
  BY DEF Decoded, CallRecord
<1>3. CASE IsJSON(f.args)
  <2>1. OllamaCalls(Step(a, es), f)
          = Then(Step(a, es), Counted(a), <<ToolUseStart(id, f.name), ToolUseDone(id, f.args)>>)
    BY <1>1, <1>2, <1>3 DEF OllamaCalls, Counted
  <2>2. QED
    BY <1>1, <1>3, <2>1 DEF Then
<1>4. CASE ~IsJSON(f.args)
  <2>1. OllamaCalls(Step(a, es), f) = Fails(Step(a, es))
    BY <1>1, <1>2, <1>4 DEF OllamaCalls
  <2>2. QED
    BY <1>1, <1>4, <2>1 DEF Fails
<1>5. QED
  BY <1>3, <1>4

\* Two events are one, then the other.
LEMMA TwoOf == ASSUME NEW x, NEW y PROVE <<x>> \o <<y>> = <<x, y>>
<1> DEFINE S == {x, y}
           s == <<x>>
           t == <<y>>
           u == <<x, y>>
<1>1. s \in Seq(S) /\ t \in Seq(S) /\ u \in Seq(S) /\ Len(s) = 1 /\ Len(t) = 1 /\ Len(u) = 2
      /\ s[1] = x /\ t[1] = y /\ u[1] = x /\ u[2] = y
  OBVIOUS
<1> HIDE DEF S, s, t, u
<1>2. /\ s \o t \in Seq(S) /\ Len(s \o t) = 2
      /\ \A i \in 1..2 : (s \o t)[i] = IF i <= 1 THEN s[i] ELSE t[i - 1]
  <2>1. /\ s \o t \in Seq(S) /\ Len(s \o t) = Len(s) + Len(t)
        /\ \A i \in 1..(Len(s) + Len(t)) : (s \o t)[i] = IF i <= Len(s) THEN s[i] ELSE t[i - Len(s)]
    BY <1>1, ConcatProperties
  <2>2. QED
    BY <1>1, <2>1
<1>3. \A i \in 1..2 : (s \o t)[i] = u[i]
  BY <1>1, <1>2
<1>4. s \o t = u
  BY <1>1, <1>2, <1>3, SeqEqual
<1>5. QED
  BY <1>4 DEF s, t, u

\* A call started and stopped carries its name and its arguments.
LEMMA StartStop ==
  ASSUME NEW es, NEW text, Carries(es, <<>>, <<>>, text, <<>>), Kinds(es, {"text"}),
         text \in Seq(Tok), NEW id \in Id, NEW name \in ToolNames, NEW args \in Seq(Tok), NEW c
  PROVE  LET more == es \o <<ToolUseStart(id, name), ToolUseDone(id, args)>> IN
         /\ Carries(more, <<<<id, name>>>>, <<<<id, args>>>>, text, <<>>)
         /\ StartsFirst(c, more)
         /\ Kinds(more, {"text", "thinking", "start", "args", "stop"})
<1> DEFINE b == ToolUseStart(id, name)
           e == ToolUseDone(id, args)
           fs == <<b, e>>
           more == es \o fs
           n == Len(es)
<1>1. Carries(fs, <<<<id, name>>>>, <<<<id, args>>>>, <<>>, <<>>)
  <2>1. Carries(<<b>>, <<<<id, name>>>>, <<>>, <<>>, <<>>) /\ Carries(<<e>>, <<>>, <<<<id, args>>>>, <<>>, <<>>)
    BY StartHolds, StopHolds, OneCarries
  <2>2. Carries(<<b>> \o <<e>>, <<<<id, name>>>> \o <<>>, <<>> \o <<<<id, args>>>>, <<>> \o <<>>, <<>> \o <<>>)
    <3> HIDE DEF b, e
    <3>1. QED
      BY <2>1, BothCarry
  <2>3. <<b>> \o <<e>> = fs
    BY TwoOf
  <2>4. <<<<id, name>>>> \o <<>> = <<<<id, name>>>> /\ <<>> \o <<<<id, args>>>> = <<<<id, args>>>> /\ <<>> \o <<>> = <<>>
    OBVIOUS
  <2>5. QED
    BY <2>2, <2>3, <2>4
<1>2. b.is = "start" /\ b.id = id /\ e.is = "stop" /\ e.id = id
  BY DEF ToolUseStart, ToolUseDone
<1> HIDE DEF b, e
<1>3. /\ n \in Nat /\ DOMAIN es = 1..n /\ es \in Seq(Event) /\ fs \in Seq(Event)
      /\ DOMAIN more = 1..n + 2
      /\ (\A i \in 1..n : more[i] = es[i]) /\ more[n + 1] = b /\ more[n + 2] = e
  <2>1. es \in Seq(Event) /\ fs \in Seq(Event)
    BY <1>1 DEF Carries
  <2>2. n \in Nat /\ DOMAIN es = 1..n /\ Len(fs) = 2 /\ fs[1] = b /\ fs[2] = e
    BY <2>1, LenProperties
  <2> HIDE DEF fs
  <2>3. /\ more \in Seq(Event) /\ Len(more) = n + 2
        /\ \A i \in 1..n + 2 : more[i] = IF i <= n THEN es[i] ELSE fs[i - n]
    <3>1. /\ more \in Seq(Event) /\ Len(more) = Len(es) + Len(fs)
          /\ \A i \in 1..(Len(es) + Len(fs)) : more[i] = IF i <= Len(es) THEN es[i] ELSE fs[i - Len(es)]
      BY <2>1, ConcatProperties
    <3> HIDE DEF more
    <3>2. QED
      BY <2>2, <3>1
  <2>4. n + 1 \in 1..n + 2 /\ n + 2 \in 1..n + 2 /\ ~(n + 1 <= n) /\ ~(n + 2 <= n) /\ n + 1 - n = 1 /\ n + 2 - n = 2
        /\ \A i \in 1..n : i \in 1..n + 2 /\ i <= n
    BY <2>2
  <2>5. DOMAIN more = 1..n + 2
    BY <2>3, LenProperties
  <2> HIDE DEF more
  <2>6. QED
    BY <2>1, <2>2, <2>3, <2>4, <2>5
<1>4. Carries(more, <<>> \o <<<<id, name>>>>, <<>> \o <<<<id, args>>>>, text \o <<>>, <<>> \o <<>>)
  <2> HIDE DEF fs
  <2>1. QED
    BY <1>1, BothCarry
<1>5. /\ <<>> \o <<<<id, name>>>> = <<<<id, name>>>> /\ <<>> \o <<<<id, args>>>> = <<<<id, args>>>>
      /\ text \o <<>> = text /\ <<>> \o <<>> = <<>>
  BY AfterNothing
<1> HIDE DEF more, fs, n
<1>6. \A i \in DOMAIN more : i \in 1..n \/ i = n + 1 \/ i = n + 2
  BY <1>3
<1>7. \A i \in 1..n : more[i].is = "text"
  BY <1>3 DEF Kinds
<1>8. StartsFirst(c, more)
  <2>1. ASSUME NEW i \in DOMAIN more, more[i].is = "stop"
        PROVE  \E j \in 1..i - 1 : more[j].is = "start" /\ more[j].id = more[i].id
    <3>1. i = n + 2
      BY <1>2, <1>3, <1>6, <1>7, <2>1
    <3>2. n + 1 \in 1..i - 1
      BY <1>3, <3>1
    <3>3. QED
      BY <1>2, <1>3, <3>1, <3>2
  <2>2. QED
    BY <2>1 DEF StartsFirst
<1>9. Kinds(more, {"text", "thinking", "start", "args", "stop"})
  BY <1>2, <1>3, <1>6, <1>7 DEF Kinds
<1>10. QED
  BY <1>4, <1>5, <1>8, <1>9 DEF more, fs, b, e

\* A line with a call, and maybe a text.
LEMMA OllamaStarts ==
  ASSUME Reads("ollama"), ~reply.finished, NEW k, NEW f, k.frags = <<f>>, k.stop = 0, k.think = <<>>,
         k.text \in Seq(Tok), k.finish = FALSE, k.usage = 0,
         f \in CallRecord, f.index = Len(reply.calls) + 1, f.id \in {NoId, <<"id", f.index>>}, f.args # <<>>
  PROVE  Advances(k, Add(k), Handle(acc, k))
<1> DEFINE q == Add(k)
           s == Handle(acc, k)
           calls == reply.calls
           n == Len(calls)
           id == IF f.id = NoId THEN MadeUp(f.index - 1) ELSE f.id
           all == reply.text \o k.text
           told == acc.pending \o k.text
           a == Settled(acc, all, <<>>)
           w == HeldAll(acc.pending) \o Deltas(k.text)
           es == w \o <<ToolUseStart(id, f.name), ToolUseDone(id, f.args)>>
<1>1. /\ backend = "ollama" /\ ReplyOK(reply) /\ acc \in Accumulator /\ ~acc.error /\ OllamaOK(reply, acc)
      /\ acc.text = reply.text /\ reply.text \in Seq(Tok) /\ all \in Seq(Tok) /\ acc.pending \in Seq(Tok)
      /\ told \in Seq(Tok) /\ <<>> \in Seq(Tok) /\ acc.seq = n /\ (~acc.maybe => acc.pending = <<>>)
  <2>1. backend = "ollama" /\ ReplyOK(reply) /\ acc \in Accumulator /\ ~acc.error /\ OllamaOK(reply, acc)
    BY DEF Reads, AccumulatorOK
  <2>2. acc.pending \in Seq(Tok) /\ reply.text \in Seq(Tok)
    BY <2>1, ReplyFacts DEF Accumulator
  <2>3. QED
    BY <2>1, <2>2, ConcatProperties DEF OllamaOK
<1>2. /\ ReplyOK(q) /\ q.calls = AddFrag(calls, f) /\ q.text = all
      /\ q.think = reply.think /\ q.finished = reply.finished /\ q.usage = reply.usage
  BY <1>1, CallAdd
<1>3. /\ calls \in Seq(CallRecord) /\ Numbered(calls) /\ n \in Nat
  BY <1>1, ReplyFacts
<1>4. /\ q.calls = Append(calls, f) /\ Len(q.calls) = n + 1 /\ q.calls \in Seq(CallRecord)
      /\ (\A i \in 1..n : q.calls[i] = calls[i]) /\ q.calls[n + 1] = f
      /\ MadeOf(q.calls, n) = MadeOf(calls, n)
      /\ id \in Id /\ f.name \in ToolNames /\ f.args \in Seq(Tok)
  <2>1. f.name \in ToolNames /\ f.args \in Seq(Tok) /\ n \in 0..n
    BY <1>3 DEF CallRecord
  <2>2. id = (IF f.id = NoId THEN MadeUp(f.index - 1) ELSE f.id) /\ f \in CallRecord /\ f.index = n + 1
    OBVIOUS
  <2> HIDE DEF q, calls, id, n
  <2>3. /\ AddFrag(calls, f) = Append(calls, f) /\ Append(calls, f) \in Seq(CallRecord)
        /\ Len(Append(calls, f)) = Len(calls) + 1 /\ Append(calls, f)[Len(calls) + 1] = f /\ id \in Id
    BY <1>3, <2>2, CallJoins DEF n
  <2>4. \A i \in 1..Len(calls) : Append(calls, f)[i] = calls[i]
    BY <1>3, <2>2, CallJoins DEF n
  <2>5. \A m \in 0..Len(calls) : MadeOf(Append(calls, f), m) = MadeOf(calls, m)
    BY <1>3, <2>2, CallJoins DEF n
  <2>6. QED
    BY <1>2, <2>1, <2>3, <2>4, <2>5 DEF n
<1>5. NamesOf(q.calls) = NamesOf(calls) \o <<<<id, f.name>>>>
  <2>1. id = (IF f.id = NoId THEN MadeUp(f.index - 1) ELSE f.id) /\ f \in CallRecord /\ f.index = n + 1
    OBVIOUS
  <2> HIDE DEF q, calls, id
  <2>2. AddFrag(calls, f) = Append(calls, f)
    BY <1>3, <2>1, CallJoins
  <2>3. NamesOf(Append(calls, f)) = NamesOf(calls) \o <<<<id, f.name>>>>
    BY <1>3, <2>1, CallJoins
  <2>4. QED
    BY <1>2, <2>2, <2>3
<1>6. id = IdOf(q.calls, n + 1) /\ f.index - 1 = n
  <2>1. n + 1 - 1 = n
    BY <1>3
  <2>2. QED
    BY <1>4, <2>1 DEF IdOf
<1>7. MadeOf(q.calls, n + 1) = MadeOf(calls, n) \o <<<<id, f.args>>>>
  <2> DEFINE m == n + 1
             d == <<IdOf(q.calls, m), OrEmpty(q.calls[m].args)>>
  <2>1. m \in 1..Len(q.calls) /\ m - 1 = n
    BY <1>3, <1>4
  <2>2. d = <<id, f.args>>
    BY <1>4, <1>6 DEF OrEmpty
  <2> HIDE DEF m, q, n
  <2>3. MadeOf(q.calls, m) = MadeOf(q.calls, m - 1) \o <<d>>
    BY <1>4, <2>1, OneMoreMade
  <2> HIDE DEF d, id
  <2>4. MadeOf(q.calls, m) = MadeOf(calls, n) \o <<<<id, f.args>>>>
    BY <1>4, <2>1, <2>2, <2>3
  <2>5. QED
    BY <2>4 DEF m
<1>8. a \in Accumulator /\ Unlike(acc, a) /\ a.text = all /\ ~a.maybe /\ a.pending = <<>>
  <2> HIDE DEF all
  <2>1. \A t, p \in Seq(Tok) :
          /\ Settled(acc, t, p) \in Accumulator /\ Unlike(acc, Settled(acc, t, p)) /\ Settled(acc, t, p).text = t
          /\ ~Settled(acc, t, p).maybe /\ Settled(acc, t, p).pending = p
    BY <1>1, SettledIs
  <2>2. QED
    BY <1>1, <2>1
<1>9. Carries(w, <<>>, <<>>, told, <<>>) /\ Kinds(w, {"text"})
  <2>1. Carries(HeldAll(acc.pending), <<>>, <<>>, acc.pending, <<>>) /\ Carries(Deltas(k.text), <<>>, <<>>, k.text, <<>>)
        /\ Kinds(HeldAll(acc.pending), {"text"}) /\ Kinds(Deltas(k.text), {"text"})
    BY <1>1, HeldAllCarry, DeltasCarry, DeltasKind
  <2>2. HeldAll(acc.pending) \in Seq(Event) /\ Deltas(k.text) \in Seq(Event)
    BY <2>1 DEF Carries
  <2>3. Carries(w, <<>> \o <<>>, <<>> \o <<>>, told, <<>> \o <<>>)
    BY <2>1, BothCarry
  <2>4. <<>> \o <<>> = <<>>
    OBVIOUS
  <2>5. QED
    BY <2>1, <2>2, <2>3, <2>4, BothKinds
<1>10. /\ Carries(es, <<<<id, f.name>>>>, <<<<id, f.args>>>>, told, <<>>)
       /\ StartsFirst([names |-> TheNames(reply)], es)
       /\ \A i \in DOMAIN es : es[i].is # "done"
  <2> DEFINE c == [names |-> TheNames(reply)]
  <2> HIDE DEF w, told, id, c
  <2>1. Carries(es, <<<<id, f.name>>>>, <<<<id, f.args>>>>, told, <<>>)
    BY <1>1, <1>4, <1>9, StartStop
  <2>2. StartsFirst(c, es)
    BY <1>1, <1>4, <1>9, StartStop
  <2>3. Kinds(es, {"text", "thinking", "start", "args", "stop"})
    BY <1>1, <1>4, <1>9, StartStop
  <2>4. QED
    BY <2>1, <2>2, <2>3, NoDone DEF c
<1>11. s = OllamaCalls(Step(a, w), f)
  <2>1. k.frags # <<>>
    OBVIOUS
  <2>2. s = OllamaCallsEach(Step(Settled(acc, acc.text \o k.text, <<>>), HeldAll(acc.pending) \o Deltas(k.text)), k.frags)
    BY <1>1, <2>1, OllamaLetsGo DEF Handle
  <2>3. s = OllamaCallsEach(Step(a, w), k.frags)
    BY <1>1, <2>2
  <2> HIDE DEF s, a, w
  <2>4. QED
    BY <2>3, EachOllama
<1>12. a.seq = n /\ ~a.finished /\ ~a.error /\ id = IF f.id = NoId THEN MadeUp(a.seq) ELSE f.id
  BY <1>1, <1>6, <1>8 DEF Unlike, OllamaOK
<1>13. /\ IsJSON(f.args) => s.acc = Counted(a) /\ s.events = es
       /\ ~IsJSON(f.args) => s.acc = [a EXCEPT !.error = TRUE]
  <2>1. \A x, y : Step(x, y).acc = x /\ Step(x, y).events = y
    BY DEF Step
  <2> HIDE DEF s, a, w, id
  <2>2. IsJSON(f.args) => OllamaCalls(Step(a, w), f) = Step(Counted(a), es)
    <3>1. \A x : x = (IF f.id = NoId THEN MadeUp(a.seq) ELSE f.id) =>
            (IsJSON(f.args) => OllamaCalls(Step(a, w), f)
                                 = Step(Counted(a), w \o <<ToolUseStart(x, f.name), ToolUseDone(x, f.args)>>))
      BY <1>8, OllamaCallsOne, ZenonT(60)
    <3>2. QED
      BY <1>12, <3>1
  <2>3. ~IsJSON(f.args) => OllamaCalls(Step(a, w), f) = Step([a EXCEPT !.error = TRUE], w)
    BY <1>8, <1>12, OllamaCallsOne
  <2> HIDE DEF es
  <2>4. QED
    BY <1>11, <2>1, <2>2, <2>3
<1> HIDE DEF q, s, a, w, es, told, all, id
<1>14. ASSUME ~IsJSON(f.args) PROVE Advances(k, q, s)
  <2>1. s.acc \in Accumulator /\ s.acc.error
    BY <1>8, <1>13, <1>14, FailedAccumulator
  <2>2. ~AllJSON(q.calls)
    <3>1. n + 1 \in 1..Len(q.calls) /\ OrEmpty(q.calls[n + 1].args) = f.args
      BY <1>3, <1>4 DEF OrEmpty
    <3>2. QED
      BY <1>14, <3>1 DEF AllJSON
  <2>3. QED
    BY <1>2, <2>1, <2>2 DEF Advances
<1>15. ASSUME IsJSON(f.args) PROVE Advances(k, q, s)
  <2> DEFINE c == Counted(a)
  <2>1. /\ c \in Accumulator /\ c.seq = n + 1 /\ c.text = all /\ ~c.maybe /\ c.pending = <<>>
        /\ ~c.finished /\ ~c.error
    BY <1>8, <1>12, CountedIs
  <2> HIDE DEF c
  <2>2. s.acc = c /\ s.events = es
    BY <1>13, <1>15 DEF c
  <2>3. q.calls # <<>> /\ \A i \in 1..Len(q.calls) : IsJSON(q.calls[i].args)
    <3>1. \A i \in 1..Len(q.calls) : i \in 1..n \/ i = n + 1
      BY <1>3, <1>4
    <3>2. \A i \in 1..n : IsJSON(calls[i].args)
      BY <1>1 DEF OllamaOK
    <3>3. \A i \in 1..Len(q.calls) : IsJSON(q.calls[i].args)
      BY <1>4, <1>15, <3>1, <3>2
    <3>4. q.calls # <<>>
      <4>1. Len(<<>>) = 0
        OBVIOUS
      <4>2. Len(q.calls) # 0
        BY <1>3, <1>4
      <4>3. QED
        BY <4>1, <4>2
    <3>5. QED
      BY <3>3, <3>4
  <2>4. AccumulatorOK(q, c)
    <3>1. ~q.finished /\ q.usage = 0
      BY <1>1, <1>2 DEF OllamaOK
    <3>2. OllamaOK(q, c)
      BY <1>2, <1>4, <2>1, <2>3, <3>1 DEF OllamaOK
    <3>3. QED
      BY <1>1, <3>2 DEF AccumulatorOK
  <2>5. /\ TheNames(q) = TheNames(reply) \o <<<<id, f.name>>>>
        /\ TheMade(q, c) = TheMade(reply, acc) \o <<<<id, f.args>>>>
    <3>1. TheNames(q) = NamesOf(q.calls) /\ TheNames(reply) = NamesOf(calls)
          /\ TheMade(q, c) = MadeOf(q.calls, Len(q.calls)) /\ TheMade(reply, acc) = MadeOf(calls, n)
      BY <1>1, <1>2, OllamaTells
    <3>2. QED
      BY <1>4, <1>5, <1>7, <3>1
  <2>6. TheText(q, c) = TheText(reply, acc) \o told
    <3>1. TheText(q, c) = all
      BY <1>1, <1>2, <2>1, OllamaTells
    <3>2. TheText(reply, acc) \o told = all
      BY HeldBelongs DEF told, all
    <3>3. QED
      BY <3>1, <3>2
  <2>7. q.think = reply.think \o <<>>
    BY <1>1, <1>2, ReplyFacts, AfterNothing
  <2>8. Brings(k, q, s)
    BY <1>10, <2>2, <2>5, <2>6, <2>7, BringsIf
  <2>9. QED
    BY <1>2, <2>1, <2>2, <2>4, <2>8 DEF Advances
<1>16. QED
  BY <1>14, <1>15 DEF q, s

\* done: a narrated call is recovered, or what is held back is let go.
LEMMA OllamaEnds ==
  ASSUME Reads("ollama"), ~reply.finished, NEW k, k.frags = <<>>, k.stop = 0, k.think = <<>>,
         k.text = <<>>, k.finish = TRUE, k.usage \in Nat
  PROVE  Advances(k, Add(k), Handle(acc, k))
<1> DEFINE q == Add(k)
           s == Handle(acc, k)
           calls == reply.calls
           n == Len(calls)
           usage == EstimateUsage(acc.text, k.usage)
           name == Trimmed(reply.text)[2]
           id == MadeUp(0)
           a == LetGo(acc)
           w == HeldAll(acc.pending)
           st == <<ToolUseStart(id, name), ToolUseDone(id, EmptyObject)>>
           dn == <<MessageDone(usage)>>
           nar == acc.maybe /\ Narrates(acc.text)
           c == [names |-> TheNames(reply)]
<1>1. /\ backend = "ollama" /\ ReplyOK(reply) /\ acc \in Accumulator /\ ~acc.error /\ OllamaOK(reply, acc)
      /\ acc.text = reply.text /\ reply.text \in Seq(Tok) /\ acc.pending \in Seq(Tok)
      /\ <<>> \in Seq(Tok) /\ reply.usage = 0
  <2>1. backend = "ollama" /\ ReplyOK(reply) /\ acc \in Accumulator /\ ~acc.error /\ OllamaOK(reply, acc)
    BY DEF Reads, AccumulatorOK
  <2>2. acc.pending \in Seq(Tok) /\ reply.text \in Seq(Tok)
    BY <2>1, ReplyFacts DEF Accumulator
  <2>3. QED
    BY <2>1, <2>2 DEF OllamaOK
<1>2. /\ ReplyOK(q) /\ q.calls = calls /\ q.text = reply.text
      /\ q.think = reply.think \o <<>> /\ q.finished
      /\ q.usage = k.usage
  <2>1. <<>> \in Seq(Tok)
    OBVIOUS
  <2>2. ReplyOK(q) /\ q.calls = reply.calls /\ q.text = reply.text \o k.text
        /\ q.think = reply.think \o k.think /\ q.finished = (reply.finished \/ k.finish)
        /\ q.usage = IF k.usage > 0 THEN k.usage ELSE reply.usage
    BY <1>1, <2>1, PlainAdd
  <2> HIDE DEF q
  <2>3. q.finished
    BY <2>2
  <2>4. q.usage = k.usage
    BY <1>1, <2>2
  <2>5. reply.text \o <<>> = reply.text
    BY <1>1, AfterNothing
  <2>6. QED
    BY <2>2, <2>3, <2>4, <2>5
<1>3. usage \in Nat /\ usage = FromUsage(backend, q)
  <2>1. Len(acc.text) \in Nat
    BY <1>1, LenProperties
  <2>2. QED
    BY <1>1, <1>2, <2>1 DEF EstimateUsage, FromUsage
<1>4. s = OllamaDone(Step(acc, <<>>), k.usage)
  <2>1. OllamaSpeaks(Step(acc, <<>>), k.text) = Step(acc, <<>>)
    BY DEF OllamaSpeaks
  <2>2. OllamaHandle(acc, k) = OllamaDone(OllamaSpeaks(Step(acc, <<>>), k.text), k.usage)
    BY OllamaWithoutCalls
  <2>3. QED
    BY <1>1, <2>1, <2>2 DEF Handle
<1>4a. id \in Id
  <2>1. \A m \in Nat : MadeUp(m) \in Id
    BY NoIdIsId
  <2>2. 0 \in Nat
    OBVIOUS
  <2>3. QED
    BY <2>1, <2>2
<1>5. a \in Accumulator /\ Unlike(acc, a) /\ a.text = acc.text /\ a.maybe = acc.maybe /\ a.pending = <<>>
  BY <1>1, LetGoIs
<1>6. Carries(w, <<>>, <<>>, acc.pending, <<>>) /\ Kinds(w, {"text"}) /\ w \in Seq(Event)
  BY <1>1, HeldAllCarry DEF Carries
<1> HIDE DEF usage
<1>7. Carries(dn, <<>>, <<>>, <<>>, <<>>) /\ Kinds(dn, {"done"}) /\ Len(dn) = 1 /\ dn[1].usage = usage
  <2>1. Kinds(dn, {"done"}) /\ dn[1].usage = usage
    BY DEF Kinds, MessageDone
  <2>2. QED
    BY <1>3, <2>1, DoneHolds, OneCarries
<1> HIDE DEF q, s, a, w, dn
<1>8. /\ nar => s.acc = a /\ s.events = st \o dn
      /\ ~nar => s.acc = a /\ s.events = w \o dn
  <2>1. Step(acc, <<>>).acc = acc /\ Step(acc, <<>>).events = <<>>
        /\ \A x, y : Step(x, y).acc = x /\ Step(x, y).events = y
    BY DEF Step
  <2>2. ASSUME nar PROVE s = Step(a, st \o dn)
    <3> DEFINE settled == Then(Step(acc, <<>>), a, st)
    <3>1. NarratedCall(acc.text).id = id /\ NarratedCall(acc.text).name = name /\ NarratedCall(acc.text).args = EmptyObject
      BY <1>1 DEF NarratedCall, Call
    <3>2. settled = Step(a, st)
      <4>1. <<>> \o st = st
        OBVIOUS
      <4> HIDE DEF st
      <4>2. QED
        BY <2>1, <4>1 DEF Then
    <3>3. s = Then(settled, settled.acc, dn)
      BY <1>4, <2>1, <2>2, <3>1 DEF OllamaDone, a, LetGo, dn, usage
    <3> HIDE DEF settled, st
    <3>4. QED
      BY <2>1, <3>2, <3>3 DEF Then
  <2>3. ASSUME ~nar PROVE s = Step(a, w \o dn)
    <3> DEFINE settled == Flushes(Step(acc, <<>>))
    <3>1. settled = Step(a, w)
      <4>1. settled = Step(LetGo(acc), <<>> \o HeldAll(acc.pending))
        BY OllamaFlushes
      <4>2. <<>> \o w = w
        BY <1>6, AfterNothing
      <4>3. QED
        BY <4>1, <4>2 DEF a, w
    <3>2. s = Then(settled, settled.acc, dn)
      BY <1>4, <2>1, <2>3 DEF OllamaDone, dn, usage
    <3> HIDE DEF settled
    <3>3. QED
      BY <2>1, <3>1, <3>2 DEF Then
  <2> HIDE DEF st, nar
  <2>4. ASSUME nar PROVE s.acc = a /\ s.events = st \o dn
    BY <2>2, <2>4 DEF Step
  <2>5. ASSUME ~nar PROVE s.acc = a /\ s.events = w \o dn
    BY <2>3, <2>5 DEF Step
  <2>6. QED
    BY <2>4, <2>5
<1>9. /\ nar <=> Narrated(q)
      /\ nar => calls = <<>> /\ name \in ToolNames
  <2>1. nar => calls = <<>> /\ name \in ToolNames
    BY <1>1, NarratedObject DEF OllamaOK
  <2>2. Narrated(q) <=> calls = <<>> /\ Narrates(acc.text)
    BY <1>1, <1>2 DEF Narrated
  <2>3. ASSUME calls = <<>>, Narrates(acc.text) PROVE acc.maybe
    BY <1>1, <2>3, NarratedObject DEF OllamaOK
  <2>4. QED
    BY <2>1, <2>2, <2>3
<1>10. AccumulatorOK(q, a) /\ ~a.error
  <2>1. OllamaOK(q, a)
    BY <1>1, <1>2, <1>5 DEF OllamaOK, Unlike
  <2>2. QED
    BY <1>1, <1>5, <2>1 DEF AccumulatorOK, Unlike
<1>11. \A es \in Seq(Event) : Kinds(es, {"text", "thinking", "start", "args", "stop"}) /\ StartsFirst(c, es) =>
         /\ StartsFirst(c, es \o dn)
         /\ \A i \in DOMAIN (es \o dn) : (es \o dn)[i].is = "done" => i = Len(es \o dn) /\ (es \o dn)[i].usage = usage
  <2> TAKE es \in Seq(Event)
  <2> HAVE Kinds(es, {"text", "thinking", "start", "args", "stop"}) /\ StartsFirst(c, es)
  <2> DEFINE more == es \o dn
             m == Len(es)
  <2>1. /\ m \in Nat /\ DOMAIN es = 1..m /\ DOMAIN more = 1..m + 1 /\ Len(more) = m + 1
        /\ (\A i \in 1..m : more[i] = es[i]) /\ more[m + 1] = dn[1]
    <3>1. dn \in Seq(Event)
      BY <1>7 DEF Carries
    <3>2. /\ more \in Seq(Event) /\ Len(more) = Len(es) + Len(dn)
          /\ \A i \in 1..(Len(es) + Len(dn)) : more[i] = IF i <= Len(es) THEN es[i] ELSE dn[i - Len(es)]
      BY <3>1, ConcatProperties
    <3>3. m \in Nat /\ DOMAIN es = 1..m
      BY LenProperties
    <3> HIDE DEF more
    <3>4. DOMAIN more = 1..Len(more)
      BY <3>2, LenProperties
    <3>5. m + 1 \in 1..m + 1 /\ ~(m + 1 <= m) /\ m + 1 - m = 1 /\ \A i \in 1..m : i \in 1..m + 1 /\ i <= m
      BY <3>3
    <3>6. QED
      BY <1>7, <3>2, <3>3, <3>4, <3>5
  <2> HIDE DEF more, m
  <2>2. \A i \in DOMAIN more : i \in 1..m \/ i = m + 1
    BY <2>1
  <2>3. dn[1].is = "done"
    BY DEF dn, MessageDone
  <2>4. StartsFirst(c, more)
    <3>1. ASSUME NEW i \in DOMAIN more, more[i].is = "stop"
          PROVE  \/ \E j \in DOMAIN c.names : c.names[j][1] = more[i].id
                 \/ \E j \in 1..i - 1 : more[j].is = "start" /\ more[j].id = more[i].id
      <4>1. i \in 1..m /\ more[i] = es[i]
        BY <2>1, <2>2, <2>3, <3>1
      <4>2. \A j \in 1..i - 1 : j \in 1..m
        BY <2>1, <4>1
      <4>3. \/ \E j \in DOMAIN c.names : c.names[j][1] = es[i].id
            \/ \E j \in 1..i - 1 : es[j].is = "start" /\ es[j].id = es[i].id
        BY <2>1, <3>1, <4>1 DEF StartsFirst
      <4>4. QED
        BY <2>1, <4>1, <4>2, <4>3
    <3>2. QED
      BY <3>1 DEF StartsFirst
  <2>5. \A i \in 1..m : more[i].is # "done"
    BY <2>1 DEF Kinds
  <2>6. \A i \in DOMAIN more : more[i].is = "done" => i = Len(more) /\ more[i].usage = usage
    BY <1>7, <2>1, <2>2, <2>5
  <2>7. QED
    BY <2>4, <2>6 DEF more
<1>12. \A names, made, text, es : Carries(es, names, made, text, <<>>) /\ names \in Pairs /\ made \in Dones /\ text \in Seq(Tok) =>
         Carries(es \o dn, names, made, text, <<>>)
  <2> TAKE names, made, text, es
  <2> HAVE Carries(es, names, made, text, <<>>) /\ names \in Pairs /\ made \in Dones /\ text \in Seq(Tok)
  <2>1. Carries(es \o dn, names \o <<>>, made \o <<>>, text \o <<>>, <<>> \o <<>>)
    BY <1>7, BothCarry
  <2>2. names \o <<>> = names /\ made \o <<>> = made /\ text \o <<>> = text /\ <<>> \o <<>> = <<>>
    BY AfterNothing DEF Pairs, Dones
  <2>3. QED
    BY <2>1, <2>2
<1> HIDE DEF nar, st, c
<1>13. /\ TheNames(reply) = NamesOf(calls) /\ TheMade(reply, acc) = MadeOf(calls, n)
       /\ TheText(reply, acc) = IF acc.maybe THEN <<>> ELSE reply.text
  BY <1>1, OllamaTells
<1>14. ASSUME NEW es, NEW names \in Pairs, NEW made \in Dones, NEW text \in Seq(Tok),
              s.acc = a, s.events = es \o dn, Carries(es, names, made, text, <<>>),
              Kinds(es, {"text", "thinking", "start", "args", "stop"}), StartsFirst(c, es),
              TheNames(q) = TheNames(reply) \o names, TheMade(q, a) = TheMade(reply, acc) \o made,
              TheText(q, a) = TheText(reply, acc) \o text
       PROVE  Advances(k, q, s)
  <2>1. Carries(s.events, names, made, text, <<>>)
    BY <1>12, <1>14
  <2>2. es \in Seq(Event)
    BY <1>14 DEF Carries
  <2>3. /\ StartsFirst(c, s.events)
        /\ \A i \in DOMAIN s.events : s.events[i].is = "done" => i = Len(s.events) /\ s.events[i].usage = usage
    BY <1>11, <1>14, <2>2
  <2>4. Brings(k, q, s)
    BY <1>1, <1>2, <1>3, <1>14, <2>1, <2>3, BringsIf DEF c
  <2>5. QED
    BY <1>2, <1>5, <1>10, <1>14, <2>4 DEF Advances
<1>15. ASSUME nar PROVE Advances(k, q, s)
  <2>1. Carries(st, <<<<id, name>>>>, <<<<id, EmptyObject>>>>, <<>>, <<>>) /\ StartsFirst(c, st)
        /\ Kinds(st, {"text", "thinking", "start", "args", "stop"})
    <3>1. id \in Id /\ name \in ToolNames /\ EmptyObject \in Seq(Tok)
      BY <1>4a, <1>9, <1>15, EmptyObjectType
    <3>2. Carries(<<>>, <<>>, <<>>, <<>>, <<>>) /\ Kinds(<<>>, {"text"}) /\ <<>> \in Seq(Tok)
      BY NoneCarries DEF Kinds
    <3> DEFINE e == <<>>
               more == e \o <<ToolUseStart(id, name), ToolUseDone(id, EmptyObject)>>
    <3>3. more = st
      BY DEF st
    <3> HIDE DEF name, id
    <3>4. Carries(more, <<<<id, name>>>>, <<<<id, EmptyObject>>>>, <<>>, <<>>)
      BY <3>1, <3>2, StartStop
    <3>5. StartsFirst(c, more)
      BY <3>1, <3>2, StartStop
    <3>6. Kinds(more, {"text", "thinking", "start", "args", "stop"})
      BY <3>1, <3>2, StartStop
    <3>7. QED
      BY <3>3, <3>4, <3>5, <3>6
  <2>2. calls = <<>> /\ Narrated(q) /\ acc.maybe
    BY <1>9, <1>15 DEF nar
  <2>3. NamesOf(calls) = <<>> /\ MadeOf(calls, n) = <<>>
    BY <2>2 DEF NamesOf, MadeOf
  <2>4. TheNames(q) = <<<<id, name>>>> /\ TheMade(q, a) = <<<<id, EmptyObject>>>> /\ TheText(q, a) = <<>>
    BY <1>2, <2>2 DEF TheNames, TheMade, TheText
  <2>5. /\ <<>> \o <<<<id, name>>>> = <<<<id, name>>>> /\ <<>> \o <<<<id, EmptyObject>>>> = <<<<id, EmptyObject>>>>
        /\ <<>> \o <<>> = <<>>
    OBVIOUS
  <2>6. /\ TheNames(q) = TheNames(reply) \o <<<<id, name>>>>
        /\ TheMade(q, a) = TheMade(reply, acc) \o <<<<id, EmptyObject>>>>
        /\ TheText(q, a) = TheText(reply, acc) \o <<>>
    BY <1>13, <2>2, <2>3, <2>4, <2>5
  <2>7. <<<<id, name>>>> \in Pairs /\ <<<<id, EmptyObject>>>> \in Dones /\ <<>> \in Seq(Tok)
    <3>1. id \in Id /\ name \in ToolNames /\ EmptyObject \in Seq(Tok)
      BY <1>4a, <1>9, <1>15, EmptyObjectType
    <3> HIDE DEF id, name
    <3>2. <<id, name>> \in Id \X ToolNames /\ <<id, EmptyObject>> \in Id \X Seq(Tok)
      BY <3>1
    <3>3. QED
      BY <3>2 DEF Pairs, Dones
  <2> DEFINE ns == <<<<id, name>>>>
             ms == <<<<id, EmptyObject>>>>
             ts == <<>>
  <2>8. /\ TheNames(q) = TheNames(reply) \o ns /\ TheMade(q, a) = TheMade(reply, acc) \o ms
        /\ TheText(q, a) = TheText(reply, acc) \o ts
        /\ ns \in Pairs /\ ms \in Dones /\ ts \in Seq(Tok) /\ Carries(st, ns, ms, ts, <<>>)
        /\ s.acc = a /\ s.events = st \o dn
    BY <1>8, <1>15, <2>1, <2>6, <2>7
  <2> HIDE DEF ns, ms, ts
  <2>9. QED
    BY <1>14, <2>1, <2>8
<1>16. ASSUME ~nar PROVE Advances(k, q, s)
  <2>1. StartsFirst(c, w) /\ Kinds(w, {"text", "thinking", "start", "args", "stop"})
    BY <1>6, QuietStarts DEF Kinds
  <2>2. n \in 0..n /\ n \in Nat
    BY <1>1, ReplyFacts
  <2>3. NamesOf(calls) \o <<>> = NamesOf(calls) /\ MadeOf(calls, n) \o <<>> = MadeOf(calls, n)
    BY <1>1, <2>2, NothingMore
  <2>4. ~Narrated(q) /\ backend = "ollama" /\ q.finished
    BY <1>1, <1>2, <1>9, <1>16
  <2>5. TheNames(q) = NamesOf(calls) /\ TheMade(q, a) = MadeOf(calls, n) /\ TheText(q, a) = reply.text
    BY <1>2, <2>4 DEF TheNames, TheMade, TheText, Complete
  <2>6. TheText(reply, acc) \o acc.pending = reply.text
    BY <1>1, HeldBelongs
  <2>7. <<>> \in Pairs /\ <<>> \in Dones
    BY DEF Pairs, Dones
  <2> DEFINE ns == <<>>
  <2>8. /\ TheNames(q) = TheNames(reply) \o ns /\ TheMade(q, a) = TheMade(reply, acc) \o ns
        /\ TheText(q, a) = TheText(reply, acc) \o acc.pending
        /\ ns \in Pairs /\ ns \in Dones /\ acc.pending \in Seq(Tok) /\ Carries(w, ns, ns, acc.pending, <<>>)
        /\ s.acc = a /\ s.events = w \o dn
    BY <1>1, <1>6, <1>8, <1>13, <1>16, <2>3, <2>5, <2>6, <2>7
  <2> HIDE DEF ns
  <2>9. QED
    BY <1>14, <2>1, <2>8
<1>17. QED
  BY <1>15, <1>16 DEF q, s
-----------------------------------------------------------------------------
(* Any chunk, and any step. *)

Chunk(k, think, text, frags, stop, finish, usage) ==
  /\ k.think = think /\ k.text = text /\ k.frags = frags /\ k.stop = stop
  /\ k.finish = finish /\ k.usage = usage

\* The fields of each chunk.
LEMMA ChunksAre ==
  /\ \A t : Chunk([Quiet EXCEPT !.text = t], <<>>, t, <<>>, 0, FALSE, 0)
  /\ \A t : Chunk([Quiet EXCEPT !.think = t], t, <<>>, <<>>, 0, FALSE, 0)
  /\ \A fs : Chunk([Quiet EXCEPT !.frags = fs], <<>>, <<>>, fs, 0, FALSE, 0)
  /\ \A t, fs : Chunk([Quiet EXCEPT !.text = t, !.frags = fs], <<>>, t, fs, 0, FALSE, 0)
  /\ \A i : Chunk([Quiet EXCEPT !.stop = i], <<>>, <<>>, <<>>, i, FALSE, 0)
  /\ \A u : Chunk([Quiet EXCEPT !.usage = u], <<>>, <<>>, <<>>, 0, FALSE, u)
  /\ Chunk([Quiet EXCEPT !.finish = TRUE], <<>>, <<>>, <<>>, 0, TRUE, 0)
  /\ \A u : Chunk([Quiet EXCEPT !.finish = TRUE, !.usage = u], <<>>, <<>>, <<>>, 0, TRUE, u)
BY DEF Quiet, Chunk

\* One token is a text.
LEMMA OneTok == ASSUME NEW t \in Tok PROVE <<t>> \in Seq(Tok) /\ <<t>> # <<>>
OBVIOUS

\* The fields of a fragment.
LEMMA FragIs ==
  ASSUME NEW i, NEW id, NEW n, NEW args
  PROVE  /\ Frag(i, id, n, args) = [index |-> i, id |-> id, name |-> n, args |-> args, quoted |-> FALSE]
         /\ Frag(i, id, n, args).index = i /\ Frag(i, id, n, args).id = id
         /\ Frag(i, id, n, args).name = n /\ Frag(i, id, n, args).args = args
BY DEF Frag

\* The calls that may begin now.
Begins(f) == /\ f \in CallRecord /\ f.index = Len(reply.calls) + 1 /\ f.id \in {NoId, <<"id", f.index>>}

\* A call that begins has the next index and an ID of its own or none.
LEMMA OpeningsBegin ==
  ASSUME Len(reply.calls) \in Nat, NEW f \in Openings
  PROVE  /\ Begins(f)
         /\ backend = "anthropic" => f.id = <<"id", f.index>> /\ f.id # NoId /\ f.args = <<>>
         /\ backend \notin {"anthropic", "openai"} => f.args # <<>>
<1>1. PICK id \in OpeningIds, n \in ToolNames, args \in OpeningArgs : f = Frag(NewIndex, id, n, args)
  BY DEF Openings
<1>2. f = [index |-> NewIndex, id |-> id, name |-> n, args |-> args, quoted |-> FALSE]
      /\ f.index = NewIndex /\ f.id = id /\ f.name = n /\ f.args = args
  BY <1>1, FragIs
<1>3. NewIndex = Len(reply.calls) + 1
  BY DEF NewIndex
<1>a. NewIndex \in Nat /\ NewIndex # 0
  BY <1>3
<1> DEFINE new == <<"id", NewIndex>>
<1>b. new \in Id /\ new # NoId
  BY <1>a DEF Id, NoId
<1>c. OpeningIds = IF backend = "anthropic" THEN {new} ELSE {NoId, new}
  BY DEF OpeningIds
<1> HIDE DEF new
<1>4. id \in Id /\ id \in {NoId, new} /\ (backend = "anthropic" => id = new)
  BY <1>b, <1>c, NoIdIsId
<1> DEFINE half == <<"{">>
<1>d. half \in Seq(Tok)
  <2>1. "{" \in Tok
    BY DEF Tok
  <2>2. QED
    BY <2>1, OneTok
<1>e. OpeningArgs = CASE backend = "anthropic" -> {<<>>} [] backend = "openai" -> {<<>>, half}
                      [] OTHER -> {EmptyObject}
  BY DEF OpeningArgs
<1> HIDE DEF half
<1>5. EmptyObject \in Seq(Tok) /\ EmptyObject # <<>> /\ <<>> \in Seq(Tok)
  BY EmptyObjectType
<1>f. /\ backend = "anthropic" => OpeningArgs = {<<>>}
      /\ backend = "openai" => OpeningArgs = {<<>>, half}
      /\ backend \notin {"anthropic", "openai"} => OpeningArgs = {EmptyObject}
  BY <1>e
<1>6. /\ args \in Seq(Tok)
      /\ backend = "anthropic" => args = <<>>
      /\ backend \notin {"anthropic", "openai"} => args # <<>>
  <2>1. CASE backend = "anthropic"
    BY <1>5, <1>f, <2>1
  <2>2. CASE backend = "openai"
    BY <1>d, <1>5, <1>f, <2>2
  <2>3. CASE backend \notin {"anthropic", "openai"}
    BY <1>5, <1>f, <2>3
  <2>4. QED
    BY <2>1, <2>2, <2>3
<1>7. f \in CallRecord
  BY <1>2, <1>a, <1>4, <1>6 DEF CallRecord
<1>8. f.id \in {NoId, <<"id", f.index>>} /\ (backend = "anthropic" => f.id = <<"id", f.index>> /\ f.id # NoId)
  BY <1>2, <1>4, <1>b DEF new
<1>9. Begins(f)
  BY <1>2, <1>3, <1>7, <1>8 DEF Begins
<1>10. QED
  BY <1>2, <1>6, <1>8, <1>9

\* So does a call that comes whole, its arguments in a string or not.
LEMMA WholeCallsBegin ==
  ASSUME Len(reply.calls) \in Nat, NEW fs \in WholeCalls, backend = "ollama"
  PROVE  \E f : fs = <<f>> /\ Begins(f) /\ f.args # <<>>
<1>1. PICK f \in Openings : fs \in {<<f>>, <<[f EXCEPT !.quoted = TRUE]>>, <<[f EXCEPT !.quoted = TRUE, !.args = <<"{">>]>>}
  BY DEF WholeCalls
<1>2. Begins(f) /\ f.args # <<>>
  BY OpeningsBegin
<1>3. CASE fs = <<f>>
  BY <1>2, <1>3
<1>4. CASE fs = <<[f EXCEPT !.quoted = TRUE]>>
  <2> DEFINE g == [f EXCEPT !.quoted = TRUE]
  <2>1. g \in CallRecord /\ g.index = f.index /\ g.id = f.id /\ g.args = f.args
    BY <1>2 DEF Begins, CallRecord
  <2> HIDE DEF g
  <2>2. Begins(g) /\ g.args # <<>>
    BY <1>2, <2>1 DEF Begins
  <2>3. fs = <<g>>
    BY <1>4 DEF g
  <2>4. QED
    BY <2>2, <2>3
<1>5. CASE fs = <<[f EXCEPT !.quoted = TRUE, !.args = <<"{">>]>>
  <2> DEFINE some == <<"{">>
             g == [f EXCEPT !.quoted = TRUE, !.args = some]
  <2>1. some \in Seq(Tok) /\ some # <<>>
    BY DEF Tok
  <2> HIDE DEF some
  <2>2. g \in CallRecord /\ g.index = f.index /\ g.id = f.id /\ g.args = some
    BY <1>2, <2>1 DEF Begins, CallRecord
  <2> HIDE DEF g
  <2>3. Begins(g) /\ g.args # <<>>
    BY <1>2, <2>1, <2>2 DEF Begins
  <2>4. fs = <<g>>
    BY <1>5 DEF g, some
  <2>5. QED
    BY <2>3, <2>4
<1>6. QED
  BY <1>1, <1>3, <1>4, <1>5

\* A fragment adds arguments to a call that is open.
LEMMA FragmentsGrow ==
  ASSUME NEW f \in Fragments
  PROVE  f.index \in reply.open /\ f.args \in Seq(Tok) /\ f.args # <<>> /\ f.name = NoName
<1>1. PICK i \in reply.open, a \in Braces : f = Frag(i, NoId, NoName, <<a>>)
  BY DEF Fragments
<1> DEFINE args == <<a>>
<1>2. f = Frag(i, NoId, NoName, args)
  BY <1>1
<1>3. a \in Tok
  BY DEF Braces, Tok
<1>4. args \in Seq(Tok) /\ args # <<>>
  BY <1>3
<1> HIDE DEF args
<1>5. QED
  BY <1>2, <1>4, FragIs

\* A word is a token.
LEMMA TokensAreTok ==
  ASSUME backend \in Backends, NEW t \in Tokens[backend]
  PROVE  <<t>> \in Seq(Tok) /\ <<t>> # <<>>
<1>1. t \in Tok
  BY StreamAssumption DEF StreamAssumption, Tok
<1>2. QED
  BY <1>1

\* What a chunk says, the adapter makes of it.
LEMMA SaysAdvance ==
  ASSUME Reads(backend), backend \in Backends, ~reply.finished, NEW k \in Says
  PROVE  Advances(k, Add(k), Handle(acc, k))
<1>1. Len(reply.calls) \in Nat
  BY ReplyFacts DEF Reads
<1>2. backend \in {"openai", "ollama", "anthropic"}
  BY WireAssumption DEF WireAssumption
<1>3. CASE backend = "openai"
  <2>1. \/ \E t \in Tokens[backend] : k = [Quiet EXCEPT !.text = <<t>>]
        \/ \E f \in Openings \cup Fragments : k = [Quiet EXCEPT !.frags = <<f>>]
    BY <1>3 DEF Says
  <2>2. ASSUME NEW t \in Tokens[backend], k = [Quiet EXCEPT !.text = <<t>>] PROVE Advances(k, Add(k), Handle(acc, k))
    <3>1. Chunk(k, <<>>, <<t>>, <<>>, 0, FALSE, 0)
      BY <2>2, ChunksAre
    <3>2. QED
      BY <1>3, <2>2, <3>1, TokensAreTok, OpenAIHears DEF Chunk
  <2>3. ASSUME NEW f \in Openings, k = [Quiet EXCEPT !.frags = <<f>>] PROVE Advances(k, Add(k), Handle(acc, k))
    <3>1. Chunk(k, <<>>, <<>>, <<f>>, 0, FALSE, 0)
      BY <2>3, ChunksAre
    <3>2. Begins(f)
      BY <1>1, OpeningsBegin
    <3>3. QED
      BY <1>3, <3>1, <3>2, OpenAIStarts DEF Chunk, Begins
  <2>4. ASSUME NEW f \in Fragments, k = [Quiet EXCEPT !.frags = <<f>>] PROVE Advances(k, Add(k), Handle(acc, k))
    <3>1. Chunk(k, <<>>, <<>>, <<f>>, 0, FALSE, 0)
      BY <2>4, ChunksAre
    <3>2. QED
      BY <1>3, <3>1, FragmentsGrow, OpenAIGrows DEF Chunk
  <2>5. QED
    BY <2>1, <2>2, <2>3, <2>4
<1>4. CASE backend = "anthropic"
  <2>1. \/ \E t \in Tokens[backend] : k = [Quiet EXCEPT !.text = <<t>>]
        \/ reply.open = {} /\ \E f \in Openings : k = [Quiet EXCEPT !.frags = <<f>>]
        \/ \E f \in Fragments : k = [Quiet EXCEPT !.frags = <<f>>]
        \/ \E i \in reply.open : k = [Quiet EXCEPT !.stop = i]
    BY <1>4 DEF Says
  <2>2. ASSUME NEW t \in Tokens[backend], k = [Quiet EXCEPT !.text = <<t>>] PROVE Advances(k, Add(k), Handle(acc, k))
    <3>1. Chunk(k, <<>>, <<t>>, <<>>, 0, FALSE, 0) /\ 0 \in Nat
      BY <2>2, ChunksAre
    <3>2. QED
      BY <1>4, <2>2, <3>1, TokensAreTok, AnthropicHears DEF Chunk
  <2>3. ASSUME reply.open = {}, NEW f \in Openings, k = [Quiet EXCEPT !.frags = <<f>>] PROVE Advances(k, Add(k), Handle(acc, k))
    <3>1. Chunk(k, <<>>, <<>>, <<f>>, 0, FALSE, 0)
      BY <2>3, ChunksAre
    <3>2. Begins(f) /\ f.id = <<"id", f.index>> /\ f.id # NoId /\ f.args = <<>>
      BY <1>1, <1>4, OpeningsBegin
    <3>3. NoName \notin ToolNames
      BY StreamAssumption DEF StreamAssumption
    <3>4. QED
      BY <1>4, <2>3, <3>1, <3>2, <3>3, AnthropicStarts DEF Chunk, Begins
  <2>4. ASSUME NEW f \in Fragments, k = [Quiet EXCEPT !.frags = <<f>>] PROVE Advances(k, Add(k), Handle(acc, k))
    <3>1. Chunk(k, <<>>, <<>>, <<f>>, 0, FALSE, 0)
      BY <2>4, ChunksAre
    <3>2. QED
      BY <1>4, <3>1, FragmentsGrow, AnthropicGrows DEF Chunk
  <2>5. ASSUME NEW i \in reply.open, k = [Quiet EXCEPT !.stop = i] PROVE Advances(k, Add(k), Handle(acc, k))
    <3>1. Chunk(k, <<>>, <<>>, <<>>, i, FALSE, 0)
      BY <2>5, ChunksAre
    <3>2. QED
      BY <1>4, <3>1, AnthropicStops DEF Chunk
  <2>6. QED
    BY <2>1, <2>2, <2>3, <2>4, <2>5
<1>5. CASE backend = "ollama"
  <2>1. \/ \E t \in Tokens[backend] : k = [Quiet EXCEPT !.text = <<t>>]
        \/ k = [Quiet EXCEPT !.think = <<"hm">>]
        \/ \E fs \in WholeCalls : k = [Quiet EXCEPT !.frags = fs]
        \/ \E t \in Tokens[backend], f \in Openings : k = TextAndCall(t, f)
    <3> DEFINE texts == {[Quiet EXCEPT !.text = <<t>>] : t \in Tokens[backend]}
    <3>1. Says = texts \cup Thoughts \cup WholeChunks \cup WithText
      BY <1>5 DEF Says
    <3>2. CASE k \in texts
      BY <3>2
    <3>3. CASE k \in Thoughts
      BY <3>3 DEF Thoughts
    <3>4. CASE k \in WholeChunks
      BY <3>4 DEF WholeChunks
    <3>5. CASE k \in WithText
      BY <3>5 DEF WithText
    <3>6. k \in texts \/ k \in Thoughts \/ k \in WholeChunks \/ k \in WithText
      <4> HIDE DEF texts
      <4>1. QED
        BY <3>1
    <3>7. QED
      BY <3>2, <3>3, <3>4, <3>5, <3>6
  <2>2. ASSUME NEW t \in Tokens[backend], k = [Quiet EXCEPT !.text = <<t>>] PROVE Advances(k, Add(k), Handle(acc, k))
    <3>1. Chunk(k, <<>>, <<t>>, <<>>, 0, FALSE, 0)
      BY <2>2, ChunksAre
    <3>2. QED
      BY <1>5, <2>2, <3>1, TokensAreTok, OllamaHears DEF Chunk
  <2>3. ASSUME k = [Quiet EXCEPT !.think = <<"hm">>] PROVE Advances(k, Add(k), Handle(acc, k))
    <3>1. Chunk(k, <<"hm">>, <<>>, <<>>, 0, FALSE, 0)
      BY <2>3, ChunksAre
    <3>2. <<"hm">> \in Seq(Tok) /\ <<"hm">> # <<>>
      BY DEF Tok
    <3>3. QED
      BY <1>5, <3>1, <3>2, OllamaThinks DEF Chunk
  <2>4. ASSUME NEW fs \in WholeCalls, k = [Quiet EXCEPT !.frags = fs] PROVE Advances(k, Add(k), Handle(acc, k))
    <3>1. Chunk(k, <<>>, <<>>, fs, 0, FALSE, 0)
      BY <2>4, ChunksAre
    <3>2. PICK f : fs = <<f>> /\ Begins(f) /\ f.args # <<>>
      BY <1>1, <1>5, WholeCallsBegin
    <3>3. k.text \in Seq(Tok)
      BY <3>1 DEF Chunk
    <3>4. QED
      BY <1>5, <3>1, <3>2, <3>3, OllamaStarts DEF Chunk, Begins
  <2>5. ASSUME NEW t \in Tokens[backend], NEW f \in Openings, k = TextAndCall(t, f)
        PROVE  Advances(k, Add(k), Handle(acc, k))
    <3>1. Chunk(k, <<>>, <<t>>, <<f>>, 0, FALSE, 0)
      BY <2>5, ChunksAre DEF TextAndCall
    <3>2. Begins(f) /\ f.args # <<>> /\ <<t>> \in Seq(Tok)
      BY <1>1, <1>5, OpeningsBegin, TokensAreTok
    <3>3. QED
      BY <1>5, <3>1, <3>2, OllamaStarts DEF Chunk, Begins
  <2>6. QED
    BY <2>1, <2>2, <2>3, <2>4, <2>5
<1>6. QED
  BY <1>2, <1>3, <1>4, <1>5

\* And of how a reply ends.
LEMMA EndsAdvance ==
  ASSUME Reads(backend), backend \in Backends, ~reply.finished, NEW k \in Ends
  PROVE  Advances(k, Add(k), Handle(acc, k))
<1>1. backend \in {"openai", "ollama", "anthropic"}
  BY WireAssumption DEF WireAssumption
<1>2. CASE backend = "anthropic"
  <2>1. \/ k = [Quiet EXCEPT !.usage = 1]
        \/ reply.open = {} /\ k = [Quiet EXCEPT !.finish = TRUE]
    BY <1>2 DEF Ends
  <2>2. CASE k = [Quiet EXCEPT !.usage = 1]
    <3>0. 1 \in Nat /\ <<>> \in Seq(Tok)
      OBVIOUS
    <3>1. Chunk(k, <<>>, <<>>, <<>>, 0, FALSE, 1)
      BY <2>2, ChunksAre
    <3>2. QED
      BY <1>2, <3>0, <3>1, AnthropicHears DEF Chunk
  <2>3. CASE reply.open = {} /\ k = [Quiet EXCEPT !.finish = TRUE]
    <3>1. Chunk(k, <<>>, <<>>, <<>>, 0, TRUE, 0)
      BY <2>3, ChunksAre
    <3>2. QED
      BY <1>2, <2>3, <3>1, AnthropicEnds DEF Chunk
  <2>4. QED
    BY <2>1, <2>2, <2>3
<1>3. CASE backend # "anthropic"
  <2>1. PICK u \in {0, 1} : k = [Quiet EXCEPT !.finish = TRUE, !.usage = u]
    BY <1>3 DEF Ends
  <2>a. u \in Nat
    BY <2>1
  <2>2. Chunk(k, <<>>, <<>>, <<>>, 0, TRUE, u)
    BY <2>1, ChunksAre
  <2>3. CASE backend = "openai"
    BY <2>a, <2>2, <2>3, OpenAIEnds DEF Chunk
  <2>4. CASE backend = "ollama"
    BY <2>a, <2>2, <2>4, OllamaEnds DEF Chunk
  <2>5. QED
    BY <1>1, <1>3, <2>3, <2>4
<1>4. QED
  BY <1>2, <1>3

\* Every chunk keeps the invariant.
LEMMA ReceiveStep ==
  ASSUME IInv, Receive
  PROVE  IInv'
<1>1. ASSUME NEW k, Speaks(k) PROVE Reads(backend) /\ backend \in Backends
  BY <1>1 DEF IInv, Types, Refused, Accumulated, Speaks, Reads
<1>2. ASSUME NEW k \in Says, ~reply.finished, Speaks(k) PROVE IInv'
  <2>1. Advances(k, Add(k), Handle(acc, k))
    BY <1>1, <1>2, SaysAdvance
  <2>2. QED
    BY <1>2, <2>1, SpeaksStep
<1>3. ASSUME NEW k \in Ends, ~reply.finished, Speaks(k) PROVE IInv'
  <2>1. Advances(k, Add(k), Handle(acc, k))
    BY <1>1, <1>3, EndsAdvance
  <2>2. QED
    BY <1>3, <2>1, SpeaksStep
<1>4. ASSUME NEW k \in Trailer, Speaks(k) PROVE IInv'
  <2>1. backend = "openai" /\ reply.finished /\ k = [Quiet EXCEPT !.usage = 2]
    BY <1>4 DEF Trailer
  <2>2. Chunk(k, <<>>, <<>>, <<>>, 0, FALSE, 2) /\ 2 \in Nat
    BY <2>1, ChunksAre
  <2>3. Advances(k, Add(k), Handle(acc, k))
    BY <1>1, <1>4, <2>1, <2>2, OpenAITrails DEF Chunk
  <2>4. QED
    BY <1>4, <2>1, <2>3, SpeaksStep
<1>5. QED
  BY <1>2, <1>3, <1>4 DEF Receive

\* Nothing is said and nothing delivered.
LEMMA InitStep == Init => IInv
<1> SUFFICES ASSUME Init PROVE IInv
  OBVIOUS
<1> DEFINE none == <<>>
<1>0. /\ none \in Seq(Tok) /\ none \in Seq(Event) /\ none \in Seq(Block) /\ none \in Pairs
      /\ none \in Seq(CallRecord) /\ Len(none) = 0 /\ DOMAIN none = {} /\ none = <<>>
      /\ none \o none = none
  BY DEF Pairs
<1>z. 0 \in Nat
  OBVIOUS
<1>00. PiecesOf(StartIn, none) = none /\ PiecesOf(CallIn, none) = none /\ PiecesOf(StopIn, none) = none
      /\ PiecesOf(WordsIn(Block, "text"), none) = none /\ PiecesOf(WordsIn(Event, "text"), none) = none
      /\ PiecesOf(WordsIn(Block, "thinking"), none) = none /\ PiecesOf(WordsIn(Event, "thinking"), none) = none
  BY PiecesEmpty
<1> HIDE DEF none
<1>1. /\ reply = [think |-> none, text |-> none, calls |-> none, open |-> {}, finished |-> FALSE, usage |-> 0]
      /\ acc = [calls |-> none, text |-> none, pending |-> none, maybe |-> TRUE, seq |-> 0,
                finished |-> FALSE, usage |-> 0, error |-> FALSE]
      /\ col = [blocks |-> none, think |-> none, text |-> none, names |-> none, usage |-> 0]
      /\ out = none
  BY <1>0 DEF Init
<1>2. /\ reply.think = none /\ reply.text = none /\ reply.calls = none /\ reply.open = {} /\ ~reply.finished /\ reply.usage = 0
      /\ acc.calls = none /\ acc.text = none /\ acc.pending = none /\ acc.maybe /\ acc.seq = 0
      /\ ~acc.finished /\ acc.usage = 0 /\ ~acc.error
      /\ col.blocks = none /\ col.think = none /\ col.text = none /\ col.names = none
  BY <1>1
<1>3. backend \in Backends /\ producer = "reading" /\ consumer = "reading"
  BY DEF Init
<1>4. Types
  <2>1. acc \in Accumulator
    BY <1>0, <1>z, <1>1 DEF Accumulator
  <2>2. col \in Collection
    BY <1>0, <1>z, <1>1 DEF Collection
  <2>3. QED
    BY <1>0, <1>1, <1>3, <2>1, <2>2 DEF Types
<1>5. ReplyOK(reply)
  <2>1. reply \in Reply
    BY <1>0, <1>z, <1>1 DEF Reply
  <2>2. QED
    BY <1>0, <1>2, <2>1 DEF ReplyOK
<1>6. BlocksNamed(col)
  BY <1>0, <1>2 DEF BlocksNamed
<1>7. Refused /\ DoneIsLast /\ Delivered
  BY <1>0, <1>1, <1>2, <1>3 DEF Refused, DoneIsLast, Delivered
<1>8. WithIds(none) = none /\ NamesOf(none) = none /\ (\A n : n = 0 => MadeOf(none, n) = none)
  BY <1>0 DEF WithIds, NamesOf, MadeOf
<1>9. Trimmed(none) = <<>>
  BY <1>0 DEF Trimmed
<1>10. Accumulated
  <2>1. OpenAIOK(reply, acc)
    <3>1. acc.finished = reply.finished
      BY <1>1
    <3>2. QED
      BY <1>0, <1>2, <1>8, <3>1 DEF OpenAIOK
  <2>2. AnthropicOK(reply, acc)
    BY <1>0, <1>2, <1>8 DEF AnthropicOK
  <2>3. OllamaOK(reply, acc)
    BY <1>0, <1>2, <1>9 DEF OllamaOK
  <2>4. QED
    BY <1>3, <2>1, <2>2, <2>3, WireAssumption DEF Accumulated, AccumulatorOK, WireAssumption
<1>11. OnTheWay
  <2>1. ~Narrated(reply)
    BY <1>2 DEF Narrated
  <2>2. Complete(reply, acc) = 0
    BY <1>0, <1>2, <1>3, WireAssumption DEF Complete, WireAssumption
  <2>3. TheNames(reply) = none /\ TheMade(reply, acc) = none /\ TheText(reply, acc) = none
    BY <1>0, <1>2, <1>8, <2>1, <2>2 DEF TheNames, TheMade, TheText
  <2>4. Conveys(col, out, reply, acc)
    BY <1>0, <1>00, <1>1, <1>2, <2>3 DEF Conveys, Delivers
  <2>5. StartsFirst(col, out)
    BY <1>0, <1>1 DEF StartsFirst
  <2>6. QED
    BY <2>4, <2>5 DEF OnTheWay
<1>12. QED
  BY <1>4, <1>5, <1>6, <1>7, <1>10, <1>11 DEF IInv

\* Every step keeps the invariant.
LEMMA NextStep == IInv /\ [Next]_vars => IInv'
<1> SUFFICES ASSUME IInv, [Next]_vars PROVE IInv'
  OBVIOUS
<1>1. CASE Receive
  BY <1>1, ReceiveStep
<1>2. CASE BodyEnds
  BY <1>2, BodyEndsStep
<1>3. CASE BodyFails
  BY <1>3, BodyFailsStep
<1>4. CASE Send
  BY <1>4, SendStep
<1>5. CASE GivesUp \/ Close \/ WriteFails \/ SeesClosed \/ SeesContext \/ Cancel
  BY <1>5, NoMoreStep
<1>6. CASE UNCHANGED vars
  BY <1>6, StutterStep
<1>7. QED
  BY <1>1, <1>2, <1>3, <1>4, <1>5, <1>6 DEF Next

\* IInv is an invariant of the three adapters, for all tokens, tools and bounds:
\* what the consumer has collected, with the events on their way to it, is what the
\* server has said, but for what the adapter still holds back.
THEOREM Invariant == Spec => []IInv
BY InitStep, NextStep, PTL DEF Spec
-----------------------------------------------------------------------------
(* TextInOrder. *)

\* The words of a list of blocks or events are its pieces.
LEMMA WordsArePieces ==
  ASSUME NEW E, NEW s \in Seq(E), NEW kind
  PROVE  Words(s, kind) = PiecesOf(WordsIn(E, kind), s)
<1>1. \A i \in DOMAIN s : s[i] \in E
  BY ElementOfSeq, LenProperties
<1>2. [i \in DOMAIN s |-> IF s[i].is = kind THEN s[i].words ELSE <<>>]
        = [i \in DOMAIN s |-> WordsIn(E, kind)[s[i]]]
  BY <1>1 DEF WordsIn
<1>3. QED
  BY <1>2 DEF Words, PiecesOf, Mapped

\* The invariant implies TextInOrder.
LEMMA TextTold == ASSUME IInv PROVE TextInOrder
<1> SUFFICES ASSUME consumer = "reading", producer = "reading", ~reply.finished
             PROVE  /\ Heard \o OnItsWay \o acc.pending = reply.text
                    /\ acc.pending # <<>> => Trimmed(reply.text) = <<>> \/ LooksLikeObject(reply.text)
  BY DEF TextInOrder
<1>1. ~acc.error
  BY DEF IInv, Refused
<1>2. /\ AccumulatorOK(reply, acc) /\ Conveys(col, out, reply, acc)
      /\ col \in Collection /\ out \in Seq(Event) /\ ReplyOK(reply)
  BY <1>1 DEF IInv, Types, Accumulated, OnTheWay
<1>3. Heard \o OnItsWay = TheText(reply, acc)
  <2>1. col.blocks \in Seq(Block)
    BY <1>2, CollectionType
  <2>2. Words(col.blocks, "text") = PiecesOf(WordsIn(Block, "text"), col.blocks)
    BY <2>1, WordsArePieces
  <2>3. Words(out, "text") = PiecesOf(WordsIn(Event, "text"), out)
    BY <1>2, WordsArePieces
  <2>4. QED
    BY <1>2, <2>2, <2>3 DEF Heard, OnItsWay, Conveys, Delivers
<1>4. ~Narrated(reply)
  BY DEF Narrated
<1>5. reply.text \in Seq(Tok)
  BY <1>2, ReplyFacts
<1>6. reply.text \o <<>> = reply.text /\ <<>> \o reply.text = reply.text
  BY <1>5, AfterNothing
<1>7. backend \in {"openai", "anthropic", "ollama"}
  BY WireAssumption DEF IInv, Types, WireAssumption
<1>8. CASE backend # "ollama"
  <2>1. acc.pending = <<>>
    BY <1>2, <1>7, <1>8 DEF AccumulatorOK, OpenAIOK, AnthropicOK
  <2>2. TheText(reply, acc) = reply.text
    BY <1>4, <1>8 DEF TheText
  <2>3. QED
    BY <1>3, <1>6, <2>1, <2>2
<1>9. CASE backend = "ollama"
  <2>1. OllamaOK(reply, acc)
    BY <1>2, <1>9 DEF AccumulatorOK
  <2>2. acc.pending = IF acc.maybe THEN reply.text ELSE <<>>
    BY <2>1 DEF OllamaOK
  <2>3. TheText(reply, acc) = IF acc.maybe THEN <<>> ELSE reply.text
    BY <1>4, <1>9 DEF TheText
  <2>4. acc.maybe => Trimmed(reply.text) = <<>> \/ LooksLikeObject(reply.text)
    BY <2>1 DEF OllamaOK
  <2>5. QED
    BY <1>3, <1>6, <2>2, <2>3, <2>4
<1>10. QED
  BY <1>8, <1>9

\* TextInOrder: the words on the screen, on their way and held back are the text the
\* server has sent, in order, and only what may still be a narrated call is held back.
THEOREM TextKeepsItsOrder == Spec => []TextInOrder
BY Invariant, TextTold, PTL
-----------------------------------------------------------------------------
(* StreamedIsWhole. *)

\* The call itself, where a block is one.
CallHere == [b \in Block |-> IF b.is = "call" THEN <<b>> ELSE <<>>]
CallBlock == [is : {"call"}, id : Id, name : ToolNames, args : Seq(Tok)]

\* What a call is known by.
Known(calls) == [i \in 1..Len(calls) |-> <<calls[i].id, calls[i].args>>]

\* The blocks that are calls.
LEMMA CallBlocksAre ==
  /\ CallBlock \subseteq Block
  /\ \A b \in Block : b.is = "call" => b \in CallBlock
  /\ \A b \in CallBlock : b.is = "call" /\ b.id \in Id /\ b.name \in ToolNames /\ b.args \in Seq(Tok)
  /\ CallHere \in [Block -> Seq(CallBlock)]
<1>1. CallBlock \subseteq Block
  BY DEF CallBlock, Block
<1>2. ASSUME NEW b \in Block, b.is = "call" PROVE b \in CallBlock
  <2>1. CASE b \in [is : {"text", "thinking"}, words : Seq(Tok)]
    BY <1>2, <2>1
  <2>2. CASE b \in [is : {"call"}, id : Id, name : ToolNames, args : Seq(Tok)]
    BY <2>2 DEF CallBlock
  <2>3. QED
    BY <2>1, <2>2 DEF Block
<1>3. \A b \in CallBlock : b.is = "call" /\ b.id \in Id /\ b.name \in ToolNames /\ b.args \in Seq(Tok)
  BY DEF CallBlock
<1>4. CallHere \in [Block -> Seq(CallBlock)]
  <2>1. ASSUME NEW b \in Block PROVE CallHere[b] \in Seq(CallBlock)
    <3>1. CASE b.is = "call"
      <4>1. b \in CallBlock
        BY <1>2, <3>1
      <4>2. <<b>> \in Seq(CallBlock)
        BY <4>1
      <4>3. QED
        BY <3>1, <4>2 DEF CallHere
    <3>2. CASE b.is # "call"
      <4>1. <<>> \in Seq(CallBlock)
        OBVIOUS
      <4>2. QED
        BY <3>2, <4>1 DEF CallHere
    <3>3. QED
      BY <3>1, <3>2
  <2>2. QED
    BY <2>1 DEF CallHere
<1>5. QED
  BY <1>1, <1>2, <1>3, <1>4

\* The calls of a list of blocks are its pieces.
LEMMA CallsArePieces ==
  ASSUME NEW s \in Seq(Block)
  PROVE  Calls(s) = PiecesOf(CallHere, s) /\ Calls(s) \in Seq(CallBlock)
<1>1. \A i \in DOMAIN s : s[i] \in Block
  BY ElementOfSeq, LenProperties
<1>2. [i \in DOMAIN s |-> IF s[i].is = "call" THEN <<s[i]>> ELSE <<>>] = [i \in DOMAIN s |-> CallHere[s[i]]]
  BY <1>1 DEF CallHere
<1>3. Calls(s) = PiecesOf(CallHere, s)
  BY <1>2 DEF Calls, PiecesOf, Mapped
<1>4. QED
  BY <1>3, CallBlocksAre, PiecesType

\* One more call is known.
LEMMA KnownMore ==
  ASSUME NEW s \in Seq(CallBlock), NEW b \in CallBlock
  PROVE  Known(s \o <<b>>) = Known(s) \o <<<<b.id, b.args>>>>
<1> DEFINE p == <<b.id, b.args>>
           n == Len(s)
           t == s \o <<b>>
           f(i) == <<t[i].id, t[i].args>>
<1>1. n \in Nat /\ Len(t) = n + 1 /\ t[n + 1] = b /\ \A i \in 1..n : t[i] = s[i]
  OBVIOUS
<1>2. Known(t) = [i \in 1..n + 1 |-> f(i)] /\ f(n + 1) = p
  BY <1>1 DEF Known
<1>3. Known(s) = [i \in 1..n |-> f(i)]
  BY <1>1 DEF Known
<1>4. Known(s) \in Seq(Id \X Seq(Tok)) /\ Len(Known(s)) = n
  <2>1. \A i \in 1..n : f(i) \in Id \X Seq(Tok)
    BY <1>1, CallBlocksAre, ElementOfSeq
  <2> DEFINE k == [i \in 1..n |-> f(i)]
  <2>2. k \in [1..n -> Id \X Seq(Tok)]
    BY <2>1
  <2> HIDE DEF k
  <2>3. k \in Seq(Id \X Seq(Tok)) /\ Len(k) = n
    BY <1>1, <2>2, SeqDef, LenProperties
  <2>4. QED
    BY <1>3, <2>3 DEF k
<1>5. p \in Id \X Seq(Tok)
  BY CallBlocksAre
<1> HIDE DEF p, f
<1> DEFINE k == Known(s)
<1>6. \A i \in 1..n : k[i] = f(i)
  BY <1>3
<1>7. k \in Seq(Id \X Seq(Tok)) /\ Len(k) = n
  BY <1>4
<1> HIDE DEF k, t
<1>8. k \o <<p>> = [i \in 1..n + 1 |-> f(i)]
  BY <1>1, <1>2, <1>5, <1>6, <1>7
<1>9. QED
  BY <1>2, <1>8 DEF k, t, p

\* The calls of a list of blocks are known by what the list holds of calls, and are in it.
LEMMA CallsKnown ==
  ASSUME NEW s \in Seq(Block)
  PROVE  /\ Known(PiecesOf(CallHere, s)) = PiecesOf(CallIn, s)
         /\ \A i \in 1..Len(PiecesOf(CallHere, s)) :
              \E j \in DOMAIN s : s[j].is = "call" /\ PiecesOf(CallHere, s)[i] = s[j]
<1> DEFINE n == Len(s)
           First(m) == SubSeq(s, 1, m)
           Holding(t) == /\ Known(PiecesOf(CallHere, t)) = PiecesOf(CallIn, t)
                         /\ \A i \in 1..Len(PiecesOf(CallHere, t)) :
                              \E j \in DOMAIN s : s[j].is = "call" /\ PiecesOf(CallHere, t)[i] = s[j]
           T == {m \in Nat : m <= n => Holding(First(m))}
<1>0. n \in Nat /\ DOMAIN s = 1..n
  BY LenProperties
<1>a. \A b \in Block : PiecesOf(CallHere, <<b>>) = CallHere[b] /\ PiecesOf(CallIn, <<b>>) = CallIn[b]
  <2>1. \A b \in Block : PiecesOf(CallHere, <<b>>) = CallHere[b]
    BY CallBlocksAre, PiecesOne
  <2>2. \A b \in Block : PiecesOf(CallIn, <<b>>) = CallIn[b]
    BY PieceTypes, PiecesOne DEF Dones
  <2>3. QED
    BY <2>1, <2>2
<1>b. \A x, y \in Seq(Block) : /\ PiecesOf(CallHere, x \o y) = PiecesOf(CallHere, x) \o PiecesOf(CallHere, y)
                               /\ PiecesOf(CallIn, x \o y) = PiecesOf(CallIn, x) \o PiecesOf(CallIn, y)
  <2>0. \A S : \A f \in [Block -> Seq(S)] : \A x, y \in Seq(Block) :
          PiecesOf(f, x \o y) = PiecesOf(f, x) \o PiecesOf(f, y)
    BY PiecesConcat
  <2>1. \A x, y \in Seq(Block) : PiecesOf(CallHere, x \o y) = PiecesOf(CallHere, x) \o PiecesOf(CallHere, y)
    BY <2>0, CallBlocksAre
  <2>2. \A x, y \in Seq(Block) : PiecesOf(CallIn, x \o y) = PiecesOf(CallIn, x) \o PiecesOf(CallIn, y)
    BY <2>0, PieceTypes DEF Dones
  <2>3. QED
    BY <2>1, <2>2
<1>1. 0 \in T
  <2>1. First(0) = <<>>
    OBVIOUS
  <2>2. PiecesOf(CallHere, <<>>) = <<>> /\ PiecesOf(CallIn, <<>>) = <<>>
    BY PiecesEmpty
  <2>3. Known(<<>>) = <<>>
    BY DEF Known
  <2>4. Len(<<>>) = 0 /\ \A i \in 1..0 : FALSE
    OBVIOUS
  <2>5. Holding(<<>>)
    BY <2>2, <2>3, <2>4
  <2> HIDE DEF Holding, First
  <2>6. QED
    BY <2>1, <2>5
<1>2. ASSUME NEW m \in Nat, m \in T PROVE m + 1 \in T
  <2> SUFFICES ASSUME m + 1 <= n
               PROVE  Holding(First(m + 1))
    OBVIOUS
  <2> DEFINE b == s[m + 1]
             t == First(m)
             u == <<b>>
  <2>1. m + 1 \in 1..n /\ b \in Block
    BY <1>0, ElementOfSeq
  <2>2. Holding(t)
    BY <1>2, <2>1
  <2>3. First(m + 1) = t \o u
    <3>1. 1 \in 1..n /\ m + 1 \in 1..n
      BY <1>0, <2>1
    <3>2. SubSeq(s, 1, m + 1) = SubSeq(s, 1, m + 1 - 1) \o <<s[m + 1]>>
      BY <3>1, SubSeqRecursiveSecond
    <3>3. m + 1 - 1 = m
      OBVIOUS
    <3>4. QED
      BY <3>2, <3>3
  <2>4. t \in Seq(Block) /\ u \in Seq(Block)
    <3>1. t \in Seq(Block)
      BY <1>0, <2>1, SubSeqProperties
    <3>2. QED
      BY <2>1, <3>1
  <2>5. PiecesOf(CallHere, u) = CallHere[b] /\ PiecesOf(CallIn, u) = CallIn[b]
    BY <1>a, <2>1
  <2> DEFINE c == PiecesOf(CallHere, t)
             d == PiecesOf(CallIn, t)
  <2>6. c \in Seq(CallBlock) /\ d \in Seq(Id \X Seq(Tok))
    BY <2>4, CallBlocksAre, PieceTypes, PiecesType DEF Dones
  <2>7. PiecesOf(CallHere, t \o u) = c \o CallHere[b]
    <3> HIDE DEF t, u, b
    <3>1. PiecesOf(CallHere, t \o u) = PiecesOf(CallHere, t) \o PiecesOf(CallHere, u)
      BY <1>b, <2>4
    <3>2. QED
      BY <2>5, <3>1
  <2>8. PiecesOf(CallIn, t \o u) = d \o CallIn[b]
    <3> HIDE DEF t, u, b
    <3>1. PiecesOf(CallIn, t \o u) = PiecesOf(CallIn, t) \o PiecesOf(CallIn, u)
      BY <1>b, <2>4
    <3>2. QED
      BY <2>5, <3>1
  <2>9. Known(c) = d /\ \A i \in 1..Len(c) : \E j \in DOMAIN s : s[j].is = "call" /\ c[i] = s[j]
    BY <2>2
  <2>10. CASE b.is # "call"
    <3>1. CallHere[b] = <<>> /\ CallIn[b] = <<>>
      BY <2>1, <2>10 DEF CallHere, CallIn
    <3>2. c \o <<>> = c /\ d \o <<>> = d
      <4> HIDE DEF c, d
      <4>1. QED
        BY <2>6, AfterNothing
    <3>3. PiecesOf(CallHere, t \o u) = c /\ PiecesOf(CallIn, t \o u) = d
      BY <2>7, <2>8, <3>1, <3>2
    <3>4. PiecesOf(CallHere, First(m + 1)) = c /\ PiecesOf(CallIn, First(m + 1)) = d
      BY <2>3, <3>3
    <3> HIDE DEF c, d
    <3>5. QED
      BY <2>9, <3>4
  <2>11. CASE b.is = "call"
    <3> DEFINE e == <<b.id, b.args>>
    <3>1. CallHere[b] = <<b>> /\ CallIn[b] = <<e>>
      BY <2>1, <2>11 DEF CallHere, CallIn
    <3>2. b \in CallBlock
      BY <2>1, <2>11, CallBlocksAre
    <3>3. PiecesOf(CallHere, First(m + 1)) = c \o <<b>> /\ PiecesOf(CallIn, First(m + 1)) = d \o <<e>>
      BY <2>3, <2>7, <2>8, <3>1
    <3>4. Known(c \o <<b>>) = Known(c) \o <<e>>
      BY <2>6, <3>2, KnownMore
    <3>5. ASSUME NEW i \in 1..Len(c \o <<b>>)
          PROVE  \E j \in DOMAIN s : s[j].is = "call" /\ (c \o <<b>>)[i] = s[j]
      <4>0. m + 1 \in DOMAIN s
        BY <1>0, <2>1
      <4>1. Len(c) \in Nat /\ Len(c \o <<b>>) = Len(c) + 1
        <5> HIDE DEF c
        <5>1. QED
          BY <2>6, <3>2
      <4>2. CASE i \in 1..Len(c)
        <5>1. (c \o <<b>>)[i] = c[i]
          <6> HIDE DEF c, b
          <6>1. QED
            BY <2>6, <3>2, <4>2
        <5>2. QED
          BY <2>9, <4>2, <5>1
      <4>3. CASE i = Len(c) + 1
        <5>1. (c \o <<b>>)[i] = b
          <6> HIDE DEF c, b
          <6>1. QED
            BY <2>6, <3>2, <4>3
        <5>2. QED
          BY <2>11, <4>0, <5>1
      <4>4. QED
        BY <4>1, <4>2, <4>3
    <3> DEFINE q == c \o <<b>>
               r == d \o <<e>>
    <3>6. PiecesOf(CallHere, First(m + 1)) = q /\ PiecesOf(CallIn, First(m + 1)) = r
      BY <3>3
    <3>7. Known(q) = r /\ \A i \in 1..Len(q) : \E j \in DOMAIN s : s[j].is = "call" /\ q[i] = s[j]
      BY <2>9, <3>4, <3>5
    <3> HIDE DEF q, r
    <3>8. QED
      BY <3>6, <3>7
  <2>12. QED
    BY <2>10, <2>11
<1> HIDE DEF T
<1>3. n \in T
  BY <1>0, <1>1, <1>2, Induction
<1>4. First(n) = s
  BY <1>0, SubSeqFull
<1>5. Holding(First(n))
  <2> HIDE DEF Holding, First, n
  <2>1. n <= n
    BY <1>0
  <2>2. QED
    BY <1>3, <2>1 DEF T
<1>6. Holding(s)
  <2> HIDE DEF Holding, First, n
  <2>1. QED
    BY <1>4, <1>5
<1>7. QED
  BY <1>6

Named(w) == [i \in 1..Len(w) |-> <<w[i].id, w[i].name>>]
OwnIds(w) == \A i, j \in 1..Len(w) : i # j => w[i].id # w[j].id

\* With distinct IDs, the calls collected are determined by the names that started
\* them and the arguments that ended them.
LEMMA KnownByIds ==
  ASSUME NEW c \in Collection, BlocksNamed(c), NEW w \in Seq(CallBlock), OwnIds(w),
         c.names = Named(w), PiecesOf(CallIn, c.blocks) = Known(w)
  PROVE  Calls(c.blocks) = w
<1> DEFINE d == Calls(c.blocks)
           n == Len(w)
<1>0. c.blocks \in Seq(Block)
  BY CollectionType
<1>1. /\ d \in Seq(CallBlock) /\ Known(d) = Known(w)
      /\ \A i \in 1..Len(d) : \E j \in DOMAIN c.blocks : c.blocks[j].is = "call" /\ d[i] = c.blocks[j]
  BY <1>0, CallsArePieces, CallsKnown
<1>2. n \in Nat /\ Len(d) \in Nat
  BY <1>1, LenProperties
<1>3. Len(d) = n /\ \A i \in 1..n : d[i].id = w[i].id /\ d[i].args = w[i].args
  <2>1. DOMAIN Known(d) = 1..Len(d) /\ DOMAIN Known(w) = 1..n
    BY DEF Known
  <2>2. Len(d) = n
    <3> HIDE DEF d, n
    <3>1. 1..Len(d) = 1..n
      BY <1>1, <2>1
    <3>2. QED
      BY <1>2, <3>1
  <2>3. ASSUME NEW i \in 1..n PROVE d[i].id = w[i].id /\ d[i].args = w[i].args
    <3>1. Known(d)[i] = <<d[i].id, d[i].args>> /\ Known(w)[i] = <<w[i].id, w[i].args>>
      BY <2>2 DEF Known
    <3>2. <<d[i].id, d[i].args>> = <<w[i].id, w[i].args>>
      BY <1>1, <3>1
    <3>3. QED
      BY <3>2
  <2>4. QED
    BY <2>2, <2>3
<1>4. ASSUME NEW i \in 1..n PROVE d[i] = w[i]
  <2>1. PICK j \in DOMAIN c.blocks : c.blocks[j].is = "call" /\ d[i] = c.blocks[j]
    BY <1>1, <1>3
  <2>2. PICK k \in DOMAIN c.names : c.names[k] = <<d[i].id, d[i].name>>
    BY <2>1 DEF BlocksNamed
  <2>3. k \in 1..n /\ c.names[k] = <<w[k].id, w[k].name>>
    BY <2>2 DEF Named
  <2>4. <<d[i].id, d[i].name>> = <<w[k].id, w[k].name>>
    BY <2>2, <2>3
  <2>5. w[k].id = w[i].id /\ d[i].name = w[k].name
    BY <1>3, <2>4
  <2>6. k = i
    BY <2>3, <2>5 DEF OwnIds
  <2>7. d[i].name = w[i].name /\ d[i].id = w[i].id /\ d[i].args = w[i].args
    BY <1>3, <2>5, <2>6
  <2>8. d[i] \in CallBlock /\ w[i] \in CallBlock
    BY <1>1, <1>3, ElementOfSeq
  <2>9. \A x, y \in CallBlock : x.id = y.id /\ x.name = y.name /\ x.args = y.args => x = y
    <3>1. \A x \in CallBlock : x = [is |-> "call", id |-> x.id, name |-> x.name, args |-> x.args]
      BY DEF CallBlock
    <3>2. QED
      BY <3>1
  <2>10. QED
    BY <2>7, <2>8, <2>9
<1> HIDE DEF d, n
<1>5. d = w
  BY <1>1, <1>2, <1>3, <1>4, SeqEqual DEF n
<1>6. QED
  BY <1>5 DEF d

\* A list of calls holds its calls and no words.
LEMMA OnlyCalls ==
  ASSUME NEW s \in Seq(CallBlock)
  PROVE  /\ PiecesOf(CallHere, s) = s
         /\ PiecesOf(WordsIn(Block, "text"), s) = <<>> /\ PiecesOf(WordsIn(Block, "thinking"), s) = <<>>
<1> DEFINE n == Len(s)
           First(m) == SubSeq(s, 1, m)
           Only(t) == /\ PiecesOf(CallHere, t) = t
                      /\ PiecesOf(WordsIn(Block, "text"), t) = <<>> /\ PiecesOf(WordsIn(Block, "thinking"), t) = <<>>
           T == {m \in Nat : m <= n => Only(First(m))}
<1>0. n \in Nat /\ DOMAIN s = 1..n
  BY LenProperties
<1>1. 0 \in T
  <2>1. First(0) = <<>>
    OBVIOUS
  <2>2. Only(<<>>)
    BY PiecesEmpty
  <2> HIDE DEF Only, First
  <2>3. QED
    BY <2>1, <2>2
<1>2. ASSUME NEW b \in CallBlock, NEW t \in Seq(CallBlock), Only(t) PROVE Only(t \o <<b>>)
  <2> DEFINE u == <<b>>
  <2>0. b \in Block /\ b.is = "call"
    BY CallBlocksAre
  <2>1. t \in Seq(Block) /\ u \in Seq(Block)
    BY <2>0, CallBlocksAre
  <2>2. CallHere[b] = <<b>> /\ WordsIn(Block, "text")[b] = <<>> /\ WordsIn(Block, "thinking")[b] = <<>>
    BY <2>0 DEF CallHere, WordsIn
  <2>3. /\ PiecesOf(CallHere, u) = u /\ PiecesOf(WordsIn(Block, "text"), u) = <<>>
        /\ PiecesOf(WordsIn(Block, "thinking"), u) = <<>>
    <3>1. \A S : \A f \in [Block -> Seq(S)] : PiecesOf(f, <<b>>) = f[b]
      BY <2>0, PiecesOne
    <3>2. QED
      BY <2>2, <3>1, CallBlocksAre, PieceTypes
  <2> HIDE DEF u
  <2>4. \A S : \A f \in [Block -> Seq(S)] : PiecesOf(f, t \o u) = PiecesOf(f, t) \o PiecesOf(f, u)
    BY <2>1, PiecesConcat
  <2>5. PiecesOf(CallHere, t \o u) = PiecesOf(CallHere, t) \o PiecesOf(CallHere, u)
    BY <2>4, CallBlocksAre
  <2>6. /\ PiecesOf(WordsIn(Block, "text"), t \o u) = <<>> \o <<>>
        /\ PiecesOf(WordsIn(Block, "thinking"), t \o u) = <<>> \o <<>>
    BY <1>2, <2>3, <2>4, PieceTypes
  <2>7. <<>> \o <<>> = <<>>
    OBVIOUS
  <2>8. Only(t \o u)
    BY <1>2, <2>3, <2>5, <2>6, <2>7
  <2>9. QED
    BY <2>8 DEF u
<1>3. ASSUME NEW m \in Nat, m \in T PROVE m + 1 \in T
  <2> SUFFICES ASSUME m + 1 <= n PROVE Only(First(m + 1))
    BY DEF T
  <2>1. m + 1 \in 1..n /\ s[m + 1] \in CallBlock
    BY <1>0, ElementOfSeq
  <2>2. First(m) \in Seq(CallBlock)
    BY <1>0, <2>1, SubSeqProperties
  <2>3. Only(First(m))
    <3> HIDE DEF Only, First
    <3>1. QED
      BY <1>3, <2>1
  <2>4. First(m + 1) = First(m) \o <<s[m + 1]>>
    <3>1. 1 \in 1..n /\ m + 1 \in 1..n
      BY <1>0, <2>1
    <3>2. SubSeq(s, 1, m + 1) = SubSeq(s, 1, m + 1 - 1) \o <<s[m + 1]>>
      BY <3>1, SubSeqRecursiveSecond
    <3>3. m + 1 - 1 = m
      OBVIOUS
    <3>4. QED
      BY <3>2, <3>3
  <2> HIDE DEF Only, First
  <2>5. Only(First(m) \o <<s[m + 1]>>)
    BY <1>2, <2>1, <2>2, <2>3
  <2>6. QED
    BY <2>4, <2>5
<1> HIDE DEF T
<1>4. n \in T
  BY <1>0, <1>1, <1>3, Induction
<1>5. First(n) = s
  BY <1>0, SubSeqFull
<1>6. Only(First(n))
  <2> HIDE DEF Only, First, n
  <2>1. n <= n
    BY <1>0
  <2>2. QED
    BY <1>4, <2>1 DEF T
<1>7. Only(s)
  <2> HIDE DEF Only, First, n
  <2>1. QED
    BY <1>5, <1>6
<1>8. QED
  BY <1>7

\* What a block of a reply holds.
BlockHolds(s, calls, text, think) ==
  /\ s \in Seq(Block) /\ PiecesOf(CallHere, s) = calls
  /\ PiecesOf(WordsIn(Block, "text"), s) = text /\ PiecesOf(WordsIn(Block, "thinking"), s) = think

\* Two lists of blocks hold what one holds, then the other.
LEMMA BlocksJoin ==
  ASSUME NEW s, NEW calls, NEW text, NEW think, BlockHolds(s, calls, text, think),
         NEW t, NEW calls2, NEW text2, NEW think2, BlockHolds(t, calls2, text2, think2)
  PROVE  BlockHolds(s \o t, calls \o calls2, text \o text2, think \o think2)
<1>1. s \in Seq(Block) /\ t \in Seq(Block) /\ s \o t \in Seq(Block)
  BY DEF BlockHolds
<1>2. \A S : \A f \in [Block -> Seq(S)] : PiecesOf(f, s \o t) = PiecesOf(f, s) \o PiecesOf(f, t)
  BY <1>1, PiecesConcat
<1>3. PiecesOf(CallHere, s \o t) = PiecesOf(CallHere, s) \o PiecesOf(CallHere, t)
  BY <1>2, CallBlocksAre
<1>4. /\ PiecesOf(WordsIn(Block, "text"), s \o t)
           = PiecesOf(WordsIn(Block, "text"), s) \o PiecesOf(WordsIn(Block, "text"), t)
      /\ PiecesOf(WordsIn(Block, "thinking"), s \o t)
           = PiecesOf(WordsIn(Block, "thinking"), s) \o PiecesOf(WordsIn(Block, "thinking"), t)
  BY <1>2, PieceTypes
<1>5. QED
  BY <1>1, <1>3, <1>4 DEF BlockHolds

\* An optional block holds its words.
LEMMA OptionalHolds ==
  ASSUME NEW w \in Seq(Tok)
  PROVE  /\ BlockHolds(Optional(Text(w)), <<>>, w, <<>>)
         /\ BlockHolds(Optional(Thinking(w)), <<>>, <<>>, w)
<1>0. BlockHolds(<<>>, <<>>, <<>>, <<>>)
  <2>1. <<>> \in Seq(Block)
    OBVIOUS
  <2>2. QED
    BY <2>1, PiecesEmpty DEF BlockHolds
<1>1. CASE w = <<>>
  <2>1. Optional(Text(w)) = <<>> /\ Optional(Thinking(w)) = <<>>
    BY <1>1 DEF Optional, Text, Thinking
  <2>2. QED
    BY <1>0, <1>1, <2>1
<1>2. CASE w # <<>>
  <2>1. Optional(Text(w)) = <<Text(w)>> /\ Optional(Thinking(w)) = <<Thinking(w)>>
    BY <1>2 DEF Optional, Text, Thinking
  <2>2. Text(w) \in Block /\ Thinking(w) \in Block
    BY DEF Text, Thinking, Block
  <2>3. /\ CallHere[Text(w)] = <<>> /\ WordsIn(Block, "text")[Text(w)] = w
        /\ WordsIn(Block, "thinking")[Text(w)] = <<>>
        /\ CallHere[Thinking(w)] = <<>> /\ WordsIn(Block, "text")[Thinking(w)] = <<>>
        /\ WordsIn(Block, "thinking")[Thinking(w)] = w
    BY <2>2 DEF CallHere, WordsIn, Text, Thinking
  <2>4. \A S : \A f \in [Block -> Seq(S)] : PiecesOf(f, <<Text(w)>>) = f[Text(w)] /\ PiecesOf(f, <<Thinking(w)>>) = f[Thinking(w)]
    BY <2>2, PiecesOne
  <2>5. /\ PiecesOf(CallHere, <<Text(w)>>) = <<>> /\ PiecesOf(CallHere, <<Thinking(w)>>) = <<>>
    BY <2>3, <2>4, CallBlocksAre
  <2>6. /\ PiecesOf(WordsIn(Block, "text"), <<Text(w)>>) = w
        /\ PiecesOf(WordsIn(Block, "thinking"), <<Text(w)>>) = <<>>
        /\ PiecesOf(WordsIn(Block, "text"), <<Thinking(w)>>) = <<>>
        /\ PiecesOf(WordsIn(Block, "thinking"), <<Thinking(w)>>) = w
    BY <2>3, <2>4, PieceTypes
  <2>7. <<Text(w)>> \in Seq(Block) /\ <<Thinking(w)>> \in Seq(Block)
    BY <2>2
  <2>8. QED
    BY <2>1, <2>5, <2>6, <2>7 DEF BlockHolds
<1>3. QED
  BY <1>1, <1>2

\* The calls of a whole reply.
WholeOf(calls) == [i \in 1..Len(calls) |-> Call(IdOf(calls, i), calls[i].name, OrEmpty(calls[i].args))]

\* The fields of a call.
LEMMA CallIs ==
  ASSUME NEW id \in Id, NEW n \in ToolNames, NEW args \in Seq(Tok)
  PROVE  /\ Call(id, n, args) \in CallBlock /\ Call(id, n, args).id = id
         /\ Call(id, n, args).name = n /\ Call(id, n, args).args = args
BY DEF Call, CallBlock

\* Two calls of a reply never get the same ID, made up or given.
LEMMA IdsDiffer ==
  ASSUME NEW r, ReplyOK(r), NEW i \in 1..Len(r.calls), NEW j \in 1..Len(r.calls), i # j
  PROVE  IdOf(r.calls, i) # IdOf(r.calls, j)
<1>1. i \in Nat /\ j \in Nat /\ i - 1 # j - 1
  BY ReplyFacts
<1>2. r.calls[i].id \in {NoId, <<"id", i>>} /\ r.calls[j].id \in {NoId, <<"id", j>>}
  BY DEF ReplyOK
<1>3. IdOf(r.calls, i) \in {MadeUp(i - 1), <<"id", i>>} /\ IdOf(r.calls, j) \in {MadeUp(j - 1), <<"id", j>>}
  BY <1>2 DEF IdOf
<1>4. /\ MadeUp(i - 1) # MadeUp(j - 1) /\ <<"id", i>> # <<"id", j>>
      /\ MadeUp(i - 1) # <<"id", j>> /\ <<"id", i>> # MadeUp(j - 1)
  BY <1>1 DEF MadeUp
<1>5. QED
  BY <1>3, <1>4

\* The calls of a whole reply, their names and their arguments.
LEMMA WholeCallsAre ==
  ASSUME NEW r, ReplyOK(r)
  PROVE  /\ WholeOf(r.calls) \in Seq(CallBlock) /\ Len(WholeOf(r.calls)) = Len(r.calls)
         /\ OwnIds(WholeOf(r.calls))
         /\ NamesOf(r.calls) = Named(WholeOf(r.calls))
         /\ MadeOf(r.calls, Len(r.calls)) = Known(WholeOf(r.calls))
<1> DEFINE n == Len(r.calls)
           w == WholeOf(r.calls)
           b(i) == Call(IdOf(r.calls, i), r.calls[i].name, OrEmpty(r.calls[i].args))
<1>0. r.calls \in Seq(CallRecord) /\ n \in Nat
  BY ReplyFacts
<1>1. ASSUME NEW i \in 1..n
      PROVE  /\ b(i) \in CallBlock /\ b(i).id = IdOf(r.calls, i)
             /\ b(i).name = r.calls[i].name /\ b(i).args = OrEmpty(r.calls[i].args)
  BY <1>0, IdOfType, EmptyObjectType, CallIs
<1>2. w = [i \in 1..n |-> b(i)]
  BY DEF WholeOf
<1>3. w \in Seq(CallBlock) /\ Len(w) = n
  <2>1. w \in [1..n -> CallBlock]
    BY <1>1, <1>2
  <2> HIDE DEF w, n
  <2>2. QED
    BY <1>0, <2>1, SeqDef, LenProperties
<1>4. \A i \in 1..n : /\ w[i].id = IdOf(r.calls, i) /\ w[i].name = r.calls[i].name
                      /\ w[i].args = OrEmpty(r.calls[i].args)
  BY <1>1, <1>2
<1> HIDE DEF w
<1>5. OwnIds(w)
  BY <1>3, <1>4, IdsDiffer DEF OwnIds
<1>6. NamesOf(r.calls) = Named(w)
  BY <1>3, <1>4 DEF NamesOf, Named
<1>7. MadeOf(r.calls, n) = Known(w)
  BY <1>3, <1>4 DEF MadeOf, Known
<1>8. QED
  BY <1>3, <1>5, <1>6, <1>7 DEF w

\* What a whole reply holds.
LEMMA FromMessageHolds ==
  ASSUME ReplyOK(reply), reply.finished
  PROVE  LET whole == FromMessage(backend, reply) IN
         /\ Narrated(reply) => BlockHolds(whole, <<NarratedCall(reply.text)>>, <<>>, <<>>)
         /\ ~Narrated(reply) =>
              \E think : /\ BlockHolds(whole, WholeOf(reply.calls), reply.text, think)
                         /\ think = <<>> \/ think = reply.think
<1> DEFINE whole == FromMessage(backend, reply)
           w == WholeOf(reply.calls)
<1>0. reply.text \in Seq(Tok) /\ reply.think \in Seq(Tok) /\ DOMAIN reply.calls = 1..Len(reply.calls)
  BY ReplyFacts
<1>1. ASSUME Narrated(reply) PROVE BlockHolds(whole, <<NarratedCall(reply.text)>>, <<>>, <<>>)
  <2> DEFINE b == NarratedCall(reply.text)
             v == <<b>>
  <2>1. whole = v
    BY <1>1 DEF FromMessage, Narrated
  <2>2. b \in CallBlock
    <3>1. MadeUp(0) \in Id
      BY NoIdIsId
    <3>2. Trimmed(reply.text)[2] \in ToolNames
      BY <1>1, NarratedObject DEF Narrated
    <3>3. QED
      BY <3>1, <3>2, EmptyObjectType, CallIs DEF NarratedCall
  <2>3. v \in Seq(CallBlock)
    BY <2>2
  <2>4. v \in Seq(Block)
    BY <2>2, CallBlocksAre
  <2> HIDE DEF v, whole
  <2>5. BlockHolds(v, v, <<>>, <<>>)
    BY <2>3, <2>4, OnlyCalls DEF BlockHolds
  <2>6. BlockHolds(whole, v, <<>>, <<>>)
    BY <2>1, <2>5
  <2>7. QED
    BY <2>6 DEF v, whole
<1>2. ASSUME ~Narrated(reply)
      PROVE  \E think : /\ BlockHolds(whole, w, reply.text, think)
                        /\ think = <<>> \/ think = reply.think
  <2> DEFINE first == IF backend = "ollama" THEN Optional(Thinking(reply.think)) ELSE <<>>
             text == Optional(Text(reply.text))
             think == IF backend = "ollama" THEN reply.think ELSE <<>>
  <2>1. w \in Seq(CallBlock)
    BY WholeCallsAre
  <2>2. w \in Seq(Block)
    BY <2>1, CallBlocksAre
  <2>3. BlockHolds(w, w, <<>>, <<>>)
    BY <2>1, <2>2, OnlyCalls DEF BlockHolds
  <2>4. BlockHolds(text, <<>>, reply.text, <<>>)
    BY <1>0, OptionalHolds
  <2>5. BlockHolds(first, <<>>, <<>>, think)
    <3>1. CASE backend = "ollama"
      BY <1>0, <3>1, OptionalHolds
    <3>2. CASE backend # "ollama"
      <4>1. <<>> \in Seq(Block)
        OBVIOUS
      <4>2. BlockHolds(<<>>, <<>>, <<>>, <<>>)
        BY <4>1, PiecesEmpty DEF BlockHolds
      <4>3. QED
        BY <3>2, <4>2
    <3>3. QED
      BY <3>1, <3>2
  <2>6. whole = (first \o text) \o w
    <3>1. /\ w = [i \in DOMAIN reply.calls |->
                   LET c == reply.calls[i]
                   IN Call(IF c.id = NoId THEN MadeUp(i - 1) ELSE c.id, c.name, OrEmpty(c.args))]
      BY <1>0 DEF WholeOf, IdOf
    <3>2. ~(backend = "ollama" /\ reply.calls = <<>> /\ Narrates(reply.text))
      BY <1>2 DEF Narrated
    <3> HIDE DEF w
    <3>3. QED
      BY <3>1, <3>2 DEF FromMessage
  <2>a. think \in Seq(Tok)
    <3>1. <<>> \in Seq(Tok)
      OBVIOUS
    <3>2. QED
      BY <1>0, <3>1
  <2> HIDE DEF first, text, think, w, whole
  <2>7. BlockHolds(first \o text, <<>> \o <<>>, <<>> \o reply.text, think \o <<>>)
    BY <2>4, <2>5, BlocksJoin
  <2> DEFINE start == first \o text
  <2>b. whole = start \o w
    BY <2>6
  <2>8. <<>> \o <<>> = <<>> /\ <<>> \o reply.text = reply.text /\ think \o <<>> = think
        /\ reply.text \o <<>> = reply.text /\ <<>> \o w = w
    BY <1>0, <2>1, <2>a, AfterNothing
  <2>9. BlockHolds(start, <<>>, reply.text, think)
    BY <2>7, <2>8
  <2> HIDE DEF start
  <2>10. BlockHolds(start \o w, <<>> \o w, reply.text \o <<>>, think \o <<>>)
    BY <2>3, <2>9, BlocksJoin
  <2>11. BlockHolds(whole, w, reply.text, think)
    BY <2>b, <2>8, <2>10
  <2>12. think = <<>> \/ think = reply.think
    BY DEF think
  <2>13. QED
    BY <2>11, <2>12
<1>3. QED
  BY <1>1, <1>2

\* A reply that was delivered is one whose arguments are all JSON.
LEMMA NotRefused ==
  ASSUME IInv, consumer = "done"
  PROVE  /\ ~acc.error /\ ~WholeFails /\ reply.finished
         /\ Complete(reply, acc) = Len(reply.calls)
<1>1. ~acc.error
  BY DEF IInv, Refused
<1>2. reply.finished /\ AccumulatorOK(reply, acc) /\ ReplyOK(reply)
  BY <1>1 DEF IInv, Delivered, Final, Accumulated
<1>3. DOMAIN reply.calls = 1..Len(reply.calls)
  BY <1>2, ReplyFacts
<1>4. backend \in {"openai", "anthropic", "ollama"}
  BY WireAssumption DEF IInv, Types, WireAssumption
<1>5. CASE backend = "openai"
  <2>1. AllJSON(reply.calls)
    BY <1>2, <1>5 DEF AccumulatorOK, OpenAIOK
  <2>2. ~WholeFails
    BY <1>3, <2>1 DEF AllJSON, WholeFails
  <2>3. QED
    BY <1>1, <1>2, <1>5, <2>2 DEF Complete
<1>6. CASE backend = "anthropic"
  <2>1. reply.open = {} /\ \A i \in 1..Len(reply.calls) : i \notin reply.open => IsJSON(OrEmpty(reply.calls[i].args))
    BY <1>2, <1>6 DEF AccumulatorOK, AnthropicOK
  <2>2. ~WholeFails
    BY <1>3, <2>1 DEF WholeFails
  <2>3. QED
    BY <1>1, <1>2, <1>6, <2>1, <2>2 DEF Complete
<1>7. CASE backend = "ollama"
  <2>1. \A i \in 1..Len(reply.calls) : IsJSON(reply.calls[i].args)
    BY <1>2, <1>7 DEF AccumulatorOK, OllamaOK
  <2>2. \A i \in 1..Len(reply.calls) : IsJSON(OrEmpty(reply.calls[i].args))
    BY <2>1, EmptyObjectType DEF IsJSON, OrEmpty
  <2>3. ~WholeFails
    BY <1>3, <2>2 DEF WholeFails
  <2>4. QED
    BY <1>1, <1>2, <1>7, <2>3 DEF Complete
<1>8. QED
  BY <1>4, <1>5, <1>6, <1>7

\* The invariant implies StreamedIsWhole.
LEMMA WholeTold == ASSUME IInv PROVE StreamedIsWhole
<1> DEFINE whole == FromMessage(backend, reply)
           w == IF Narrated(reply) THEN <<NarratedCall(reply.text)>> ELSE WholeOf(reply.calls)
<1>1. acc.error => WholeFails
  BY DEF IInv, Refused
<1>2. ASSUME consumer = "done"
      PROVE  /\ ~WholeFails
             /\ Calls(col.blocks) = Calls(whole)
             /\ \A i, j \in DOMAIN Calls(whole) : i # j => Calls(whole)[i].id # Calls(whole)[j].id
             /\ Words(col.blocks, "text") = Words(whole, "text")
             /\ Words(whole, "thinking") \in {<<>>, Words(col.blocks, "thinking")}
             /\ col.usage = FromUsage(backend, reply)
  <2>1. ~acc.error /\ ~WholeFails /\ reply.finished /\ Complete(reply, acc) = Len(reply.calls)
    BY <1>2, NotRefused
  <2>2. /\ col \in Collection /\ ReplyOK(reply) /\ BlocksNamed(col) /\ Conveys(col, <<>>, reply, acc)
        /\ col.text = <<>> /\ col.think = <<>> /\ col.usage = FromUsage(backend, reply)
    BY <1>2 DEF IInv, Types, Delivered
  <2>3. /\ col.names = TheNames(reply) /\ PiecesOf(CallIn, col.blocks) = TheMade(reply, acc)
        /\ TextOf(col) = TheText(reply, acc) /\ ThoughtOf(col) = reply.think
    BY <2>2, DeliveredSoFar
  <2>4. /\ col.blocks \in Seq(Block) /\ PiecesOf(WordsIn(Block, "text"), col.blocks) \in Seq(Tok)
        /\ PiecesOf(WordsIn(Block, "thinking"), col.blocks) \in Seq(Tok)
    BY <2>2, CollectionType
  <2>5. /\ Words(col.blocks, "text") = TheText(reply, acc)
        /\ Words(col.blocks, "thinking") = reply.think
    <3>1. /\ Words(col.blocks, "text") = PiecesOf(WordsIn(Block, "text"), col.blocks)
          /\ Words(col.blocks, "thinking") = PiecesOf(WordsIn(Block, "thinking"), col.blocks)
      BY <2>4, WordsArePieces
    <3>2. /\ TextOf(col) = PiecesOf(WordsIn(Block, "text"), col.blocks) \o col.text
          /\ ThoughtOf(col) = PiecesOf(WordsIn(Block, "thinking"), col.blocks) \o col.think
      BY DEF TextOf, ThoughtOf
    <3>3. QED
      BY <2>2, <2>3, <2>4, <3>1, <3>2, AfterNothing
  <2>6. /\ w \in Seq(CallBlock) /\ OwnIds(w) /\ TheNames(reply) = Named(w) /\ TheMade(reply, acc) = Known(w)
    <3>1. CASE Narrated(reply)
      <4> DEFINE b == NarratedCall(reply.text)
                 v == <<b>>
                 n == Trimmed(reply.text)[2]
      <4>1. b \in CallBlock /\ b.id = MadeUp(0) /\ b.name = n /\ b.args = EmptyObject
        <5>1. MadeUp(0) \in Id
          BY NoIdIsId
        <5>2. n \in ToolNames
          BY <3>1, NarratedObject DEF Narrated
        <5>3. QED
          BY <5>1, <5>2, EmptyObjectType, CallIs DEF NarratedCall
      <4> HIDE DEF b, n
      <4>2. v \in Seq(CallBlock) /\ Len(v) = 1 /\ v[1] = b
        BY <4>1
      <4>3. OwnIds(v)
        BY <4>2 DEF OwnIds
      <4>4. Named(v) = <<<<MadeUp(0), n>>>>
        <5> DEFINE d == <<MadeUp(0), n>>
        <5>1. <<v[1].id, v[1].name>> = d
          BY <4>1, <4>2
        <5> HIDE DEF d, v
        <5>2. Named(v) = [i \in 1..1 |-> d]
          BY <4>2, <5>1 DEF Named
        <5>3. QED
          BY <5>2 DEF d
      <4>5. Known(v) = <<<<MadeUp(0), EmptyObject>>>>
        <5> DEFINE d == <<MadeUp(0), EmptyObject>>
        <5>1. <<v[1].id, v[1].args>> = d
          BY <4>1, <4>2
        <5> HIDE DEF d, v
        <5>2. Known(v) = [i \in 1..1 |-> d]
          BY <4>2, <5>1 DEF Known
        <5>3. QED
          BY <5>2 DEF d
      <4>6. w = v /\ TheNames(reply) = <<<<MadeUp(0), n>>>> /\ TheMade(reply, acc) = <<<<MadeUp(0), EmptyObject>>>>
        BY <3>1 DEF TheNames, TheMade, b, n
      <4> HIDE DEF w, v
      <4>7. QED
        BY <4>2, <4>3, <4>4, <4>5, <4>6
    <3>2. CASE ~Narrated(reply)
      <4>1. w = WholeOf(reply.calls) /\ TheNames(reply) = NamesOf(reply.calls)
            /\ TheMade(reply, acc) = MadeOf(reply.calls, Len(reply.calls))
        BY <2>1, <3>2 DEF TheNames, TheMade
      <4> HIDE DEF w
      <4>2. QED
        BY <2>2, <4>1, WholeCallsAre
    <3>3. QED
      BY <3>1, <3>2
  <2>7. PICK think : /\ BlockHolds(whole, w, TheText(reply, acc), think)
                     /\ think = <<>> \/ think = reply.think
    <3>1. TheText(reply, acc) = IF Narrated(reply) THEN <<>> ELSE reply.text
      BY <2>1 DEF TheText
    <3>2. CASE Narrated(reply)
      <4>1. w = <<NarratedCall(reply.text)>>
        BY <3>2
      <4> HIDE DEF w, whole
      <4>2. BlockHolds(FromMessage(backend, reply), <<NarratedCall(reply.text)>>, <<>>, <<>>)
        BY <2>1, <2>2, <3>2, FromMessageHolds
      <4>3. QED
        BY <3>1, <3>2, <4>1, <4>2 DEF whole
    <3>3. CASE ~Narrated(reply)
      <4>1. w = WholeOf(reply.calls)
        BY <3>3
      <4>2. PICK think : /\ BlockHolds(FromMessage(backend, reply), WholeOf(reply.calls), reply.text, think)
                         /\ think = <<>> \/ think = reply.think
        BY <2>1, <2>2, <3>3, FromMessageHolds
      <4> HIDE DEF w, whole
      <4>3. QED
        BY <3>1, <3>3, <4>1, <4>2 DEF whole
    <3>4. QED
      BY <3>2, <3>3
  <2> HIDE DEF w, whole
  <2>8. Calls(col.blocks) = w
    BY <2>2, <2>3, <2>6, KnownByIds
  <2>9. whole \in Seq(Block)
    BY <2>7 DEF BlockHolds
  <2>10. Calls(whole) = w
    BY <2>7, <2>9, CallsArePieces DEF BlockHolds
  <2>11. /\ Words(whole, "text") = TheText(reply, acc) /\ Words(whole, "thinking") = think
    BY <2>7, <2>9, WordsArePieces DEF BlockHolds
  <2>12. \A i, j \in DOMAIN w : i # j => w[i].id # w[j].id
    BY <2>6, LenProperties DEF OwnIds
  <2>13. QED
    BY <2>1, <2>2, <2>5, <2>7, <2>8, <2>10, <2>11, <2>12
<1>3. QED
  BY <1>1, <1>2 DEF StreamedIsWhole

\* StreamedIsWhole: a reply that streamed is the reply in one piece, with the same
\* words, calls, IDs and usage, and it is refused only if the whole one is.
THEOREM StreamIsTheWhole == Spec => []StreamedIsWhole
BY Invariant, WholeTold, PTL
-----------------------------------------------------------------------------
(* RequestsAreWellFormed. *)

\* The messages of a request, and what each message of a conversation becomes.
WireType == [role : {"user", "assistant", "tool"}, text : BOOLEAN, uses : Seq(Ids), answers : Seq(Ids)]
WireOf(b) == [m \in Message |-> ToMessages(b, m)]

\* A message on the wire.
LEMMA WireMessageType ==
  ASSUME NEW r \in {"user", "assistant", "tool"}, NEW t \in BOOLEAN, NEW u \in Seq(Ids), NEW a \in Seq(Ids)
  PROVE  WireMessage(r, t, u, a) \in WireType
BY DEF WireMessage, WireType

\* What one message becomes.
LEMMA MessagesTyped ==
  ASSUME NEW b, NEW m \in Message
  PROVE  ToMessages(b, m) \in Seq(WireType)
<1>1. /\ m.role \in {"user", "assistant"} /\ m.thinking \in BOOLEAN /\ HasText(m) \in BOOLEAN
      /\ m.uses \in Seq(Ids) /\ m.results \in Seq(Ids) /\ <<>> \in Seq(Ids)
  BY DEF Message, Roles, HasText
<1>3. ToParam(m) \in Seq(WireType)
  <2> DEFINE w == WireMessage(m.role, HasText(m) \/ m.thinking, m.uses, m.results)
  <2>0. (HasText(m) \/ m.thinking) \in BOOLEAN
    OBVIOUS
  <2>1. w \in WireType
    BY <1>1, <2>0, WireMessageType
  <2> HIDE DEF w
  <2>2. <<w>> \in Seq(WireType)
    BY <2>1
  <2>3. QED
    BY <2>2 DEF ToParam, w
<1>4. ToAssistantMessages(m) \in Seq(WireType)
  <2> DEFINE w == WireMessage("assistant", HasText(m) \/ m.thinking, m.uses, NoAnswer)
  <2>0. (HasText(m) \/ m.thinking) \in BOOLEAN
    OBVIOUS
  <2>1. w \in WireType
    BY <1>1, <2>0, WireMessageType DEF NoAnswer
  <2> HIDE DEF w
  <2>2. <<w>> \in Seq(WireType)
    BY <2>1
  <2>3. QED
    BY <2>2 DEF ToAssistantMessages, w
<1>5. ToUserMessages(m) \in Seq(WireType)
  <2> DEFINE n == Len(m.results)
             A(i) == WireMessage("tool", TRUE, <<>>, <<m.results[i]>>)
             t == [i \in 1..n |-> A(i)]
             w == WireMessage("user", TRUE, <<>>, NoAnswer)
             h == IF HasText(m) THEN <<w>> ELSE <<>>
  <2>1. n \in Nat /\ DOMAIN m.results = 1..n
    BY <1>1
  <2>2. ASSUME NEW i \in 1..n PROVE A(i) \in WireType
    <3> DEFINE a == <<m.results[i]>>
    <3>1. a \in Seq(Ids)
      BY <1>1, <2>1
    <3> HIDE DEF a
    <3>2. WireMessage("tool", TRUE, <<>>, a) \in WireType
      BY <1>1, <3>1, WireMessageType
    <3>3. QED
      BY <3>2 DEF a
  <2>3. w \in WireType
    BY <1>1, WireMessageType DEF NoAnswer
  <2> HIDE DEF A, w, n
  <2>4. t \in Seq(WireType)
    BY <2>1, <2>2
  <2>5. h \in Seq(WireType)
    BY <2>3
  <2>6. ToUserMessages(m) = h \o t
    BY <2>1 DEF ToUserMessages, h, t, A, w, n
  <2> HIDE DEF h, t
  <2>7. QED
    BY <2>4, <2>5, <2>6
<1>6. QED
  BY <1>3, <1>4, <1>5 DEF ToMessages

\* A request is made message by message.
LEMMA RequestsMake ==
  ASSUME NEW b
  PROVE  /\ \A s \in Seq(Message) : ToRequest(b, s) \in Seq(WireType)
         /\ ToRequest(b, <<>>) = <<>>
         /\ \A m \in Message : ToRequest(b, <<m>>) = ToMessages(b, m)
         /\ \A s, t \in Seq(Message) : ToRequest(b, s \o t) = ToRequest(b, s) \o ToRequest(b, t)
<1> DEFINE f == WireOf(b)
<1>1. f \in [Message -> Seq(WireType)]
  BY MessagesTyped DEF WireOf
<1>2. \A s \in Seq(Message) : ToRequest(b, s) = PiecesOf(f, s)
  <2> TAKE s \in Seq(Message)
  <2>1. DOMAIN s = 1..Len(s) /\ \A i \in 1..Len(s) : s[i] \in Message
    OBVIOUS
  <2>2. [i \in DOMAIN s |-> ToMessages(b, s[i])] = Mapped(f, s)
    BY <2>1 DEF Mapped, WireOf
  <2>3. QED
    BY <2>2 DEF ToRequest, PiecesOf
<1>3. \A m \in Message : f[m] = ToMessages(b, m)
  BY DEF WireOf
<1> HIDE DEF f
<1>4. \A s \in Seq(Message) : PiecesOf(f, s) \in Seq(WireType)
  BY <1>1, PiecesType
<1>5. \A m \in Message : PiecesOf(f, <<m>>) = f[m]
  BY <1>1, PiecesOne
<1>6. \A s, t \in Seq(Message) : PiecesOf(f, s \o t) = PiecesOf(f, s) \o PiecesOf(f, t)
  BY <1>1, PiecesConcat
<1>7. PiecesOf(f, <<>>) = <<>>
  BY PiecesEmpty
<1>8. <<>> \in Seq(Message) /\ \A m \in Message : <<m>> \in Seq(Message)
  OBVIOUS
<1>9. \A s, t \in Seq(Message) : s \o t \in Seq(Message)
  OBVIOUS
<1>10. \A s \in Seq(Message) : ToRequest(b, s) \in Seq(WireType)
  BY <1>2, <1>4
<1>11. ToRequest(b, <<>>) = <<>>
  BY <1>2, <1>7, <1>8
<1>12. \A m \in Message : ToRequest(b, <<m>>) = ToMessages(b, m)
  BY <1>2, <1>3, <1>5, <1>8
<1>13. \A s, t \in Seq(Message) : ToRequest(b, s \o t) = ToRequest(b, s) \o ToRequest(b, t)
  BY <1>2, <1>6, <1>9
<1>14. QED
  BY <1>10, <1>11, <1>12, <1>13

\* The last of the messages that answer message i at once.
LastAnswer(w, i, j) ==
  /\ j \in i..Len(w) /\ \A k \in i + 1..j : w[k].answers # NoAnswer
  /\ j = Len(w) \/ w[j + 1].answers = NoAnswer

AnswersOf(w, i, j) == FlattenSeq([k \in 1..j - i |-> w[i + k].answers])

\* Results, by the last answer.
LEMMA ResultsAre ==
  ASSUME NEW w, Len(w) \in Nat, NEW i \in 1..Len(w), NEW j, LastAnswer(w, i, j)
  PROVE  Results(w, i) = AnswersOf(w, i, j)
<1> DEFINE last == CHOOSE h \in i..Len(w) : /\ \A k \in i + 1..h : w[k].answers # NoAnswer
                                            /\ h = Len(w) \/ w[h + 1].answers = NoAnswer
<1>1. j \in i..Len(w) /\ (\A k \in i + 1..j : w[k].answers # NoAnswer) /\ (j = Len(w) \/ w[j + 1].answers = NoAnswer)
  BY DEF LastAnswer
<1>2. last \in i..Len(w) /\ (\A k \in i + 1..last : w[k].answers # NoAnswer)
      /\ (last = Len(w) \/ w[last + 1].answers = NoAnswer)
  BY <1>1
<1>3. Results(w, i) = AnswersOf(w, i, last)
  BY DEF Results, AnswersOf
<1> HIDE DEF last
<1>4. ~(last < j)
  <2>1. SUFFICES ASSUME last < j PROVE FALSE
    OBVIOUS
  <2>2. last + 1 \in i + 1..j /\ last # Len(w)
    BY <1>1, <1>2, <2>1
  <2>3. QED
    BY <1>1, <1>2, <2>2
<1>5. ~(j < last)
  <2>1. SUFFICES ASSUME j < last PROVE FALSE
    OBVIOUS
  <2>2. j + 1 \in i + 1..last /\ j # Len(w)
    BY <1>1, <1>2, <2>1
  <2>3. w[j + 1].answers # NoAnswer
    BY <1>2, <2>2
  <2>4. QED
    BY <1>1, <2>2, <2>3
<1>6. last = j
  BY <1>1, <1>2, <1>4, <1>5
<1>7. QED
  BY <1>3, <1>6

\* There always is a last answer.
LEMMA LastAnswerExists ==
  ASSUME NEW w, Len(w) \in Nat, NEW i \in 1..Len(w)
  PROVE  \E j : LastAnswer(w, i, j)
<1> DEFINE T == {j \in i..Len(w) : j = Len(w) \/ w[j + 1].answers = NoAnswer}
<1>1. T \subseteq Nat /\ Len(w) \in T
  OBVIOUS
<1>2. PICK j \in T : \A h \in T : j <= h
  BY <1>1, LeastExists
<1>3. \A k \in i + 1..j : w[k].answers # NoAnswer
  <2> SUFFICES ASSUME NEW k \in i + 1..j, w[k].answers = NoAnswer PROVE FALSE
    OBVIOUS
  <2>1. k - 1 \in i..Len(w) /\ (k - 1) + 1 = k /\ k - 1 < j
    BY <1>2
  <2>2. k - 1 \in T
    BY <2>1
  <2> HIDE DEF T
  <2>3. j <= k - 1 /\ j \in Nat /\ k - 1 \in Nat
    BY <1>1, <1>2, <2>2
  <2>4. QED
    BY <2>1, <2>3
<1>4. QED
  BY <1>2, <1>3 DEF LastAnswer

\* Two requests in order make one, if the second does not begin with an answer.
LEMMA RequestsJoin ==
  ASSUME NEW w \in Seq(WireType), NEW t \in Seq(WireType), AnswersFollowCalls(w), AnswersFollowCalls(t),
         t # <<>> => t[1].answers = NoAnswer
  PROVE  AnswersFollowCalls(w \o t)
<1> DEFINE u == w \o t
           n == Len(w)
           m == Len(t)
<1>1. /\ n \in Nat /\ m \in Nat /\ Len(u) = n + m /\ DOMAIN u = 1..n + m /\ DOMAIN w = 1..n /\ DOMAIN t = 1..m
      /\ (\A i \in 1..n : u[i] = w[i]) /\ (\A i \in 1..m : u[n + i] = t[i])
  OBVIOUS
<1> HIDE DEF u
<1>2. ASSUME NEW i \in 1..n + m, u[i].role = "assistant" PROVE Results(u, i) = u[i].uses
  <2>1. CASE i <= n
    <3>1. i \in 1..n /\ w[i] = u[i] /\ i \in 1..Len(u)
      BY <1>1, <2>1
    <3>2. PICK j : LastAnswer(w, i, j)
      BY <1>1, <3>1, LastAnswerExists
    <3>3. j \in i..n /\ (\A k \in i + 1..j : w[k].answers # NoAnswer) /\ (j = n \/ w[j + 1].answers = NoAnswer)
      BY <3>2 DEF LastAnswer
    <3>9. n \in Nat /\ m \in Nat /\ Len(u) = n + m /\ i \in 1..n
      BY <1>1, <3>1
    <3> HIDE DEF n, m
    <3>10. i \in Nat /\ j \in Nat /\ i <= j /\ j <= n
      BY <3>3, <3>9
    <3>0. i \in Nat /\ j \in Nat /\ i <= j /\ j <= n /\ n \in Nat /\ m \in Nat /\ Len(u) = n + m
      BY <3>9, <3>10
    <3>4. LastAnswer(u, i, j)
      <4>1. \A k \in i + 1..j : u[k].answers # NoAnswer
        <5> SUFFICES ASSUME NEW k \in i + 1..j PROVE u[k].answers # NoAnswer
          OBVIOUS
        <5>1. k \in 1..n
          BY <3>0
        <5>2. u[k] = w[k]
          BY <1>1, <5>1
        <5>3. QED
          BY <3>3, <5>2
      <4>2. j \in i..Len(u)
        BY <3>0
      <4>3. CASE j < n
        <5>0. j + 1 \in 1..n
          BY <3>0, <4>3
        <5>1. u[j + 1] = w[j + 1] /\ j # n
          BY <1>1, <4>3, <3>0, <5>0
        <5>2. QED
          BY <3>3, <4>1, <4>2, <4>3, <5>1 DEF LastAnswer
      <4>4. CASE j = n /\ m = 0
        <5>1. j = Len(u)
          BY <3>0, <4>4
        <5>2. QED
          BY <4>1, <4>2, <5>1 DEF LastAnswer
      <4>5. CASE j = n /\ m # 0
        <5>0. 1 \in 1..m
          BY <3>0, <4>5
        <5>1. u[j + 1] = t[1] /\ t # <<>>
          BY <1>1, <4>5, <5>0 DEF m
        <5>2. QED
          BY <4>1, <4>2, <5>1 DEF LastAnswer
      <4>6. QED
        BY <3>0, <4>3, <4>4, <4>5
    <3>5. AnswersOf(u, i, j) = AnswersOf(w, i, j)
      <4>1. \A k \in 1..j - i : u[i + k] = w[i + k]
        <5> SUFFICES ASSUME NEW k \in 1..j - i PROVE u[i + k] = w[i + k]
          OBVIOUS
        <5> DEFINE g == i + k
        <5>1. g \in 1..n
          BY <3>0
        <5> HIDE DEF g
        <5>2. u[g] = w[g]
          BY <1>1, <5>1
        <5>3. QED
          BY <5>2 DEF g
      <4>2. [k \in 1..j - i |-> u[i + k].answers] = [k \in 1..j - i |-> w[i + k].answers]
        BY <4>1
      <4>3. QED
        BY <4>2 DEF AnswersOf
    <3>6. Results(u, i) = AnswersOf(u, i, j) /\ Results(w, i) = AnswersOf(w, i, j)
      BY <1>1, <3>1, <3>2, <3>4, ResultsAre
    <3>7. Results(w, i) = w[i].uses
      BY <1>1, <1>2, <3>1 DEF AnswersFollowCalls
    <3>11. QED
      BY <3>1, <3>5, <3>6, <3>7
  <2>2. CASE ~(i <= n)
    <3> DEFINE h == i - n
    <3>1. h \in 1..m /\ u[i] = t[h] /\ i \in 1..Len(u) /\ i = n + h
      BY <1>1, <2>2
    <3> HIDE DEF h
    <3>2. PICK j : LastAnswer(t, h, j)
      BY <1>1, <3>1, LastAnswerExists
    <3>0. h \in Nat /\ i \in Nat /\ n \in Nat /\ m \in Nat /\ Len(u) = n + m /\ i = n + h /\ 1 <= h
      BY <1>1, <3>1
    <3>3. j \in h..m /\ (\A k \in h + 1..j : t[k].answers # NoAnswer) /\ (j = m \/ t[j + 1].answers = NoAnswer)
      BY <3>2 DEF LastAnswer
    <3>10. j \in Nat /\ h <= j /\ j <= m
      BY <3>0, <3>3
    <3> DEFINE l == n + j
    <3> HIDE DEF n, m
    <3>4. LastAnswer(u, i, l)
      <4>1. \A k \in i + 1..l : u[k].answers # NoAnswer
        <5> SUFFICES ASSUME NEW k \in i + 1..l PROVE u[k].answers # NoAnswer
          OBVIOUS
        <5> DEFINE g == k - n
        <5>1. g \in h + 1..j /\ g \in 1..m /\ k = n + g
          BY <3>0, <3>10
        <5> HIDE DEF g
        <5>2. u[k] = t[g]
          BY <1>1, <5>1
        <5>3. QED
          BY <3>3, <5>1, <5>2
      <4>2. l \in i..Len(u)
        BY <3>0, <3>10
      <4>3. CASE j = m
        <5>1. l = Len(u)
          BY <3>0, <3>10, <4>3
        <5>2. QED
          BY <4>1, <4>2, <5>1 DEF LastAnswer
      <4>4. CASE j # m
        <5> DEFINE g == j + 1
        <5>1. g \in 1..m /\ l + 1 = n + g
          BY <3>0, <3>10, <4>4
        <5>0. t[g].answers = NoAnswer
          BY <3>3, <4>4
        <5> HIDE DEF g
        <5>2. u[n + g] = t[g]
          BY <1>1, <5>1
        <5>3. u[l + 1].answers = NoAnswer
          BY <5>0, <5>1, <5>2
        <5>4. QED
          BY <4>1, <4>2, <5>3 DEF LastAnswer
      <4>5. QED
        BY <4>3, <4>4
    <3>5. AnswersOf(u, i, l) = AnswersOf(t, h, j)
      <4>1. ASSUME NEW k \in 1..j - h PROVE u[i + k] = t[h + k]
        <5> DEFINE g == h + k
        <5>1. g \in 1..m /\ i + k = n + g
          BY <3>0, <3>10
        <5> HIDE DEF g
        <5>2. u[n + g] = t[g]
          BY <1>1, <5>1
        <5>3. QED
          BY <5>1, <5>2 DEF g
      <4>2. l - i = j - h
        BY <3>0, <3>10
      <4>3. [k \in 1..l - i |-> u[i + k].answers] = [k \in 1..j - h |-> t[h + k].answers]
        BY <4>1, <4>2
      <4>4. QED
        BY <4>3 DEF AnswersOf
    <3>6. Results(u, i) = AnswersOf(u, i, l)
      BY <1>1, <3>1, <3>4, ResultsAre
    <3>7. Results(t, h) = AnswersOf(t, h, j)
      <4>1. Len(t) \in Nat /\ h \in 1..Len(t)
        BY <3>0, <3>1 DEF m
      <4>2. QED
        BY <4>1, <3>2, ResultsAre
    <3>8. Results(t, h) = t[h].uses
      BY <1>1, <1>2, <3>1 DEF AnswersFollowCalls
    <3>9. QED
      BY <3>1, <3>5, <3>6, <3>7, <3>8
  <2>3. QED
    BY <2>1, <2>2
<1>3. ASSUME NEW i \in 1..n + m, u[i].answers # NoAnswer
      PROVE  i > 1 /\ (u[i - 1].answers # NoAnswer \/ u[i - 1].role = "assistant")
  <2>1. CASE i <= n
    <3>1. i \in 1..n /\ w[i] = u[i]
      BY <1>1, <2>1
    <3>2. i > 1 /\ (w[i - 1].answers # NoAnswer \/ w[i - 1].role = "assistant")
      BY <1>1, <1>3, <3>1 DEF AnswersFollowCalls
    <3>3. w[i - 1] = u[i - 1]
      BY <1>1, <3>1, <3>2
    <3>4. QED
      BY <3>2, <3>3
  <2>2. CASE ~(i <= n)
    <3> DEFINE h == i - n
    <3>1. h \in 1..m /\ u[i] = t[h] /\ i = n + h
      BY <1>1, <2>2
    <3> HIDE DEF h
    <3>2. h > 1 /\ (t[h - 1].answers # NoAnswer \/ t[h - 1].role = "assistant")
      BY <1>1, <1>3, <3>1 DEF AnswersFollowCalls
    <3> DEFINE g == h - 1
    <3>3. g \in 1..m /\ i - 1 = n + g /\ i > 1
      BY <1>1, <3>1, <3>2
    <3>4. t[g].answers # NoAnswer \/ t[g].role = "assistant"
      BY <3>2
    <3> HIDE DEF g
    <3>5. u[n + g] = t[g]
      BY <1>1, <3>3
    <3>6. QED
      BY <3>3, <3>4, <3>5
  <2>3. QED
    BY <2>1, <2>2
<1>4. QED
  BY <1>1, <1>2, <1>3 DEF u, AnswersFollowCalls

\* A sequence in pieces of one is itself.
LEMMA FlattenSingly ==
  ASSUME NEW S, NEW s \in Seq(S)
  PROVE  FlattenSeq([i \in 1..Len(s) |-> <<s[i]>>]) = s
<1> DEFINE m == [x \in S |-> <<x>>]
           n == Len(s)
           First(k) == SubSeq(s, 1, k)
           T == {k \in Nat : k <= n => PiecesOf(m, First(k)) = First(k)}
<1>0. n \in Nat /\ DOMAIN s = 1..n /\ (\A i \in 1..n : s[i] \in S)
  OBVIOUS
<1>1. m \in [S -> Seq(S)] /\ \A x \in S : m[x] = <<x>> /\ <<x>> \in Seq(S)
  OBVIOUS
<1>2. \A k \in 0..n : First(k) \in Seq(S)
  BY <1>0
<1>3. 0 \in T
  <2>1. First(0) = <<>>
    OBVIOUS
  <2> HIDE DEF First, m
  <2>2. PiecesOf(m, First(0)) = First(0)
    BY <2>1, PiecesEmpty
  <2>3. QED
    BY <2>2
<1>4. ASSUME NEW k \in Nat, k \in T PROVE k + 1 \in T
  <2> SUFFICES ASSUME k + 1 <= n PROVE PiecesOf(m, First(k + 1)) = First(k + 1)
    OBVIOUS
  <2>1. k \in 0..n /\ k + 1 \in 1..n /\ 1 \in 1..n /\ k + 1 \in 1..n
    BY <1>0
  <2>2. First(k + 1) = First(k) \o <<s[k + 1]>>
    <3>1. SubSeq(s, 1, k + 1) = SubSeq(s, 1, (k + 1) - 1) \o <<s[k + 1]>>
      BY <2>1, SubSeqRecursiveSecond
    <3>2. (k + 1) - 1 = k
      OBVIOUS
    <3>3. QED
      BY <3>1, <3>2
  <2> HIDE DEF First, m
  <2>3. PiecesOf(m, First(k)) = First(k)
    BY <1>4, <2>1
  <2> DEFINE d == <<s[k + 1]>>
             f == First(k)
  <2>4. s[k + 1] \in S /\ d \in Seq(S) /\ f \in Seq(S)
    BY <1>0, <1>1, <1>2, <2>1
  <2>5. PiecesOf(m, d) = m[s[k + 1]]
    BY <1>1, <2>4, PiecesOne
  <2>6. m[s[k + 1]] = d
    BY <1>1, <2>4
  <2> HIDE DEF d, f
  <2>10. \A D : \A g \in [S -> Seq(D)] : \A x, y \in Seq(S) : PiecesOf(g, x \o y) = PiecesOf(g, x) \o PiecesOf(g, y)
    BY PiecesConcat
  <2>9. \A x, y \in Seq(S) : PiecesOf(m, x \o y) = PiecesOf(m, x) \o PiecesOf(m, y)
    BY <1>1, <2>10
  <2>7. PiecesOf(m, f \o d) = PiecesOf(m, f) \o PiecesOf(m, d)
    BY <2>4, <2>9
  <2>8. QED
    BY <2>2, <2>3, <2>5, <2>6, <2>7 DEF f, d
<1> HIDE DEF T
<1>5. n \in T
  BY <1>0, <1>3, <1>4, Induction
<1>6. First(n) = s
  BY SubSeqFull
<1>7. PiecesOf(m, s) = s
  <2> HIDE DEF First, m, n
  <2>1. n <= n
    BY <1>0
  <2>2. QED
    BY <1>5, <1>6, <2>1 DEF T
<1>8. Mapped(m, s) = [i \in 1..Len(s) |-> <<s[i]>>]
  BY <1>0 DEF Mapped
<1>9. QED
  BY <1>7, <1>8 DEF PiecesOf

\* A message without calls, and no answer.
LEMMA PlainFollows ==
  ASSUME NEW w \in WireType, w.uses = <<>>, w.answers = NoAnswer
  PROVE  AnswersFollowCalls(<<w>>)
<1> DEFINE u == <<w>>
<1>1. Len(u) = 1 /\ DOMAIN u = {1} /\ u[1] = w
  OBVIOUS
<1> HIDE DEF u
<1>2. Results(u, 1) = <<>>
  <2>1. 1 \in 1..Len(u) /\ Len(u) \in Nat /\ (\A k \in 1 + 1..1 : u[k].answers # NoAnswer)
    BY <1>1
  <2>2. LastAnswer(u, 1, 1)
    BY <1>1, <2>1 DEF LastAnswer
  <2>3. Results(u, 1) = AnswersOf(u, 1, 1)
    BY <2>1, <2>2, ResultsAre
  <2>4. [k \in 1..1 - 1 |-> u[1 + k].answers] = <<>>
    OBVIOUS
  <2>5. QED
    BY <2>3, <2>4, FlattenEmpty DEF AnswersOf
<1>3. QED
  BY <1>1, <1>2 DEF AnswersFollowCalls, u

\* A message with calls and messages with the answers to them.
LEMMA AnsweredFollows ==
  ASSUME NEW w \in WireType, w.role = "assistant", w.answers = NoAnswer,
         NEW t \in Seq(WireType), \A k \in 1..Len(t) : t[k].answers # NoAnswer /\ t[k].role # "assistant",
         FlattenSeq([k \in 1..Len(t) |-> t[k].answers]) = w.uses
  PROVE  AnswersFollowCalls(<<w>> \o t)
<1> DEFINE u == <<w>> \o t
           n == Len(t)
<1>1. n \in Nat /\ Len(u) = n + 1 /\ DOMAIN u = 1..n + 1 /\ u[1] = w /\ (\A k \in 1..n : u[1 + k] = t[k])
  <2>1. <<w>> \in Seq(WireType) /\ Len(<<w>>) = 1 /\ <<w>>[1] = w
    OBVIOUS
  <2>2. QED
    BY <2>1
<1> HIDE DEF u, n
<1>2. \A i \in 2..n + 1 : u[i].answers # NoAnswer /\ u[i].role # "assistant"
  <2> TAKE i \in 2..n + 1
  <2> DEFINE k == i - 1
  <2>1. k \in 1..n /\ i = 1 + k
    BY <1>1
  <2> HIDE DEF k
  <2>2. u[i] = t[k]
    BY <1>1, <2>1
  <2>3. QED
    BY <2>1, <2>2 DEF n
<1>3. Results(u, 1) = w.uses
  <2>0. n + 1 \in Nat /\ 1 \in 1..n + 1 /\ n + 1 \in 1..n + 1 /\ (n + 1) - 1 = n
    BY <1>1
  <2>1. \A k \in 1 + 1..n + 1 : u[k].answers # NoAnswer
    BY <1>2
  <2>2. LastAnswer(u, 1, n + 1)
    BY <1>1, <2>0, <2>1 DEF LastAnswer
  <2>3. Results(u, 1) = AnswersOf(u, 1, n + 1)
    BY <1>1, <2>0, <2>2, ResultsAre
  <2>4. [k \in 1..(n + 1) - 1 |-> u[1 + k].answers] = [k \in 1..n |-> t[k].answers]
    BY <1>1, <2>0
  <2>5. QED
    BY <2>3, <2>4 DEF AnswersOf, n
<1>4. \A i \in 1..n + 1 : i = 1 \/ i \in 2..n + 1
  BY <1>1
<1>5. ASSUME NEW i \in DOMAIN u, u[i].role = "assistant" PROVE Results(u, i) = u[i].uses
  BY <1>1, <1>2, <1>3, <1>4, <1>5
<1>6. ASSUME NEW i \in DOMAIN u, u[i].answers # NoAnswer
      PROVE  i > 1 /\ (u[i - 1].answers # NoAnswer \/ u[i - 1].role = "assistant")
  <2>1. i \in 2..n + 1
    BY <1>1, <1>4, <1>6
  <2> DEFINE k == i - 1
  <2>2. k \in 1..n + 1 /\ i > 1
    BY <1>1, <2>1
  <2> HIDE DEF k
  <2>3. u[k].answers # NoAnswer \/ u[k].role = "assistant"
    BY <1>1, <1>2, <1>4, <2>2
  <2>4. QED
    BY <2>2, <2>3 DEF k
<1>7. QED
  BY <1>5, <1>6 DEF AnswersFollowCalls, u

\* Some message of a request has words of the user or the model.
HasSpeech(w) == \E i \in 1..Len(w) : w[i].text /\ w[i].role # "tool"

\* What begins a piece of a request is not an answer.
Opens(w) == w # <<>> => w[1].answers = NoAnswer

\* A message that neither calls nor answers.
LEMMA PlainMessage ==
  ASSUME NEW b, NEW m \in Message, m.uses = <<>>, m.results = <<>>
  PROVE  /\ AnswersFollowCalls(ToMessages(b, m)) /\ Opens(ToMessages(b, m))
         /\ HasText(m) => HasSpeech(ToMessages(b, m))
<1> DEFINE G(w) == AnswersFollowCalls(w) /\ Opens(w) /\ (HasText(m) => HasSpeech(w))
<1>0. /\ m.role \in {"user", "assistant"} /\ m.thinking \in BOOLEAN /\ HasText(m) \in BOOLEAN
      /\ <<>> \in Seq(Ids) /\ (HasText(m) \/ m.thinking) \in BOOLEAN
  BY DEF Message, Roles, HasText
<1>1. ASSUME NEW r \in {"user", "assistant"}, NEW t \in BOOLEAN, HasText(m) => t
      PROVE  G(<<WireMessage(r, t, <<>>, <<>>)>>)
  <2> DEFINE w == WireMessage(r, t, <<>>, <<>>)
             u == <<w>>
  <2>1. w \in WireType
    BY <1>0, <1>1, WireMessageType
  <2>2. w.role = r /\ w.text = t /\ w.uses = <<>> /\ w.answers = NoAnswer
    BY DEF WireMessage, NoAnswer
  <2> HIDE DEF w
  <2>3. AnswersFollowCalls(u)
    BY <2>1, <2>2, PlainFollows
  <2>4. Len(u) = 1 /\ u[1] = w /\ 1 \in 1..1
    OBVIOUS
  <2> HIDE DEF u
  <2>5. Opens(u)
    BY <2>2, <2>4 DEF Opens
  <2>6. HasText(m) => HasSpeech(u)
    <3> SUFFICES ASSUME HasText(m) PROVE HasSpeech(u)
      OBVIOUS
    <3>1. u[1].text /\ u[1].role # "tool"
      BY <1>1, <2>2, <2>4
    <3>2. QED
      BY <2>4, <3>1 DEF HasSpeech
  <2>7. QED
    BY <2>3, <2>5, <2>6 DEF u, w
<1>2. G(ToParam(m))
  <2>1. G(<<WireMessage(m.role, HasText(m) \/ m.thinking, <<>>, <<>>)>>)
    BY <1>0, <1>1
  <2>2. QED
    BY <2>1 DEF ToParam
<1>3. G(ToAssistantMessages(m))
  <2>1. G(<<WireMessage("assistant", HasText(m) \/ m.thinking, <<>>, <<>>)>>)
    BY <1>0, <1>1
  <2>2. QED
    BY <2>1 DEF ToAssistantMessages, NoAnswer
<1>4. G(ToUserMessages(m))
  <2> DEFINE w == WireMessage("user", TRUE, <<>>, NoAnswer)
  <2>1. [i \in DOMAIN m.results |-> WireMessage("tool", TRUE, <<>>, <<m.results[i]>>)] = <<>>
    OBVIOUS
  <2>2. CASE HasText(m)
    <3>1. w \in WireType /\ <<w>> \in Seq(WireType)
      <4>1. w \in WireType
        BY <1>0, WireMessageType DEF NoAnswer
      <4> HIDE DEF w
      <4>2. QED
        BY <4>1
    <3>2. G(<<w>>)
      BY <1>1 DEF NoAnswer
    <3> HIDE DEF w, G
    <3>3. <<w>> \o <<>> = <<w>>
      BY <3>1, ConcatEmptySeq
    <3>4. ToUserMessages(m) = <<w>> \o <<>>
      BY <2>1, <2>2 DEF ToUserMessages, w
    <3>5. QED
      BY <3>2, <3>3, <3>4
  <2>3. CASE ~HasText(m)
    <3>1. ToUserMessages(m) = <<>> \o <<>>
      BY <2>1, <2>3 DEF ToUserMessages
    <3>2. ToUserMessages(m) = <<>>
      BY <3>1
    <3>3. QED
      BY <2>3, <3>2 DEF AnswersFollowCalls, Opens
  <2>4. QED
    BY <2>2, <2>3
<1> HIDE DEF G
<1>5. G(ToMessages(b, m))
  BY <1>2, <1>3, <1>4 DEF ToMessages
<1>6. QED
  BY <1>5 DEF G

\* A message that calls, and the one that answers it.
LEMMA CallMessage ==
  ASSUME NEW b, NEW m \in Message, m.role = "assistant", m.results = <<>>, m.uses # <<>>,
         NEW n \in Message, ValidPairing(m.uses, n)
  PROVE  /\ AnswersFollowCalls(ToMessages(b, m) \o ToMessages(b, n))
         /\ Opens(ToMessages(b, m) \o ToMessages(b, n))
         /\ HasText(m) => HasSpeech(ToMessages(b, m) \o ToMessages(b, n))
<1> DEFINE s == HasText(m) \/ m.thinking
           w == WireMessage("assistant", s, m.uses, <<>>)
           G(u) == AnswersFollowCalls(u) /\ Opens(u) /\ (HasText(m) => HasSpeech(u))
<1>0. /\ HasText(m) \in BOOLEAN /\ m.thinking \in BOOLEAN /\ s \in BOOLEAN
      /\ m.uses \in Seq(Ids) /\ <<>> \in Seq(Ids)
  BY DEF Message, HasText
<1>1. n.role = "user" /\ ~HasText(n) /\ ~n.thinking /\ n.uses = <<>> /\ n.results = m.uses
  BY DEF ValidPairing, HasText
<1>2. w \in WireType /\ w.role = "assistant" /\ w.answers = NoAnswer /\ w.uses = m.uses /\ w.text = s
  <2>1. w \in WireType
    BY <1>0, WireMessageType
  <2>2. QED
    BY <2>1 DEF WireMessage, NoAnswer
<1>3. HasText(m) => s
  OBVIOUS
<1> HIDE DEF w, s
<1>4. ASSUME NEW t \in Seq(WireType), \A k \in 1..Len(t) : t[k].answers # NoAnswer /\ t[k].role # "assistant",
             FlattenSeq([k \in 1..Len(t) |-> t[k].answers]) = m.uses
      PROVE  G(<<w>> \o t)
  <2> DEFINE u == <<w>> \o t
  <2>1. Len(u) = Len(t) + 1 /\ u[1] = w /\ Len(t) \in Nat
    <3>1. <<w>> \in Seq(WireType) /\ Len(<<w>>) = 1 /\ <<w>>[1] = w
      BY <1>2
    <3>2. QED
      BY <3>1
  <2>2. AnswersFollowCalls(u)
    BY <1>2, <1>4, AnsweredFollows
  <2> HIDE DEF u
  <2>3. Opens(u)
    BY <1>2, <2>1 DEF Opens
  <2>4. HasText(m) => HasSpeech(u)
    <3> SUFFICES ASSUME HasText(m) PROVE HasSpeech(u)
      OBVIOUS
    <3>1. 1 \in 1..Len(u)
      BY <2>1
    <3>2. u[1].text /\ u[1].role # "tool"
      BY <1>2, <1>3, <2>1
    <3>3. QED
      BY <3>1, <3>2 DEF HasSpeech
  <2>5. QED
    BY <2>2, <2>3, <2>4 DEF u
<1>5. CASE b = "anthropic"
  <2> DEFINE v == WireMessage("user", HasText(n) \/ n.thinking, n.uses, n.results)
             t == <<v>>
  <2>1. (HasText(n) \/ n.thinking) = FALSE
    BY <1>1
  <2>2. v \in WireType /\ v.answers = m.uses /\ v.role = "user"
    <3>1. WireMessage("user", FALSE, <<>>, m.uses) \in WireType
      BY <1>0, WireMessageType
    <3>2. v = WireMessage("user", FALSE, <<>>, m.uses)
      BY <1>1, <2>1
    <3>3. QED
      BY <3>1, <3>2 DEF WireMessage
  <2>3. ToMessages(b, n) = t
    BY <1>1, <1>5 DEF ToMessages, ToParam
  <2>4. ToMessages(b, m) = <<w>>
    BY <1>5 DEF ToMessages, ToParam, w, s
  <2> HIDE DEF v
  <2>5. t \in Seq(WireType) /\ Len(t) = 1 /\ t[1] = v
    BY <2>2
  <2> HIDE DEF t
  <2>6. [k \in 1..Len(t) |-> t[k].answers] = <<m.uses>>
    BY <2>2, <2>5
  <2>7. FlattenSeq([k \in 1..Len(t) |-> t[k].answers]) = m.uses
    BY <1>0, <2>6, FlattenOne
  <2>8. \A k \in 1..Len(t) : t[k].answers # NoAnswer /\ t[k].role # "assistant"
    BY <2>2, <2>5 DEF NoAnswer
  <2>9. G(<<w>> \o t)
    BY <1>4, <2>5, <2>7, <2>8
  <2>10. QED
    BY <2>3, <2>4, <2>9
<1>6. CASE b # "anthropic"
  <2> DEFINE l == Len(m.uses)
             A(i) == WireMessage("tool", TRUE, <<>>, <<m.uses[i]>>)
             t == [i \in 1..l |-> A(i)]
  <2>1. l \in Nat /\ DOMAIN m.uses = 1..l
    BY <1>0
  <2>2. ASSUME NEW i \in 1..l PROVE A(i) \in WireType /\ A(i).answers = <<m.uses[i]>> /\ A(i).role = "tool"
    <3> DEFINE a == <<m.uses[i]>>
    <3>1. a \in Seq(Ids)
      BY <1>0, <2>1
    <3> HIDE DEF a
    <3>2. WireMessage("tool", TRUE, <<>>, a) \in WireType
      BY <1>0, <3>1, WireMessageType
    <3>3. QED
      BY <3>2 DEF a, WireMessage
  <2>3. ToMessages(b, m) = <<w>>
    BY <1>6 DEF ToMessages, ToAssistantMessages, NoAnswer, w, s
  <2>4. ToMessages(b, n) = ToUserMessages(n)
    BY <1>1, <1>6 DEF ToMessages
  <2> HIDE DEF A, l
  <2>5. t \in Seq(WireType) /\ Len(t) = l /\ DOMAIN t = 1..l
    BY <2>1, <2>2
  <2>6. ToUserMessages(n) = <<>> \o t
    BY <1>1, <2>1 DEF ToUserMessages, A
  <2>7. ToMessages(b, n) = t
    <3> HIDE DEF t
    <3>1. QED
      BY <2>4, <2>5, <2>6, ConcatEmptySeq
  <2>8. \A k \in 1..Len(t) : t[k].answers # NoAnswer /\ t[k].role # "assistant"
    <3> TAKE k \in 1..Len(t)
    <3>1. k \in 1..l /\ t[k] = A(k)
      BY <2>5
    <3>2. A(k).answers = <<m.uses[k]>> /\ A(k).role = "tool"
      BY <2>2, <3>1
    <3>3. <<m.uses[k]>> # <<>>
      OBVIOUS
    <3>4. QED
      BY <3>1, <3>2, <3>3 DEF NoAnswer
  <2>9. [k \in 1..Len(t) |-> t[k].answers] = [k \in 1..l |-> <<m.uses[k]>>]
    BY <2>2, <2>5
  <2>10. FlattenSeq([k \in 1..Len(t) |-> t[k].answers]) = m.uses
    BY <1>0, <2>9, FlattenSingly DEF l
  <2> HIDE DEF t
  <2>11. G(<<w>> \o t)
    BY <1>4, <2>5, <2>8, <2>10
  <2>12. QED
    BY <2>3, <2>7, <2>11
<1>7. QED
  BY <1>5, <1>6

\* What is said stays said, and a spoken message more is one more.
LEMMA SaidMore ==
  ASSUME NEW w \in Seq(WireType), NEW t \in Seq(WireType)
  PROVE  /\ Said(w) \in Nat /\ Said(w \o t) \in Nat /\ Said(w) <= Said(w \o t)
         /\ HasSpeech(t) => Said(w) + 1 <= Said(w \o t)
<1> DEFINE u == w \o t
           n == Len(w)
           m == Len(t)
           A == {i \in DOMAIN w : w[i].text /\ w[i].role # "tool"}
           B == {i \in DOMAIN u : u[i].text /\ u[i].role # "tool"}
<1>1. /\ n \in Nat /\ m \in Nat /\ Len(u) = n + m /\ DOMAIN u = 1..n + m /\ DOMAIN w = 1..n
      /\ (\A i \in 1..n : u[i] = w[i]) /\ (\A i \in 1..m : u[n + i] = t[i])
  OBVIOUS
<1> HIDE DEF u
<1>2. A \subseteq B
  BY <1>1
<1>3. IsFiniteSet(B) /\ IsFiniteSet(A)
  <2>1. IsFiniteSet(1..n + m)
    BY <1>1, FS_Interval
  <2>2. B \subseteq 1..n + m
    BY <1>1
  <2> HIDE DEF A, B
  <2>3. IsFiniteSet(B)
    BY <2>1, <2>2, FS_Subset
  <2>4. QED
    BY <1>2, <2>3, FS_Subset
<1>4. Said(w) = Cardinality(A) /\ Said(u) = Cardinality(B)
  BY DEF Said
<1>5. ASSUME HasSpeech(t) PROVE Said(w) + 1 <= Said(u)
  <2>1. PICK j \in 1..m : t[j].text /\ t[j].role # "tool"
    BY <1>5 DEF HasSpeech
  <2> DEFINE k == n + j
  <2>2. k \in 1..n + m /\ k \notin 1..n
    BY <1>1
  <2>3. u[k] = t[j]
    BY <1>1
  <2> HIDE DEF k
  <2>4. k \in B /\ k \notin A
    BY <1>1, <2>1, <2>2, <2>3
  <2> HIDE DEF A, B
  <2>5. A \cup {k} \subseteq B
    BY <1>2, <2>4
  <2>6. Cardinality(A \cup {k}) = Cardinality(A) + 1
    BY <1>3, <2>4, FS_AddElement
  <2>7. Cardinality(A \cup {k}) <= Cardinality(B)
    BY <1>3, <2>5, FS_Subset
  <2>8. QED
    BY <1>4, <2>6, <2>7
<1> HIDE DEF A, B
<1>6. Cardinality(A) \in Nat /\ Cardinality(B) \in Nat /\ Cardinality(A) <= Cardinality(B)
  BY <1>2, <1>3, FS_CardinalityType, FS_Subset
<1>7. QED
  BY <1>4, <1>5, <1>6 DEF u

\* A message more has words or has not.
LEMMA SpokenMore ==
  ASSUME NEW f \in Seq(Message), NEW m \in Message
  PROVE  /\ Spoken(f) \in Nat
         /\ Spoken(f \o <<m>>) = IF HasText(m) THEN Spoken(f) + 1 ELSE Spoken(f)
<1> DEFINE u == f \o <<m>>
           n == Len(f)
           A == {i \in DOMAIN f : HasText(f[i])}
           B == {i \in DOMAIN u : HasText(u[i])}
<1>1. /\ n \in Nat /\ DOMAIN u = 1..n + 1 /\ DOMAIN f = 1..n
      /\ (\A i \in 1..n : u[i] = f[i]) /\ u[n + 1] = m
  <2>1. <<m>> \in Seq(Message) /\ Len(<<m>>) = 1 /\ <<m>>[1] = m
    OBVIOUS
  <2>2. QED
    BY <2>1
<1> HIDE DEF u
<1>2. IsFiniteSet(A)
  <2>1. IsFiniteSet(1..n)
    BY <1>1, FS_Interval
  <2>2. A \subseteq 1..n
    BY <1>1
  <2> HIDE DEF A
  <2>3. QED
    BY <2>1, <2>2, FS_Subset
<1>3. Spoken(f) = Cardinality(A) /\ Spoken(u) = Cardinality(B)
  BY DEF Spoken
<1>4. B = IF HasText(m) THEN A \cup {n + 1} ELSE A
  BY <1>1
<1>5. n + 1 \notin A
  BY <1>1
<1> HIDE DEF A, B
<1>6. Cardinality(A) \in Nat /\ Cardinality(A \cup {n + 1}) = Cardinality(A) + 1
  BY <1>2, <1>5, FS_CardinalityType, FS_AddElement
<1>7. QED
  BY <1>3, <1>4, <1>6 DEF u

GoodRequest(b, f) == AnswersFollowCalls(ToRequest(b, f)) /\ Spoken(f) <= Said(ToRequest(b, f))

\* A request goes on with a message that neither calls nor answers,
LEMMA GoodByOne ==
  ASSUME NEW b, NEW f \in Seq(Message), GoodRequest(b, f),
         NEW m \in Message, m.uses = <<>>, m.results = <<>>
  PROVE  GoodRequest(b, f \o <<m>>)
<1> DEFINE w == ToRequest(b, f)
           t == ToMessages(b, m)
<1>1. w \in Seq(WireType) /\ t \in Seq(WireType) /\ ToRequest(b, f \o <<m>>) = w \o t
  <2>1. <<m>> \in Seq(Message)
    OBVIOUS
  <2>2. QED
    BY <2>1, RequestsMake, MessagesTyped
<1>2. AnswersFollowCalls(t) /\ Opens(t) /\ (HasText(m) => HasSpeech(t))
  BY PlainMessage
<1>3. AnswersFollowCalls(w) /\ Spoken(f) <= Said(w)
  BY DEF GoodRequest
<1> HIDE DEF w, t
<1>4. AnswersFollowCalls(w \o t)
  BY <1>1, <1>2, <1>3, RequestsJoin DEF Opens
<1>5. /\ Said(w) \in Nat /\ Said(w \o t) \in Nat /\ Said(w) <= Said(w \o t)
      /\ HasText(m) => Said(w) + 1 <= Said(w \o t)
  BY <1>1, <1>2, SaidMore
<1>6. Spoken(f) \in Nat /\ Spoken(f \o <<m>>) = IF HasText(m) THEN Spoken(f) + 1 ELSE Spoken(f)
  BY SpokenMore
<1>7. Spoken(f \o <<m>>) <= Said(w \o t)
  BY <1>3, <1>5, <1>6
<1>8. QED
  BY <1>1, <1>4, <1>7 DEF GoodRequest

\* or with a call and its answer together.
LEMMA GoodByTwo ==
  ASSUME NEW b, NEW f \in Seq(Message), GoodRequest(b, f),
         NEW m \in Message, m.role = "assistant", m.results = <<>>, m.uses # <<>>,
         NEW n \in Message, ValidPairing(m.uses, n)
  PROVE  GoodRequest(b, (f \o <<m>>) \o <<n>>)
<1> DEFINE w == ToRequest(b, f)
           t == ToMessages(b, m)
           u == ToMessages(b, n)
           g == f \o <<m>>
           v == t \o u
<1>0. <<m>> \in Seq(Message) /\ <<n>> \in Seq(Message)
  OBVIOUS
<1>1. g \in Seq(Message)
  BY <1>0
<1>2. /\ w \in Seq(WireType) /\ t \in Seq(WireType) /\ u \in Seq(WireType)
      /\ ToRequest(b, g) = w \o t
  BY <1>0, RequestsMake, MessagesTyped
<1>3. AnswersFollowCalls(v) /\ Opens(v) /\ (HasText(m) => HasSpeech(v))
  BY CallMessage
<1>4. AnswersFollowCalls(w) /\ Spoken(f) <= Said(w)
  BY DEF GoodRequest
<1>5. Spoken(f) \in Nat /\ Spoken(g) = IF HasText(m) THEN Spoken(f) + 1 ELSE Spoken(f)
  BY SpokenMore
<1>6. Spoken(g \o <<n>>) = Spoken(g)
  <2>1. ~HasText(n)
    BY DEF ValidPairing, HasText
  <2> HIDE DEF g
  <2>2. QED
    BY <1>1, <2>1, SpokenMore
<1>7. ToRequest(b, g \o <<n>>) = ToRequest(b, g) \o u
  <2> HIDE DEF g
  <2>1. QED
    BY <1>0, <1>1, RequestsMake
<1> HIDE DEF w, t, u, g
<1>8. (w \o t) \o u = w \o v /\ v \in Seq(WireType)
  BY <1>2, ConcatAssociative, ConcatProperties
<1> HIDE DEF v
<1>9. AnswersFollowCalls(w \o v)
  BY <1>2, <1>3, <1>4, <1>8, RequestsJoin DEF Opens
<1>10. /\ Said(w) \in Nat /\ Said(w \o v) \in Nat /\ Said(w) <= Said(w \o v)
       /\ HasText(m) => Said(w) + 1 <= Said(w \o v)
  BY <1>2, <1>3, <1>8, SaidMore
<1>11. Spoken(g \o <<n>>) <= Said(w \o v)
  BY <1>4, <1>5, <1>6, <1>10
<1>12. ToRequest(b, g \o <<n>>) = w \o v
  BY <1>2, <1>7, <1>8
<1>13. GoodRequest(b, g \o <<n>>)
  BY <1>9, <1>11, <1>12 DEF GoodRequest
<1>14. QED
  BY <1>13 DEF g

\* What Validate admits, a backend admits.
LEMMA ValidRequests ==
  ASSUME NEW b, NEW s \in Seq(Message), Valid(s)
  PROVE  GoodRequest(b, s)
<1> DEFINE n == Len(s)
           First(k) == SubSeq(s, 1, k)
           T == {k \in Nat : k <= n =>
                  /\ k = 0 \/ s[k].uses = <<>> => GoodRequest(b, First(k))
                  /\ k # 0 /\ s[k].uses # <<>> => GoodRequest(b, First(k - 1))}
<1>0. n \in Nat /\ (\A i \in 1..n : s[i] \in Message)
  OBVIOUS
<1>1. \A k \in 0..n : First(k) \in Seq(Message)
  BY <1>0
<1>2. \A k \in 1..n : First(k) = First(k - 1) \o <<s[k]>>
  <2> TAKE k \in 1..n
  <2>1. 1 \in 1..n /\ k \in 1..n
    BY <1>0
  <2>2. QED
    BY <2>1, SubSeqRecursiveSecond
<1>3. \A k \in 1..n : ValidAt(s, k)
  BY DEF Valid
<1>4. GoodRequest(b, First(0))
  <2>1. First(0) = <<>>
    OBVIOUS
  <2>2. AnswersFollowCalls(<<>>)
    BY DEF AnswersFollowCalls
  <2>3. Spoken(<<>>) = 0 /\ Said(<<>>) = 0
    <3>1. {i \in DOMAIN <<>> : HasText(<<>>[i])} = {}
      OBVIOUS
    <3>2. {i \in DOMAIN <<>> : <<>>[i].text /\ <<>>[i].role # "tool"} = {}
      OBVIOUS
    <3>3. QED
      BY <3>1, <3>2, FS_EmptySet DEF Spoken, Said
  <2>4. ToRequest(b, <<>>) = <<>>
    BY RequestsMake
  <2>5. 0 <= 0
    OBVIOUS
  <2>6. GoodRequest(b, <<>>)
    BY <2>2, <2>3, <2>4, <2>5 DEF GoodRequest
  <2> HIDE DEF First
  <2>7. QED
    BY <2>1, <2>6
<1> HIDE DEF First
<1>5. 0 \in T
  BY <1>4
\* Nobody who calls tools answers calls, and nobody answers calls that were not made.
<1>6. ASSUME NEW k \in 1..n, k = 1 \/ s[k - 1].uses = <<>> PROVE s[k].results = <<>>
  BY <1>3, <1>6 DEF ValidAt, PrecededByToolUse
<1>7. ASSUME NEW k \in 1..n, k # 1, s[k - 1].uses # <<>> PROVE ValidPairing(s[k - 1].uses, s[k]) /\ s[k].uses = <<>>
  <2> DEFINE h == k - 1
  <2>1. h \in 1..n /\ k = h + 1
    BY <1>0, <1>7
  <2> HIDE DEF h
  <2>2. s[h].uses # <<>> /\ ValidAt(s, h)
    BY <1>3, <1>7, <2>1 DEF h
  <2>3. ValidPairing(s[h].uses, s[h + 1])
    BY <2>2 DEF ValidAt
  <2>4. ValidPairing(s[k - 1].uses, s[k])
    BY <2>1, <2>3 DEF h
  <2>5. QED
    BY <2>4 DEF ValidPairing
<1>8. ASSUME NEW k \in Nat, k \in T PROVE k + 1 \in T
  <2> SUFFICES ASSUME k + 1 <= n
               PROVE  /\ s[k + 1].uses = <<>> => GoodRequest(b, First(k + 1))
                      /\ s[k + 1].uses # <<>> => GoodRequest(b, First(k))
    <3>1. k + 1 # 0 /\ (k + 1) - 1 = k /\ k + 1 \in Nat
      OBVIOUS
    <3>2. QED
      BY <3>1
  <2> DEFINE h == k + 1
             x == s[h]
  <2>1. h \in 1..n /\ h - 1 = k /\ k \in 0..n
    BY <1>0
  <2>2. First(h) = First(k) \o <<x>> /\ x \in Message /\ First(k) \in Seq(Message)
    BY <1>0, <1>1, <1>2, <2>1
  <2>3. CASE k = 0 \/ s[k].uses = <<>>
    <3>1. GoodRequest(b, First(k))
      BY <1>8, <2>1, <2>3
    <3>2. x.results = <<>>
      BY <1>6, <2>1, <2>3
    <3> HIDE DEF x
    <3>3. x.uses = <<>> => GoodRequest(b, First(h))
      BY <2>2, <3>1, <3>2, GoodByOne
    <3>4. QED
      BY <3>1, <3>3 DEF h, x
  <2>4. CASE ~(k = 0 \/ s[k].uses = <<>>)
    <3> DEFINE y == s[k]
               f == First(k - 1)
    <3>1. k \in 1..n /\ h # 1 /\ k - 1 \in 0..n
      BY <2>1, <2>4
    <3>2. GoodRequest(b, f)
      BY <1>8, <2>1, <2>4
    <3>3. ValidPairing(y.uses, x) /\ x.uses = <<>>
      BY <1>7, <2>1, <2>4, <3>1
    <3>4. y.role = "assistant"
      BY <1>3, <2>4, <3>1 DEF ValidAt
    <3>5. k = 1 \/ s[k - 1].uses = <<>>
      <4>1. SUFFICES ASSUME k # 1, s[k - 1].uses # <<>> PROVE FALSE
        OBVIOUS
      <4>2. s[k].uses = <<>>
        BY <1>7, <3>1, <4>1
      <4>3. QED
        BY <2>4, <4>2
    <3>6. y.results = <<>>
      BY <1>6, <3>1, <3>5
    <3>7. y \in Message /\ f \in Seq(Message) /\ First(k) = f \o <<y>> /\ y.uses # <<>>
      BY <1>0, <1>1, <1>2, <2>4, <3>1
    <3> HIDE DEF x, y, f
    <3>8. GoodRequest(b, (f \o <<y>>) \o <<x>>)
      BY <2>2, <3>2, <3>3, <3>4, <3>6, <3>7, GoodByTwo
    <3>9. GoodRequest(b, First(h))
      BY <2>2, <3>7, <3>8
    <3>10. QED
      BY <3>3, <3>9 DEF h, x
  <2>5. QED
    BY <2>3, <2>4
<1> HIDE DEF T
<1>9. n \in T
  BY <1>0, <1>5, <1>8, Induction
<1>10. n = 0 \/ s[n].uses = <<>>
  <2> SUFFICES ASSUME n # 0 PROVE s[n].uses = <<>>
    OBVIOUS
  <2>1. n \in 1..n /\ ~(n < n)
    BY <1>0
  <2>2. ValidAt(s, n)
    BY <1>3, <2>1
  <2>3. QED
    BY <2>1, <2>2 DEF ValidAt
<1>11. GoodRequest(b, First(n))
  <2>1. n <= n
    BY <1>0
  <2> HIDE DEF n
  <2>2. QED
    BY <1>9, <1>10, <2>1 DEF T
<1>12. First(n) = s
  BY SubSeqFull DEF First
<1>13. QED
  BY <1>11, <1>12

\* RequestsAreWellFormed: whatever conversation history.Validate admits, of any
\* length, each backend's request has every result right after its call and no
\* text less.
THEOREM RequestsAreAdmitted == Spec => []RequestsAreWellFormed
<1>1. RequestsAreWellFormed
  <2>1. ASSUME NEW msgs \in Conversations PROVE GoodRequest(backend, msgs)
    BY RequestAssumption, ValidRequests
  <2>2. QED
    BY <2>1 DEF RequestsAreWellFormed, GoodRequest
<1>2. QED
  BY <1>1, PTL
-----------------------------------------------------------------------------
(* OnePromptedCall. *)

\* The least of a set of positions, as the code finds it.
LEMMA LeastIs ==
  ASSUME NEW T, T \subseteq Nat, NEW a \in T, \A j \in T : a <= j
  PROVE  (CHOOSE i \in T : \A j \in T : i <= j) = a
<1> DEFINE c == CHOOSE i \in T : \A j \in T : i <= j
<1>1. c \in T /\ \A j \in T : c <= j
  OBVIOUS
<1> HIDE DEF c
<1>2. c <= a /\ a <= c /\ c \in Nat /\ a \in Nat
  BY <1>1
<1>3. c = a
  BY <1>2
<1>4. QED
  BY <1>3 DEF c

\* The greatest, in the same way.
LEMMA GreatestIs ==
  ASSUME NEW T, T \subseteq Nat, NEW a \in T, \A j \in T : a >= j
  PROVE  (CHOOSE i \in T : \A j \in T : i >= j) = a
<1> DEFINE c == CHOOSE i \in T : \A j \in T : i >= j
<1>1. c \in T /\ \A j \in T : c >= j
  OBVIOUS
<1> HIDE DEF c
<1>2. c >= a /\ a >= c /\ c \in Nat /\ a \in Nat
  BY <1>1
<1>3. c = a
  BY <1>2
<1>4. QED
  BY <1>3 DEF c

\* A set of positions has a greatest.
LEMMA GreatestExists ==
  ASSUME NEW n \in Nat, NEW T, T \subseteq 1..n, T # {}
  PROVE  \E x \in T : \A y \in T : x >= y
<1> DEFINE U == {k \in 0..n : n - k \in T}
<1>1. U \subseteq Nat /\ U # {}
  <2>1. PICK x \in T : TRUE
    OBVIOUS
  <2>2. n - x \in 0..n /\ n - (n - x) = x
    BY <2>1
  <2>3. n - x \in U
    BY <2>1, <2>2
  <2>4. U \subseteq Nat
    OBVIOUS
  <2> HIDE DEF U
  <2>5. QED
    BY <2>3, <2>4
<1>2. PICK k \in U : \A h \in U : k <= h
  BY <1>1, LeastExists
<1>3. n - k \in T /\ k \in 0..n
  OBVIOUS
<1>4. \A y \in T : n - k >= y
  <2> TAKE y \in T
  <2>1. y \in 1..n /\ n - y \in 0..n /\ n - (n - y) = y
    OBVIOUS
  <2>2. n - y \in U
    BY <2>1
  <2> HIDE DEF U
  <2>3. k <= n - y
    BY <1>2, <2>2
  <2>4. QED
    BY <1>3, <2>1, <2>3
<1>5. QED
  BY <1>3, <1>4

\* A sequence around one of its elements.
Splits(S, s, k) ==
         /\ SubSeq(s, 1, k - 1) \in Seq(S) /\ SubSeq(s, k + 1, Len(s)) \in Seq(S)
         /\ s[k] \in S /\ <<s[k]>> \in Seq(S)
         /\ Len(SubSeq(s, 1, k - 1)) = k - 1
         /\ Len(SubSeq(s, k + 1, Len(s))) = Len(s) - k
         /\ \A i \in 1..k - 1 : SubSeq(s, 1, k - 1)[i] = s[i]
         /\ \A i \in 1..Len(s) - k : SubSeq(s, k + 1, Len(s))[i] = s[k + i]
         /\ s = (SubSeq(s, 1, k - 1) \o <<s[k]>>) \o SubSeq(s, k + 1, Len(s))

\* It splits there.
LEMMA Around ==
  ASSUME NEW S, NEW s \in Seq(S), NEW k \in 1..Len(s)
  PROVE  Splits(S, s, k)
<1> DEFINE n == Len(s)
           a == SubSeq(s, 1, k - 1)
           c == SubSeq(s, k + 1, n)
<1>1. n \in Nat /\ k \in Nat /\ 1 <= k /\ k <= n /\ (\A i \in 1..n : s[i] \in S) /\ s[k] \in S /\ <<s[k]>> \in Seq(S)
  OBVIOUS
<1>2. a \in Seq(S) /\ Len(a) = k - 1 /\ \A i \in 1..k - 1 : a[i] = s[i]
  <2>1. \A i \in 1..k - 1 : s[i] \in S
    BY <1>1
  <2>2. QED
    BY <1>1, <2>1
<1>3. c \in Seq(S) /\ Len(c) = n - k /\ \A i \in 1..n - k : c[i] = s[k + i]
  <2>1. \A i \in k + 1..n : s[i] \in S
    BY <1>1
  <2>2. QED
    BY <1>1, <2>1
<1>4. s = (a \o <<s[k]>>) \o c
  <2>1. SubSeq(s, 1, k) = SubSeq(s, 1, k - 1) \o <<s[k]>>
    <3>1. 1 \in 1..n /\ k \in 1..n
      BY <1>1
    <3>2. QED
      BY <3>1, SubSeqRecursiveSecond
  <2>2. SubSeq(s, 1, k) \o SubSeq(s, k + 1, n) = SubSeq(s, 1, n)
    <3>1. 1 \in 1..n + 1 /\ k \in 1 - 1..n /\ n \in k..n
      BY <1>1
    <3>2. QED
      BY <3>1, ConcatAdjacentSubSeq
  <2>3. SubSeq(s, 1, n) = s
    BY SubSeqFull
  <2>4. QED
    BY <2>1, <2>2, <2>3
<1>5. QED
  BY <1>1, <1>2, <1>3, <1>4 DEF Splits

\* One element of a sequence is replaced by a sequence.
LEMMA FlattenInstead ==
  ASSUME NEW S, NEW s \in Seq(S), NEW k \in 1..Len(s), NEW e \in Seq(S)
  PROVE  FlattenSeq([i \in 1..Len(s) |-> IF i = k THEN e ELSE <<s[i]>>])
           = (SubSeq(s, 1, k - 1) \o e) \o SubSeq(s, k + 1, Len(s))
<1> DEFINE n == Len(s)
           a == SubSeq(s, 1, k - 1)
           c == SubSeq(s, k + 1, n)
           p == [i \in 1..n |-> IF i = k THEN e ELSE <<s[i]>>]
           q == [i \in 1..Len(a) |-> <<a[i]>>]
           r == [i \in 1..Len(c) |-> <<c[i]>>]
           V == Seq(Seq(S))
<1>1. n \in Nat /\ k \in Nat /\ 1 <= k /\ k <= n /\ (\A i \in 1..n : <<s[i]>> \in Seq(S))
  OBVIOUS
<1>2. /\ a \in Seq(S) /\ Len(a) = k - 1 /\ (\A i \in 1..k - 1 : a[i] = s[i])
      /\ c \in Seq(S) /\ Len(c) = n - k /\ (\A i \in 1..n - k : c[i] = s[k + i])
  <2>1. Splits(S, s, k)
    BY Around
  <2>2. QED
    BY <2>1 DEF Splits
<1> HIDE DEF n, a, c
<1>3. q \in V /\ Len(q) = k - 1 /\ \A i \in 1..k - 1 : q[i] = <<s[i]>>
  <2>1. \A i \in 1..k - 1 : <<a[i]>> \in Seq(S)
    BY <1>2
  <2>2. k - 1 \in Nat
    BY <1>1
  <2>3. q = [i \in 1..k - 1 |-> <<a[i]>>]
    BY <1>2
  <2>4. q \in V
    BY <2>1, <2>2, <2>3
  <2>5. Len(q) = k - 1
    BY <2>2, <2>3
  <2>6. QED
    BY <1>2, <2>3, <2>4, <2>5
<1>4. r \in V /\ Len(r) = n - k /\ \A i \in 1..n - k : r[i] = <<s[k + i]>>
  <2>1. \A i \in 1..n - k : <<c[i]>> \in Seq(S)
    BY <1>2
  <2>2. n - k \in Nat
    BY <1>1
  <2>3. r = [i \in 1..n - k |-> <<c[i]>>]
    BY <1>2
  <2>4. r \in V
    BY <2>1, <2>2, <2>3
  <2>5. Len(r) = n - k
    BY <2>2, <2>3
  <2>6. QED
    BY <1>2, <2>3, <2>4, <2>5
<1>5. p \in V /\ Len(p) = n /\ p[k] = e /\ \A i \in 1..n : i # k => p[i] = <<s[i]>>
  BY <1>1
<1> HIDE DEF p, q, r
<1>6. p = (q \o <<e>>) \o r
  <2> DEFINE b == SubSeq(p, 1, k - 1)
             d == SubSeq(p, k + 1, n)
  <2>0. k \in 1..Len(p)
    BY <1>1, <1>5
  <2>1. /\ b \in V /\ Len(b) = k - 1 /\ (\A i \in 1..k - 1 : b[i] = p[i])
        /\ d \in V /\ Len(d) = n - k /\ (\A i \in 1..n - k : d[i] = p[k + i])
        /\ p = (b \o <<p[k]>>) \o d
    <3>1. Splits(Seq(S), p, k)
      BY <1>5, <2>0, Around
    <3>2. QED
      BY <1>5, <3>1 DEF Splits
  <2> HIDE DEF b, d
  <2>2. b = q
    <3>1. \A i \in 1..k - 1 : b[i] = q[i]
      <4> TAKE i \in 1..k - 1
      <4>1. i \in 1..n /\ i # k
        BY <1>1
      <4>2. QED
        BY <1>3, <1>5, <2>1, <4>1
    <3>2. QED
      BY <1>3, <2>1, <3>1, SeqEqual
  <2>3. d = r
    <3>1. \A i \in 1..n - k : d[i] = r[i]
      <4> TAKE i \in 1..n - k
      <4> DEFINE j == k + i
      <4>1. j \in 1..n /\ j # k
        BY <1>1
      <4> HIDE DEF j
      <4>2. p[j] = <<s[j]>>
        BY <1>5, <4>1
      <4>3. QED
        BY <1>4, <2>1, <4>2 DEF j
    <3>2. QED
      BY <1>4, <2>1, <3>1, SeqEqual
  <2>4. QED
    BY <1>5, <2>1, <2>2, <2>3
<1>7. FlattenSeq(q) = a /\ FlattenSeq(r) = c
  BY <1>2, FlattenSingly DEF q, r
<1>8. <<e>> \in V /\ FlattenSeq(<<e>>) = e
  <2>1. <<e>> \in Seq(Seq(S))
    OBVIOUS
  <2>2. QED
    BY <2>1, FlattenOne
<1> DEFINE f == <<e>>
           g == q \o f
<1>9. g \in V /\ f \in V
  BY <1>3, <1>8
<1> HIDE DEF f
<1>10. FlattenSeq(g) = FlattenSeq(q) \o FlattenSeq(f)
  BY <1>3, <1>9, FlattenConcat
<1> HIDE DEF g
<1>11. FlattenSeq(g \o r) = FlattenSeq(g) \o FlattenSeq(r)
  BY <1>4, <1>9, FlattenConcat
<1>12. FlattenSeq(p) = (a \o e) \o c
  BY <1>6, <1>7, <1>8, <1>10, <1>11 DEF f, g
<1>13. QED
  BY <1>12 DEF p, n, a, c

\* Pieces that are all empty make nothing.
LEMMA PiecesNothing ==
  ASSUME NEW E, NEW S, NEW m \in [E -> Seq(S)], NEW s \in Seq(E),
         \A i \in 1..Len(s) : m[s[i]] = <<>>
  PROVE  PiecesOf(m, s) = <<>>
<1> DEFINE p == Mapped(m, s)
<1>1. p \in Seq(Seq(S)) /\ Len(p) = Len(s)
  <2>1. \A D : \A g \in [E -> Seq(D)] : \A x \in Seq(E) : Mapped(g, x) \in Seq(Seq(D)) /\ Len(Mapped(g, x)) = Len(x)
    BY PieceSeq
  <2>2. QED
    BY <2>1
<1>2. \A i \in 1..Len(p) : p[i] = <<>>
  BY <1>1 DEF Mapped
<1> HIDE DEF p
<1>3. Elements(<<>>) = {}
  BY DEF Elements
<1>4. ElementsBelow(p, Len(p)) = {}
  BY <1>2, <1>3 DEF ElementsBelow
<1>5. Elements(FlattenSeq(p)) = {} /\ FlattenSeq(p) \in Seq(S)
  BY <1>1, <1>4, FlattenElements, FlattenType
<1> DEFINE f == FlattenSeq(p)
<1> HIDE DEF f
<1>6. f \in Seq(S) /\ Elements(f) = {}
  BY <1>5 DEF f
<1>7. f = <<>>
  <2>1. DOMAIN f = {}
    BY <1>6 DEF Elements
  <2>2. Len(f) = 0
    BY <1>6, <2>1
  <2>3. QED
    BY <1>6, <2>2
<1>8. QED
  BY <1>7 DEF PiecesOf, p, f

\* What a prompted reply consists of once its call is made.
MadeBlock == {Call(MadeUp(0), FenceName[f], EmptyObject) : f \in Fences}
Prompted == PlainBlock \cup MadeBlock

\* What a block, or a word, contributes to each part of a reply.
WordsOf == [e \in Prompted |-> IF e.is = "text" THEN e.words ELSE <<>>]
CallOf == [e \in Prompted |-> IF e.is = "call" THEN <<e>> ELSE <<>>]
NonBlankOf == [w \in STRING |-> IF Blank(w) THEN <<>> ELSE <<w>>]

\* A sequence of one.
LEMMA OneLong == ASSUME NEW S, NEW x \in S PROVE <<x>> \in Seq(S)
OBVIOUS

\* The three functions are total, and what they give for each kind of block.
LEMMA PromptedParts ==
  /\ WordsOf \in [Prompted -> Seq(STRING)]
  /\ CallOf \in [Prompted -> Seq(Prompted)]
  /\ NonBlankOf \in [STRING -> Seq(STRING)]
  /\ \A e \in PlainBlock : e \in Prompted /\ CallOf[e] = <<>> /\ WordsOf[e] = (IF e.is = "text" THEN e.words ELSE <<>>)
  /\ \A e \in MadeBlock : e \in Prompted /\ CallOf[e] = <<e>> /\ WordsOf[e] = <<>>
<1>1. \A e \in PlainBlock : e.words \in Seq(STRING) /\ e.is # "call"
  BY DEF PlainBlock
<1>2. \A e \in MadeBlock : e.is = "call"
  BY DEF MadeBlock, Call
<1>3. <<>> \in Seq(STRING) /\ <<>> \in Seq(Prompted)
  OBVIOUS
<1>4. \A e \in PlainBlock : e \in Prompted
  BY DEF Prompted
<1>5. \A e \in MadeBlock : e \in Prompted
  BY DEF Prompted
<1>6. \A e \in Prompted : e \in PlainBlock \/ e \in MadeBlock
  BY DEF Prompted
<1>7. ASSUME NEW e \in Prompted PROVE (IF e.is = "text" THEN e.words ELSE <<>>) \in Seq(STRING)
  BY <1>1, <1>2, <1>3, <1>6
<1>8. ASSUME NEW e \in Prompted PROVE (IF e.is = "call" THEN <<e>> ELSE <<>>) \in Seq(Prompted)
  <2>2. <<e>> \in Seq(Prompted)
    BY OneLong
  <2>3. QED
    BY <1>3, <2>2
<1>9. ASSUME NEW w \in STRING PROVE (IF Blank(w) THEN <<>> ELSE <<w>>) \in Seq(STRING)
  <2>1. <<w>> \in Seq(STRING)
    BY OneLong
  <2>2. QED
    BY <1>3, <2>1
<1>10. WordsOf \in [Prompted -> Seq(STRING)]
  BY <1>7 DEF WordsOf
<1>11. CallOf \in [Prompted -> Seq(Prompted)]
  BY <1>8 DEF CallOf
<1>12. NonBlankOf \in [STRING -> Seq(STRING)]
  BY <1>9 DEF NonBlankOf
<1>13. \A e \in PlainBlock : CallOf[e] = <<>> /\ WordsOf[e] = (IF e.is = "text" THEN e.words ELSE <<>>)
  BY <1>1, <1>4 DEF CallOf, WordsOf
<1>14. \A e \in MadeBlock : CallOf[e] = <<e>> /\ WordsOf[e] = <<>>
  BY <1>2, <1>5 DEF CallOf, WordsOf
<1>15. QED
  BY <1>4, <1>5, <1>10, <1>11, <1>12, <1>13, <1>14

\* The words, the calls and what is not blank, piece by piece.
LEMMA PromptedPieces ==
  /\ \A s \in Seq(Prompted) : Words(s, "text") = PiecesOf(WordsOf, s) /\ Calls(s) = PiecesOf(CallOf, s)
  /\ \A t \in Seq(STRING) : NonBlank(t) = PiecesOf(NonBlankOf, t)
<1>1. ASSUME NEW s \in Seq(Prompted) PROVE Words(s, "text") = PiecesOf(WordsOf, s) /\ Calls(s) = PiecesOf(CallOf, s)
  <2>1. DOMAIN s = 1..Len(s) /\ \A i \in DOMAIN s : s[i] \in Prompted
    OBVIOUS
  <2>2. [i \in DOMAIN s |-> IF s[i].is = "text" THEN s[i].words ELSE <<>>] = Mapped(WordsOf, s)
    BY <2>1 DEF Mapped, WordsOf
  <2>3. [i \in DOMAIN s |-> IF s[i].is = "call" THEN <<s[i]>> ELSE <<>>] = Mapped(CallOf, s)
    BY <2>1 DEF Mapped, CallOf
  <2>4. QED
    BY <2>2, <2>3 DEF Words, Calls, PiecesOf
<1>2. ASSUME NEW t \in Seq(STRING) PROVE NonBlank(t) = PiecesOf(NonBlankOf, t)
  <2>1. \A i \in DOMAIN t : t[i] \in STRING
    OBVIOUS
  <2>2. [i \in DOMAIN t |-> IF Blank(t[i]) THEN <<>> ELSE <<t[i]>>] = Mapped(NonBlankOf, t)
    BY <2>1 DEF Mapped, NonBlankOf
  <2>3. QED
    BY <2>2 DEF NonBlank, PiecesOf
<1>3. QED
  BY <1>1, <1>2

\* Each part of two sequences is that part of one, then of the other.
LEMMA PromptedConcat ==
  ASSUME NEW s \in Seq(Prompted), NEW t \in Seq(Prompted)
  PROVE  /\ Words(s \o t, "text") = Words(s, "text") \o Words(t, "text")
         /\ Calls(s \o t) = Calls(s) \o Calls(t)
         /\ Words(s, "text") \in Seq(STRING) /\ Calls(s) \in Seq(Prompted)
<1>1. s \o t \in Seq(Prompted)
  BY ConcatProperties
<1>2. \A D : \A g \in [Prompted -> Seq(D)] : \A x, y \in Seq(Prompted) : PiecesOf(g, x \o y) = PiecesOf(g, x) \o PiecesOf(g, y)
  BY PiecesConcat
<1>3. \A D : \A g \in [Prompted -> Seq(D)] : \A x \in Seq(Prompted) : PiecesOf(g, x) \in Seq(D)
  BY PiecesType
<1>4. WordsOf \in [Prompted -> Seq(STRING)] /\ CallOf \in [Prompted -> Seq(Prompted)]
  BY PromptedParts
<1>5. PiecesOf(WordsOf, s \o t) = PiecesOf(WordsOf, s) \o PiecesOf(WordsOf, t) /\ PiecesOf(WordsOf, s) \in Seq(STRING)
  BY <1>2, <1>3, <1>4
<1>6. PiecesOf(CallOf, s \o t) = PiecesOf(CallOf, s) \o PiecesOf(CallOf, t) /\ PiecesOf(CallOf, s) \in Seq(Prompted)
  BY <1>2, <1>3, <1>4
<1>7. QED
  BY <1>1, <1>5, <1>6, PromptedPieces

\* The parts of one block.
LEMMA PromptedOne ==
  ASSUME NEW e \in Prompted
  PROVE  Words(<<e>>, "text") = WordsOf[e] /\ Calls(<<e>>) = CallOf[e] /\ <<e>> \in Seq(Prompted)
<1>1. <<e>> \in Seq(Prompted)
  OBVIOUS
<1>2. \A D : \A g \in [Prompted -> Seq(D)] : PiecesOf(g, <<e>>) = g[e]
  BY PiecesOne
<1>3. WordsOf \in [Prompted -> Seq(STRING)] /\ CallOf \in [Prompted -> Seq(Prompted)]
  BY PromptedParts
<1>4. PiecesOf(WordsOf, <<e>>) = WordsOf[e] /\ PiecesOf(CallOf, <<e>>) = CallOf[e]
  BY <1>2, <1>3
<1>5. QED
  BY <1>1, <1>4, PromptedPieces

\* A plain reply has no calls.
LEMMA NoCalls == ASSUME NEW s \in Seq(PlainBlock) PROVE Calls(s) = <<>> /\ s \in Seq(Prompted)
<1>1. s \in Seq(Prompted)
  BY PromptedParts
<1>2. \A i \in 1..Len(s) : CallOf[s[i]] = <<>>
  <2>1. \A i \in 1..Len(s) : s[i] \in PlainBlock
    OBVIOUS
  <2>2. QED
    BY <2>1, PromptedParts
<1>3. CallOf \in [Prompted -> Seq(Prompted)]
  BY PromptedParts
<1>4. \A D : \A g \in [Prompted -> Seq(D)] : (\A i \in 1..Len(s) : g[s[i]] = <<>>) => PiecesOf(g, s) = <<>>
  BY <1>1, PiecesNothing
<1>5. PiecesOf(CallOf, s) = <<>>
  BY <1>2, <1>3, <1>4
<1>6. QED
  BY <1>1, <1>5, PromptedPieces

\* What is not blank in two texts.
LEMMA NonBlankConcat ==
  ASSUME NEW s \in Seq(STRING), NEW t \in Seq(STRING)
  PROVE  NonBlank(s \o t) = NonBlank(s) \o NonBlank(t) /\ NonBlank(s) \in Seq(STRING)
<1>1. s \o t \in Seq(STRING)
  BY ConcatProperties
<1>2. \A D : \A g \in [STRING -> Seq(D)] : \A x, y \in Seq(STRING) : PiecesOf(g, x \o y) = PiecesOf(g, x) \o PiecesOf(g, y)
  BY PiecesConcat
<1>3. \A D : \A g \in [STRING -> Seq(D)] : \A x \in Seq(STRING) : PiecesOf(g, x) \in Seq(D)
  BY PiecesType
<1>4. NonBlankOf \in [STRING -> Seq(STRING)]
  BY PromptedParts
<1>5. PiecesOf(NonBlankOf, s \o t) = PiecesOf(NonBlankOf, s) \o PiecesOf(NonBlankOf, t) /\ PiecesOf(NonBlankOf, s) \in Seq(STRING)
  BY <1>2, <1>3, <1>4
<1>6. QED
  BY <1>1, <1>5, PromptedPieces

\* Nothing is left of blanks.
LEMMA AllBlank ==
  ASSUME NEW t \in Seq(STRING), \A i \in 1..Len(t) : Blank(t[i])
  PROVE  NonBlank(t) = <<>>
<1>1. \A i \in 1..Len(t) : NonBlankOf[t[i]] = <<>>
  <2>1. \A i \in 1..Len(t) : t[i] \in STRING
    OBVIOUS
  <2>2. QED
    BY <2>1 DEF NonBlankOf
<1>2. NonBlankOf \in [STRING -> Seq(STRING)]
  BY PromptedParts
<1>4. \A D : \A g \in [STRING -> Seq(D)] : (\A i \in 1..Len(t) : g[t[i]] = <<>>) => PiecesOf(g, t) = <<>>
  BY PiecesNothing
<1>5. PiecesOf(NonBlankOf, t) = <<>>
  BY <1>1, <1>2, <1>4
<1>6. QED
  BY <1>5, PromptedPieces

\* TrimSpace takes blanks only.
LEMMA TrimmedKeeps ==
  ASSUME NEW t \in Seq(STRING)
  PROVE  Trimmed(t) \in Seq(STRING) /\ NonBlank(Trimmed(t)) = NonBlank(t)
<1> DEFINE n == Len(t)
           U == {i \in DOMAIN t : ~Blank(t[i])}
<1>0. n \in Nat /\ DOMAIN t = 1..n /\ (\A i \in 1..n : t[i] \in STRING)
  OBVIOUS
<1>1. CASE U = {}
  <2>1. Trimmed(t) = <<>>
    BY <1>1 DEF Trimmed
  <2>2. \A i \in 1..Len(t) : Blank(t[i])
    BY <1>0, <1>1
  <2>3. NonBlank(t) = <<>>
    BY <2>2, AllBlank
  <2>4. <<>> \in Seq(STRING) /\ \A i \in 1..Len(<<>>) : Blank(<<>>[i])
    OBVIOUS
  <2>5. NonBlank(<<>>) = <<>>
    BY <2>4, AllBlank
  <2>6. QED
    BY <2>1, <2>3, <2>4, <2>5
<1>2. CASE U # {}
  <2>0. U \subseteq 1..n /\ U \subseteq Nat
    BY <1>0
  <2>1. PICK a \in U : \A j \in U : a <= j
    BY <1>2, <2>0, LeastExists
  <2>2. PICK b \in U : \A j \in U : b >= j
    BY <1>0, <1>2, <2>0, GreatestExists
  <2>3. Trimmed(t) = SubSeq(t, a, b)
    <3>1. (CHOOSE i \in U : \A j \in U : i <= j) = a
      BY <2>0, <2>1, LeastIs
    <3>2. (CHOOSE i \in U : \A j \in U : i >= j) = b
      BY <2>0, <2>2, GreatestIs
    <3>3. QED
      BY <1>2, <3>1, <3>2 DEF Trimmed
  <2>4. \A i \in 1..n : i \in U \/ Blank(t[i])
    BY <1>0
  <2> HIDE DEF U
  <2>5. a \in 1..n /\ b \in 1..n /\ a <= b
    BY <2>0, <2>1, <2>2
  <2>5a. b \in Nat /\ n \in Nat /\ b >= 1
    BY <1>0, <2>5
  <2> DEFINE p == SubSeq(t, 1, a - 1)
             q == SubSeq(t, a, b)
             r == SubSeq(t, b + 1, n)
             h == SubSeq(t, 1, b)
  <2>6. p \in Seq(STRING) /\ q \in Seq(STRING) /\ r \in Seq(STRING) /\ h \in Seq(STRING)
    BY <1>0, <2>5
  <2>7. h = p \o q
    <3>1. 1 \in 1..n + 1 /\ a - 1 \in 1 - 1..n /\ b \in a - 1..n /\ (a - 1) + 1 = a
      BY <1>0, <2>5
    <3>2. SubSeq(t, 1, a - 1) \o SubSeq(t, (a - 1) + 1, b) = SubSeq(t, 1, b)
      BY <3>1, ConcatAdjacentSubSeq
    <3>3. QED
      BY <3>1, <3>2
  <2>8. t = h \o r
    <3>1. 1 \in 1..n + 1 /\ b \in 1 - 1..n /\ n \in b..n
      BY <1>0, <2>5
    <3>2. SubSeq(t, 1, b) \o SubSeq(t, b + 1, n) = SubSeq(t, 1, n)
      BY <3>1, ConcatAdjacentSubSeq
    <3>3. SubSeq(t, 1, n) = t
      BY SubSeqFull
    <3>4. QED
      BY <3>2, <3>3
  <2>9. NonBlank(p) = <<>>
    <3>1. Len(p) = a - 1 /\ \A i \in 1..a - 1 : p[i] = t[i]
      BY <1>0, <2>5
    <3>2. ASSUME NEW i \in 1..a - 1 PROVE Blank(t[i])
      <4>1. i \in 1..n /\ ~(a <= i)
        BY <1>0, <2>5
      <4>2. QED
        BY <2>1, <2>4, <4>1
    <3> HIDE DEF p
    <3>3. \A i \in 1..Len(p) : Blank(p[i])
      BY <3>1, <3>2
    <3>4. QED
      BY <2>6, <3>3, AllBlank
  <2>10. NonBlank(r) = <<>>
    <3>1. Len(r) = n - b /\ \A i \in 1..n - b : r[i] = t[b + i]
      <4>1. b \in 1..Len(t)
        BY <2>5
      <4>2. Splits(STRING, t, b)
        BY <4>1, Around
      <4>3. QED
        BY <4>2 DEF Splits
    <3>2. ASSUME NEW i \in 1..n - b PROVE Blank(t[b + i])
      <4>1. \A x, y \in Nat : \A z \in 1..y - x : x >= 1 => x + z \in 1..y /\ ~(x >= x + z)
        OBVIOUS
      <4>3. b + i \in 1..n /\ ~(b >= b + i)
        BY <4>1, <2>5a
      <4>4. QED
        BY <2>2, <2>4, <4>3
    <3> HIDE DEF r
    <3>3. \A i \in 1..Len(r) : Blank(r[i])
      BY <3>1, <3>2
    <3>4. QED
      BY <2>6, <3>3, AllBlank
  <2> HIDE DEF p, q, r, h
  <2>11. NonBlank(t) = NonBlank(h) \o <<>> /\ NonBlank(h) = <<>> \o NonBlank(q)
    <3>1. \A x, y \in Seq(STRING) : NonBlank(x \o y) = NonBlank(x) \o NonBlank(y)
      BY NonBlankConcat
    <3>2. NonBlank(p \o q) = NonBlank(p) \o NonBlank(q)
      BY <2>6, <3>1
    <3>3. NonBlank(h \o r) = NonBlank(h) \o NonBlank(r)
      BY <2>6, <3>1
    <3>4. QED
      BY <2>7, <2>8, <2>9, <2>10, <3>2, <3>3
  <2>12. NonBlank(q) \in Seq(STRING) /\ NonBlank(h) \in Seq(STRING)
    BY <2>6, NonBlankConcat
  <2>13. NonBlank(t) = NonBlank(q)
    BY <2>11, <2>12, ConcatEmptySeq
  <2>14. QED
    BY <2>3, <2>6, <2>13 DEF q
<1>3. QED
  BY <1>1, <1>2

\* No fence is said.
Fenceless(t) == \A i \in 1..Len(t) : t[i] \notin Fences

\* FenceIn, by the members of a text.
LEMMA FenceInOf ==
  ASSUME NEW t \in Seq(STRING)
  PROVE  /\ FenceIn(t) = {} <=> Fenceless(t)
         /\ FenceIn(t) \subseteq 1..Len(t) /\ FenceIn(t) \subseteq Nat
         /\ Fenceless(t) <=> Elements(t) \cap Fences = {}
<1>1. DOMAIN t = 1..Len(t) /\ Len(t) \in Nat
  OBVIOUS
<1>2. QED
  BY <1>1 DEF FenceIn, Fenceless, Elements

\* Two texts without a fence make one.
LEMMA FencelessConcat ==
  ASSUME NEW s \in Seq(STRING), NEW t \in Seq(STRING), Fenceless(s), Fenceless(t)
  PROVE  Fenceless(s \o t)
<1>1. s \o t \in Seq(STRING)
  BY ConcatProperties
<1>2. Elements(s \o t) = Elements(s) \cup Elements(t)
  BY ElementsOfConcat
<1>3. QED
  BY <1>1, <1>2, FenceInOf

\* A text cut at its first fence.
CutAtFence(u, f, v) ==
  LET t == (u \o <<f>>) \o v
  IN /\ FenceIn(t) # {} /\ FirstFence(t) = Len(u) + 1 /\ t[FirstFence(t)] = f
     /\ RemoveAt(t, FirstFence(t)) = u \o v

\* The first fence is where the text before it ends.
LEMMA FirstFenceIs ==
  ASSUME NEW u \in Seq(STRING), NEW v \in Seq(STRING), NEW f \in STRING, f \in Fences, Fenceless(u)
  PROVE  CutAtFence(u, f, v)
<1> DEFINE t == (u \o <<f>>) \o v
           k == Len(u) + 1
<1>1. t \in Seq(STRING) /\ Len(u) \in Nat /\ Len(v) \in Nat /\ Len(t) = k + Len(v) /\ t[k] = f
      /\ (\A i \in 1..Len(u) : t[i] = u[i])
  OBVIOUS
<1>2. k \in 1..Len(t) /\ k \in Nat /\ k - 1 = Len(u)
  BY <1>1
<1>3. DOMAIN t = 1..Len(t)
  BY <1>1
<1>4. Splits(STRING, t, k)
  BY <1>1, <1>2, Around
<1>5. SubSeq(t, 1, k - 1) = u
  <2>1. /\ SubSeq(t, 1, k - 1) \in Seq(STRING) /\ Len(SubSeq(t, 1, k - 1)) = Len(u)
        /\ \A i \in 1..Len(u) : SubSeq(t, 1, k - 1)[i] = u[i]
    BY <1>1, <1>2, <1>4 DEF Splits
  <2>2. QED
    BY <2>1, SeqEqual
<1>6. SubSeq(t, k + 1, Len(t)) = v
  <2>1. \A i \in 1..Len(v) : t[k + i] = v[i]
    OBVIOUS
  <2>2. /\ SubSeq(t, k + 1, Len(t)) \in Seq(STRING) /\ Len(SubSeq(t, k + 1, Len(t))) = Len(t) - k
        /\ \A i \in 1..Len(t) - k : SubSeq(t, k + 1, Len(t))[i] = t[k + i]
    BY <1>4 DEF Splits
  <2>3. Len(t) - k = Len(v)
    BY <1>1
  <2>4. QED
    BY <2>1, <2>2, <2>3, SeqEqual
<1> HIDE DEF t
<1>7. k \in FenceIn(t)
  BY <1>1, <1>2, <1>3 DEF FenceIn
<1>8. \A j \in FenceIn(t) : k <= j
  <2>1. ASSUME NEW j \in FenceIn(t), ~(k <= j) PROVE FALSE
    <3>1. j \in 1..Len(t) /\ t[j] \in Fences
      BY <1>3 DEF FenceIn
    <3>2. j \in 1..Len(u)
      BY <1>1, <2>1, <3>1
    <3>3. QED
      BY <1>1, <3>1, <3>2 DEF Fenceless
  <2>2. QED
    BY <2>1
<1>9. FirstFence(t) = k
  <2>1. FenceIn(t) \subseteq Nat
    BY <1>1, FenceInOf
  <2>2. QED
    BY <1>7, <1>8, <2>1, LeastIs DEF FirstFence
<1>10. RemoveAt(t, k) = u \o v
  BY <1>5, <1>6 DEF RemoveAt
<1>11. FenceIn(t) # {} /\ FirstFence(t) = Len(u) + 1 /\ t[FirstFence(t)] = f
       /\ RemoveAt(t, FirstFence(t)) = u \o v
  BY <1>1, <1>7, <1>9, <1>10
<1>12. QED
  BY <1>11 DEF CutAtFence, t

\* A text block of the parts.
LEMMA ProseHolds ==
  ASSUME NEW t \in Seq(STRING)
  PROVE  /\ Optional(Text(t)) \in Seq(Prompted)
         /\ Words(Optional(Text(t)), "text") = t /\ Calls(Optional(Text(t))) = <<>>
<1>1. Text(t) \in PlainBlock /\ Text(t).is = "text" /\ Text(t).words = t
  BY DEF Text, PlainBlock
<1>2. Text(t) \in Prompted /\ WordsOf[Text(t)] = t /\ CallOf[Text(t)] = <<>>
  BY <1>1, PromptedParts
<1>3. CASE t = <<>>
  <2>1. Optional(Text(t)) = <<>>
    BY <1>1, <1>3 DEF Optional
  <2>2. <<>> \in Seq(Prompted)
    OBVIOUS
  <2>3. Words(<<>>, "text") = <<>> /\ Calls(<<>>) = <<>>
    BY <2>2, PromptedPieces, PiecesEmpty
  <2>4. QED
    BY <1>3, <2>1, <2>2, <2>3
<1>4. CASE t # <<>>
  <2>1. Optional(Text(t)) = <<Text(t)>>
    BY <1>1, <1>4 DEF Optional
  <2>2. QED
    BY <1>2, <2>1, PromptedOne
<1>5. QED
  BY <1>3, <1>4

\* A text before, at and after its first fence.
Ahead(t) == SubSeq(t, 1, FirstFence(t) - 1)
Behind(t) == SubSeq(t, FirstFence(t) + 1, Len(t))
CallAtFence(t) == Call(MadeUp(0), FenceName[t[FirstFence(t)]], EmptyObject)

\* A text is what is before its first fence, the fence, and the rest.
LEMMA FenceSplits ==
  ASSUME NEW t \in Seq(STRING), FenceIn(t) # {}
  PROVE  /\ Ahead(t) \in Seq(STRING) /\ Behind(t) \in Seq(STRING) /\ Fenceless(Ahead(t))
         /\ t[FirstFence(t)] \in STRING /\ t[FirstFence(t)] \in Fences
         /\ t = (Ahead(t) \o <<t[FirstFence(t)]>>) \o Behind(t)
<1>1. FenceIn(t) \subseteq 1..Len(t) /\ FenceIn(t) \subseteq Nat
  BY FenceInOf
<1>2. PICK k \in FenceIn(t) : \A j \in FenceIn(t) : k <= j
  BY <1>1, LeastExists
<1>3. FirstFence(t) = k
  BY <1>1, <1>2, LeastIs DEF FirstFence
<1>4. k \in 1..Len(t) /\ k \in Nat /\ Len(t) \in Nat /\ t[k] \in Fences /\ t[k] \in STRING
  BY <1>1 DEF FenceIn
<1>5. Splits(STRING, t, k)
  BY <1>4, Around
<1>6. /\ Ahead(t) \in Seq(STRING) /\ Behind(t) \in Seq(STRING) /\ t = (Ahead(t) \o <<t[k]>>) \o Behind(t)
      /\ Len(Ahead(t)) = k - 1 /\ \A i \in 1..k - 1 : Ahead(t)[i] = t[i]
  BY <1>3, <1>5 DEF Splits, Ahead, Behind
<1>7. Fenceless(Ahead(t))
  <2>1. ASSUME NEW i \in 1..k - 1 PROVE t[i] \notin Fences
    <3>1. i \in 1..Len(t) /\ ~(k <= i) /\ DOMAIN t = 1..Len(t)
      BY <1>4
    <3>2. QED
      BY <1>2, <3>1 DEF FenceIn
  <2>2. QED
    BY <1>6, <2>1 DEF Fenceless
<1>8. QED
  BY <1>3, <1>4, <1>6, <1>7

\* What extractToolCall makes of a text.
LEMMA Extracted ==
  ASSUME NEW t \in Seq(STRING), FenceIn(t) # {}
  PROVE  /\ ExtractToolCall(t) \in Seq(Prompted)
         /\ Words(ExtractToolCall(t), "text") = Trimmed(Ahead(t)) \o Trimmed(Behind(t))
         /\ Calls(ExtractToolCall(t)) = <<CallAtFence(t)>>
<1> DEFINE p == Optional(Text(Trimmed(Ahead(t))))
           c == <<CallAtFence(t)>>
           r == Optional(Text(Trimmed(Behind(t))))
<1>1. ExtractToolCall(t) = (p \o c) \o r
  BY DEF ExtractToolCall, Ahead, Behind, CallAtFence
<1>2. /\ Ahead(t) \in Seq(STRING) /\ Behind(t) \in Seq(STRING) /\ t[FirstFence(t)] \in Fences
  BY FenceSplits
<1>3. Trimmed(Ahead(t)) \in Seq(STRING) /\ Trimmed(Behind(t)) \in Seq(STRING)
  BY <1>2, TrimmedKeeps
<1>4. p \in Seq(Prompted) /\ Words(p, "text") = Trimmed(Ahead(t)) /\ Calls(p) = <<>>
  BY <1>3, ProseHolds
<1>5. r \in Seq(Prompted) /\ Words(r, "text") = Trimmed(Behind(t)) /\ Calls(r) = <<>>
  BY <1>3, ProseHolds
<1>6. CallAtFence(t) \in MadeBlock
  BY <1>2 DEF CallAtFence, MadeBlock
<1>7. c \in Seq(Prompted) /\ Words(c, "text") = <<>> /\ Calls(c) = c
  BY <1>6, PromptedParts, PromptedOne
<1> HIDE DEF p, c, r
<1>8. p \o c \in Seq(Prompted)
  BY <1>4, <1>7, ConcatProperties
<1>9. (p \o c) \o r \in Seq(Prompted)
  BY <1>5, <1>8, ConcatProperties
<1>10. /\ Words((p \o c) \o r, "text") = Words(p \o c, "text") \o Words(r, "text")
       /\ Calls((p \o c) \o r) = Calls(p \o c) \o Calls(r)
  BY <1>5, <1>8, PromptedConcat
<1>11. Words(p \o c, "text") = Words(p, "text") \o Words(c, "text") /\ Calls(p \o c) = Calls(p) \o Calls(c)
  BY <1>4, <1>7, PromptedConcat
<1>12. Words(p \o c, "text") = Trimmed(Ahead(t))
  BY <1>3, <1>4, <1>7, <1>11, ConcatEmptySeq
<1>13. Calls(p \o c) = c
  BY <1>4, <1>7, <1>11, ConcatEmptySeq
<1>14. Calls((p \o c) \o r) = c
  BY <1>5, <1>7, <1>10, <1>13, ConcatEmptySeq
<1>15. QED
  BY <1>1, <1>5, <1>9, <1>10, <1>12, <1>14 DEF c

\* The words of a text block.
SpokenIn(e) == IF e.is = "text" THEN e.words ELSE <<>>

\* A block holds a fence, or its words have none.
LEMMA HoldFencesOf ==
  ASSUME NEW s \in Seq(PlainBlock)
  PROVE  /\ HoldFences(s) \subseteq 1..Len(s) /\ HoldFences(s) \subseteq Nat
         /\ \A i \in HoldFences(s) : SpokenIn(s[i]) = s[i].words /\ FenceIn(s[i].words) # {}
         /\ \A i \in 1..Len(s) : SpokenIn(s[i]) \in Seq(STRING)
         /\ \A i \in 1..Len(s) : i \notin HoldFences(s) => Fenceless(SpokenIn(s[i]))
<1>1. DOMAIN s = 1..Len(s) /\ Len(s) \in Nat /\ \A i \in 1..Len(s) : s[i] \in PlainBlock
  OBVIOUS
<1>2. \A e \in PlainBlock : e.words \in Seq(STRING)
  BY DEF PlainBlock
<1>3. <<>> \in Seq(STRING) /\ Fenceless(<<>>)
  BY DEF Fenceless
<1>4. \A i \in 1..Len(s) : SpokenIn(s[i]) \in Seq(STRING)
  BY <1>1, <1>2, <1>3 DEF SpokenIn
<1>5. ASSUME NEW i \in 1..Len(s), i \notin HoldFences(s) PROVE Fenceless(SpokenIn(s[i]))
  <2>1. CASE s[i].is = "text"
    <3>1. FenceIn(s[i].words) = {}
      BY <1>1, <1>5, <2>1 DEF HoldFences
    <3>2. QED
      BY <1>1, <1>2, <2>1, <3>1, FenceInOf DEF SpokenIn
  <2>2. CASE s[i].is # "text"
    BY <1>3, <2>2 DEF SpokenIn
  <2>3. QED
    BY <2>1, <2>2
<1>6. HoldFences(s) \subseteq 1..Len(s)
  BY <1>1 DEF HoldFences
<1>7. \A i \in HoldFences(s) : SpokenIn(s[i]) = s[i].words /\ FenceIn(s[i].words) # {}
  BY DEF HoldFences, SpokenIn
<1>8. QED
  BY <1>1, <1>4, <1>5, <1>6, <1>7

\* A reply says a fence if and only if one of its blocks holds one.
LEMMA FencesSaid ==
  ASSUME NEW s \in Seq(PlainBlock)
  PROVE  /\ s \in Seq(Prompted) /\ Words(s, "text") \in Seq(STRING)
         /\ HoldFences(s) = {} <=> Fenceless(Words(s, "text"))
<1> DEFINE p == Mapped(WordsOf, s)
<1>1. s \in Seq(Prompted) /\ WordsOf \in [Prompted -> Seq(STRING)]
  BY NoCalls, PromptedParts
<1>2. p \in Seq(Seq(STRING)) /\ Len(p) = Len(s)
  <2>1. \A D : \A g \in [Prompted -> Seq(D)] : \A x \in Seq(Prompted) :
          Mapped(g, x) \in Seq(Seq(D)) /\ Len(Mapped(g, x)) = Len(x)
    BY PieceSeq
  <2>2. QED
    BY <1>1, <2>1
<1>3. Words(s, "text") = FlattenSeq(p) /\ Words(s, "text") \in Seq(STRING)
  BY <1>1, <1>2, PromptedPieces, FlattenType DEF PiecesOf
<1>4. \A i \in 1..Len(s) : p[i] = SpokenIn(s[i]) /\ i \in DOMAIN s
  <2>1. \A i \in 1..Len(s) : s[i] \in PlainBlock /\ i \in DOMAIN s
    OBVIOUS
  <2>2. QED
    BY <2>1, PromptedParts DEF SpokenIn, Mapped
<1> HIDE DEF p
<1>5. Elements(Words(s, "text")) = UNION {Elements(p[i]) : i \in 1..Len(s)}
  BY <1>2, <1>3, FlattenElements DEF ElementsBelow
<1>6. ASSUME HoldFences(s) = {} PROVE Fenceless(Words(s, "text"))
  <2>1. \A i \in 1..Len(s) : Elements(p[i]) \cap Fences = {}
    BY <1>4, <1>6, HoldFencesOf, FenceInOf
  <2>2. QED
    BY <1>3, <1>5, <2>1, FenceInOf
<1>7. ASSUME NEW k \in HoldFences(s) PROVE ~Fenceless(Words(s, "text"))
  <2>1. k \in 1..Len(s) /\ SpokenIn(s[k]) \in Seq(STRING) /\ FenceIn(SpokenIn(s[k])) # {}
    BY HoldFencesOf
  <2>2. Elements(p[k]) \cap Fences # {}
    BY <1>4, <2>1, FenceInOf
  <2>3. QED
    BY <1>3, <1>5, <2>1, <2>2, FenceInOf
<1>8. QED
  BY <1>1, <1>3, <1>6, <1>7

\* The words and calls of a sequence in three parts.
LEMMA PromptedThree ==
  ASSUME NEW a \in Seq(Prompted), NEW b \in Seq(Prompted), NEW c \in Seq(Prompted)
  PROVE  /\ Words((a \o b) \o c, "text") = (Words(a, "text") \o Words(b, "text")) \o Words(c, "text")
         /\ Calls((a \o b) \o c) = (Calls(a) \o Calls(b)) \o Calls(c)
<1>1. a \o b \in Seq(Prompted)
  BY ConcatProperties
<1>2. Words(a \o b, "text") = Words(a, "text") \o Words(b, "text") /\ Calls(a \o b) = Calls(a) \o Calls(b)
  BY PromptedConcat
<1>3. /\ Words((a \o b) \o c, "text") = Words(a \o b, "text") \o Words(c, "text")
      /\ Calls((a \o b) \o c) = Calls(a \o b) \o Calls(c)
  BY <1>1, PromptedConcat
<1>4. QED
  BY <1>2, <1>3

\* Four and five in a row, each as one fact.
Regroups(a, p, r, c) == (a \o (p \o r)) \o c = (a \o p) \o (r \o c)

\* Two ways to put four texts together.
LEMMA ConcatFour ==
  ASSUME NEW S, NEW a \in Seq(S), NEW p \in Seq(S), NEW r \in Seq(S), NEW c \in Seq(S)
  PROVE  Regroups(a, p, r, c)
<1>1. a \o (p \o r) = (a \o p) \o r
  BY ConcatAssociative
<1>2. a \o p \in Seq(S)
  BY ConcatProperties
<1>3. ((a \o p) \o r) \o c = (a \o p) \o (r \o c)
  BY <1>2, ConcatAssociative, SMTT(30)
<1>4. QED
  BY <1>1, <1>3 DEF Regroups

\* TrimSpace at the fence takes no words.
LEMMA NonBlankFour ==
  ASSUME NEW a \in Seq(STRING), NEW p \in Seq(STRING), NEW r \in Seq(STRING), NEW c \in Seq(STRING)
  PROVE  NonBlank((a \o (Trimmed(p) \o Trimmed(r))) \o c) = NonBlank((a \o p) \o (r \o c))
<1> DEFINE x == Trimmed(p)
           y == Trimmed(r)
           xy == x \o y
           axy == a \o xy
           ap == a \o p
           rc == r \o c
           A == NonBlank(a)
           P == NonBlank(p)
           R == NonBlank(r)
           C == NonBlank(c)
<1>1. x \in Seq(STRING) /\ y \in Seq(STRING) /\ NonBlank(x) = P /\ NonBlank(y) = R
  BY TrimmedKeeps
<1> HIDE DEF x, y
<1>2. xy \in Seq(STRING) /\ ap \in Seq(STRING) /\ rc \in Seq(STRING)
  BY <1>1, ConcatProperties
<1>3. NonBlank(xy) = P \o R
  <2>1. \A u, v \in Seq(STRING) : NonBlank(u \o v) = NonBlank(u) \o NonBlank(v)
    BY NonBlankConcat
  <2>2. NonBlank(x \o y) = NonBlank(x) \o NonBlank(y)
    BY <1>1, <2>1
  <2>3. QED
    BY <1>1, <2>2
<1>4. NonBlank(ap) = A \o P /\ NonBlank(rc) = R \o C
  BY NonBlankConcat
<1>5. A \in Seq(STRING) /\ P \in Seq(STRING) /\ R \in Seq(STRING) /\ C \in Seq(STRING)
  BY NonBlankConcat
<1> HIDE DEF xy, ap, rc
<1>6. NonBlank(axy) = A \o NonBlank(xy) /\ axy \in Seq(STRING)
  BY <1>2, NonBlankConcat, ConcatProperties
<1> HIDE DEF axy
<1>7. NonBlank(axy \o c) = NonBlank(axy) \o C
  BY <1>6, NonBlankConcat
<1>8. NonBlank(ap \o rc) = NonBlank(ap) \o NonBlank(rc)
  BY <1>2, NonBlankConcat
<1> HIDE DEF A, P, R, C
<1>9. (A \o (P \o R)) \o C = (A \o P) \o (R \o C)
  <2>1. Regroups(A, P, R, C)
    BY <1>5, ConcatFour
  <2>2. QED
    BY <2>1 DEF Regroups
<1>10. NonBlank(axy \o c) = NonBlank(ap \o rc)
  BY <1>3, <1>4, <1>6, <1>7, <1>8, <1>9
<1>11. QED
  BY <1>10 DEF x, y, xy, axy, ap, rc

\* OnePromptedCall, for one reply.
ParsedOnce(s) ==
  LET parsed == ParseToolCall(s)
      words == Words(s, "text")
  IN IF FenceIn(words) = {} THEN parsed = s
     ELSE /\ Calls(parsed) = <<Call(MadeUp(0), FenceName[words[FirstFence(words)]], EmptyObject)>>
          /\ NonBlank(Words(parsed, "text")) = NonBlank(RemoveAt(words, FirstFence(words)))

\* A reply without a fence stays as it is.
LEMMA NothingParsed ==
  ASSUME NEW s \in Seq(PlainBlock), HoldFences(s) = {}
  PROVE  ParseToolCall(s) = s
<1>1. DOMAIN s = 1..Len(s)
  OBVIOUS
<1>2. FlattenSeq([i \in 1..Len(s) |-> <<s[i]>>]) = s
  BY FlattenSingly
<1>3. [i \in DOMAIN s |->
        IF i \in HoldFences(s) /\ \A j \in HoldFences(s) : i <= j
        THEN ExtractToolCall(s[i].words) ELSE <<s[i]>>] = [i \in 1..Len(s) |-> <<s[i]>>]
  BY <1>1
<1>4. QED
  BY <1>2, <1>3 DEF ParseToolCall

\* parseToolCall puts the parts of the first block with a fence in its place.
LEMMA ParsedAt ==
  ASSUME NEW s \in Seq(PlainBlock), NEW k \in HoldFences(s), \A j \in HoldFences(s) : k <= j
  PROVE  ParseToolCall(s) = (SubSeq(s, 1, k - 1) \o ExtractToolCall(s[k].words)) \o SubSeq(s, k + 1, Len(s))
<1> DEFINE e == ExtractToolCall(s[k].words)
           H == HoldFences(s)
<1>1. DOMAIN s = 1..Len(s) /\ H \subseteq 1..Len(s) /\ H \subseteq Nat
  BY HoldFencesOf
<1>2. s \in Seq(Prompted) /\ k \in 1..Len(s)
  BY <1>1, FencesSaid
<1>3. e \in Seq(Prompted)
  <2>1. s[k].words \in Seq(STRING) /\ FenceIn(s[k].words) # {}
    BY <1>2, HoldFencesOf
  <2>2. QED
    BY <2>1, Extracted
<1>4. \A i \in 1..Len(s) : (i \in H /\ \A j \in H : i <= j) <=> i = k
  BY <1>1
<1>5. [i \in DOMAIN s |->
        IF i \in H /\ \A j \in H : i <= j THEN ExtractToolCall(s[i].words) ELSE <<s[i]>>]
      = [i \in 1..Len(s) |-> IF i = k THEN e ELSE <<s[i]>>]
  BY <1>1, <1>4
<1> HIDE DEF e
<1>6. FlattenSeq([i \in 1..Len(s) |-> IF i = k THEN e ELSE <<s[i]>>])
      = (SubSeq(s, 1, k - 1) \o e) \o SubSeq(s, k + 1, Len(s))
  BY <1>2, <1>3, FlattenInstead
<1>7. QED
  BY <1>5, <1>6 DEF ParseToolCall, e

Reworded(a, p, f, r, c) == (a \o ((p \o f) \o r)) \o c = ((a \o p) \o f) \o (r \o c)

Grouped(s, t, u) == (s \o t) \o u = s \o (t \o u)

\* Joining is associative.
LEMMA GroupedHolds ==
  ASSUME NEW S, NEW s \in Seq(S), NEW t \in Seq(S), NEW u \in Seq(S)
  PROVE  Grouped(s, t, u)
BY ConcatAssociative DEF Grouped

\* Two ways to put five together.
LEMMA RewordedHolds ==
  ASSUME NEW S, NEW a \in Seq(S), NEW p \in Seq(S), NEW f \in Seq(S), NEW r \in Seq(S), NEW c \in Seq(S)
  PROVE  Reworded(a, p, f, r, c)
<1>1. p \o f \in Seq(S) /\ a \o p \in Seq(S)
  BY ConcatProperties
<1>2. (a \o p) \o f \in Seq(S)
  BY <1>1, ConcatProperties
<1>3. Grouped(a, p, f)
  BY GroupedHolds
<1>4. Grouped(a, p \o f, r)
  BY <1>1, GroupedHolds
<1>5. Grouped((a \o p) \o f, r, c)
  BY <1>2, GroupedHolds
<1>6. QED
  BY <1>3, <1>4, <1>5 DEF Reworded, Grouped

\* OnePromptedCall holds of every plain reply.
LEMMA PromptedReply ==
  ASSUME NEW s \in Seq(PlainBlock)
  PROVE  ParsedOnce(s)
<1>1. s \in Seq(Prompted) /\ Words(s, "text") \in Seq(STRING)
  BY FencesSaid
<1>2. CASE HoldFences(s) = {}
  <2>1. FenceIn(Words(s, "text")) = {}
    BY <1>1, <1>2, FencesSaid, FenceInOf
  <2>2. ParseToolCall(s) = s
    BY <1>2, NothingParsed
  <2>3. QED
    BY <2>1, <2>2 DEF ParsedOnce
<1>3. CASE HoldFences(s) # {}
  <2>1. HoldFences(s) \subseteq 1..Len(s) /\ HoldFences(s) \subseteq Nat
    BY HoldFencesOf
  <2>2. PICK k \in HoldFences(s) : \A j \in HoldFences(s) : k <= j
    BY <1>3, <2>1, LeastExists
  <2> DEFINE t == s[k].words
             A == SubSeq(s, 1, k - 1)
             C == SubSeq(s, k + 1, Len(s))
             E == ExtractToolCall(t)
             f == t[FirstFence(t)]
             a == Words(A, "text")
             c == Words(C, "text")
             p == Ahead(t)
             r == Behind(t)
  <2>3. t \in Seq(STRING) /\ FenceIn(t) # {} /\ SpokenIn(s[k]) = t /\ k \in 1..Len(s)
    BY <2>1, HoldFencesOf
  <2>4. Splits(PlainBlock, s, k)
    BY <2>3, Around
  <2>5. /\ A \in Seq(PlainBlock) /\ C \in Seq(PlainBlock) /\ s[k] \in PlainBlock
        /\ Len(A) = k - 1 /\ (\A i \in 1..k - 1 : A[i] = s[i]) /\ s = (A \o <<s[k]>>) \o C
    BY <2>4 DEF Splits
  <2>6. HoldFences(A) = {}
    <3>1. ASSUME NEW i \in HoldFences(A) PROVE FALSE
      <4>1. i \in 1..k - 1 /\ FenceIn(A[i].words) # {} /\ A[i].is = "text" /\ A[i] = s[i]
        <5>1. i \in 1..Len(A) /\ FenceIn(A[i].words) # {} /\ A[i].is = "text"
          BY <2>5, HoldFencesOf DEF HoldFences
        <5>2. QED
          BY <2>5, <5>1
      <4>2. i \in 1..Len(s) /\ DOMAIN s = 1..Len(s) /\ ~(k <= i)
        BY <2>3, <4>1
      <4>3. i \in HoldFences(s)
        BY <4>1, <4>2 DEF HoldFences
      <4>4. QED
        BY <2>2, <4>2, <4>3
    <3>2. QED
      BY <3>1
  <2>7. A \in Seq(Prompted) /\ C \in Seq(Prompted) /\ Calls(A) = <<>> /\ Calls(C) = <<>>
    BY <2>5, NoCalls
  <2>8. a \in Seq(STRING) /\ c \in Seq(STRING) /\ Fenceless(a)
    BY <2>5, <2>6, FencesSaid
  <2>9. /\ <<s[k]>> \in Seq(Prompted) /\ Words(<<s[k]>>, "text") = t
    <3>1. s[k] \in Prompted /\ WordsOf[s[k]] = SpokenIn(s[k])
      BY <2>5, PromptedParts DEF SpokenIn
    <3>2. QED
      BY <2>3, <3>1, PromptedOne
  <2>10. /\ E \in Seq(Prompted) /\ Words(E, "text") = Trimmed(p) \o Trimmed(r)
         /\ Calls(E) = <<CallAtFence(t)>>
    BY <2>3, Extracted
  <2>11. /\ p \in Seq(STRING) /\ r \in Seq(STRING) /\ Fenceless(p) /\ f \in STRING /\ f \in Fences
         /\ t = (p \o <<f>>) \o r
    BY <2>3, FenceSplits
  <2>12. ParseToolCall(s) = (A \o E) \o C
    BY <2>2, ParsedAt
  <2>13. CallAtFence(t) = Call(MadeUp(0), FenceName[f], EmptyObject)
    BY DEF CallAtFence
  <2> HIDE DEF t, A, C, E, f, a, c, p, r
  <2>14. Words(s, "text") = (a \o t) \o c
    <3>1. Words((A \o <<s[k]>>) \o C, "text") = (a \o t) \o c
      BY <2>7, <2>9, PromptedThree DEF a, c
    <3>2. QED
      BY <2>5, <3>1
  <2> DEFINE u == a \o p
             v == r \o c
             w == (u \o <<f>>) \o v
  <2>15. u \in Seq(STRING) /\ v \in Seq(STRING) /\ Fenceless(u)
    BY <2>8, <2>11, ConcatProperties, FencelessConcat
  <2>16. Words(s, "text") = w
    <3>1. <<f>> \in Seq(STRING)
      BY <2>11, OneLong
    <3>2. Reworded(a, p, <<f>>, r, c)
      BY <2>8, <2>11, <3>1, RewordedHolds
    <3>3. QED
      BY <2>11, <2>14, <3>2 DEF Reworded
  <2> HIDE DEF u, v
  <2>17. CutAtFence(u, f, v)
    BY <2>11, <2>15, FirstFenceIs
  <2>18. FenceIn(w) # {} /\ w[FirstFence(w)] = f /\ RemoveAt(w, FirstFence(w)) = u \o v
    BY <2>17 DEF CutAtFence
  <2>19. /\ Words((A \o E) \o C, "text") = (a \o (Trimmed(p) \o Trimmed(r))) \o c
         /\ Calls((A \o E) \o C) = (<<>> \o <<CallAtFence(t)>>) \o <<>>
    <3>1. Words((A \o E) \o C, "text") = (Words(A, "text") \o Words(E, "text")) \o Words(C, "text")
      BY <2>7, <2>10, PromptedThree
    <3>2. Calls((A \o E) \o C) = (Calls(A) \o Calls(E)) \o Calls(C)
      BY <2>7, <2>10, PromptedThree
    <3>3. (Words(A, "text") \o Words(E, "text")) \o Words(C, "text") = (a \o (Trimmed(p) \o Trimmed(r))) \o c
      BY <2>10 DEF a, c
    <3>4. (Calls(A) \o Calls(E)) \o Calls(C) = (<<>> \o <<CallAtFence(t)>>) \o <<>>
      BY <2>7, <2>10
    <3>5. QED
      BY <3>1, <3>2, <3>3, <3>4
  <2>20. NonBlank((a \o (Trimmed(p) \o Trimmed(r))) \o c) = NonBlank(u \o v)
    BY <2>8, <2>11, NonBlankFour DEF u, v
  <2>21. (<<>> \o <<CallAtFence(t)>>) \o <<>> = <<CallAtFence(t)>>
    OBVIOUS
  <2> HIDE DEF w
  <2>22. Calls(ParseToolCall(s)) = <<Call(MadeUp(0), FenceName[w[FirstFence(w)]], EmptyObject)>>
    BY <2>12, <2>13, <2>18, <2>19, <2>21
  <2>23. NonBlank(Words(ParseToolCall(s), "text")) = NonBlank(RemoveAt(w, FirstFence(w)))
    BY <2>12, <2>18, <2>19, <2>20
  <2>24. QED
    BY <2>16, <2>18, <2>22, <2>23 DEF ParsedOnce
<1>4. QED
  BY <1>2, <1>3

\* OnePromptedCall: a prompted reply of any blocks and words has one call, that of
\* its first fence, or none, and loses no other word.
THEOREM OneCallIsMade == Spec => []OnePromptedCall
<1>1. OnePromptedCall
  <2>1. ASSUME NEW blocks \in PlainReplies PROVE ParsedOnce(blocks)
    BY RequestAssumption, PromptedReply
  <2>2. QED
    BY <2>1 DEF OnePromptedCall, ParsedOnce
<1>2. QED
  BY <1>1, PTL
=============================================================================
