----------------------------- MODULE MCStreams -----------------------------
EXTENDS Streams

AllBackends == {"openai", "ollama", "anthropic"}

CONSTANTS call1, call2

Speaker(text, thinking, uses) ==
  [role |-> "assistant", text |-> text, thinking |-> thinking, uses |-> uses, results |-> <<>>]

Candidates == {UserText, ResultMessage(<<call1>>), ResultMessage(<<call1, call2>>),
               [ResultMessage(<<call1>>) EXCEPT !.text = "words"],
               Speaker("words", TRUE, <<>>), Speaker("none", FALSE, <<call1>>),
               Speaker("words", FALSE, <<call1, call2>>), Speaker("none", TRUE, <<>>)}

Histories == {msgs \in UNION {[1 .. n -> Candidates] : n \in 0 .. 4} : Valid(msgs)}

\* Only the Ollama adapter looks into the text while it streams.
TokensOf == [b \in AllBackends |-> IF b = "ollama" THEN {"{", "read", "word", " "} ELSE {"word"}]

ChunksOf == [b \in AllBackends |-> IF b = "ollama" THEN 3 ELSE 4]

Prose == {"word", " ", "fenced", "broken"}
FenceNames == [f \in {"fenced", "broken"} |-> IF f = "fenced" THEN "read" ELSE ParseError]

Replies == {<<Text(t)>> : t \in UNION {[1 .. n -> Prose] : n \in 1 .. 3}}
           \cup {<<[is |-> kind, words |-> <<t>>], Text(<<u>>)>> : kind \in {"text", "thinking"}, t, u \in Prose}
=============================================================================
