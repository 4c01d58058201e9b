---------------------------- MODULE MCAgentLoop ----------------------------
(* AgentLoop on small instances.  read1 and read2 are two calls with the same *)
(* name and arguments, write1 is a call of a tool that needs approval.        *)
EXTENDS AgentLoop

CONSTANTS read1, read2, write1

MCSignature == [i \in Ids |-> IF i = write1 THEN "write" ELSE "read"]

Calling(ids) == [AssistantText("none") EXCEPT !.uses = ids]

Answers == {AssistantText("words"), AssistantText("none")}

\* One safe call, its twin under another ID, a gated call, and both at once; the
\* same ID twice in one message, which nothing in the adapters rules out.
WideReplies == Answers \cup {Calling(<<read1>>), Calling(<<read2>>),
                        Calling(<<write1, read1>>), Calling(<<read2, read2>>)}

NarrowReplies == Answers \cup {Calling(<<read1>>), Calling(<<write1, read1>>)}

SavedTurn == <<UserText, Calling(<<read1>>), ResultMessage(<<read1>>), AssistantText("words")>>

\* One long turn with every reply and two sizes of usage, and sessions of short turns,
\* in which turns fail, conversations are loaded and earlier turns compacted.
LongTurn == [left |-> 1, rounds |-> 4, replies |-> WideReplies, usages |-> {1, 2}]

Session(turns, rounds) ==
  [left |-> turns, rounds |-> rounds, replies |-> NarrowReplies, usages |-> {1}]

MCScripts == {LongTurn, Session(2, 2), Session(3, 1)}

MCSaved == {SavedTurn, SavedTurn \o <<UserText>>}
=============================================================================
