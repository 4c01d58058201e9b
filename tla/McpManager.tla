----------------------------- MODULE McpManager -----------------------------
(***************************************************************************)
(* The MCP servers of one chat session: cmd/pico's mcpManager, the          *)
(* concurrent discovery it starts (internal/mcp/discover.go), and the       *)
(* entries it keeps in the tools.Registry.  What a Client does inside is    *)
(* McpClient's matter; here it is a process that runs or does not.          *)
(*                                                                          *)
(* Names are sequences of atoms, so that a name may hold the separator of   *)
(* the Registry's names.  Time counts in ticks.                             *)
(***************************************************************************)
EXTENDS Integers, Sequences, FiniteSets

CONSTANTS
  Configured,     \* the servers' names, in the order of mcpManager.servers
  Offers,         \* the sets of tools a server may list
  Timeout,        \* mcpDiscoverTimeout, in ticks
  OwnDriver,      \* commands run on a goroutine of their own (the TUI)
  MaxReconnects   \* bound of the model: /mcp reconnect commands

ASSUME ManagerAssumption ==
  /\ Configured \in Seq(Seq(STRING)) /\ Configured # <<>>
  /\ \A i, j \in DOMAIN Configured : i # j => Configured[i] # Configured[j]
  /\ \A offer \in Offers : offer \subseteq Seq(STRING)
  /\ Timeout \in Nat \ {0} /\ OwnDriver \in BOOLEAN /\ MaxReconnects \in Nat

Servers == DOMAIN Configured

NoClient == 0

VARIABLES
  pc,           \* what the manager is doing
  subject,      \* the server whose results are next, or which is reconnected
  phase,        \* where each server's discoverOne is
  left, spent,  \* time its current deadline leaves it, time since it began
  found, listed,     \* what it settled with: a client and the tools
  client, tools,     \* mcpServerState
  registry,     \* entries [name, server, client]
  born, live,   \* clients started so far; those whose process runs
  reconnects,   \* commands taken
  down          \* shutdown has run

discovery == <<phase, left, spent, found, listed>>
states == <<client, tools>>
vars == <<pc, subject, discovery, states, registry, born, live, reconnects, down>>

Pending == {s \in Servers : phase[s] \in {"starting", "handshake", "listing"}}

\* newMCPManager starts with Discover over every server.
Init ==
  /\ pc = "discovering" /\ subject = 1
  /\ phase = [s \in Servers |-> "starting"]
  /\ left = [s \in Servers |-> 0] /\ spent = [s \in Servers |-> 0]
  /\ found = [s \in Servers |-> NoClient] /\ listed = [s \in Servers |-> {}]
  /\ client = [s \in Servers |-> NoClient] /\ tools = [s \in Servers |-> {}]
  /\ registry = {} /\ born = 0 /\ live = {} /\ reconnects = 0 /\ down = FALSE
-----------------------------------------------------------------------------
(* discoverOne, one goroutine per server. *)

discoverFrame == <<pc, subject, states, registry, reconnects, down>>

Settle(s, c, offer) ==
  /\ phase' = [phase EXCEPT ![s] = "settled"]
  /\ found' = [found EXCEPT ![s] = c] /\ listed' = [listed EXCEPT ![s] = offer]
  /\ left' = [left EXCEPT ![s] = 0] /\ spent' = [spent EXCEPT ![s] = 0]

\* The process starts, and the handshake has Timeout from here.
Spawn(s) ==
  /\ phase[s] = "starting"
  /\ phase' = [phase EXCEPT ![s] = "handshake"]
  /\ born' = born + 1 /\ live' = live \cup {born + 1}
  /\ found' = [found EXCEPT ![s] = born + 1]
  /\ left' = [left EXCEPT ![s] = Timeout]
  /\ UNCHANGED <<spent, listed, discoverFrame>>

SpawnFails(s) ==
  /\ phase[s] = "starting"
  /\ Settle(s, NoClient, {})
  /\ UNCHANGED <<born, live, discoverFrame>>

\* tools/list has a deadline of its own.
ShakesHands(s) ==
  /\ phase[s] = "handshake" /\ found[s] \in live
  /\ phase' = [phase EXCEPT ![s] = "listing"]
  /\ left' = [left EXCEPT ![s] = Timeout]
  /\ UNCHANGED <<spent, found, listed, born, live, discoverFrame>>

Lists(s) ==
  /\ phase[s] = "listing" /\ found[s] \in live
  /\ \E offer \in Offers : Settle(s, found[s], offer)
  /\ UNCHANGED <<born, live, discoverFrame>>

\* Mutant: a server that did not answer is left running.
AbandonRunning(s) ==
  /\ phase[s] \in {"handshake", "listing"}
  /\ Settle(s, NoClient, {})
  /\ UNCHANGED <<born, live, discoverFrame>>

\* Mutant: the list's deadline fires unheard.
AbandonHandshake(s) ==
  /\ phase[s] = "handshake"
  /\ Settle(s, NoClient, {})
  /\ live' = live \ {found[s]}
  /\ UNCHANGED <<born, discoverFrame>>

\* An error, or the deadline: the process is killed.
Abandon(s) ==
  /\ phase[s] \in {"handshake", "listing"}
  /\ Settle(s, NoClient, {})
  /\ live' = live \ {found[s]}
  /\ UNCHANGED <<born, discoverFrame>>

\* Time passes for all of them, though never beyond a deadline.
Tick ==
  /\ Pending # {} /\ \A s \in Pending : left[s] > 0
  /\ left' = [s \in Servers |-> IF s \in Pending THEN left[s] - 1 ELSE left[s]]
  /\ spent' = [s \in Servers |-> IF s \in Pending THEN spent[s] + 1 ELSE spent[s]]
  /\ UNCHANGED <<phase, found, listed, born, live, discoverFrame>>
-----------------------------------------------------------------------------
(* mcpManager. *)

MCPToolName(server, tool) == <<"mcp", "__">> \o server \o <<"__">> \o tool

Names(s, offer) == {MCPToolName(Configured[s], tool) : tool \in offer}

\* Mutant: the first name that is taken ends the registration.
RegisterToolsOrNone(s) ==
  /\ client' = [client EXCEPT ![s] = found[s]]
  /\ tools' = [tools EXCEPT ![s] = listed[s]]
  /\ LET taken == {entry.name : entry \in registry}
     IN registry' = IF Names(s, listed[s]) \cap taken # {} THEN registry
                    ELSE registry \cup {[name |-> name, server |-> s, client |-> found[s]] :
                                          name \in Names(s, listed[s])}

\* registerTools: a name that is taken is skipped, and the rest still attempted.
RegisterTools(s) ==
  /\ client' = [client EXCEPT ![s] = found[s]]
  /\ tools' = [tools EXCEPT ![s] = listed[s]]
  /\ registry' = registry \cup
       {[name |-> name, server |-> s, client |-> found[s]] :
          name \in Names(s, listed[s]) \ {entry.name : entry \in registry}}

\* Discover returns when every server has settled; newMCPManager takes the results
\* in configuration order.
RegisterNext ==
  /\ pc = "discovering" /\ Pending = {}
  /\ RegisterTools(subject)
  /\ pc' = IF subject = Len(Configured) THEN "idle" ELSE pc
  /\ subject' = IF subject = Len(Configured) THEN 1 ELSE subject + 1
  /\ UNCHANGED <<discovery, born, live, reconnects, down>>

\* Mutant: disconnect forgets the tools before it unregisters them.
DisconnectForgetful(s) ==
  /\ registry' = registry
  /\ live' = live \ {client[s]}
  /\ client' = [client EXCEPT ![s] = NoClient]
  /\ tools' = [tools EXCEPT ![s] = {}]

\* disconnect: every name the server's tools have is unregistered, whoever holds it.
Disconnect(s) ==
  /\ registry' = {entry \in registry : entry.name \notin Names(s, tools[s])}
  /\ live' = live \ {client[s]}
  /\ client' = [client EXCEPT ![s] = NoClient]
  /\ tools' = [tools EXCEPT ![s] = {}]

\* /mcp reconnect, which holds the manager's mutex to its end.
Reconnect(s) ==
  /\ pc = "idle" /\ reconnects < MaxReconnects
  /\ down => OwnDriver
  /\ pc' = "reconnecting" /\ subject' = s
  /\ reconnects' = reconnects + 1
  /\ Disconnect(s)
  /\ phase' = [phase EXCEPT ![s] = "starting"]
  /\ UNCHANGED <<left, spent, found, listed, born, down>>

Reconnected ==
  /\ pc = "reconnecting" /\ Pending = {}
  /\ RegisterTools(subject)
  /\ pc' = "idle" /\ subject' = 1
  /\ UNCHANGED <<discovery, born, live, reconnects, down>>

\* Deferred by runChat; with a driver of their own, a command may still be running
\* (shutdown waits for the mutex) or queued.
Shutdown ==
  /\ pc = "idle" /\ ~down
  /\ down' = TRUE
  /\ live' = live \ {client[s] : s \in Servers}
  /\ UNCHANGED <<pc, subject, discovery, states, registry, born, reconnects>>

\* A process exits by itself; the manager is not told.
ServerExits ==
  /\ \E c \in live : live' = live \ {c}
  /\ UNCHANGED <<pc, subject, discovery, states, registry, born, reconnects, down>>

Answers(s) == Spawn(s) \/ SpawnFails(s) \/ ShakesHands(s) \/ Lists(s)

Expires(s) == left[s] = 0 /\ Abandon(s)

Next ==
  \/ \E s \in Servers : Answers(s) \/ Abandon(s) \/ Reconnect(s)
  \/ Tick \/ RegisterNext \/ Reconnected
  \/ Shutdown \/ ServerExits

Spec == Init /\ [][Next]_vars

\* Time passes, deadlines fire, processes start, and the manager's goroutine runs.
\* No server has to answer.
FairSpec ==
  /\ Spec
  /\ WF_vars(Tick) /\ WF_vars(RegisterNext) /\ WF_vars(Reconnected)
  /\ \A s \in Servers : WF_vars(Spawn(s) \/ SpawnFails(s)) /\ WF_vars(Expires(s))
-----------------------------------------------------------------------------
MaxClients == Cardinality(Servers) + MaxReconnects

ToolNames == UNION Offers

\* The type of every variable.
TypeOK ==
  /\ pc \in {"discovering", "idle", "reconnecting"} /\ subject \in Servers
  /\ phase \in [Servers -> {"starting", "handshake", "listing", "settled"}]
  /\ left \in [Servers -> 0..Timeout] /\ spent \in [Servers -> Nat]
  /\ found \in [Servers -> 0..MaxClients] /\ listed \in [Servers -> SUBSET ToolNames]
  /\ client \in [Servers -> 0..MaxClients] /\ tools \in [Servers -> SUBSET ToolNames]
  /\ \A entry \in registry : entry.server \in Servers /\ entry.client \in 1..MaxClients
  /\ \A e, f \in registry : e.name = f.name => e = f
  /\ born \in 0..MaxClients /\ live \subseteq 1..born
  /\ reconnects \in 0..MaxReconnects /\ down \in BOOLEAN

\* Every tool the model is offered is bound to the client its server has now, never to
\* one that a reconnect closed.
RegistryIsCurrent ==
  \A entry \in registry : entry.client = client[entry.server]

Entry(s, tool) ==
  [name |-> MCPToolName(Configured[s], tool), server |-> s, client |-> client[s]]

\* The name of one server's tool may also be that of another server's, although Name's
\* comment has it that they "can never collide" (mcp_tool.go:45-50): a separator inside a
\* name is enough.
Collides(s, tool) ==
  \E t \in Servers \ {s}, other \in ToolNames :
    MCPToolName(Configured[t], other) = MCPToolName(Configured[s], tool)

\* Between commands every tool a connected server lists is in the Registry and calls that
\* server, whichever were reconnected, except for a collision, which costs a server that
\* one name and no other: until the first reconnect the other server holds it.
OnlyCollisionsLose ==
  pc = "idle" =>
    \A s \in Servers : \A tool \in tools[s] :
      \/ Entry(s, tool) \in registry
      \/ /\ Collides(s, tool)
         /\ reconnects = 0 => \E entry \in registry : entry.name = Entry(s, tool).name

\* Each process is one that some server's state still holds and will close; after
\* shutdown there is none ("a clean exit never leaves a child process behind").
NoStrayProcess ==
  pc = "idle" =>
    /\ live \subseteq {client[s] : s \in Servers}
    /\ down => live = {}

\* What discover.go promises of Discover: each server is "independently bounded by timeout
\* across both the handshake and tools/list" (22-27).
SettlesInOneTimeout == \A s \in Servers : spent[s] <= Timeout

\* What the code does: each of the two has a timeout of its own.
SettlesInTwoTimeouts == \A s \in Servers : spent[s] <= 2 * Timeout

\* Servers that never answer keep neither startup nor a reconnect from its end.
BackToIdle == (pc # "idle") ~> (pc = "idle")
=============================================================================
