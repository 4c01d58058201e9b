-------------------------- MODULE McpManagerProofs --------------------------
(***************************************************************************)
(* Theorems about McpManager for any number of servers, any tools, timeout *)
(* and number of reconnects.  A server's results are either awaited or     *)
(* taken; the invariant IInv says which of its parts hold in either state, *)
(* so that registerTools and disconnect, which go by names alone, always   *)
(* meet entries whose owner is known.                                      *)
(***************************************************************************)
EXTENDS McpManager, FiniteSetTheorems, TLAPS

\* The servers whose results mcpManager has yet to take.
Awaiting(s) ==
  \/ pc = "discovering" /\ s >= subject
  \/ pc = "reconnecting" /\ s = subject

PlacesOK ==
  /\ pc \in {"discovering", "idle", "reconnecting"} /\ subject \in Servers
  /\ phase \in [Servers -> {"starting", "handshake", "listing", "settled"}]
  /\ listed \in [Servers -> SUBSET ToolNames] /\ tools \in [Servers -> SUBSET ToolNames]
  /\ \A s \in Servers : phase[s] # "settled" => Awaiting(s)

ProcessesOK ==
  /\ born \in Nat /\ live \subseteq 1..born
  /\ found \in [Servers -> 0..born] /\ client \in [Servers -> 0..born]

\* Each Spawn uses up a start that Discover or a reconnect asked for.
Unborn == {s \in Servers : phase[s] = "starting"}

CountsOK ==
  /\ reconnects \in 0..MaxReconnects
  /\ born + Cardinality(Unborn) <= Cardinality(Servers) + reconnects

\* Before its results are taken a server has nothing; afterwards, what was found.
StatesMatch ==
  \A s \in Servers :
    /\ Awaiting(s) => client[s] = NoClient /\ tools[s] = {}
    /\ ~Awaiting(s) => client[s] = found[s]
    /\ found[s] = NoClient => listed[s] = {}
    /\ client[s] = NoClient => tools[s] = {}

\* The Registry's entries are those of the servers' present clients, so disconnecting
\* one, which goes by the names of its tools, leaves none of its entries behind.
EntriesOwned ==
  \A entry \in registry :
    /\ entry.server \in Servers /\ ~Awaiting(entry.server)
    /\ entry.client = client[entry.server]
    /\ entry.name \in Names(entry.server, tools[entry.server])

NamesUnique == \A e, f \in registry : e.name = f.name => e = f

\* Whoever started a process still has it.
ProcessesFound ==
  /\ \A c \in live : \E s \in Servers : found[s] = c
  /\ \A s \in Servers : phase[s] = "starting" => found[s] \notin live

DownIsLast == down /\ ~OwnDriver => pc = "idle" /\ live = {}

\* What a server's deadlines leave it, with the time it has had.
Deadlines ==
  /\ left \in [Servers -> 0..Timeout] /\ spent \in [Servers -> Nat]
  /\ \A s \in Servers :
       /\ phase[s] \in {"starting", "settled"} => left[s] = 0 /\ spent[s] = 0
       /\ phase[s] = "handshake" => spent[s] + left[s] = Timeout
       /\ phase[s] = "listing" => spent[s] + left[s] <= 2 * Timeout

IInv == /\ PlacesOK /\ ProcessesOK /\ CountsOK /\ down \in BOOLEAN
        /\ StatesMatch /\ EntriesOwned /\ NamesUnique
        /\ ProcessesFound /\ DownIsLast /\ Deadlines

Kept(s, tool) ==
  \/ Entry(s, tool) \in registry
  \/ /\ Collides(s, tool)
     /\ reconnects = 0 => \E entry \in registry : entry.name = Entry(s, tool).name

AllKept == \A s \in Servers : \A tool \in tools[s] : Kept(s, tool)
-----------------------------------------------------------------------------
(* Counting the servers that are yet to be started. *)

LEMMA ServersFinite == /\ Servers = 1..Len(Configured) /\ Len(Configured) \in Nat \ {0}
                       /\ IsFiniteSet(Servers) /\ Cardinality(Servers) \in Nat
<1>1. Servers = 1..Len(Configured) /\ Len(Configured) \in Nat \ {0}
  BY ManagerAssumption DEF ManagerAssumption, Servers
<1>2. QED
  BY <1>1, FS_Interval, FS_CardinalityType

LEMMA UnbornFinite == IsFiniteSet(Unborn) /\ Cardinality(Unborn) \in Nat
<1>1. Unborn \subseteq Servers
  BY DEF Unborn
<1>2. QED
  BY <1>1, ServersFinite, FS_Subset, FS_CardinalityType

\* A server that leaves "starting", or was not there.
LEMMA UnbornShrinks ==
  ASSUME PlacesOK, NEW s \in Servers, NEW to, to # "starting",
         phase' = [phase EXCEPT ![s] = to]
  PROVE  /\ Cardinality(Unborn') \in Nat
         /\ phase[s] = "starting" => Cardinality(Unborn') = Cardinality(Unborn) - 1
         /\ phase[s] # "starting" => Cardinality(Unborn') = Cardinality(Unborn)
<1>1. Unborn' = Unborn \ {s}
  BY DEF PlacesOK, Unborn
<1>2. CASE phase[s] = "starting"
  <2>1. s \in Unborn
    BY <1>2 DEF Unborn
  <2>2. QED
    BY <1>1, <1>2, <2>1, UnbornFinite, FS_RemoveElement, FS_CardinalityType
<1>3. CASE phase[s] # "starting"
  <2>1. s \notin Unborn
    BY <1>3 DEF Unborn
  <2>2. QED
    BY <1>1, <1>3, <2>1, UnbornFinite
<1>4. QED
  BY <1>2, <1>3

LEMMA UnbornGrows ==
  ASSUME PlacesOK, NEW s \in Servers, phase[s] # "starting",
         phase' = [phase EXCEPT ![s] = "starting"]
  PROVE  Cardinality(Unborn') = Cardinality(Unborn) + 1
<1>1. Unborn' = Unborn \cup {s} /\ s \notin Unborn
  BY DEF PlacesOK, Unborn
<1>2. QED
  BY <1>1, UnbornFinite, FS_AddElement

\* newMCPManager's state satisfies the invariant.
THEOREM InitIInv == Init => IInv
<1> SUFFICES ASSUME Init PROVE IInv
  OBVIOUS
<1>1. \A s \in Servers : s >= 1 /\ 1 \in Servers
  BY ServersFinite
<1>2. PlacesOK
  <2>1. subject \in Servers /\ pc = "discovering" /\ subject = 1
    BY <1>1, ServersFinite DEF Init
  <2>2. /\ phase \in [Servers -> {"starting", "handshake", "listing", "settled"}]
        /\ listed \in [Servers -> SUBSET ToolNames] /\ tools \in [Servers -> SUBSET ToolNames]
    BY DEF Init
  <2>3. \A s \in Servers : Awaiting(s)
    BY <1>1, <2>1 DEF Awaiting
  <2>4. QED
    BY <2>1, <2>2, <2>3 DEF PlacesOK
<1>3. ProcessesOK
  BY DEF Init, ProcessesOK, NoClient
<1>4. CountsOK
  <2>1. Unborn = Servers
    BY DEF Init, Unborn
  <2>2. QED
    BY <2>1, ServersFinite, ManagerAssumption DEF Init, CountsOK, ManagerAssumption
<1>5. StatesMatch
  BY <1>1 DEF Init, StatesMatch, Awaiting
<1>6. EntriesOwned /\ NamesUnique /\ ProcessesFound /\ DownIsLast
  BY DEF Init, EntriesOwned, NamesUnique, ProcessesFound, DownIsLast
<1>7. Deadlines
  BY ManagerAssumption DEF Init, Deadlines, ManagerAssumption
<1>8. down \in BOOLEAN
  BY DEF Init
<1>9. QED
  BY <1>2, <1>3, <1>4, <1>5, <1>6, <1>7, <1>8 DEF IInv
-----------------------------------------------------------------------------
(* discoverOne. *)

\* A step of server s's goroutine leaves what the manager holds alone.
LEMMA DiscoverStep ==
  ASSUME IInv, UNCHANGED discoverFrame,
         NEW s \in Servers, phase[s] # "settled",
         NEW to \in {"handshake", "listing", "settled"}, phase' = [phase EXCEPT ![s] = to],
         listed' \in [Servers -> SUBSET ToolNames],
         \A t \in Servers : t # s => found'[t] = found[t] /\ listed'[t] = listed[t],
         found'[s] = NoClient => listed'[s] = {},
         ProcessesOK', CountsOK', ProcessesFound', Deadlines'
  PROVE  IInv'
<1>1. UNCHANGED <<pc, subject, client, tools, registry, reconnects, down>>
  BY DEF discoverFrame, states
<1>2. /\ \A t : Awaiting(t)' <=> Awaiting(t)
      /\ Awaiting(s) /\ pc # "idle"
  BY <1>1 DEF Awaiting, IInv, PlacesOK
<1>3. phase' \in [Servers -> {"starting", "handshake", "listing", "settled"}]
      /\ \A t \in Servers : t # s => phase'[t] = phase[t]
  BY DEF IInv, PlacesOK
<1>4. PlacesOK'
  BY <1>1, <1>2, <1>3 DEF IInv, PlacesOK
<1>5. StatesMatch'
  BY <1>1, <1>2 DEF IInv, StatesMatch
<1>6. EntriesOwned' /\ NamesUnique'
  BY <1>1, <1>2 DEF IInv, EntriesOwned, NamesUnique
<1>7. DownIsLast'
  BY <1>1, <1>2 DEF IInv, DownIsLast
<1>8. down' \in BOOLEAN
  BY <1>1 DEF IInv
<1>9. QED
  BY <1>4, <1>5, <1>6, <1>7, <1>8 DEF IInv

LEMMA SpawnStep == ASSUME IInv, NEW s \in Servers, Spawn(s) PROVE IInv'
<1>1. /\ phase[s] = "starting" /\ phase' = [phase EXCEPT ![s] = "handshake"]
      /\ born' = born + 1 /\ live' = live \cup {born + 1}
      /\ found' = [found EXCEPT ![s] = born + 1]
      /\ left' = [left EXCEPT ![s] = Timeout]
      /\ UNCHANGED <<spent, listed, reconnects, client>> /\ UNCHANGED discoverFrame
  BY DEF Spawn, discoverFrame, states
<1>2. /\ born \in Nat /\ live \subseteq 1..born /\ found \in [Servers -> 0..born]
      /\ client \in [Servers -> 0..born] /\ listed \in [Servers -> SUBSET ToolNames]
  BY DEF IInv, ProcessesOK, PlacesOK
<1>3. found'[s] = born + 1 /\ \A t \in Servers : t # s => found'[t] = found[t]
  BY <1>1, <1>2
<1>4. ProcessesOK'
  <2>1. 0..born \subseteq 0..born + 1 /\ born + 1 \in 0..born + 1 /\ born + 1 \in 1..born + 1
        /\ 1..born \subseteq 1..born + 1
    BY <1>2
  <2>2. found' \in [Servers -> 0..born + 1] /\ client' \in [Servers -> 0..born + 1]
    BY <1>1, <1>2, <2>1
  <2>3. QED
    BY <1>1, <1>2, <2>1, <2>2 DEF ProcessesOK
<1>5. CountsOK'
  <2>1. Cardinality(Unborn') = Cardinality(Unborn) - 1 /\ Cardinality(Unborn') \in Nat
    BY <1>1, UnbornShrinks DEF IInv
  <2>2. QED
    BY <1>1, <1>2, <2>1, UnbornFinite, ServersFinite, ManagerAssumption
    DEF IInv, CountsOK, ManagerAssumption
<1>6. ProcessesFound'
  <2>1. \A c \in live' : \E t \in Servers : found'[t] = c
    BY <1>1, <1>3 DEF IInv, ProcessesFound
  <2>2. ASSUME NEW t \in Servers, phase'[t] = "starting" PROVE found'[t] \notin live'
    <3>1. t # s /\ phase[t] = "starting"
      BY <1>1, <2>2 DEF IInv, PlacesOK
    <3>2. found[t] \notin live /\ found[t] # born + 1
      BY <1>2, <3>1 DEF IInv, ProcessesFound
    <3>3. QED
      BY <1>1, <1>3, <3>1, <3>2
  <2>3. QED
    BY <2>1, <2>2 DEF ProcessesFound
<1>7. Deadlines'
  <2>1. Timeout \in Nat /\ phase \in [Servers -> {"starting", "handshake", "listing", "settled"}]
    BY ManagerAssumption DEF ManagerAssumption, IInv, PlacesOK
  <2>2. left' \in [Servers -> 0..Timeout] /\ spent' \in [Servers -> Nat]
    BY <1>1, <2>1 DEF IInv, Deadlines
  <2>3. ASSUME NEW t \in Servers
        PROVE  /\ phase'[t] \in {"starting", "settled"} => left'[t] = 0 /\ spent'[t] = 0
               /\ phase'[t] = "handshake" => spent'[t] + left'[t] = Timeout
               /\ phase'[t] = "listing" => spent'[t] + left'[t] <= 2 * Timeout
    <3>1. CASE t = s
      BY <1>1, <2>1, <3>1 DEF IInv, Deadlines
    <3>2. CASE t # s
      BY <1>1, <2>1, <3>2 DEF IInv, Deadlines
    <3>3. QED
      BY <3>1, <3>2
  <2>4. QED
    BY <2>2, <2>3 DEF Deadlines
<1>8. found'[s] # NoClient
  BY <1>2, <1>3 DEF NoClient
<1>9. QED
  BY <1>1, <1>2, <1>3, <1>4, <1>5, <1>6, <1>7, <1>8, DiscoverStep

LEMMA ShakesHandsStep == ASSUME IInv, NEW s \in Servers, ShakesHands(s) PROVE IInv'
<1>1. /\ phase[s] = "handshake" /\ phase' = [phase EXCEPT ![s] = "listing"]
      /\ left' = [left EXCEPT ![s] = Timeout] /\ found[s] \in live
      /\ UNCHANGED <<spent, found, listed, born, live, reconnects, client>>
      /\ UNCHANGED discoverFrame
  BY DEF ShakesHands, discoverFrame, states
<1>2. ProcessesOK' /\ listed' \in [Servers -> SUBSET ToolNames]
  BY <1>1 DEF IInv, ProcessesOK, PlacesOK
<1>3. CountsOK'
  BY <1>1, UnbornShrinks DEF IInv, CountsOK
<1>4. \A t \in Servers : phase'[t] = "starting" => phase[t] = "starting"
  BY <1>1 DEF IInv, PlacesOK
<1>5. ProcessesFound'
  BY <1>1, <1>4 DEF IInv, ProcessesFound
<1>6. Deadlines'
  <2>1. Timeout \in Nat /\ phase \in [Servers -> {"starting", "handshake", "listing", "settled"}]
    BY ManagerAssumption DEF ManagerAssumption, IInv, PlacesOK
  <2>2. left' \in [Servers -> 0..Timeout] /\ spent' \in [Servers -> Nat]
    BY <1>1, <2>1 DEF IInv, Deadlines
  <2>3. ASSUME NEW t \in Servers
        PROVE  /\ phase'[t] \in {"starting", "settled"} => left'[t] = 0 /\ spent'[t] = 0
               /\ phase'[t] = "handshake" => spent'[t] + left'[t] = Timeout
               /\ phase'[t] = "listing" => spent'[t] + left'[t] <= 2 * Timeout
    <3>1. CASE t = s
      <4>1. spent[s] + left[s] = Timeout /\ spent[s] \in Nat /\ left[s] \in 0..Timeout
        BY <1>1 DEF IInv, Deadlines
      <4>2. spent'[s] <= Timeout /\ left'[s] = Timeout /\ phase'[s] = "listing" /\ spent'[s] \in Nat
        BY <1>1, <2>1, <4>1 DEF IInv, Deadlines
      <4>3. QED
        BY <2>1, <3>1, <4>2
    <3>2. CASE t # s
      BY <1>1, <2>1, <3>2 DEF IInv, Deadlines
    <3>3. QED
      BY <3>1, <3>2
  <2>4. QED
    BY <2>2, <2>3 DEF Deadlines
<1>7. found'[s] = NoClient => listed'[s] = {}
  BY <1>1 DEF IInv, StatesMatch
<1>8. QED
  BY <1>1, <1>2, <1>3, <1>5, <1>6, <1>7, DiscoverStep

\* discoverOne ends: with a client that listed its tools, or with none at all.
LEMMA SettleStep ==
  ASSUME IInv, NEW s \in Servers, phase[s] # "settled", NEW c, NEW offer \in SUBSET ToolNames,
         Settle(s, c, offer), UNCHANGED born, UNCHANGED discoverFrame,
         \/ c = NoClient /\ offer = {} /\ phase[s] = "starting" /\ live' = live
         \/ c = NoClient /\ offer = {} /\ live' = live \ {found[s]}
         \/ c = found[s] /\ found[s] \in live /\ live' = live
  PROVE  IInv'
<1>1. /\ phase' = [phase EXCEPT ![s] = "settled"]
      /\ found' = [found EXCEPT ![s] = c] /\ listed' = [listed EXCEPT ![s] = offer]
      /\ left' = [left EXCEPT ![s] = 0] /\ spent' = [spent EXCEPT ![s] = 0]
      /\ UNCHANGED <<born, reconnects, client>>
  BY DEF Settle, discoverFrame, states
<1>2. /\ born \in Nat /\ live \subseteq 1..born /\ found \in [Servers -> 0..born]
      /\ client \in [Servers -> 0..born] /\ listed \in [Servers -> SUBSET ToolNames]
      /\ phase \in [Servers -> {"starting", "handshake", "listing", "settled"}]
  BY DEF IInv, ProcessesOK, PlacesOK
<1>3. found'[s] = c /\ listed'[s] = offer
      /\ \A t \in Servers : t # s => found'[t] = found[t] /\ listed'[t] = listed[t]
  BY <1>1, <1>2
<1>4. c \in 0..born /\ live' \subseteq live
  BY <1>2 DEF NoClient
<1>5. ProcessesOK' /\ listed' \in [Servers -> SUBSET ToolNames]
  BY <1>1, <1>2, <1>4 DEF ProcessesOK
<1>6. CountsOK'
  <2>1. Cardinality(Unborn') \in Nat /\ Cardinality(Unborn') <= Cardinality(Unborn)
    <3>1. /\ Cardinality(Unborn') \in Nat
          /\ phase[s] = "starting" => Cardinality(Unborn') = Cardinality(Unborn) - 1
          /\ phase[s] # "starting" => Cardinality(Unborn') = Cardinality(Unborn)
      BY <1>1, UnbornShrinks DEF IInv
    <3>2. Cardinality(Unborn) \in Nat
      BY UnbornFinite
    <3>3. QED
      BY <3>1, <3>2
  <2>2. /\ reconnects' = reconnects /\ born' = born /\ reconnects \in 0..MaxReconnects
        /\ born + Cardinality(Unborn) <= Cardinality(Servers) + reconnects
    BY <1>1 DEF IInv, CountsOK
  <2>3. Cardinality(Unborn) \in Nat /\ Cardinality(Servers) \in Nat /\ MaxReconnects \in Nat
    BY UnbornFinite, ServersFinite, ManagerAssumption DEF ManagerAssumption
  <2>4. born' + Cardinality(Unborn') <= Cardinality(Servers) + reconnects'
    BY <1>2, <2>1, <2>2, <2>3
  <2>5. QED
    BY <2>2, <2>4 DEF CountsOK
<1>7. ProcessesFound'
  <2>1. ASSUME NEW d \in live' PROVE \E t \in Servers : found'[t] = d
    <3>1. PICK t \in Servers : found[t] = d
      BY <1>4, <2>1 DEF IInv, ProcessesFound
    <3>2. CASE t # s
      BY <1>3, <3>1, <3>2
    <3>3. CASE t = s
      BY <1>3, <1>4, <2>1, <3>1, <3>3 DEF IInv, ProcessesFound
    <3>4. QED
      BY <3>2, <3>3
  <2>2. \A t \in Servers : phase'[t] = "starting" => found'[t] \notin live'
    BY <1>1, <1>2, <1>3, <1>4 DEF IInv, ProcessesFound
  <2>3. QED
    BY <2>1, <2>2 DEF ProcessesFound
<1>8. Deadlines'
  <2>1. Timeout \in Nat
    BY ManagerAssumption DEF ManagerAssumption
  <2>2. left' \in [Servers -> 0..Timeout] /\ spent' \in [Servers -> Nat]
    BY <1>1, <2>1 DEF IInv, Deadlines
  <2>3. ASSUME NEW t \in Servers
        PROVE  /\ phase'[t] \in {"starting", "settled"} => left'[t] = 0 /\ spent'[t] = 0
               /\ phase'[t] = "handshake" => spent'[t] + left'[t] = Timeout
               /\ phase'[t] = "listing" => spent'[t] + left'[t] <= 2 * Timeout
    <3>1. CASE t = s
      BY <1>1, <1>2, <3>1 DEF IInv, Deadlines
    <3>2. CASE t # s
      BY <1>1, <1>2, <3>2 DEF IInv, Deadlines
    <3>3. QED
      BY <3>1, <3>2
  <2>4. QED
    BY <2>2, <2>3 DEF Deadlines
<1>9. found'[s] = NoClient => listed'[s] = {}
  BY <1>2, <1>3 DEF NoClient
<1>10. QED
  BY <1>1, <1>3, <1>5, <1>6, <1>7, <1>8, <1>9, DiscoverStep

LEMMA SettlingSteps ==
  ASSUME IInv, NEW s \in Servers, SpawnFails(s) \/ Lists(s) \/ Abandon(s)
  PROVE  IInv'
<1>1. CASE SpawnFails(s)
  BY <1>1, SettleStep DEF SpawnFails
<1>2. CASE Lists(s)
  <2>1. PICK offer \in Offers : Settle(s, found[s], offer)
    BY <1>2 DEF Lists
  <2>2. offer \in SUBSET ToolNames
    BY DEF ToolNames
  <2>3. QED
    BY <1>2, <2>1, <2>2, SettleStep DEF Lists
<1>3. CASE Abandon(s)
  BY <1>3, SettleStep DEF Abandon
<1>4. QED
  BY <1>1, <1>2, <1>3

\* Time never passes for a server without a deadline.
LEMMA TickStep == IInv /\ Tick => IInv'
<1> SUFFICES ASSUME IInv, Tick PROVE IInv'
  OBVIOUS
<1>1. /\ \A s \in Pending : left[s] > 0
      /\ left' = [s \in Servers |-> IF s \in Pending THEN left[s] - 1 ELSE left[s]]
      /\ spent' = [s \in Servers |-> IF s \in Pending THEN spent[s] + 1 ELSE spent[s]]
      /\ UNCHANGED <<phase, found, listed, born, live, pc, subject, client, tools, registry,
                     reconnects, down>>
  BY DEF Tick, discoverFrame, states
<1>2. PlacesOK' /\ ProcessesOK' /\ CountsOK' /\ StatesMatch'
  BY <1>1 DEF IInv, PlacesOK, Awaiting, ProcessesOK, CountsOK, Unborn, StatesMatch
<1>3. EntriesOwned' /\ NamesUnique' /\ ProcessesFound' /\ DownIsLast'
  BY <1>1 DEF IInv, EntriesOwned, NamesUnique, ProcessesFound, DownIsLast, Awaiting
<1>4. down' \in BOOLEAN
  BY <1>1 DEF IInv
<1>5. Deadlines'
  <2>1. Timeout \in Nat
    BY ManagerAssumption DEF ManagerAssumption
  <2>2. ASSUME NEW s \in Servers
        PROVE  /\ left'[s] \in 0..Timeout /\ spent'[s] \in Nat
               /\ phase'[s] \in {"starting", "settled"} => left'[s] = 0 /\ spent'[s] = 0
               /\ phase'[s] = "handshake" => spent'[s] + left'[s] = Timeout
               /\ phase'[s] = "listing" => spent'[s] + left'[s] <= 2 * Timeout
    <3>1. /\ left[s] \in 0..Timeout /\ spent[s] \in Nat
          /\ phase[s] \in {"starting", "settled"} => left[s] = 0 /\ spent[s] = 0
          /\ phase[s] = "handshake" => spent[s] + left[s] = Timeout
          /\ phase[s] = "listing" => spent[s] + left[s] <= 2 * Timeout
      BY DEF IInv, Deadlines
    <3>2. CASE s \in Pending
      <4>1. left'[s] = left[s] - 1 /\ spent'[s] = spent[s] + 1 /\ left[s] > 0 /\ phase'[s] = phase[s]
        BY <1>1, <3>2
      <4>2. phase[s] \in {"handshake", "listing"}
        BY <3>1, <3>2, <4>1 DEF Pending
      <4>3. QED
        BY <2>1, <3>1, <4>1, <4>2
    <3>3. CASE s \notin Pending
      BY <1>1, <3>1, <3>3
    <3>4. QED
      BY <3>2, <3>3
  <2>3. QED
    BY <1>1, <2>2 DEF Deadlines
<1>6. QED
  BY <1>2, <1>3, <1>4, <1>5 DEF IInv
-----------------------------------------------------------------------------
(* mcpManager takes the results, disconnects, and shuts down. *)

\* registerTools of a server whose results were awaited, which then are no longer.
LEMMA RegisterStep ==
  ASSUME IInv, NEW s \in Servers, Awaiting(s), Pending = {}, RegisterTools(s),
         UNCHANGED <<discovery, born, live, reconnects, down>>,
         pc' \in {"discovering", "idle", "reconnecting"}, subject' \in Servers,
         \A t \in Servers : Awaiting(t)' <=> Awaiting(t) /\ t # s
  PROVE  IInv'
<1>1. /\ client' = [client EXCEPT ![s] = found[s]] /\ tools' = [tools EXCEPT ![s] = listed[s]]
      /\ UNCHANGED <<phase, left, spent, found, listed, born, live, reconnects, down>>
  BY DEF RegisterTools, discovery
<1>2. /\ client \in [Servers -> 0..born] /\ found \in [Servers -> 0..born]
      /\ phase \in [Servers -> {"starting", "handshake", "listing", "settled"}]
      /\ listed \in [Servers -> SUBSET ToolNames] /\ tools \in [Servers -> SUBSET ToolNames]
  BY DEF IInv, ProcessesOK, PlacesOK
<1>3. /\ client'[s] = found[s] /\ tools'[s] = listed[s]
      /\ \A t \in Servers : t # s => client'[t] = client[t] /\ tools'[t] = tools[t]
  BY <1>1, <1>2
<1>4. PlacesOK'
  <2>1. \A t \in Servers : phase[t] = "settled"
    BY <1>2 DEF Pending
  <2>2. QED
    BY <1>1, <1>2, <2>1 DEF PlacesOK
<1>5. ProcessesOK' /\ CountsOK'
  BY <1>1, <1>2 DEF IInv, ProcessesOK, CountsOK, Unborn
<1>6. StatesMatch'
  BY <1>1, <1>3 DEF IInv, StatesMatch
<1>7. ASSUME NEW entry \in registry'
      PROVE  \/ entry \in registry /\ entry.server # s
             \/ /\ entry.server = s /\ entry.client = found[s]
                /\ entry.name \in Names(s, listed[s]) /\ entry.name \notin {e.name : e \in registry}
                /\ entry = [name |-> entry.name, server |-> s, client |-> found[s]]
  <2>1. CASE entry \in registry
    BY <2>1 DEF IInv, EntriesOwned
  <2>2. CASE entry \notin registry
    <3>1. PICK name \in Names(s, listed[s]) \ {e.name : e \in registry} :
            entry = [name |-> name, server |-> s, client |-> found[s]]
      BY <1>7, <2>2 DEF RegisterTools
    <3>2. QED
      BY <3>1
  <2>3. QED
    BY <2>1, <2>2
<1>8. EntriesOwned'
  <2>1. ASSUME NEW entry \in registry'
        PROVE  /\ entry.server \in Servers /\ ~Awaiting(entry.server)'
               /\ entry.client = client'[entry.server]
               /\ entry.name \in Names(entry.server, tools'[entry.server])
    <3>1. CASE entry \in registry /\ entry.server # s
      BY <1>3, <3>1 DEF IInv, EntriesOwned
    <3>2. CASE /\ entry.server = s /\ entry.client = found[s]
               /\ entry.name \in Names(s, listed[s])
      BY <1>3, <3>2
    <3>3. QED
      BY <1>7, <3>1, <3>2
  <2>2. QED
    BY <2>1 DEF EntriesOwned, Names
<1>9. NamesUnique'
  <2>1. ASSUME NEW e \in registry', NEW f \in registry', e.name = f.name PROVE e = f
    <3>1. CASE e \in registry /\ f \in registry
      BY <2>1, <3>1 DEF IInv, NamesUnique
    <3>2. CASE e \notin registry \/ f \notin registry
      BY <1>7, <2>1, <3>2
    <3>3. QED
      BY <3>1, <3>2
  <2>2. QED
    BY <2>1 DEF NamesUnique
<1>10. ProcessesFound' /\ Deadlines'
  BY <1>1 DEF IInv, ProcessesFound, Deadlines
<1>11. DownIsLast' /\ down' \in BOOLEAN
  <2>1. pc # "idle"
    BY DEF Awaiting
  <2>2. QED
    BY <1>1, <2>1 DEF IInv, DownIsLast
<1>12. QED
  BY <1>4, <1>5, <1>6, <1>8, <1>9, <1>10, <1>11 DEF IInv

LEMMA RegisterNextStep == IInv /\ RegisterNext => IInv'
<1> SUFFICES ASSUME IInv, RegisterNext PROVE IInv'
  OBVIOUS
<1>1. /\ pc = "discovering" /\ Pending = {} /\ RegisterTools(subject)
      /\ pc' = (IF subject = Len(Configured) THEN "idle" ELSE pc)
      /\ subject' = (IF subject = Len(Configured) THEN 1 ELSE subject + 1)
      /\ UNCHANGED <<discovery, born, live, reconnects, down>>
  BY DEF RegisterNext
<1>2. subject \in 1..Len(Configured) /\ Len(Configured) \in Nat \ {0} /\ Servers = 1..Len(Configured)
  BY ServersFinite DEF IInv, PlacesOK
<1>3. pc' \in {"discovering", "idle", "reconnecting"} /\ subject' \in Servers
  BY <1>1, <1>2
<1>4. ASSUME NEW t \in Servers PROVE Awaiting(t)' <=> Awaiting(t) /\ t # subject
  BY <1>1, <1>2 DEF Awaiting
<1>5. Awaiting(subject) /\ subject \in Servers
  BY <1>1, <1>2 DEF Awaiting
<1>6. QED
  BY <1>1, <1>3, <1>4, <1>5, RegisterStep

LEMMA ReconnectedStep == IInv /\ Reconnected => IInv'
<1> SUFFICES ASSUME IInv, Reconnected PROVE IInv'
  OBVIOUS
<1>1. /\ pc = "reconnecting" /\ Pending = {} /\ RegisterTools(subject)
      /\ pc' = "idle" /\ subject' = 1 /\ UNCHANGED <<discovery, born, live, reconnects, down>>
  BY DEF Reconnected
<1>2. subject \in Servers /\ subject' \in Servers
  BY <1>1, ServersFinite DEF IInv, PlacesOK
<1>3. ASSUME NEW t \in Servers PROVE Awaiting(t)' <=> Awaiting(t) /\ t # subject
  BY <1>1 DEF Awaiting
<1>4. Awaiting(subject)
  BY <1>1 DEF Awaiting
<1>5. QED
  BY <1>1, <1>2, <1>3, <1>4, RegisterStep

\* Between commands no server is awaited: each state is what was found for it.
LEMMA IdleSettled ==
  ASSUME IInv, pc = "idle"
  PROVE  /\ \A s : ~Awaiting(s)
         /\ \A s \in Servers : phase[s] = "settled" /\ client[s] = found[s]
BY DEF IInv, PlacesOK, StatesMatch, Awaiting

LEMMA ReconnectStep == ASSUME IInv, NEW s \in Servers, Reconnect(s) PROVE IInv'
<1>1. /\ pc = "idle" /\ pc' = "reconnecting" /\ subject' = s /\ reconnects < MaxReconnects
      /\ down => OwnDriver /\ reconnects' = reconnects + 1
      /\ registry' = {entry \in registry : entry.name \notin Names(s, tools[s])}
      /\ live' = live \ {client[s]}
      /\ client' = [client EXCEPT ![s] = NoClient] /\ tools' = [tools EXCEPT ![s] = {}]
      /\ phase' = [phase EXCEPT ![s] = "starting"]
      /\ UNCHANGED <<left, spent, found, listed, born, down>>
  BY DEF Reconnect, Disconnect
<1>2. (down => OwnDriver) /\ UNCHANGED down
  BY DEF Reconnect
<1>3. /\ client \in [Servers -> 0..born] /\ found \in [Servers -> 0..born]
      /\ phase \in [Servers -> {"starting", "handshake", "listing", "settled"}]
      /\ listed \in [Servers -> SUBSET ToolNames] /\ tools \in [Servers -> SUBSET ToolNames]
      /\ born \in Nat
  BY DEF IInv, ProcessesOK, PlacesOK
<1>4. /\ \A t : ~Awaiting(t)
      /\ \A t \in Servers : phase[t] = "settled" /\ client[t] = found[t]
  BY <1>1, IdleSettled
<1>5. \A t : Awaiting(t)' <=> t = s
  BY <1>1 DEF Awaiting
<1>6. /\ client'[s] = NoClient /\ tools'[s] = {} /\ phase'[s] = "starting"
      /\ \A t \in Servers : t # s => /\ client'[t] = client[t] /\ tools'[t] = tools[t]
                                     /\ phase'[t] = phase[t]
  BY <1>1, <1>3
<1>7. PlacesOK'
  BY <1>1, <1>3, <1>4, <1>5, <1>6 DEF PlacesOK
<1>8. ProcessesOK'
  <2>1. client' \in [Servers -> 0..born]
    BY <1>1, <1>3 DEF NoClient
  <2>2. QED
    BY <1>1, <1>3, <2>1 DEF IInv, ProcessesOK
<1>9. CountsOK'
  <2>1. Cardinality(Unborn') = Cardinality(Unborn) + 1
    BY <1>1, <1>4, UnbornGrows DEF IInv
  <2>2. /\ reconnects \in 0..MaxReconnects /\ born' = born /\ reconnects' = reconnects + 1
        /\ born + Cardinality(Unborn) <= Cardinality(Servers) + reconnects
        /\ reconnects < MaxReconnects
    <3>1. born' = born /\ reconnects' = reconnects + 1 /\ reconnects < MaxReconnects
      BY DEF Reconnect
    <3>2. QED
      BY <3>1 DEF IInv, CountsOK
  <2>3. Cardinality(Unborn) \in Nat /\ Cardinality(Servers) \in Nat /\ MaxReconnects \in Nat
    BY UnbornFinite, ServersFinite, ManagerAssumption DEF ManagerAssumption
  <2>4. QED
    BY <1>3, <2>1, <2>2, <2>3 DEF CountsOK
<1>10. StatesMatch'
  BY <1>1, <1>4, <1>5, <1>6 DEF IInv, StatesMatch
<1>11. \A entry \in registry' : entry \in registry /\ entry.server # s
  BY <1>1 DEF IInv, EntriesOwned
<1>12. EntriesOwned'
  BY <1>5, <1>6, <1>11 DEF IInv, EntriesOwned, Names
<1>13. NamesUnique'
  BY <1>11 DEF IInv, NamesUnique
<1>14. ProcessesFound'
  BY <1>1, <1>4, <1>6 DEF IInv, ProcessesFound
<1>15. DownIsLast' /\ down' \in BOOLEAN
  BY <1>2 DEF IInv, DownIsLast
<1>16. Deadlines'
  BY <1>1, <1>4, <1>6 DEF IInv, Deadlines
<1>17. QED
  BY <1>7, <1>8, <1>9, <1>10, <1>12, <1>13, <1>14, <1>15, <1>16 DEF IInv

\* Closing the client of every state closes every process.
LEMMA ShutdownStep == IInv /\ Shutdown => IInv'
<1> SUFFICES ASSUME IInv, Shutdown PROVE IInv'
  OBVIOUS
<1>1. /\ pc = "idle" /\ down' = TRUE /\ live' = live \ {client[s] : s \in Servers}
      /\ UNCHANGED <<pc, subject, phase, left, spent, found, listed, client, tools, registry,
                     born, reconnects>>
  BY DEF Shutdown, discovery, states
<1>2. live' = {}
  BY <1>1, IdleSettled DEF IInv, ProcessesFound
<1>3. PlacesOK' /\ ProcessesOK' /\ CountsOK' /\ StatesMatch'
  BY <1>1, <1>2 DEF IInv, PlacesOK, Awaiting, ProcessesOK, CountsOK, Unborn, StatesMatch
<1>4. EntriesOwned' /\ NamesUnique' /\ ProcessesFound' /\ Deadlines'
  BY <1>1, <1>2 DEF IInv, EntriesOwned, NamesUnique, ProcessesFound, Deadlines, Awaiting
<1>5. DownIsLast' /\ down' \in BOOLEAN
  BY <1>1, <1>2 DEF DownIsLast
<1>6. QED
  BY <1>3, <1>4, <1>5 DEF IInv

LEMMA ServerExitsStep == IInv /\ ServerExits => IInv'
<1> SUFFICES ASSUME IInv, ServerExits PROVE IInv'
  OBVIOUS
<1>1. /\ live' \subseteq live
      /\ UNCHANGED <<pc, subject, phase, left, spent, found, listed, client, tools, registry,
                     born, reconnects, down>>
  BY DEF ServerExits, discovery, states
<1>2. PlacesOK' /\ ProcessesOK' /\ CountsOK' /\ StatesMatch'
  BY <1>1 DEF IInv, PlacesOK, Awaiting, ProcessesOK, CountsOK, Unborn, StatesMatch
<1>3. EntriesOwned' /\ NamesUnique' /\ ProcessesFound' /\ Deadlines'
  BY <1>1 DEF IInv, EntriesOwned, NamesUnique, ProcessesFound, Deadlines, Awaiting
<1>4. DownIsLast' /\ down' \in BOOLEAN
  BY <1>1 DEF IInv, DownIsLast
<1>5. QED
  BY <1>2, <1>3, <1>4 DEF IInv
-----------------------------------------------------------------------------
(* The invariant, and what follows from it. *)

\* No step of discovery, of a command, of shutdown or of a server leaves the invariant.
THEOREM StepIInv == IInv /\ [Next]_vars => IInv'
<1> SUFFICES ASSUME IInv, [Next]_vars PROVE IInv'
  OBVIOUS
<1>1. ASSUME NEW s \in Servers, Answers(s) PROVE IInv'
  BY <1>1, SpawnStep, SettlingSteps, ShakesHandsStep DEF Answers
<1>2. ASSUME NEW s \in Servers, Abandon(s) PROVE IInv'
  BY <1>2, SettlingSteps
<1>3. ASSUME NEW s \in Servers, Reconnect(s) PROVE IInv'
  BY <1>3, ReconnectStep
<1>4. CASE UNCHANGED vars
  <2>1. UNCHANGED <<pc, subject, phase, left, spent, found, listed, client, tools, registry,
                    born, live, reconnects, down>>
    BY <1>4 DEF vars, discovery, states
  <2>2. PlacesOK' /\ ProcessesOK' /\ CountsOK' /\ StatesMatch'
    BY <2>1 DEF IInv, PlacesOK, Awaiting, ProcessesOK, CountsOK, Unborn, StatesMatch
  <2>3. EntriesOwned' /\ NamesUnique' /\ ProcessesFound' /\ Deadlines' /\ DownIsLast'
    BY <2>1 DEF IInv, EntriesOwned, NamesUnique, ProcessesFound, Deadlines, Awaiting, DownIsLast
  <2>4. QED
    BY <2>1, <2>2, <2>3 DEF IInv
<1>5. QED
  BY <1>1, <1>2, <1>3, <1>4, TickStep, RegisterNextStep, ReconnectedStep, ShutdownStep,
     ServerExitsStep DEF Next

LEMMA Invariant == Spec => []IInv
BY InitIInv, StepIInv, PTL DEF Spec

LEMMA SpecInvariant == Spec => []IInv /\ [][Next]_vars
BY Invariant, PTL DEF Spec

\* Every variable keeps its type, and no more clients are started than Discover and the
\* reconnects asked for.
THEOREM TypeCorrect == Spec => []TypeOK
<1>1. IInv => TypeOK
  <2> SUFFICES ASSUME IInv PROVE TypeOK
    OBVIOUS
  <2>1. Cardinality(Servers) \in Nat /\ Cardinality(Unborn) \in Nat /\ MaxReconnects \in Nat
    BY ServersFinite, UnbornFinite, ManagerAssumption DEF ManagerAssumption
  <2>2. /\ reconnects \in 0..MaxReconnects /\ born \in Nat
        /\ born + Cardinality(Unborn) <= Cardinality(Servers) + reconnects
    BY DEF IInv, CountsOK, ProcessesOK
  <2>3. born \in 0..MaxClients /\ 0..born \subseteq 0..MaxClients /\ MaxClients \in Nat
    BY <2>1, <2>2 DEF MaxClients
  <2>4. found \in [Servers -> 0..MaxClients] /\ client \in [Servers -> 0..MaxClients]
    BY <2>3 DEF IInv, ProcessesOK
  <2>5. ASSUME NEW entry \in registry
        PROVE  entry.server \in Servers /\ entry.client \in 1..MaxClients
    <3>1. /\ entry.server \in Servers /\ entry.client = client[entry.server]
          /\ entry.name \in Names(entry.server, tools[entry.server])
      BY DEF IInv, EntriesOwned
    <3>2. tools[entry.server] # {}
      BY <3>1 DEF Names
    <3>3. client[entry.server] # NoClient
      BY <3>1, <3>2 DEF IInv, StatesMatch
    <3>4. QED
      BY <2>3, <2>4, <3>1, <3>3 DEF NoClient
  <2>6. left \in [Servers -> 0..Timeout] /\ spent \in [Servers -> Nat]
    BY DEF IInv, Deadlines
  <2>7. QED
    BY <2>2, <2>3, <2>4, <2>5, <2>6
    DEF IInv, PlacesOK, ProcessesOK, CountsOK, NamesUnique, TypeOK
<1>2. QED
  BY <1>1, Invariant, PTL

\* However many reconnects, and whatever names the servers' tools share, the model is never
\* offered a tool bound to a client that a reconnect closed.
THEOREM EntriesAreCurrent == Spec => []RegistryIsCurrent
<1>1. IInv => RegistryIsCurrent
  BY DEF IInv, EntriesOwned, RegistryIsCurrent
<1>2. QED
  BY <1>1, Invariant, PTL

\* For every timeout and number of servers, each one's handshake and list together end
\* within two of them.
THEOREM DiscoveryIsBounded == Spec => []SettlesInTwoTimeouts
<1>1. IInv => SettlesInTwoTimeouts
  <2> SUFFICES ASSUME IInv, NEW s \in Servers PROVE spent[s] <= 2 * Timeout
    BY DEF SettlesInTwoTimeouts
  <2>1. /\ left[s] \in 0..Timeout /\ spent[s] \in Nat /\ Timeout \in Nat
        /\ phase[s] \in {"starting", "handshake", "listing", "settled"}
        /\ phase[s] \in {"starting", "settled"} => left[s] = 0 /\ spent[s] = 0
        /\ phase[s] = "handshake" => spent[s] + left[s] = Timeout
        /\ phase[s] = "listing" => spent[s] + left[s] <= 2 * Timeout
    BY ManagerAssumption DEF IInv, Deadlines, PlacesOK, ManagerAssumption
  <2>2. QED
    BY <2>1
<1>2. QED
  BY <1>1, Invariant, PTL

\* Whichever driver the commands run on, between them every process is one that a server's
\* state still holds.
THEOREM ProcessesAreHeld == Spec => [](pc = "idle" => live \subseteq {client[s] : s \in Servers})
<1>1. IInv => (pc = "idle" => live \subseteq {client[s] : s \in Servers})
  BY IdleSettled DEF IInv, ProcessesFound
<1>2. QED
  BY <1>1, Invariant, PTL

\* When the driver's goroutine is the one that runs shutdown, as in the REPL, a clean exit
\* leaves no child process behind.
THEOREM ReplLeavesNone == ASSUME OwnDriver = FALSE PROVE Spec => []NoStrayProcess
<1>1. IInv => NoStrayProcess
  BY IdleSettled DEF IInv, ProcessesFound, DownIsLast, NoStrayProcess
<1>2. QED
  BY <1>1, Invariant, PTL

\* registerTools of s: a name that is not free is held by another server's tool.
LEMMA RegisterKeeps ==
  ASSUME IInv, AllKept, NEW s \in Servers, Awaiting(s), RegisterTools(s), reconnects' = reconnects
  PROVE  AllKept'
<1>1. /\ client \in [Servers -> 0..born] /\ tools \in [Servers -> SUBSET ToolNames]
      /\ listed \in [Servers -> SUBSET ToolNames]
  BY DEF IInv, ProcessesOK, PlacesOK
<1>2. /\ client'[s] = found[s] /\ tools'[s] = listed[s]
      /\ \A t \in Servers : t # s => client'[t] = client[t] /\ tools'[t] = tools[t]
  BY <1>1 DEF RegisterTools
<1>3. registry \subseteq registry'
  BY DEF RegisterTools
<1>4. ASSUME NEW tool \in listed[s] PROVE Kept(s, tool)'
  <2> DEFINE name == MCPToolName(Configured[s], tool)
  <2>1. Entry(s, tool)' = [name |-> name, server |-> s, client |-> found[s]]
    BY <1>2 DEF Entry
  <2>2. CASE name \notin {entry.name : entry \in registry}
    <3>1. name \in Names(s, listed[s])
      BY DEF Names
    <3>2. QED
      BY <2>1, <2>2, <3>1 DEF RegisterTools, Kept
  <2>3. ASSUME NEW entry \in registry, entry.name = name PROVE Kept(s, tool)'
    <3>1. /\ entry.server \in Servers /\ entry.server # s
          /\ entry.name \in Names(entry.server, tools[entry.server])
      BY DEF IInv, EntriesOwned
    <3>2. PICK other \in tools[entry.server] :
            entry.name = MCPToolName(Configured[entry.server], other)
      BY <3>1 DEF Names
    <3>3. other \in ToolNames
      BY <1>1, <3>1, <3>2
    <3>4. Collides(s, tool)
      BY <2>3, <3>1, <3>2, <3>3 DEF Collides
    <3>5. entry \in registry' /\ entry.name = Entry(s, tool)'.name
      BY <1>3, <2>1, <2>3
    <3>6. Collides(s, tool)'
      BY <3>4 DEF Collides
    <3>7. QED
      BY <3>5, <3>6 DEF Kept
  <2>4. QED
    BY <2>2, <2>3
<1>5. ASSUME NEW t \in Servers, t # s, NEW tool \in tools[t] PROVE Kept(t, tool)'
  <2>1. Kept(t, tool)
    BY DEF AllKept
  <2>2. Entry(t, tool)' = Entry(t, tool)
    BY <1>2, <1>5 DEF Entry
  <2>3. Collides(t, tool) => Collides(t, tool)'
    BY DEF Collides
  <2>4. QED
    BY <1>3, <2>1, <2>2, <2>3 DEF Kept
<1>6. QED
  BY <1>2, <1>4, <1>5 DEF AllKept

\* disconnect of s unregisters by name: another server's entry goes only in a collision.
LEMMA ReconnectKeeps ==
  ASSUME IInv, AllKept, NEW s \in Servers, Reconnect(s)
  PROVE  AllKept'
<1>1. /\ client \in [Servers -> 0..born] /\ tools \in [Servers -> SUBSET ToolNames]
      /\ reconnects \in Nat
  BY ManagerAssumption DEF IInv, ProcessesOK, PlacesOK, CountsOK, ManagerAssumption
<1>2. /\ tools'[s] = {} /\ reconnects' # 0
      /\ \A t \in Servers : t # s => client'[t] = client[t] /\ tools'[t] = tools[t]
      /\ registry' = {entry \in registry : entry.name \notin Names(s, tools[s])}
  BY <1>1 DEF Reconnect, Disconnect
<1>3. ASSUME NEW t \in Servers, NEW tool \in tools'[t] PROVE Kept(t, tool)'
  <2>1. t # s /\ tool \in tools[t] /\ Entry(t, tool)' = Entry(t, tool)
    BY <1>2 DEF Entry
  <2>2. Kept(t, tool)
    BY <2>1 DEF AllKept
  <2>3. Collides(t, tool) => Collides(t, tool)'
    BY DEF Collides
  <2>4. CASE Entry(t, tool) \in registry' \/ Collides(t, tool)
    BY <1>2, <2>1, <2>3, <2>4 DEF Kept
  <2>5. ASSUME Entry(t, tool) \in registry, Entry(t, tool) \notin registry'
        PROVE  Collides(t, tool)
    <3>1. Entry(t, tool).name = MCPToolName(Configured[t], tool)
      BY DEF Entry
    <3>2. MCPToolName(Configured[t], tool) \in Names(s, tools[s])
      BY <1>2, <2>5, <3>1
    <3>3. PICK other \in tools[s] :
            MCPToolName(Configured[t], tool) = MCPToolName(Configured[s], other)
      BY <3>2 DEF Names
    <3>4. other \in ToolNames
      BY <1>1, <3>3
    <3>5. QED
      BY <2>1, <3>3, <3>4 DEF Collides
  <2>6. QED
    BY <2>2, <2>4, <2>5 DEF Kept
<1>4. QED
  BY <1>3 DEF AllKept

LEMMA StepKeeps == ASSUME IInv, AllKept, [Next]_vars PROVE AllKept'
<1>1. CASE UNCHANGED <<registry, client, tools, reconnects>>
  BY <1>1 DEF AllKept, Kept, Entry, Collides
<1>2. ASSUME NEW s \in Servers, Reconnect(s) PROVE AllKept'
  BY <1>2, ReconnectKeeps
<1>3. ASSUME NEW s \in Servers, Answers(s) \/ Abandon(s) PROVE AllKept'
  BY <1>1, <1>3
  DEF Answers, Spawn, SpawnFails, ShakesHands, Lists, Abandon, discoverFrame, states
<1>4. CASE RegisterNext
  <2>1. subject \in Servers /\ subject >= subject
    BY ServersFinite DEF IInv, PlacesOK
  <2>2. QED
    BY <1>4, <2>1, RegisterKeeps DEF RegisterNext, Awaiting
<1>5. CASE Reconnected
  BY <1>5, RegisterKeeps DEF Reconnected, Awaiting, IInv, PlacesOK
<1>6. CASE Tick \/ Shutdown \/ ServerExits \/ UNCHANGED vars
  BY <1>1, <1>6 DEF Tick, Shutdown, ServerExits, vars, discoverFrame, states
<1>7. QED
  BY <1>2, <1>3, <1>4, <1>5, <1>6 DEF Next

\* Whatever the servers are called and whatever they list, a tool is out of the Registry
\* between commands only where another server's tool may have its name, and before any
\* reconnect somebody holds that name.
THEOREM ToolsLostToCollisions == Spec => []OnlyCollisionsLose
<1>1. Init => AllKept
  BY DEF Init, AllKept
<1>2. IInv /\ AllKept /\ [Next]_vars => AllKept'
  BY StepKeeps
<1>3. AllKept => OnlyCollisionsLose
  BY DEF AllKept, Kept, OnlyCollisionsLose
<1>4. QED
  BY <1>1, <1>2, <1>3, SpecInvariant, PTL DEF Spec
=============================================================================
