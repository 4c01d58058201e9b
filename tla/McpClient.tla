----------------------------- MODULE McpClient -----------------------------
(***************************************************************************)
(* One MCP connection: the Client of internal/mcp/client.go from Start and  *)
(* tools/list (discoverOne) through the tool calls of the agent's           *)
(* goroutines to Close.  A call takes the mutex, writes its request, and    *)
(* leaves the reading to a goroutine of its own, which outlives the call    *)
(* when the context ends first.                                             *)
(*                                                                          *)
(* The server is external: it reads requests, answers them in any order,    *)
(* may stall, may exit, and may send notifications, which MCP allows.       *)
(***************************************************************************)
EXTENDS Integers, Sequences, FiniteSets

CONSTANTS
  Boot,         \* the goroutine that runs Start and ListTools
  Callers,      \* the tool goroutines that share the Client
  Nobody,       \* holds the mutex when nobody does
  PipeRoom,     \* requests the stdin pipe takes before a write blocks
  ServerTalks,  \* the server sends notifications
  MaxCalls      \* bound of the model: requests sent

ASSUME McpAssumption ==
  /\ Boot \notin Callers /\ Nobody \notin Callers \cup {Boot}
  /\ PipeRoom \in Nat \ {0}
  /\ MaxCalls \in Nat /\ MaxCalls >= 2  \* Start's and ListTools' own
  /\ ServerTalks \in BOOLEAN

\* What a read goroutine delivers, and a call returns, beside a response's ID.
Nothing == -1
Failed == -2
ContextEnded == -3
Notification == 0

Clients == Callers \cup {Boot}

VARIABLES
  stage,    \* how far Start, ListTools and Close have come
  alive,    \* the server process runs
  stdin, working, stdout,   \* requests written, those the server read, lines it wrote
  mu, nextID,               \* Client.mu, Client.nextID
  at, id, ended,            \* each call's place, request ID, context
  result,                   \* what each call returned
  readers, mail,            \* read goroutines still blocked; their one-slot channels
  quiet     \* so far no tool call's context has ended and no notification has come

wire == <<stdin, working, stdout>>
reading == <<readers, mail, quiet>>
calling == <<at, id, result, mu, nextID>>
vars == <<stage, alive, wire, calling, ended, reading>>

Init ==
  /\ stage = "off" /\ alive = FALSE
  /\ stdin = <<>> /\ working = {} /\ stdout = <<>>
  /\ mu = Nobody /\ nextID = 0
  /\ at = [c \in Clients |-> "idle"] /\ id = [c \in Clients |-> 0]
  /\ ended = [c \in Clients |-> FALSE]
  /\ result = [c \in Clients |-> Nothing]
  /\ readers = {} /\ mail = [r \in 1..MaxCalls |-> Nothing] /\ quiet = TRUE
-----------------------------------------------------------------------------
(* Client.call. *)

Begin(c) ==
  /\ at' = [at EXCEPT ![c] = "lock"]
  /\ ended' = [ended EXCEPT ![c] = FALSE]
  /\ result' = [result EXCEPT ![c] = Nothing]

Return(c, what) ==
  /\ at' = [at EXCEPT ![c] = "done"]
  /\ result' = [result EXCEPT ![c] = what]
  /\ mu' = Nobody

\* Mutant: no mutex.
LockFree(c) ==
  /\ at[c] = "lock"
  /\ mu' = c /\ nextID' = nextID + 1
  /\ id' = [id EXCEPT ![c] = nextID + 1]
  /\ at' = [at EXCEPT ![c] = "write"]
  /\ UNCHANGED <<stage, alive, wire, ended, result, reading>>

\* Waiting for the mutex takes no notice of the context.
Lock(c) ==
  /\ at[c] = "lock" /\ mu = Nobody
  /\ mu' = c /\ nextID' = nextID + 1
  /\ id' = [id EXCEPT ![c] = nextID + 1]
  /\ at' = [at EXCEPT ![c] = "write"]
  /\ UNCHANGED <<stage, alive, wire, ended, result, reading>>

\* writeLine, which blocks while the pipe is full, then the read goroutine.
Write(c) ==
  /\ at[c] = "write" /\ alive /\ Len(stdin) < PipeRoom
  /\ stdin' = Append(stdin, id[c])
  /\ at' = [at EXCEPT ![c] = "read"]
  /\ readers' = readers \cup {id[c]}
  /\ UNCHANGED <<stage, alive, working, stdout, mu, nextID, id, ended, result, mail, quiet>>

WriteFails(c) ==
  /\ at[c] = "write" /\ ~alive
  /\ Return(c, Failed)
  /\ UNCHANGED <<stage, alive, wire, nextID, id, ended, reading>>

\* A line that is no response to anything has no result to decode.
TakeResponse(c) ==
  /\ at[c] = "read" /\ mail[id[c]] # Nothing
  /\ Return(c, IF mail[id[c]] = Notification THEN Failed ELSE mail[id[c]])
  /\ UNCHANGED <<stage, alive, wire, nextID, id, ended, reading>>

\* Mutant: a call that gives up keeps the mutex.
GiveUpLocked(c) ==
  /\ at[c] = "read" /\ ended[c]
  /\ at' = [at EXCEPT ![c] = "done"]
  /\ result' = [result EXCEPT ![c] = ContextEnded]
  /\ UNCHANGED <<stage, alive, wire, mu, nextID, id, ended, reading>>

GiveUp(c) ==
  /\ at[c] = "read" /\ ended[c]
  /\ Return(c, ContextEnded)
  /\ UNCHANGED <<stage, alive, wire, nextID, id, ended, reading>>

\* The read goroutine of request r gets the next line, whoever it answers.  Two of
\* them race on one bufio.Reader: either may get the line, tear it, or lose it.
Read(r) ==
  /\ r \in readers /\ stdout # <<>>
  /\ \E line \in {Head(stdout)} \cup (IF readers = {r} THEN {} ELSE {Failed, Nothing}) :
       /\ mail' = [mail EXCEPT ![r] = line]
       /\ readers' = IF line = Nothing THEN readers ELSE readers \ {r}
  /\ stdout' = Tail(stdout)
  /\ UNCHANGED <<stage, alive, stdin, working, calling, ended, quiet>>

ReadFails(r) ==
  /\ r \in readers /\ ~alive /\ stdout = <<>>
  /\ mail' = [mail EXCEPT ![r] = Failed]
  /\ readers' = readers \ {r}
  /\ UNCHANGED <<stage, alive, wire, calling, ended, quiet>>
-----------------------------------------------------------------------------
(* Start, ListTools and Close. *)

\* Mutant: the server is asked to go by closing its input, and not killed.
KillPolitely == stdin' = <<>> /\ UNCHANGED <<alive, working, stdout>>

\* Close and kill.
Kill ==
  /\ alive' = FALSE
  /\ stdin' = <<>> /\ working' = {} /\ stdout' = <<>>

Start ==
  /\ stage = "off"
  /\ \/ stage' = "initializing" /\ alive' = TRUE /\ Begin(Boot)
     \/ stage' = "failed" /\ UNCHANGED <<alive, at, ended, result>>
  /\ UNCHANGED <<wire, id, mu, nextID, reading>>

\* The call of this stage is back: a good response leads on, all else kills the server.
Proceed(from, to) ==
  /\ stage = from /\ at[Boot] = "done"
  /\ \/ result[Boot] > 0 /\ stage' = to /\ UNCHANGED <<alive, wire>>
     \/ stage' = "failed" /\ Kill
  /\ at' = [at EXCEPT ![Boot] = "idle"]
  /\ UNCHANGED <<id, result, mu, nextID, ended, reading>>

\* notifications/initialized, and tools/list under a context of its own.
Notify ==
  /\ stage = "notifying" /\ mu = Nobody
  /\ \/ /\ alive /\ Len(stdin) < PipeRoom
        /\ stdin' = Append(stdin, Notification)
        /\ stage' = "listing" /\ Begin(Boot)
        /\ UNCHANGED <<alive, working, stdout>>
     \/ /\ ~alive /\ stage' = "failed" /\ Kill
        /\ UNCHANGED <<at, ended, result>>
  /\ UNCHANGED <<id, mu, nextID, reading>>

Close ==
  /\ stage = "ready" /\ stage' = "closed"
  /\ Kill
  /\ UNCHANGED <<calling, ended, reading>>
-----------------------------------------------------------------------------
(* The tool goroutines, the clock, and the server. *)

Call(c) ==
  /\ stage = "ready" /\ at[c] \in {"idle", "done"}
  /\ nextID + Cardinality({d \in Callers : at[d] = "lock"}) < MaxCalls
  /\ Begin(c)
  /\ UNCHANGED <<stage, alive, wire, id, mu, nextID, reading>>

EndContext(c) ==
  /\ at[c] \in {"lock", "write", "read"} /\ ~ended[c]
  /\ ended' = [ended EXCEPT ![c] = TRUE]
  /\ quiet' = (quiet /\ c = Boot)
  /\ UNCHANGED <<stage, alive, wire, calling, readers, mail>>

ServerReads ==
  /\ alive /\ stdin # <<>>
  /\ stdin' = Tail(stdin)
  /\ working' = working \cup ({Head(stdin)} \ {Notification})
  /\ UNCHANGED <<stage, alive, stdout, calling, ended, reading>>

ServerAnswers ==
  /\ alive /\ \E r \in working : working' = working \ {r} /\ stdout' = Append(stdout, r)
  /\ UNCHANGED <<stage, alive, stdin, calling, ended, reading>>

ServerNotifies ==
  /\ ServerTalks /\ alive /\ stdout = <<>>
  /\ stdout' = <<Notification>> /\ quiet' = FALSE
  /\ UNCHANGED <<stage, alive, stdin, working, calling, ended, readers, mail>>

ServerExits ==
  /\ alive /\ alive' = FALSE
  /\ stdin' = <<>> /\ working' = {} /\ UNCHANGED stdout
  /\ UNCHANGED <<stage, calling, ended, reading>>

CallStep(c) == Lock(c) \/ Write(c) \/ WriteFails(c) \/ TakeResponse(c) \/ GiveUp(c)

ReadStep(r) == Read(r) \/ ReadFails(r)

BootStep ==
  Start \/ Proceed("initializing", "notifying") \/ Notify \/ Proceed("listing", "ready")

Next ==
  \/ \E c \in Clients : CallStep(c) \/ EndContext(c)
  \/ \E r \in 1..MaxCalls : ReadStep(r)
  \/ BootStep \/ Close
  \/ \E c \in Callers : Call(c)
  \/ ServerReads \/ ServerAnswers \/ ServerNotifies \/ ServerExits

Spec == Init /\ [][Next]_vars

\* The client's goroutines run, every context ends at last (the handshake and tools/list
\* have timeouts, and so has every tool), and the server keeps reading its input,
\* whether it ever answers or not.
FairSpec ==
  /\ Spec
  /\ WF_vars(BootStep)
  /\ \A c \in Clients : WF_vars(CallStep(c)) /\ WF_vars(EndContext(c))
  /\ \A r \in 1..MaxCalls : WF_vars(ReadStep(r))
  /\ WF_vars(ServerReads)
-----------------------------------------------------------------------------
Stages == {"off", "initializing", "notifying", "listing", "ready", "failed", "closed"}

RequestIDs == 1..MaxCalls

Out(c) == at[c] \in {"lock", "write", "read"}

\* The type of every variable.
TypeOK ==
  /\ stage \in Stages /\ alive \in BOOLEAN
  /\ stdin \in Seq(RequestIDs \cup {Notification})
  /\ working \subseteq RequestIDs /\ stdout \in Seq(RequestIDs \cup {Notification})
  /\ mu \in Clients \cup {Nobody} /\ nextID \in 0..MaxCalls
  /\ at \in [Clients -> {"idle", "lock", "write", "read", "done"}]
  /\ id \in [Clients -> 0..MaxCalls] /\ ended \in [Clients -> BOOLEAN]
  /\ result \in [Clients -> RequestIDs \cup {Nothing, Failed, ContextEnded}]
  /\ readers \subseteq RequestIDs /\ quiet \in BOOLEAN
  /\ mail \in [RequestIDs -> RequestIDs \cup {Nothing, Failed, Notification}]

\* call "waits for its matching response" (client.go:150): a response that reaches a
\* call answers the request of this call, though its ID is never looked at.
ResponseMatchesCall ==
  \A c \in Clients : (at[c] = "done" /\ result[c] > 0) => result[c] = id[c]

\* With the mutex for its only means, concurrent callers each get their own response,
\* until a tool call's context ends or the server sends what is no response.
QuietResponsesMatch == quiet => ResponseMatchesCall

\* Killing the process ends every read goroutine that its call abandoned.
ReadersEnd == stage \in {"failed", "closed"} ~> readers = {}

\* No call is out for ever, not behind the mutex either, though the server may never
\* answer, as long as it reads what it is sent.
CallsReturn == \A c \in Clients : Out(c) ~> ~Out(c)
=============================================================================
