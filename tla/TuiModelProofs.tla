--------------------------- MODULE TuiModelProofs ---------------------------
(***************************************************************************)
(* The TUI's promises for any number of inputs, rounds and calls, whatever  *)
(* the adapter's call IDs and whatever the order in which started,          *)
(* finished, approval and done messages reach the Model.                    *)
(*                                                                          *)
(* A request outlives the call that sent it: a cancelled turn leaves its    *)
(* requests in the queue, and a later turn asks behind them.  So the        *)
(* invariant follows the requests (Active): each was sent once, by a call   *)
(* of this round or of an older one, and while the modal has the screen in  *)
(* a turn that was not cancelled, all of them are calls that still wait.    *)
(***************************************************************************)
EXTENDS TuiModel, TLAPS

\* The requests that nobody has answered: the one on display and those behind it.
Active == {queue[i] : i \in DOMAIN queue} \cup ({approval} \ {None})

CallIds == IF SharedIds THEN Positions ELSE Requests

Blocks == [id : CallIds, owner : Requests, status : Statuses]

\* Types of the Model's fields.
ModelOK ==
  /\ state \in {"idle", "streaming", "toolRunning", "approval"}
  /\ priorState \in {"idle", "streaming", "toolRunning"}
  /\ approval \in Requests \cup {None} /\ queue \in Seq(Requests)
  /\ blocks \in Seq(Blocks)

\* Types of the driver's; a round's calls exist while it runs.
DriverOK ==
  /\ submit \in {"empty", "turn", "command"}
  /\ driver \in {"waiting", "command", "taken", "streaming", "tools", "ending"}
  /\ gated \in Rounds \cup {<<>>} /\ (driver # "tools" => gated = <<>>)
  /\ call \in [DOMAIN gated -> Phases]
  /\ answer \in [DOMAIN gated -> {None, "yes", "no"}]

FlagsOK == cancelSet \in BOOLEAN /\ ctxDone \in BOOLEAN

\* Each turn was an input once; an input is in the channel, in the driver's hands
\* or a turn.
CountsOK ==
  /\ inputs \in 0..MaxInputs /\ turn \in Nat /\ ticks \in Nat /\ round \in 0..MaxRounds
  /\ ticks <= turn
  /\ turn + (IF submit = "empty" THEN 0 ELSE 1) + (IF driver = "taken" THEN 1 ELSE 0) <= inputs
  /\ TurnLive => turn > 0
  /\ driver = "tools" => round > 0

\* What is asked is asked once: requests are of this round or an older one, and
\* the call of this round that has not asked has none.
Asked ==
  \A r \in Active :
    /\ r.turn <= turn /\ (r.turn = turn => r.round <= round)
    /\ \A p \in DOMAIN call : r = Request(p) => call[p] # "ask"

\* A call that has its answer had asked, and its request is gone.
Answered ==
  \A p \in DOMAIN call : answer[p] # None => call[p] # "ask" /\ Request(p) \notin Active

Distinct ==
  /\ \A i, j \in DOMAIN queue : i # j => queue[i] # queue[j]
  /\ \A i \in DOMAIN queue : queue[i] # approval

NoneBehindNone == approval = None => queue = <<>>

\* A modal that has the screen covers a turn's screen, and until the turn is
\* cancelled every request is that of a call which waits.
ModalAsks ==
  state = "approval" =>
    /\ approval # None /\ priorState # "idle"
    /\ \/ ctxDone
       \/ /\ driver = "tools"
          /\ \A r \in Active : \E p \in DOMAIN call :
                r = Request(p) /\ call[p] = "waiting" /\ answer[p] = None

IInv == /\ ModelOK /\ DriverOK /\ FlagsOK /\ CountsOK
        /\ Asked /\ Answered /\ Distinct /\ NoneBehindNone
        /\ ModalAsks /\ BusyIffTurn
-----------------------------------------------------------------------------
(* Requests, and the queue that holds them. *)

LEMMA PositionsAreNumbers == \A p \in Positions : p \in Nat
BY TuiAssumption DEF TuiAssumption, Positions

LEMMA RequestsAreRequests == None \notin Requests
<1>1. Requests \subseteq [turn : Nat, round : Nat, pos : Nat]
  BY PositionsAreNumbers DEF Requests
<1>2. QED
  BY <1>1, TuiAssumption DEF TuiAssumption

LEMMA RequestType ==
  ASSUME DriverOK, CountsOK, NEW p \in DOMAIN call
  PROVE  /\ driver = "tools" /\ p \in Positions /\ Request(p) \in Requests
         /\ Request(p) # None /\ CallId(p) \in CallIds
         /\ [id |-> CallId(p), owner |-> Request(p), status |-> "running"] \in Blocks
<1>1. DOMAIN call = DOMAIN gated /\ gated # <<>>
  BY DEF DriverOK
<1>2. driver = "tools" /\ gated \in Rounds
  BY <1>1 DEF DriverOK
<1>3. p \in Positions
  BY <1>1, <1>2 DEF Positions
<1>4. turn \in 1..MaxInputs /\ round \in 1..MaxRounds
  BY <1>2, TuiAssumption DEF CountsOK, TurnLive, TuiAssumption
<1>5. Request(p) \in Requests
  BY <1>3, <1>4 DEF Request, Requests
<1>6. CallId(p) \in CallIds
  BY <1>3, <1>5 DEF CallId, CallIds
<1>7. QED
  BY <1>2, <1>3, <1>5, <1>6, RequestsAreRequests DEF Blocks, Statuses

LEMMA RequestsDiffer == \A p, q : Request(p) = Request(q) => p = q
<1> TAKE p, q
<1>1. Request(p).pos = p /\ Request(q).pos = q
  BY DEF Request
<1>2. QED
  BY <1>1

LEMMA ActiveType == ModelOK => \A r \in Active : r \in Requests /\ r.turn \in Nat /\ r.round \in Nat
<1> SUFFICES ASSUME ModelOK, NEW r \in Active PROVE r \in Requests /\ r.turn \in Nat /\ r.round \in Nat
  OBVIOUS
<1>1. r \in Requests
  BY DEF ModelOK, Active
<1>2. QED
  BY <1>1 DEF Requests

LEMMA AppendElements ==
  ASSUME NEW S, NEW q \in Seq(S), NEW r \in S
  PROVE  LET t == Append(q, r) IN
         /\ t \in Seq(S) /\ DOMAIN t = DOMAIN q \cup {Len(q) + 1} /\ Len(q) + 1 \notin DOMAIN q
         /\ t[Len(q) + 1] = r /\ \A i \in DOMAIN q : t[i] = q[i]
OBVIOUS

LEMMA TailElements ==
  ASSUME NEW S, NEW q \in Seq(S), q # <<>>
  PROVE  /\ Head(q) \in S /\ Tail(q) \in Seq(S) /\ Head(q) = q[1] /\ 1 \in DOMAIN q
         /\ \A i \in DOMAIN Tail(q) : i + 1 \in DOMAIN q /\ i + 1 # 1 /\ Tail(q)[i] = q[i + 1]
         /\ \A i \in DOMAIN q : i # 1 => i - 1 \in DOMAIN Tail(q) /\ Tail(q)[i - 1] = q[i]
         /\ \A i, j \in DOMAIN Tail(q) : i # j => i + 1 # j + 1
OBVIOUS

\* A modal is answered: the next request, if any, takes its place.
LEMMA ActivateNextLemma ==
  ASSUME ModelOK, Distinct, state = "approval", approval # None, ActivateNext(queue)
  PROVE  /\ approval' \in Requests \cup {None} /\ queue' \in Seq(Requests)
         /\ priorState' = priorState
         /\ Active' = Active \ {approval} /\ Distinct' /\ NoneBehindNone'
         /\ \/ queue = <<>> /\ state' = priorState
            \/ queue # <<>> /\ state' = "approval" /\ approval' # None
<1>1. CASE queue = <<>>
  <2>1. approval' = None /\ queue' = <<>> /\ state' = priorState /\ priorState' = priorState
    BY <1>1 DEF ActivateNext
  <2>2. QED
    BY <1>1, <2>1 DEF Active, Distinct, NoneBehindNone
<1>2. CASE queue # <<>>
  <2>1. /\ approval' = Head(queue) /\ queue' = Tail(queue)
        /\ state' = "approval" /\ priorState' = priorState
    BY <1>2 DEF ActivateNext
  <2>2. /\ Head(queue) \in Requests /\ Tail(queue) \in Seq(Requests)
        /\ Head(queue) = queue[1] /\ 1 \in DOMAIN queue
        /\ \A i \in DOMAIN Tail(queue) : /\ i + 1 \in DOMAIN queue /\ i + 1 # 1
                                         /\ Tail(queue)[i] = queue[i + 1]
        /\ \A i \in DOMAIN queue : i # 1 => /\ i - 1 \in DOMAIN Tail(queue)
                                            /\ Tail(queue)[i - 1] = queue[i]
        /\ \A i, j \in DOMAIN Tail(queue) : i # j => i + 1 # j + 1
    BY <1>2, TailElements DEF ModelOK
  <2>3. approval' # None
    BY <2>1, <2>2, RequestsAreRequests
  <2>4. {queue[i] : i \in DOMAIN queue}
           = {Tail(queue)[i] : i \in DOMAIN Tail(queue)} \cup {Head(queue)}
    <3>1. ASSUME NEW i \in DOMAIN queue
          PROVE  queue[i] = Head(queue) \/ \E j \in DOMAIN Tail(queue) : queue[i] = Tail(queue)[j]
      BY <2>2
    <3>2. ASSUME NEW j \in DOMAIN Tail(queue)
          PROVE  \E i \in DOMAIN queue : Tail(queue)[j] = queue[i]
      BY <2>2
    <3>3. QED
      BY <2>2, <3>1, <3>2
  <2>5. approval \notin {queue[i] : i \in DOMAIN queue}
    BY DEF Distinct
  <2>6. Active' = Active \ {approval}
    BY <2>1, <2>3, <2>4, <2>5 DEF Active
  <2>7. Distinct'
    BY <2>1, <2>2 DEF Distinct
  <2>8. QED
    BY <1>2, <2>1, <2>2, <2>3, <2>6, <2>7 DEF NoneBehindNone
<1>3. QED
  BY <1>1, <1>2

\* A request arrives: it is shown if nothing is, and queued otherwise.
LEMMA OnApprovalRequestLemma ==
  ASSUME ModelOK, Distinct, NoneBehindNone, NEW r \in Requests, r \notin Active,
         OnApprovalRequest(r)
  PROVE  /\ approval' \in Requests /\ queue' \in Seq(Requests)
         /\ Active' = Active \cup {r} /\ Distinct' /\ NoneBehindNone'
         /\ \/ /\ Active = {} /\ state' = "approval"
               /\ priorState' = IF state # "approval" THEN state ELSE priorState
            \/ state' = state /\ priorState' = priorState /\ approval # None
<1>1. r # None
  BY RequestsAreRequests
<1>2. CASE approval = None
  <2>1. queue = <<>> /\ Active = {}
    BY <1>2 DEF NoneBehindNone, Active
  <2>2. Append(queue, r) = <<r>> /\ Head(<<r>>) = r /\ Tail(<<r>>) = <<>> /\ <<r>> # <<>>
    BY <2>1
  <2>3. /\ approval' = r /\ queue' = <<>> /\ state' = "approval"
        /\ priorState' = IF state # "approval" THEN state ELSE priorState
    BY <1>2, <2>2 DEF OnApprovalRequest, ActivateNext
  <2>4. QED
    BY <1>1, <2>1, <2>3 DEF Active, Distinct, NoneBehindNone
<1>3. CASE approval # None
  <2>1. queue' = Append(queue, r) /\ state' = state /\ priorState' = priorState /\ approval' = approval
    BY <1>3 DEF OnApprovalRequest
  <2>2. /\ queue' \in Seq(Requests) /\ DOMAIN queue' = DOMAIN queue \cup {Len(queue) + 1}
        /\ Len(queue) + 1 \notin DOMAIN queue
        /\ queue'[Len(queue) + 1] = r /\ \A i \in DOMAIN queue : queue'[i] = queue[i]
    BY <2>1, AppendElements DEF ModelOK
  <2>3. r # approval /\ \A i \in DOMAIN queue : queue[i] # r
    BY <1>1 DEF Active
  <2>4. Active' = Active \cup {r}
    BY <1>3, <2>1, <2>2 DEF Active
  <2>5. Distinct'
    BY <2>1, <2>2, <2>3 DEF Distinct
  <2>6. QED
    BY <1>3, <2>1, <2>2, <2>4, <2>5 DEF NoneBehindNone, ModelOK
<1>4. QED
  BY <1>2, <1>3
-----------------------------------------------------------------------------
(* What each part of the invariant looks at. *)

\* A fresh program satisfies the invariant.
THEOREM InitIInv == Init => IInv
<1> SUFFICES ASSUME Init PROVE IInv
  OBVIOUS
<1>1. ModelOK
  BY DEF Init, ModelOK
<1>2. DriverOK
  BY DEF Init, DriverOK
<1>3. FlagsOK
  BY DEF Init, FlagsOK
<1>4. CountsOK
  BY TuiAssumption DEF Init, CountsOK, TurnLive, TuiAssumption
<1>5. Active = {} /\ DOMAIN call = {}
  BY DEF Init, Active
<1>6. Asked /\ Answered /\ Distinct /\ NoneBehindNone /\ ModalAsks /\ BusyIffTurn
  BY <1>5 DEF Init, Asked, Answered, Distinct, NoneBehindNone, ModalAsks, BusyIffTurn, TurnLive
<1>7. QED
  BY <1>1, <1>2, <1>3, <1>4, <1>6 DEF IInv

\* A step of the driver or of the user that touches neither the screen nor a call.
LEMMA ElsewhereStep ==
  ASSUME IInv, UNCHANGED <<state, priorState, approval, queue, blocks, turn, round, gated,
                           call, answer>>,
         submit' \in {"empty", "turn", "command"},
         driver' \in {"waiting", "command", "taken", "streaming", "tools", "ending"},
         driver' = "tools" <=> driver = "tools", TurnLive' <=> TurnLive,
         FlagsOK', ctxDone => ctxDone', CountsOK'
  PROVE  IInv'
<1>1. ModelOK' /\ DriverOK'
  BY DEF IInv, ModelOK, DriverOK
<1>2. Active' = Active /\ \A p : Request(p)' = Request(p)
  BY DEF Active, Request
<1>3. Asked' /\ Answered' /\ Distinct' /\ NoneBehindNone'
  BY <1>2 DEF IInv, Asked, Answered, Distinct, NoneBehindNone
<1>4. ModalAsks'
  BY <1>2 DEF IInv, ModalAsks
<1>5. BusyIffTurn'
  BY DEF IInv, BusyIffTurn
<1>6. QED
  BY <1>1, <1>3, <1>4, <1>5 DEF IInv

LEMMA ElsewhereSteps ==
  ASSUME IInv, TakeInput \/ CommandDone \/ ReplyEndsTurn \/ Enter \/ CtrlC \/ TickStops
  PROVE  IInv'
<1>1. /\ UNCHANGED <<state, priorState, approval, queue, blocks, turn, round, gated,
                     call, answer>>
      /\ submit' \in {"empty", "turn", "command"}
      /\ driver' \in {"waiting", "command", "taken", "streaming", "tools", "ending"}
      /\ driver' = "tools" <=> driver = "tools"
  BY DEF TakeInput, CommandDone, ReplyEndsTurn, Enter, CtrlC, TickStops, modelVars, roundVars,
         IInv, DriverOK
<1>2. TurnLive' <=> TurnLive
  BY DEF TakeInput, CommandDone, ReplyEndsTurn, Enter, CtrlC, TickStops, TurnLive
<1>3. FlagsOK' /\ (ctxDone => ctxDone')
  BY DEF TakeInput, CommandDone, ReplyEndsTurn, Enter, CtrlC, TickStops, modelVars, IInv, FlagsOK
<1>4. CountsOK'
  <2>1. ticks' \in Nat /\ ticks' <= turn /\ inputs' \in 0..MaxInputs
    BY TuiAssumption DEF TakeInput, CommandDone, ReplyEndsTurn, Enter, CtrlC, TickStops,
       modelVars, IInv, CountsOK, TuiAssumption
  <2>2. turn + (IF submit' = "empty" THEN 0 ELSE 1) + (IF driver' = "taken" THEN 1 ELSE 0)
          <= inputs'
    <3>1. CASE TakeInput
      BY <3>1 DEF TakeInput, IInv, CountsOK
    <3>2. CASE CommandDone \/ ReplyEndsTurn \/ CtrlC \/ TickStops
      BY <3>2 DEF CommandDone, ReplyEndsTurn, CtrlC, TickStops, IInv, CountsOK
    <3>3. CASE Enter
      BY <3>3 DEF Enter, IInv, CountsOK
    <3>4. QED
      BY <3>1, <3>2, <3>3
  <2>3. QED
    BY <1>1, <1>2, <2>1, <2>2 DEF IInv, CountsOK
<1>5. QED
  BY <1>1, <1>2, <1>3, <1>4, ElsewhereStep
-----------------------------------------------------------------------------
(* Turns and rounds: requests of the past are none of the present's. *)

LEMMA NoCalls == DriverOK /\ driver # "tools" => gated = <<>> /\ DOMAIN call = {} /\ DOMAIN answer = {}
BY DEF DriverOK

LEMMA StartTurnStep == IInv /\ StartTurn => IInv'
<1> SUFFICES ASSUME IInv, StartTurn PROVE IInv'
  OBVIOUS
<1>1. /\ driver = "taken" /\ driver' = "streaming" /\ state' = "streaming" /\ blocks' = <<>>
      /\ turn' = turn + 1 /\ round' = 0 /\ ticks' = ticks + 1
      /\ UNCHANGED <<priorState, approval, queue, submit, gated, call, answer, inputs>>
  BY DEF StartTurn, OnTurnStarted, roundVars
<1>2. ModelOK' /\ DriverOK'
  BY <1>1 DEF IInv, ModelOK, DriverOK
<1>3. FlagsOK'
  BY DEF StartTurn, OnTurnStarted, FlagsOK
<1>4. CountsOK'
  BY <1>1, TuiAssumption DEF IInv, CountsOK, TurnLive, TuiAssumption
<1>5. Active' = Active /\ DOMAIN call' = {}
  BY <1>1, NoCalls DEF Active, IInv
<1>6. Asked'
  <2>1. \A r \in Active : r.turn <= turn /\ r.turn \in Nat
    BY ActiveType DEF IInv, Asked
  <2>2. turn \in Nat
    BY DEF IInv, CountsOK
  <2>3. QED
    BY <1>1, <1>5, <2>1, <2>2 DEF Asked
<1>7. Answered' /\ Distinct' /\ NoneBehindNone' /\ ModalAsks' /\ BusyIffTurn'
  BY <1>1, <1>5 DEF IInv, Answered, Distinct, NoneBehindNone, ModalAsks, BusyIffTurn, TurnLive
<1>8. QED
  BY <1>2, <1>3, <1>4, <1>6, <1>7 DEF IInv

LEMMA ReplyCallsStep == ASSUME IInv, NEW shape \in Rounds, ReplyCalls(shape) PROVE IInv'
<1>1. /\ driver = "streaming" /\ driver' = "tools" /\ round' = round + 1 /\ round < MaxRounds
      /\ gated' = shape
      /\ call' = [p \in DOMAIN shape |-> IF shape[p] THEN "ask" ELSE "start"]
      /\ answer' = [p \in DOMAIN shape |-> None]
      /\ UNCHANGED <<state, priorState, approval, queue, blocks, cancelSet, ticks,
                     submit, ctxDone, turn, inputs>>
  BY DEF ReplyCalls, modelVars
<1>2. ModelOK' /\ DriverOK'
  BY <1>1 DEF IInv, ModelOK, DriverOK, Phases
<1>3. FlagsOK'
  BY <1>1 DEF IInv, FlagsOK
<1>4. CountsOK'
  BY <1>1, TuiAssumption DEF IInv, CountsOK, TurnLive, TuiAssumption
<1>5. Active' = Active
  BY <1>1 DEF Active
<1>6. Asked'
  <2>1. \A r \in Active : /\ r.turn <= turn /\ (r.turn = turn => r.round <= round)
                          /\ r.round \in Nat
    BY ActiveType DEF IInv, Asked
  <2>2. round \in Nat
    BY TuiAssumption DEF IInv, CountsOK, TuiAssumption
  <2>3. \A r \in Active, p \in DOMAIN call' : r # Request(p)'
    BY <1>1, <2>1, <2>2 DEF Request
  <2>4. QED
    BY <1>1, <1>5, <2>1, <2>2, <2>3 DEF Asked
<1>7. Answered'
  BY <1>1 DEF Answered
<1>8. Distinct' /\ NoneBehindNone' /\ ModalAsks' /\ BusyIffTurn'
  BY <1>1, <1>5 DEF IInv, Distinct, NoneBehindNone, ModalAsks, BusyIffTurn, TurnLive
<1>9. QED
  BY <1>2, <1>3, <1>4, <1>6, <1>7, <1>8 DEF IInv

LEMMA RoundEndsStep == IInv /\ RoundEnds => IInv'
<1> SUFFICES ASSUME IInv, RoundEnds PROVE IInv'
  OBVIOUS
<1>1. /\ driver = "tools" /\ driver' \in {"streaming", "ending"}
      /\ \A p \in DOMAIN call : call[p] = "over"
      /\ gated' = <<>> /\ call' = <<>> /\ answer' = <<>>
      /\ UNCHANGED <<state, priorState, approval, queue, blocks, cancelSet, ticks,
                     submit, ctxDone, turn, round, inputs>>
  BY DEF RoundEnds, modelVars
<1>2. ModelOK' /\ DriverOK'
  BY <1>1 DEF IInv, ModelOK, DriverOK
<1>3. FlagsOK'
  BY <1>1 DEF IInv, FlagsOK
<1>4. CountsOK'
  BY <1>1 DEF IInv, CountsOK, TurnLive
<1>5. Active' = Active /\ DOMAIN call' = {}
  BY <1>1 DEF Active
<1>6. Asked' /\ Answered' /\ Distinct' /\ NoneBehindNone' /\ BusyIffTurn'
  BY <1>1, <1>5 DEF IInv, Asked, Answered, Distinct, NoneBehindNone, BusyIffTurn, TurnLive
<1>7. ModalAsks'
  <2>1. state = "approval" => approval \in Active
    BY DEF IInv, ModalAsks, Active
  <2>2. state = "approval" => ctxDone
    BY <1>1, <2>1 DEF IInv, ModalAsks
  <2>3. QED
    BY <1>1, <1>5, <2>2 DEF IInv, ModalAsks
<1>8. QED
  BY <1>2, <1>3, <1>4, <1>6, <1>7 DEF IInv

LEMMA EndTurnStep == IInv /\ EndTurn => IInv'
<1> SUFFICES ASSUME IInv, EndTurn PROVE IInv'
  OBVIOUS
<1>1. /\ driver = "ending" /\ driver' = "waiting" /\ state' = "idle" /\ blocks' = <<>>
      /\ UNCHANGED <<priorState, approval, queue, ticks, submit, turn, round, gated, call,
                     answer, inputs>>
  BY DEF EndTurn, OnTurnDone, roundVars
<1>2. ModelOK' /\ DriverOK'
  BY <1>1 DEF IInv, ModelOK, DriverOK
<1>3. FlagsOK'
  BY DEF EndTurn, OnTurnDone, FlagsOK
<1>4. CountsOK'
  BY <1>1 DEF IInv, CountsOK, TurnLive
<1>5. Active' = Active /\ DOMAIN call' = {} /\ DOMAIN call = {}
  BY <1>1, NoCalls DEF Active, IInv
<1>6. Asked' /\ Answered' /\ Distinct' /\ NoneBehindNone' /\ ModalAsks' /\ BusyIffTurn'
  BY <1>1, <1>5 DEF IInv, Asked, Answered, Distinct, NoneBehindNone, ModalAsks, BusyIffTurn, TurnLive
<1>7. QED
  BY <1>2, <1>3, <1>4, <1>6 DEF IInv
-----------------------------------------------------------------------------
(* The calls of a round. *)

\* A goroutine moves its call on: the counters and the other calls stay.
LEMMA MovesLemma ==
  ASSUME IInv, NEW p \in DOMAIN call, NEW from, NEW to \in Phases, Moves(p, from, to)
  PROVE  /\ driver = "tools" /\ driver' = "tools" /\ call[p] = from
         /\ call' \in [DOMAIN gated' -> Phases] /\ gated' = gated /\ DOMAIN call' = DOMAIN call
         /\ call'[p] = to /\ \A q \in DOMAIN call : q # p => call'[q] = call[q]
         /\ UNCHANGED <<submit, ctxDone, turn, round, inputs>>
         /\ \A q : Request(q)' = Request(q)
BY DEF Moves, callFrame, Request, IInv, DriverOK

LEMMA CountsStay ==
  ASSUME IInv, UNCHANGED <<submit, driver, turn, round, inputs, ticks>>
  PROVE  CountsOK'
BY DEF IInv, CountsOK, TurnLive

LEMMA AskStep == ASSUME IInv, NEW p \in DOMAIN call, Ask(p) PROVE IInv'
<1> DEFINE r == Request(p)
<1>1. /\ driver = "tools" /\ driver' = "tools" /\ call[p] = "ask"
      /\ call' \in [DOMAIN gated' -> Phases] /\ gated' = gated /\ DOMAIN call' = DOMAIN call
      /\ call'[p] = "waiting" /\ \A q \in DOMAIN call : q # p => call'[q] = call[q]
      /\ UNCHANGED <<submit, ctxDone, turn, round, inputs>>
      /\ \A q : Request(q)' = Request(q)
  BY MovesLemma DEF Ask, Phases
<1>2. UNCHANGED <<blocks, cancelSet, ticks, answer>> /\ OnApprovalRequest(r)
  BY DEF Ask
<1>3. r \in Requests /\ r # None /\ r \notin Active
  BY <1>1, RequestType DEF IInv, Asked
<1>4. /\ approval' \in Requests /\ queue' \in Seq(Requests)
      /\ Active' = Active \cup {r} /\ Distinct' /\ NoneBehindNone'
      /\ \/ /\ Active = {} /\ state' = "approval"
            /\ priorState' = IF state # "approval" THEN state ELSE priorState
         \/ state' = state /\ priorState' = priorState /\ approval # None
  BY <1>2, <1>3, OnApprovalRequestLemma DEF IInv
<1>5. state # "idle"
  BY <1>1 DEF IInv, BusyIffTurn, TurnLive
<1>6. ModelOK'
  BY <1>2, <1>4, <1>5 DEF IInv, ModelOK
<1>7. DriverOK'
  BY <1>1, <1>2 DEF IInv, DriverOK
<1>8. FlagsOK' /\ CountsOK'
  BY <1>1, <1>2, CountsStay DEF IInv, FlagsOK
<1>9. Asked'
  <2>1. r.turn = turn /\ r.round = round /\ turn \in Nat /\ round \in Nat
    BY TuiAssumption DEF Request, IInv, CountsOK, TuiAssumption
  <2>2. \A q \in DOMAIN call : r = Request(q) => q = p
    BY RequestsDiffer
  <2>3. \A q \in DOMAIN call : q # p => (call'[q] # "ask" <=> call[q] # "ask")
    BY <1>1
  <2> HIDE DEF r
  <2>4. ASSUME NEW a \in Active'
        PROVE  /\ a.turn <= turn /\ (a.turn = turn => a.round <= round)
               /\ \A q \in DOMAIN call : a = Request(q) => call'[q] # "ask"
    <3>1. CASE a = r
      BY <1>1, <2>1, <2>2, <3>1
    <3>2. CASE a \in Active
      BY <1>1, <2>3, <3>2 DEF IInv, Asked
    <3>3. QED
      BY <1>4, <3>1, <3>2
  <2>5. QED
    BY <1>1, <2>4 DEF Asked
<1>10. Answered'
  <2>1. answer[p] = None
    BY <1>1 DEF IInv, Answered
  <2>2. \A q \in DOMAIN call : answer[q] # None => /\ q # p /\ call[q] # "ask"
                                                  /\ Request(q) \notin Active /\ Request(q) # r
    BY <2>1, RequestsDiffer DEF IInv, Answered
  <2>3. QED
    BY <1>1, <1>2, <1>4, <2>2 DEF Answered
<1>11. BusyIffTurn'
  BY <1>1, <1>4, <1>5 DEF IInv, BusyIffTurn, TurnLive
<1>12. ModalAsks'
  <2> HIDE DEF r
  <2>1. SUFFICES ASSUME state' = "approval" PROVE
           /\ approval' # None /\ priorState' # "idle"
           /\ ctxDone \/ \A a \in Active' : \E q \in DOMAIN call :
                            a = Request(q) /\ call'[q] = "waiting" /\ answer[q] = None
    BY <1>1, <1>2 DEF ModalAsks
  <2>2. approval' # None
    BY <1>4, RequestsAreRequests
  <2>3. answer[p] = None
    BY <1>1 DEF IInv, Answered
  <2>4. CASE Active = {} /\ priorState' = IF state # "approval" THEN state ELSE priorState
    <3>1. state # "approval"
      BY <2>4 DEF IInv, ModalAsks, Active
    <3>2. \A a \in Active' : a = Request(p) /\ call'[p] = "waiting" /\ answer[p] = None
      BY <1>1, <1>4, <2>3, <2>4 DEF r
    <3>3. QED
      BY <1>5, <2>2, <2>4, <3>1, <3>2
  <2>5. CASE state' = state /\ priorState' = priorState
    <3>1. state = "approval" /\ priorState' # "idle"
      BY <2>1, <2>5 DEF IInv, ModalAsks
    <3>2. CASE ctxDone
      BY <2>2, <3>1, <3>2
    <3>3. CASE ~ctxDone
      <4>1. \A a \in Active : \E q \in DOMAIN call :
               a = Request(q) /\ call[q] = "waiting" /\ answer[q] = None
        BY <3>1, <3>3 DEF IInv, ModalAsks
      <4>2. ASSUME NEW a \in Active'
            PROVE  \E q \in DOMAIN call :
                     a = Request(q) /\ call'[q] = "waiting" /\ answer[q] = None
        <5>1. CASE a = r
          BY <1>1, <2>3, <5>1 DEF r
        <5>2. CASE a \in Active
          BY <1>1, <4>1, <5>2
        <5>3. QED
          BY <1>4, <5>1, <5>2
      <4>3. QED
        BY <2>2, <3>1, <4>2
    <3>4. QED
      BY <3>2, <3>3
  <2>6. QED
    BY <1>4, <2>4, <2>5
<1>13. QED
  BY <1>4, <1>6, <1>7, <1>8, <1>9, <1>10, <1>11, <1>12 DEF IInv

\* Approve returns: the call starts, or is refused.
LEMMA AnsweredStep ==
  ASSUME IInv, NEW p \in DOMAIN call, Granted(p) \/ Refused(p)
  PROVE  IInv'
<1>1. PICK to \in {"start", "over"} :
        Moves(p, "waiting", to) /\ UNCHANGED <<modelVars, answer>> /\ (answer[p] \in {"yes", "no"} \/ ctxDone)
  BY DEF Granted, Refused
<1>2. /\ driver = "tools" /\ driver' = "tools" /\ call[p] = "waiting"
      /\ call' \in [DOMAIN gated' -> Phases] /\ gated' = gated /\ DOMAIN call' = DOMAIN call
      /\ call'[p] = to /\ \A q \in DOMAIN call : q # p => call'[q] = call[q]
      /\ UNCHANGED <<submit, ctxDone, turn, round, inputs>>
      /\ \A q : Request(q)' = Request(q)
  BY <1>1, MovesLemma DEF Phases
<1>3. UNCHANGED <<state, priorState, approval, queue, blocks, cancelSet, ticks, answer>>
      /\ Active' = Active
  BY <1>1 DEF modelVars, Active
<1>4. ModelOK' /\ DriverOK'
  BY <1>2, <1>3 DEF IInv, ModelOK, DriverOK
<1>5. FlagsOK' /\ CountsOK'
  BY <1>2, <1>3, CountsStay DEF IInv, FlagsOK
<1>6. \A q \in DOMAIN call : call[q] # "ask" => call'[q] # "ask"
  BY <1>1, <1>2
<1>7. Asked' /\ Answered' /\ Distinct' /\ NoneBehindNone' /\ BusyIffTurn'
  BY <1>2, <1>3, <1>6
  DEF IInv, Asked, Answered, Distinct, NoneBehindNone, BusyIffTurn, TurnLive
<1>8. ModalAsks'
  <2>1. CASE ctxDone
    BY <1>2, <1>3, <2>1 DEF IInv, ModalAsks
  <2>2. CASE ~ctxDone
    <3>1. answer[p] # None
      BY <1>1, <2>2, TuiAssumption DEF TuiAssumption
    <3>2. QED
      BY <1>2, <1>3, <2>2, <3>1 DEF IInv, ModalAsks
  <2>3. QED
    BY <2>1, <2>2
<1>9. QED
  BY <1>4, <1>5, <1>7, <1>8 DEF IInv

\* A tool starts or ends.  Either takes the screen from a modal on display.
LEMMA ToolSteps == ASSUME IInv, NEW p \in DOMAIN call, ToolStep(p) PROVE IInv'
<1>1. PICK from \in {"start", "running"}, to \in {"running", "over"} : Moves(p, from, to)
  BY DEF ToolStep, Start, Finish
<1>2. /\ driver = "tools" /\ driver' = "tools" /\ call[p] = from
      /\ call' \in [DOMAIN gated' -> Phases] /\ gated' = gated /\ DOMAIN call' = DOMAIN call
      /\ call'[p] = to /\ \A q \in DOMAIN call : q # p => call'[q] = call[q]
      /\ UNCHANGED <<submit, ctxDone, turn, round, inputs>>
      /\ \A q : Request(q)' = Request(q)
  BY <1>1, MovesLemma DEF Phases
<1>3. /\ UNCHANGED <<priorState, approval, queue, cancelSet, ticks, answer>>
      /\ state' \in {state, "toolRunning", "streaming"}
  BY DEF ToolStep, Start, Finish, OnToolStarted, OnToolFinished
<1>4. blocks' \in Seq(Blocks)
  <2>1. blocks \in Seq(Blocks)
    BY DEF IInv, ModelOK
  <2>2. CASE Start(p)
    BY <2>1, <2>2, RequestType DEF Start, OnToolStarted, IInv
  <2>3. ASSUME NEW status \in {"ok", "error"}, Finish(p, status) PROVE blocks' \in Seq(Blocks)
    <3>1. blocks' = [b \in DOMAIN blocks |->
                       IF blocks[b].id = CallId(p) THEN [blocks[b] EXCEPT !.status = status]
                       ELSE blocks[b]]
      BY <2>3 DEF Finish, OnToolFinished
    <3>2. \A b \in Blocks : [b EXCEPT !.status = status] \in Blocks
      BY DEF Blocks, Statuses
    <3>3. \A b \in DOMAIN blocks : blocks'[b] \in Blocks
      BY <2>1, <3>1, <3>2
    <3>4. Len(blocks) \in Nat /\ DOMAIN blocks = 1..Len(blocks)
      BY <2>1
    <3>5. QED
      BY <3>1, <3>3, <3>4
  <2>4. QED
    BY <2>2, <2>3 DEF ToolStep
<1>5. ModelOK' /\ DriverOK'
  BY <1>2, <1>3, <1>4 DEF IInv, ModelOK, DriverOK
<1>6. FlagsOK' /\ CountsOK'
  BY <1>2, <1>3, CountsStay DEF IInv, FlagsOK
<1>7. Active' = Active /\ \A q \in DOMAIN call : call[q] # "ask" => call'[q] # "ask"
  BY <1>2, <1>3 DEF Active
<1>8. Asked' /\ Answered' /\ Distinct' /\ NoneBehindNone' /\ BusyIffTurn'
  BY <1>2, <1>3, <1>7
  DEF IInv, Asked, Answered, Distinct, NoneBehindNone, BusyIffTurn, TurnLive
<1>9. ModalAsks'
  BY <1>2, <1>3, <1>7 DEF IInv, ModalAsks
<1>10. QED
  BY <1>5, <1>6, <1>8, <1>9 DEF IInv

\* The user answers the modal: only the call it shows hears of it.
LEMMA AnswerKeyStep ==
  ASSUME IInv, NEW verdict \in {"yes", "no"}, AnswerKey(verdict)
  PROVE  IInv'
<1>1. /\ state = "approval" /\ approval # None
      /\ answer' = [q \in DOMAIN answer |->
                      IF Request(q) = approval THEN verdict ELSE answer[q]]
      /\ ActivateNext(queue)
      /\ UNCHANGED <<blocks, cancelSet, ticks, submit, driver, ctxDone, turn, round, gated,
                     call, inputs>>
  BY DEF AnswerKey
<1>2. /\ approval' \in Requests \cup {None} /\ queue' \in Seq(Requests)
      /\ priorState' = priorState
      /\ Active' = Active \ {approval} /\ Distinct' /\ NoneBehindNone'
      /\ \/ queue = <<>> /\ state' = priorState
         \/ queue # <<>> /\ state' = "approval" /\ approval' # None
  BY <1>1, ActivateNextLemma DEF IInv
<1>3. priorState # "idle" /\ approval \in Active /\ DOMAIN answer = DOMAIN call
  BY <1>1 DEF IInv, ModalAsks, Active, DriverOK
<1>4. \A q : Request(q)' = Request(q)
  BY <1>1 DEF Request
<1>5. ModelOK'
  BY <1>1, <1>2, <1>3 DEF IInv, ModelOK
<1>6. DriverOK'
  BY <1>1 DEF IInv, DriverOK
<1>7. FlagsOK' /\ CountsOK'
  BY <1>1, CountsStay DEF IInv, FlagsOK
<1>8. Asked'
  BY <1>1, <1>2, <1>4 DEF IInv, Asked
<1>9. Answered'
  <2> SUFFICES ASSUME NEW q \in DOMAIN call, answer'[q] # None
               PROVE  call[q] # "ask" /\ Request(q) \notin Active'
    BY <1>1, <1>4 DEF Answered
  <2>1. CASE Request(q) = approval
    BY <1>2, <1>3, <2>1 DEF IInv, Asked
  <2>2. CASE Request(q) # approval
    <3>1. answer'[q] = answer[q]
      BY <1>1, <1>3, <2>2
    <3>2. QED
      BY <1>2, <3>1 DEF IInv, Answered
  <2>3. QED
    BY <2>1, <2>2
<1>10. BusyIffTurn'
  BY <1>1, <1>2, <1>3 DEF IInv, BusyIffTurn, TurnLive
<1>11. ModalAsks'
  <2> SUFFICES ASSUME state' = "approval"
               PROVE  /\ approval' # None /\ priorState' # "idle"
                      /\ \/ ctxDone'
                         \/ /\ driver' = "tools"
                            /\ \A a \in Active' : \E q \in DOMAIN call' :
                                 a = Request(q)' /\ call'[q] = "waiting" /\ answer'[q] = None
    BY DEF ModalAsks
  <2>1. approval' # None /\ priorState' # "idle"
    BY <1>2, <1>3 DEF IInv, ModelOK
  <2>2. CASE ctxDone
    BY <1>1, <2>1, <2>2
  <2>3. CASE ~ctxDone
    <3>1. driver = "tools" /\ \A a \in Active : \E q \in DOMAIN call :
            a = Request(q) /\ call[q] = "waiting" /\ answer[q] = None
      BY <1>1, <2>3 DEF IInv, ModalAsks
    <3>2. ASSUME NEW a \in Active'
          PROVE  \E q \in DOMAIN call' :
                   a = Request(q)' /\ call'[q] = "waiting" /\ answer'[q] = None
      <4>1. PICK q \in DOMAIN call : a = Request(q) /\ call[q] = "waiting" /\ answer[q] = None
        BY <1>2, <3>1
      <4>2. answer'[q] = answer[q]
        BY <1>1, <1>2, <1>3, <4>1
      <4>3. QED
        BY <1>1, <1>4, <4>1, <4>2
    <3>3. QED
      BY <1>1, <2>1, <3>1, <3>2
  <2>4. QED
    BY <2>2, <2>3
<1>12. QED
  BY <1>2, <1>5, <1>6, <1>7, <1>8, <1>9, <1>10, <1>11 DEF IInv
-----------------------------------------------------------------------------
\* Every message the Model handles, and every step around it, keeps the invariant.
THEOREM StepIInv == IInv /\ [Next]_vars => IInv'
<1> SUFFICES ASSUME IInv, [Next]_vars PROVE IInv'
  OBVIOUS
<1>1. CASE TakeInput \/ CommandDone \/ ReplyEndsTurn \/ Enter \/ CtrlC \/ TickStops
  BY <1>1, ElsewhereSteps
<1>2. CASE StartTurn \/ RoundEnds \/ EndTurn
  BY <1>2, StartTurnStep, RoundEndsStep, EndTurnStep
<1>3. CASE \E shape \in Rounds : ReplyCalls(shape)
  BY <1>3, ReplyCallsStep
<1>4. CASE \E p \in DOMAIN call : CallStep(p)
  BY <1>4, AskStep, AnsweredStep, ToolSteps DEF CallStep
<1>5. CASE UserAnswers
  BY <1>5, AnswerKeyStep DEF UserAnswers
<1>6. CASE UNCHANGED vars
  <2>1. CountsOK'
    BY <1>6, CountsStay DEF vars, modelVars
  <2>2. FlagsOK'
    BY <1>6 DEF vars, modelVars, IInv, FlagsOK
  <2>3. QED
    BY <1>6, <2>1, <2>2, ElsewhereStep DEF vars, modelVars, roundVars, IInv, DriverOK, TurnLive
<1>7. QED
  BY <1>1, <1>2, <1>3, <1>4, <1>5, <1>6 DEF Next, DriverStep, ProviderStep

LEMMA Invariant == Spec => []IInv
BY InitIInv, StepIInv, PTL DEF Spec

\* Every variable keeps its type, whatever the user types and the tools do.
THEOREM TypeCorrect == Spec => []TypeOK
<1>1. IInv => TypeOK
  <2> SUFFICES ASSUME IInv PROVE TypeOK
    OBVIOUS
  <2>1. \A b \in DOMAIN blocks : blocks[b].status \in Statuses /\ blocks[b].owner \in Requests
    <3>1. \A b \in DOMAIN blocks : blocks[b] \in Blocks
      BY DEF IInv, ModelOK
    <3>2. QED
      BY <3>1 DEF Blocks
  <2>2. cancelSet \in BOOLEAN /\ ctxDone \in BOOLEAN
    BY DEF IInv, FlagsOK
  <2>3. ticks \in 0..MaxInputs /\ inputs \in 0..MaxInputs /\ turn \in 0..MaxInputs
        /\ round \in 0..MaxRounds
    BY TuiAssumption DEF IInv, CountsOK, TuiAssumption
  <2>4. /\ DOMAIN call = DOMAIN gated /\ DOMAIN answer = DOMAIN gated
        /\ \A p \in DOMAIN gated :
             call[p] \in Phases /\ answer[p] \in {None, "yes", "no"}
    BY DEF IInv, DriverOK
  <2>5. QED
    BY <2>1, <2>2, <2>3, <2>4 DEF IInv, ModelOK, DriverOK, TypeOK
<1>2. QED
  BY <1>1, Invariant, PTL

\* The prompt is there exactly between turns, for every order of messages.
THEOREM BusyExactlyInTurns == Spec => []BusyIffTurn
<1>1. IInv => BusyIffTurn
  BY DEF IInv
<1>2. QED
  BY <1>1, Invariant, PTL

\* No approval is answered twice, so Update never blocks on a channel.
THEOREM UpdateNeverBlocks == Spec => []UINeverBlocks
<1>1. IInv => UINeverBlocks
  <2> SUFFICES ASSUME IInv PROVE UINeverBlocks
    OBVIOUS
  <2>1. ASSUME NEW p \in DOMAIN call, answer[p] # None
        PROVE  approval # Request(p) /\ \A i \in DOMAIN queue : queue[i] # Request(p)
    <3>1. Request(p) \notin Active /\ Request(p) # None
      BY <2>1, RequestType DEF IInv, Answered
    <3>2. QED
      BY <3>1 DEF Active
  <2>2. QED
    BY <2>1 DEF IInv, Distinct, UINeverBlocks
<1>2. QED
  BY <1>1, Invariant, PTL

\* A modal on display speaks for a call that waits, or its turn was cancelled.
THEOREM ModalsAreLive == Spec => []ModalIsLive
<1>1. IInv => ModalIsLive
  BY DEF IInv, ModalAsks, ModalIsLive, Active
<1>2. QED
  BY <1>1, Invariant, PTL

-----------------------------------------------------------------------------
(* No request gets lost. *)

WaitersActive ==
  \A p \in DOMAIN call : call[p] = "waiting" /\ answer[p] = None => Request(p) \in Active

\* A step that leaves the requests and the waiting calls alone.
LEMMA WaitersStay ==
  ASSUME WaitersActive, UNCHANGED <<approval, queue, answer, turn, round>>,
         \A p \in DOMAIN call' : p \in DOMAIN call /\ (call'[p] = "waiting" => call[p] = "waiting")
  PROVE  WaitersActive'
<1>1. Active' = Active /\ \A p : Request(p)' = Request(p)
  BY DEF Active, Request
<1>2. QED
  BY <1>1 DEF WaitersActive

\* Between rounds, and when a round begins, no call waits.
LEMMA WaitersOfNoRound ==
  ASSUME IInv, StartTurn \/ RoundEnds \/ EndTurn \/ \E shape \in Rounds : ReplyCalls(shape)
  PROVE  WaitersActive'
<1>1. \A p \in DOMAIN call' : call'[p] # "waiting"
  <2>1. CASE StartTurn \/ EndTurn
    <3>1. call' = call /\ DOMAIN call = {}
      BY <2>1, NoCalls DEF StartTurn, EndTurn, roundVars, IInv
    <3>2. QED
      BY <3>1
  <2>2. CASE RoundEnds
    BY <2>2 DEF RoundEnds
  <2>3. CASE \E shape \in Rounds : ReplyCalls(shape)
    BY <2>3 DEF ReplyCalls
  <2>4. QED
    BY <2>1, <2>2, <2>3
<1>2. QED
  BY <1>1 DEF WaitersActive

\* A request that arrives is on display or queued, and pushes no other one out.
LEMMA WaitersAsk == ASSUME IInv, WaitersActive, NEW p \in DOMAIN call, Ask(p) PROVE WaitersActive'
<1> DEFINE r == Request(p)
<1>1. /\ driver = "tools" /\ DOMAIN call' = DOMAIN call /\ call[p] = "ask"
      /\ \A q \in DOMAIN call : q # p => call'[q] = call[q]
      /\ \A q : Request(q)' = Request(q)
  BY MovesLemma DEF Ask, Phases
<1>2. r \in Requests /\ r \notin Active /\ OnApprovalRequest(r) /\ answer' = answer
  BY <1>1, RequestType DEF IInv, Asked, Ask
<1>3. Active' = Active \cup {r}
  BY <1>2, OnApprovalRequestLemma DEF IInv
<1>4. \A q \in DOMAIN call : q # p /\ call'[q] = "waiting" /\ answer[q] = None => Request(q) \in Active
  BY <1>1 DEF WaitersActive
<1>5. QED
  BY <1>1, <1>2, <1>3, <1>4 DEF WaitersActive

\* The request that goes is the one that is answered.
LEMMA WaitersAnswerKey ==
  ASSUME IInv, WaitersActive, NEW verdict \in {"yes", "no"}, AnswerKey(verdict)
  PROVE  WaitersActive'
<1>1. /\ state = "approval" /\ approval # None /\ ActivateNext(queue)
      /\ answer' = [q \in DOMAIN answer |-> IF Request(q) = approval THEN verdict ELSE answer[q]]
      /\ UNCHANGED <<call, turn, round>>
  BY DEF AnswerKey
<1>2. Active' = Active \ {approval} /\ DOMAIN answer = DOMAIN call
  BY <1>1, ActivateNextLemma DEF IInv, DriverOK
<1>3. \A q : Request(q)' = Request(q)
  BY <1>1 DEF Request
<1>4. verdict # None
  BY TuiAssumption DEF TuiAssumption
<1>5. ASSUME NEW q \in DOMAIN call, call[q] = "waiting", answer'[q] = None
      PROVE  Request(q) \in Active'
  <2>1. Request(q) # approval /\ answer[q] = None
    BY <1>1, <1>2, <1>4, <1>5
  <2>2. QED
    BY <1>2, <1>5, <2>1 DEF WaitersActive
<1>6. QED
  BY <1>1, <1>3, <1>5 DEF WaitersActive

LEMMA StepWaiters == ASSUME IInv, WaitersActive, [Next]_vars PROVE WaitersActive'
<1>1. CASE TakeInput \/ CommandDone \/ ReplyEndsTurn \/ Enter \/ CtrlC \/ TickStops \/ UNCHANGED vars
  BY <1>1, WaitersStay
  DEF TakeInput, CommandDone, ReplyEndsTurn, Enter, CtrlC, TickStops, modelVars, roundVars, vars
<1>2. CASE StartTurn \/ RoundEnds \/ EndTurn \/ \E shape \in Rounds : ReplyCalls(shape)
  BY <1>2, WaitersOfNoRound
<1>3. ASSUME NEW p \in DOMAIN call, Granted(p) \/ Refused(p) \/ ToolStep(p) PROVE WaitersActive'
  <2>1. PICK from \in Phases, to \in Phases \ {"waiting"} : Moves(p, from, to)
    BY <1>3 DEF Granted, Refused, ToolStep, Start, Finish, Phases
  <2>2. /\ DOMAIN call' = DOMAIN call /\ call'[p] = to /\ UNCHANGED <<turn, round>>
        /\ \A q \in DOMAIN call : q # p => call'[q] = call[q]
    BY <2>1, MovesLemma
  <2>3. UNCHANGED <<approval, queue, answer>>
    BY <1>3 DEF Granted, Refused, ToolStep, Start, Finish, OnToolStarted, OnToolFinished, modelVars
  <2>4. QED
    BY <2>1, <2>2, <2>3, WaitersStay
<1>4. ASSUME NEW p \in DOMAIN call, Ask(p) PROVE WaitersActive'
  BY <1>4, WaitersAsk
<1>5. CASE UserAnswers
  BY <1>5, WaitersAnswerKey DEF UserAnswers
<1>6. QED
  BY <1>1, <1>2, <1>3, <1>4, <1>5 DEF Next, DriverStep, ProviderStep, CallStep

\* Every call that waits has its request on display or in the queue, for every order of
\* requests, answers, tools' messages and cancelled turns.
THEOREM NoRequestLost == Spec => []WaitersAreAsked
<1>1. Init => WaitersActive
  BY DEF Init, WaitersActive
<1>2. IInv /\ WaitersActive /\ [Next]_vars => WaitersActive'
  BY StepWaiters
<1>3. WaitersActive => WaitersAreAsked
  BY DEF WaitersActive, WaitersAreAsked, Active
<1>4. QED
  BY <1>1, <1>2, <1>3, Invariant, PTL DEF Spec
=============================================================================
