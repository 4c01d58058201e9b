--------------------------- MODULE SessionProofs ---------------------------
(***************************************************************************)
(* No acknowledged turn is lost and /exit keeps the session, for any        *)
(* number of sessions, processes and turns.  What a file owes the user is   *)
(* only visible when it is whole; what carries the promise while a file is  *)
(* being written, or between one process and the next, is the conversation  *)
(* in memory: it holds every turn acknowledged under the active name, the   *)
(* turn about to be saved included, and an automatic save goes to that name *)
(* and no other.                                                            *)
(***************************************************************************)
EXTENDS Session, TLAPS

\* The types of what outlives a process, and of what does not.
DataOK ==
  /\ disk \in [Names -> Files]
  /\ h \in Conversation /\ name \in Names \cup {NoName}
  /\ acked \in [Names -> SUBSET (1 .. MaxTurns)]
  /\ count \in 0 .. MaxTurns

WhereOK ==
  /\ pc \in {"off", "idle", "turn", "asking", "save", "write"}
  /\ target \in Names \cup {NoName} /\ (target = NoName <=> pc \notin {"save", "write"})
  /\ after \in {"turn", "save", "exit"}
  /\ model \in Models
  /\ probe \in {"none", "yes", "no", "unreachable", "cancelled"}
  /\ stage \in {"armed", "cancelled"} /\ signals \in 0 .. 2
  /\ starts \in 0 .. MaxStarts

ControlOK == WhereOK /\ cancelled \in BOOLEAN

\* Nothing was acknowledged under a name that has no file.
AbsentOwesNothing == \A n \in Names : disk[n] = Absent => acked[n] = {}

\* The conversation in memory can stand for the active session's file.
MemoryHoldsAcked == name # NoName => acked[name] \subseteq h.turns

\* A save after a turn, and /exit's, is for the active session.
SavesActive == pc \in {"save", "write"} /\ after \in {"turn", "exit"} => target = name

\* The turn in progress, or the one whose save is on its way, is in memory.
TurnInMemory ==
  pc \in {"turn", "asking"} \/ (pc \in {"save", "write"} /\ after = "turn")
    => count \in h.turns

\* /exit is only said of a process that is gone.
ExitIsLast == ended = "exit" => pc = "off"

Kept == /\ AckedTurnsKept /\ AbsentOwesNothing /\ MemoryHoldsAcked
        /\ SavesActive /\ TurnInMemory

IInv == DataOK /\ ControlOK /\ Kept /\ ExitIsLast /\ ExitKeepsSession
-----------------------------------------------------------------------------
(* Types. *)

LEMMA FileTypes ==
  /\ Absent \in Files /\ Torn \in Files /\ Torn # Absent
  /\ \A c \in Conversation : /\ File(c) \in Files /\ File(c).is = "whole"
                             /\ File(c).holds = c /\ File(c) # Absent
  /\ \A f \in Files : f.is = "whole" => f.holds \in Conversation
  /\ \A f \in Files : f.is # "whole" => f = Absent \/ f = Torn
  /\ Torn.is # "whole"
<1>1. /\ Absent \in Files /\ Torn \in Files /\ Torn # Absent /\ Torn.is # "whole"
      /\ Absent.is # "whole"
  <2>1. Absent.is = "absent" /\ Torn.is = "torn"
    BY DEF Absent, Torn
  <2>2. QED
    BY <2>1 DEF Files
<1>2. \A c \in Conversation : /\ File(c) \in Files /\ File(c).is = "whole"
                              /\ File(c).holds = c
  BY DEF File, Files
<1>3. \A f \in Files : f = Absent \/ f = Torn \/ \E c \in Conversation : f = File(c)
  BY DEF Files
<1>4. QED
  BY <1>1, <1>2, <1>3

LEMMA EmptyType == Empty \in Conversation
BY SessionAssumption DEF Empty, Conversation, SessionAssumption

\* A directory without session files, and no process, satisfy it.
THEOREM InitIInv == Init => IInv
<1> SUFFICES ASSUME Init PROVE IInv
  OBVIOUS
<1>1. DataOK
  BY FileTypes, EmptyType, SessionAssumption DEF Init, DataOK, SessionAssumption
<1>2. ControlOK
  <2>1. WhereOK
    BY SessionAssumption DEF Init, WhereOK, SessionAssumption
  <2>2. QED
    BY <2>1 DEF Init, ControlOK
<1>3. Kept
  BY FileTypes DEF Init, Kept, AckedTurnsKept, AbsentOwesNothing, MemoryHoldsAcked,
                   SavesActive, TurnInMemory
<1>4. ExitIsLast /\ ExitKeepsSession
  BY DEF Init, ExitIsLast, ExitKeepsSession
<1>5. QED
  BY <1>1, <1>2, <1>3, <1>4 DEF IInv
-----------------------------------------------------------------------------
(* Steps that move the program and leave the sessions alone. *)

data == <<disk, h, name, acked, count>>

LEMMA ControlStep ==
  ASSUME IInv, UNCHANGED data, ControlOK', SavesActive', TurnInMemory',
         ExitIsLast', ExitKeepsSession'
  PROVE  IInv'
<1>1. DataOK'
  BY DEF IInv, DataOK, data
<1>2. Kept'
  BY DEF IInv, Kept, AckedTurnsKept, AbsentOwesNothing, MemoryHoldsAcked, data
<1>3. QED
  BY <1>1, <1>2 DEF IInv

LEMMA EndStep ==
  ASSUME IInv, NEW how, Ends(how), UNCHANGED data, starts' \in 0 .. MaxStarts,
         how = "exit" => name = NoName
  PROVE  IInv'
<1>1. ControlOK'
  <2>1. WhereOK'
    BY SessionAssumption DEF Ends, WhereOK, SessionAssumption
  <2>2. QED
    BY <2>1 DEF Ends, ControlOK
<1>2. SavesActive' /\ TurnInMemory' /\ ExitIsLast' /\ ExitKeepsSession'
  BY DEF Ends, SavesActive, TurnInMemory, ExitIsLast, ExitKeepsSession, data
<1>3. QED
  BY <1>1, <1>2, ControlStep

LEMMA GoOnStep ==
  ASSUME IInv, pc # "off", UNCHANGED data, starts' = starts,
         NEW next, NEW n, NEW for \in {"turn", "save", "exit"}, GoesOn(next, n, for),
         \/ next = "idle" /\ n = NoName
         \/ next = "save" /\ n \in Names /\ (for \in {"turn", "exit"} => n = name)
                          /\ (for = "turn" => count \in h.turns)
  PROVE  IInv'
<1>1. ControlOK'
  BY SessionAssumption DEF IInv, GoesOn, ControlOK, WhereOK, SessionAssumption, modelVars
<1>2. SavesActive' /\ TurnInMemory'
  BY DEF GoesOn, SavesActive, TurnInMemory, data
<1>3. ended' # "exit"
  BY DEF IInv, ExitIsLast, GoesOn
<1>4. ExitIsLast' /\ ExitKeepsSession'
  BY <1>3 DEF ExitIsLast, ExitKeepsSession
<1>5. QED
  BY <1>1, <1>2, <1>4, ControlStep

\* A turn's own steps, and the signal goroutine's.
LEMMA InsideStep ==
  ASSUME IInv, pc # "off", UNCHANGED data,
         UNCHANGED <<target, after, model, starts, ended>>,
         pc' = pc \/ (pc \in {"turn", "asking"} /\ pc' \in {"turn", "asking"}),
         probe' \in {"none", "yes", "no", "unreachable", "cancelled"},
         stage' \in {"armed", "cancelled"}, signals' \in 0 .. 2, cancelled' \in BOOLEAN
  PROVE  IInv'
<1>1. ControlOK'
  BY DEF IInv, ControlOK, WhereOK
<1>2. SavesActive' /\ TurnInMemory'
  BY DEF IInv, Kept, SavesActive, TurnInMemory, data
<1>3. ExitIsLast' /\ ExitKeepsSession'
  BY DEF IInv, ExitIsLast, ExitKeepsSession
<1>4. QED
  BY <1>1, <1>2, <1>3, ControlStep
-----------------------------------------------------------------------------
(* Starting and ending a process. *)

LEMMA StartStep ==
  ASSUME IInv, NEW f \in CommandLines, NEW n \in Names \cup {NoName}, Start(f, n)
  PROVE  IInv'
<1>1. /\ UNCHANGED <<disk, target, after, acked, count>> /\ pc = "off"
      /\ pc' \in {"off", "idle"} /\ ended' # "exit"
      /\ stage' = "armed" /\ signals' = 0 /\ cancelled' = FALSE
      /\ model' = Chosen /\ probe' = "none" /\ starts' \in 0 .. MaxStarts
  BY SessionAssumption DEF Start, Ends, saving, IInv, ControlOK, WhereOK, SessionAssumption
<1>2. ControlOK'
  <2>1. WhereOK'
    BY <1>1, SessionAssumption DEF IInv, ControlOK, WhereOK, SessionAssumption
  <2>2. QED
    BY <1>1, <2>1 DEF ControlOK
<1>3. SavesActive' /\ TurnInMemory' /\ ExitIsLast' /\ ExitKeepsSession'
  BY <1>1 DEF SavesActive, TurnInMemory, ExitIsLast, ExitKeepsSession
<1>4. CASE UNCHANGED chat
  BY <1>1, <1>2, <1>3, <1>4, ControlStep DEF data, chat
<1>5. CASE ~(n # NoName /\ disk[n] = Torn) /\ h' = LoadOrCreate(n) /\ name' = n
  <2>1. disk \in [Names -> Files]
    BY DEF IInv, DataOK
  <2>2. h' \in Conversation /\ (n # NoName => acked[n] \subseteq h'.turns)
    <3>1. CASE n # NoName /\ disk[n].is = "whole"
      <4>1. h' = disk[n].holds
        BY <1>5, <3>1 DEF LoadOrCreate
      <4>2. n \in Names /\ disk[n] \in Files
        BY <2>1, <3>1
      <4>3. QED
        BY <3>1, <4>1, <4>2, FileTypes DEF IInv, Kept, AckedTurnsKept
    <3>2. CASE ~(n # NoName /\ disk[n].is = "whole")
      <4>1. h' = Empty
        BY <1>5, <3>2 DEF LoadOrCreate
      <4>2. ASSUME n # NoName PROVE acked[n] = {}
        <5>1. n \in Names /\ disk[n] \in Files
          BY <2>1, <4>2
        <5>2. disk[n] = Absent
          BY <1>5, <3>2, <4>2, <5>1, FileTypes
        <5>3. QED
          BY <5>1, <5>2 DEF IInv, Kept, AbsentOwesNothing
      <4>3. QED
        BY <4>1, <4>2, EmptyType
    <3>3. QED
      BY <3>1, <3>2
  <2>3. DataOK'
    BY <1>1, <1>5, <2>2 DEF IInv, DataOK
  <2>4. Kept'
    BY <1>1, <1>3, <1>5, <2>2 DEF IInv, Kept, AckedTurnsKept, AbsentOwesNothing, MemoryHoldsAcked
  <2>5. QED
    BY <1>2, <1>3, <2>3, <2>4 DEF IInv
<1>6. QED
  BY <1>4, <1>5 DEF Start

LEMMA StartingSteps == IInv /\ Starting => IInv'
<1> SUFFICES ASSUME IInv, Starting PROVE IInv'
  OBVIOUS
<1>1. ASSUME NEW f \in CommandLines, RefusedAtStart(f) PROVE IInv'
  <2>1. starts' \in 0 .. MaxStarts /\ UNCHANGED data
    BY <1>1, SessionAssumption
    DEF RefusedAtStart, IInv, ControlOK, WhereOK, data, chat, SessionAssumption
  <2>2. QED
    BY <1>1, <2>1, EndStep DEF RefusedAtStart
<1>2. QED
  BY <1>1, StartStep DEF Starting

LEMMA EndingSteps == IInv /\ Ending => IInv'
<1> SUFFICES ASSUME IInv, Ending PROVE IInv'
  OBVIOUS
<1>1. ControlOK
  BY DEF IInv
<1>2. CASE EndOfInput \/ Quit \/ Kill \/ SecondSignal \/ ProgramStops
  <2>1. UNCHANGED data /\ starts' \in 0 .. MaxStarts
    BY <1>1, <1>2
    DEF EndOfInput, Quit, Kill, SecondSignal, ProgramStops, data, chat, kept, ControlOK, WhereOK
  <2>2. \E how : Ends(how) /\ how # "exit"
    BY <1>2 DEF EndOfInput, Quit, Kill, SecondSignal, ProgramStops
  <2>3. QED
    BY <2>1, <2>2, EndStep
<1>3. CASE Interrupt \/ FirstSignal
  <2>1. signals' \in 0 .. 2
    BY <1>1, <1>3 DEF Interrupt, FirstSignal, ControlOK, WhereOK
  <2>2. QED
    BY <1>1, <1>3, <2>1, InsideStep
    DEF Interrupt, FirstSignal, ControlOK, WhereOK, data, chat, saving, modelVars
<1>4. QED
  BY <1>2, <1>3 DEF Ending
-----------------------------------------------------------------------------
(* Turns. *)

LEMMA RunTurnStep == IInv /\ RunTurn => IInv'
<1> SUFFICES ASSUME IInv, RunTurn PROVE IInv'
  OBVIOUS
<1>1. DataOK /\ ControlOK /\ count < MaxTurns /\ MaxTurns \in Nat
  BY SessionAssumption DEF IInv, RunTurn, SessionAssumption
<1>2. /\ pc = "idle" /\ pc' = "turn" /\ count' = count + 1
      /\ h' = [h EXCEPT !.turns = @ \cup {count + 1}] /\ cancelled' = FALSE
      /\ UNCHANGED <<disk, name, target, after, model, probe, stage, signals, starts,
                     acked, ended>>
  BY DEF RunTurn, process, saving, modelVars
<1>3. count' \in 0 .. MaxTurns /\ count + 1 \in 1 .. MaxTurns
  BY <1>1, <1>2 DEF DataOK
<1>4. h' \in Conversation /\ h'.turns = h.turns \cup {count + 1}
  BY <1>1, <1>2, <1>3 DEF DataOK, Conversation
<1>5. DataOK' /\ ControlOK'
  BY <1>1, <1>2, <1>3, <1>4 DEF DataOK, ControlOK, WhereOK
<1>6. Kept'
  BY <1>2, <1>4 DEF IInv, Kept, AckedTurnsKept, AbsentOwesNothing, MemoryHoldsAcked,
                    SavesActive, TurnInMemory
<1>7. ExitIsLast' /\ ExitKeepsSession'
  BY <1>2 DEF IInv, ExitIsLast, ExitKeepsSession
<1>8. QED
  BY <1>5, <1>6, <1>7 DEF IInv

LEMMA TurnSteps == IInv /\ Turn => IInv'
<1> SUFFICES ASSUME IInv, Turn PROVE IInv'
  OBVIOUS
<1>1. DataOK /\ ControlOK
  BY DEF IInv
<1>2. CASE CancelTurn \/ Asks \/ UserAnswers
  BY <1>1, <1>2, InsideStep
  DEF CancelTurn, Asks, UserAnswers, ControlOK, WhereOK, data, chat, saving, modelVars, process
<1>3. ASSUME NEW a \in {"yes", "no", "unreachable", "cancelled"}, Probe(a) PROVE IInv'
  BY <1>1, <1>3, InsideStep DEF Probe, ControlOK, WhereOK, data, chat, saving, modelVars, process
<1>4. CASE TurnSucceeds \/ TurnFails
  <2>1. /\ pc = "turn" /\ UNCHANGED data /\ starts' = starts
        /\ starts' \in 0 .. MaxStarts /\ count \in h.turns
    BY <1>1, <1>4 DEF TurnSucceeds, TurnFails, data, chat, kept, ControlOK, WhereOK, IInv, Kept, TurnInMemory
  <2>2. CASE \E how : Ends(how) /\ how # "exit"
    BY <2>1, <2>2, EndStep
  <2>3. CASE GoesIdle
    BY <2>1, <2>3, GoOnStep DEF GoesIdle
  <2>4. CASE name # NoName /\ Saves(name, "turn")
    BY <1>1, <2>1, <2>4, GoOnStep DEF Saves, DataOK
  <2>5. QED
    BY <1>4, <2>2, <2>3, <2>4 DEF TurnSucceeds, TurnFails
<1>5. QED
  BY <1>2, <1>3, <1>4, RunTurnStep DEF Turn
-----------------------------------------------------------------------------
(* Slash commands. *)

\* A command that replaces the conversation, and the active name with it.
LEMMA ReplaceStep ==
  ASSUME IInv, pc = "idle", h' \in Conversation, name' \in Names \cup {NoName},
         name' # NoName => acked[name'] \subseteq h'.turns,
         UNCHANGED <<disk, pc, target, after, model, probe, stage, signals, cancelled,
                     starts, acked, count, ended>>
  PROVE  IInv'
<1>1. DataOK' /\ ControlOK'
  BY DEF IInv, DataOK, ControlOK, WhereOK
<1>2. Kept'
  BY DEF IInv, Kept, AckedTurnsKept, AbsentOwesNothing, MemoryHoldsAcked, SavesActive, TurnInMemory
<1>3. ExitIsLast' /\ ExitKeepsSession'
  BY DEF IInv, ExitIsLast, ExitKeepsSession
<1>4. QED
  BY <1>1, <1>2, <1>3 DEF IInv

LEMMA CommandSteps == IInv /\ Command => IInv'
<1> SUFFICES ASSUME IInv, Command PROVE IInv'
  OBVIOUS
<1>1. DataOK /\ ControlOK /\ pc = "idle"
  BY DEF IInv, Command, New, Compact, Exit, Save, Load, Model
<1>2. CASE New
  BY <1>1, <1>2, ReplaceStep, EmptyType DEF New, process, saving, modelVars
<1>3. CASE Compact
  <2>1. PICK t \in h.turns : h' = [h EXCEPT !.summed = t]
    BY <1>3 DEF Compact
  <2>2. t \in 0 .. MaxTurns
    BY <1>1 DEF DataOK, Conversation
  <2>3. h' \in Conversation /\ h'.turns = h.turns
    BY <1>1, <2>1, <2>2 DEF DataOK, Conversation
  <2>4. name' \in Names \cup {NoName} /\ (name' # NoName => acked[name'] \subseteq h'.turns)
    BY <1>1, <1>3, <2>3 DEF Compact, DataOK, IInv, Kept, MemoryHoldsAcked
  <2>5. QED
    BY <1>1, <1>3, <2>3, <2>4, ReplaceStep DEF Compact, process, saving, modelVars
<1>4. CASE Exit
  <2>1. UNCHANGED data /\ starts' = starts /\ starts' \in 0 .. MaxStarts
    BY <1>1, <1>4 DEF Exit, data, chat, kept, ControlOK, WhereOK
  <2>2. CASE name = NoName /\ Ends("exit")
    BY <2>1, <2>2, EndStep
  <2>3. CASE name # NoName /\ Saves(name, "exit")
    BY <1>1, <2>1, <2>3, GoOnStep DEF Saves, DataOK
  <2>4. QED
    BY <1>4, <2>2, <2>3 DEF Exit
<1>5. ASSUME NEW n \in Names \cup {NoName}, Save(n) PROVE IInv'
  <2>1. UNCHANGED data /\ starts' = starts
    BY <1>5 DEF Save, data, chat, kept
  <2>2. PICK m \in Names : Saves(m, "save")
    BY <1>1, <1>5 DEF Save, DataOK
  <2>3. QED
    BY <1>1, <2>1, <2>2, GoOnStep DEF Saves
<1>6. ASSUME NEW n \in Names, Load(n) PROVE IInv'
  <2>1. disk[n] \in Files /\ disk[n].is = "whole" /\ h' = disk[n].holds /\ name' = n
    BY <1>1, <1>6 DEF Load, DataOK
  <2>2. h' \in Conversation /\ acked[n] \subseteq h'.turns
    BY <2>1, FileTypes DEF IInv, Kept, AckedTurnsKept
  <2>3. QED
    BY <1>1, <1>6, <2>1, <2>2, ReplaceStep DEF Load, process, saving, modelVars
<1>7. ASSUME NEW m \in Models, Model(m) PROVE IInv'
  <2>1. ControlOK' /\ UNCHANGED data
    BY <1>1, <1>7 DEF Model, ControlOK, WhereOK, process, saving, data, chat
  <2>2. SavesActive' /\ TurnInMemory' /\ ExitIsLast' /\ ExitKeepsSession'
    BY <1>1, <1>7 DEF Model, IInv, SavesActive, TurnInMemory, ExitIsLast, ExitKeepsSession, chat
  <2>3. QED
    BY <2>1, <2>2, ControlStep
<1>8. QED
  BY <1>2, <1>3, <1>4, <1>5, <1>6, <1>7 DEF Command
-----------------------------------------------------------------------------
(* Saving. *)

\* The window in which the file holds neither the old conversation nor the new.
LEMMA OpenStep == IInv /\ SaveOpens => IInv'
<1> SUFFICES ASSUME IInv, SaveOpens PROVE IInv'
  OBVIOUS
<1>1. DataOK /\ ControlOK
  BY DEF IInv
<1>2. /\ pc = "save" /\ pc' = "write" /\ disk' = [disk EXCEPT ![target] = Torn]
      /\ UNCHANGED <<h, name, target, after, model, probe, stage, signals, starts,
                     cancelled, acked, count, ended>>
  BY DEF SaveOpens, process, chat, saving, modelVars
<1>3. DataOK' /\ ControlOK'
  BY <1>1, <1>2, FileTypes DEF DataOK, ControlOK, WhereOK
<1>4. \A n \in Names : disk'[n] = Torn \/ disk'[n] = disk[n]
  BY <1>1, <1>2 DEF DataOK
<1>5. AckedTurnsKept' /\ AbsentOwesNothing'
  BY <1>2, <1>4, FileTypes DEF IInv, Kept, AckedTurnsKept, AbsentOwesNothing
<1>6. MemoryHoldsAcked' /\ SavesActive' /\ TurnInMemory'
  BY <1>2 DEF IInv, Kept, MemoryHoldsAcked, SavesActive, TurnInMemory
<1>7. ExitIsLast' /\ ExitKeepsSession'
  BY <1>2 DEF IInv, ExitIsLast, ExitKeepsSession
<1>8. QED
  BY <1>3, <1>5, <1>6, <1>7 DEF IInv, Kept

\* The write that completes a save acknowledges only what is in the file.
LEMMA SavedStep == IInv /\ Saved => IInv'
<1> SUFFICES ASSUME IInv, Saved PROVE IInv'
  OBVIOUS
<1>1. DataOK /\ ControlOK /\ pc = "write" /\ target \in Names
  BY DEF IInv, Saved, ControlOK, WhereOK
<1> DEFINE owed == CASE after = "turn" -> acked[target] \cup {count}
                     [] after = "save" -> h.turns
                     [] after = "exit" -> acked[target]
<1>2. /\ disk' = [disk EXCEPT ![target] = File(h)]
      /\ acked' = [acked EXCEPT ![target] = owed]
      /\ name' = target /\ h' = h /\ count' = count /\ starts' = starts
  BY DEF Saved, kept
<1>3. owed \subseteq h.turns
  <2>1. after \in {"turn", "exit"} => target = name /\ target # NoName
    BY <1>1 DEF IInv, Kept, SavesActive, ControlOK, WhereOK
  <2>2. after = "turn" => count \in h.turns
    BY <1>1 DEF IInv, Kept, TurnInMemory
  <2>3. after \in {"turn", "save", "exit"}
    BY <1>1 DEF ControlOK, WhereOK
  <2>4. QED
    BY <2>1, <2>2, <2>3 DEF IInv, Kept, MemoryHoldsAcked
<1> HIDE DEF owed
<1>4. h \in Conversation /\ h.turns \subseteq 1 .. MaxTurns
  BY <1>1 DEF DataOK, Conversation
<1>5. DataOK'
  BY <1>1, <1>2, <1>3, <1>4, FileTypes DEF DataOK
<1>6. \A n \in Names : \/ n = target /\ disk'[n] = File(h) /\ acked'[n] = owed
                       \/ n # target /\ disk'[n] = disk[n] /\ acked'[n] = acked[n]
  BY <1>1, <1>2 DEF DataOK
<1>7. AckedTurnsKept' /\ AbsentOwesNothing'
  BY <1>3, <1>4, <1>6, FileTypes DEF IInv, Kept, AckedTurnsKept, AbsentOwesNothing
<1>8. MemoryHoldsAcked' /\ disk'[name'] = File(h')
  BY <1>1, <1>2, <1>3, <1>6 DEF MemoryHoldsAcked
<1>9. (\E how : Ends(how)) \/ GoesIdle
  BY DEF Saved
<1>10. ControlOK' /\ pc' \in {"off", "idle"}
  <2>1. WhereOK'
    BY <1>1, <1>2, <1>9, SessionAssumption
    DEF Ends, GoesIdle, GoesOn, ControlOK, WhereOK, SessionAssumption, modelVars
  <2>2. cancelled' \in BOOLEAN /\ pc' \in {"off", "idle"}
    BY <1>9 DEF Ends, GoesIdle, GoesOn
  <2>3. QED
    BY <2>1, <2>2 DEF ControlOK
<1>11. ExitIsLast'
  <2>1. ended # "exit"
    BY <1>1 DEF IInv, ExitIsLast
  <2>2. QED
    BY <1>9, <2>1 DEF Ends, GoesIdle, GoesOn, ExitIsLast
<1>12. SavesActive' /\ TurnInMemory' /\ ExitKeepsSession'
  BY <1>8, <1>10 DEF SavesActive, TurnInMemory, ExitKeepsSession
<1>13. QED
  BY <1>5, <1>7, <1>8, <1>10, <1>11, <1>12 DEF IInv, Kept

LEMMA SavingSteps == IInv /\ Saving => IInv'
<1> SUFFICES ASSUME IInv, Saving PROVE IInv'
  OBVIOUS
<1>1. CASE SaveFails
  <2>1. /\ UNCHANGED data /\ starts' = starts /\ starts' \in 0 .. MaxStarts /\ pc # "off"
    BY <1>1 DEF SaveFails, data, chat, kept, IInv, ControlOK, WhereOK
  <2>2. Ends("error") \/ GoesIdle
    BY <1>1 DEF SaveFails
  <2>3. QED
    BY <2>1, <2>2, EndStep, GoOnStep DEF GoesIdle
<1>2. QED
  BY <1>1, OpenStep, SavedStep DEF Saving
-----------------------------------------------------------------------------
\* Every step of the program, of its user and of the system keeps the invariant.
THEOREM StepIInv == IInv /\ [Next]_vars => IInv'
<1> SUFFICES ASSUME IInv, [Next]_vars PROVE IInv'
  OBVIOUS
<1>1. CASE UNCHANGED vars
  BY <1>1 DEF vars, IInv, Kept, AckedTurnsKept, AbsentOwesNothing, MemoryHoldsAcked,
              SavesActive, TurnInMemory, ExitIsLast, ExitKeepsSession, DataOK, ControlOK, WhereOK
<1>2. QED
  BY <1>1, StartingSteps, TurnSteps, CommandSteps, SavingSteps, EndingSteps DEF Next

\* Every variable keeps its type.
THEOREM TypeCorrect == Spec => []TypeOK
<1>1. IInv => TypeOK
  BY DEF IInv, TypeOK, DataOK, ControlOK, WhereOK
<1>2. QED
  BY <1>1, InitIInv, StepIInv, PTL DEF Spec

\* However many processes, sessions, failed saves and kills: a session file that
\* loads holds every turn its user was told of as done.
THEOREM AckedTurnsAreKept == Spec => []AckedTurnsKept
<1>1. IInv => AckedTurnsKept
  BY DEF IInv, Kept
<1>2. QED
  BY <1>1, InitIInv, StepIInv, PTL DEF Spec

\* /exit never ends the process before the active session is on disk as it is.
THEOREM ExitSaves == Spec => []ExitKeepsSession
<1>1. IInv => ExitKeepsSession
  BY DEF IInv
<1>2. QED
  BY <1>1, InitIInv, StepIInv, PTL DEF Spec
=============================================================================
