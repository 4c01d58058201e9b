------------------------------ MODULE Session ------------------------------
(***************************************************************************)
(* cmd/pico: one process after another over one directory of session files. *)
(* A process is started with or without --session, resumes or refuses, and  *)
(* drives turns and slash commands from the plain REPL, from piped input or *)
(* from the TUI's driver goroutine.  It saves the conversation after each   *)
(* turn that succeeds, on /save and on /exit, by writing the file in place. *)
(* It may end at any step: killed, cancelled by signals, or, in the TUI,    *)
(* because Ctrl+D ends the program while the driver is still at work.       *)
(*                                                                         *)
(* The state that slash commands share with turns is here too: the model    *)
(* name (the provider's and the session's change together) and the Ollama   *)
(* adapter's cached answer to "does the model take tools?".                 *)
(* /cd is in FileTools, /mcp in McpManager; /help, /usage and /clear change *)
(* no state of the program.                                                 *)
(*                                                                         *)
(* A conversation is the set of its turns' numbers and how far a summary    *)
(* replaces them.  AgentLoop shows that it is valid whenever it can be      *)
(* saved, so Save's refusal of an invalid history does not arise.           *)
(***************************************************************************)
EXTENDS Startup, Naturals

CONSTANTS
  Names,        \* the names sessions may have
  NoName,       \* "", no session
  CommandLines, \* the flags a process may be started with
  Models,       \* the model names the provider knows
  Chosen,       \* the one that --model names
  Capable,      \* those of them that take tools
  MaxTurns,     \* bound of the model: turns over all processes
  MaxStarts     \* bound of the model: processes

ASSUME SessionAssumption ==
  /\ NoName \notin Names
  /\ CommandLines \subseteq Flags
  /\ Capable \subseteq Models /\ Chosen \in Models
  /\ MaxTurns \in Nat /\ MaxStarts \in Nat

Conversation == [turns : SUBSET (1 .. MaxTurns), summed : 0 .. MaxTurns]
Empty == [turns |-> {}, summed |-> 0]

\* What a session file may hold: nothing yet, a conversation, or the part of
\* one that a write cut short left, which is not JSON and never loads.
Absent == [is |-> "absent"]
Torn   == [is |-> "torn"]
File(c) == [is |-> "whole", holds |-> c]
Files  == {Absent, Torn} \cup {File(c) : c \in Conversation}

VARIABLES
  disk,       \* the session files
  pc,         \* the goroutine that drives turns: off, idle, turn, asking, save, write
  cfg,        \* the Config it was started with (of its last start when off)
  h,          \* the conversation in memory
  name,       \* session.name
  target,     \* the file a save is writing
  after,      \* what the save is for: "turn", "save" or "exit"
  model,      \* Provider.model, and session.model beside it
  probe,      \* supportsTools' cache: none, yes, no, unreachable, cancelled
  stage,      \* newShutdownContext's goroutine: armed, cancelled (its context too)
  signals,    \* interrupts sent to the process
  cancelled,  \* the turn's own context was cancelled (Ctrl+C in the TUI)
  acked,      \* history: the turns acknowledged under each name
  count,      \* turns begun (for MaxTurns)
  starts,     \* processes started (for MaxStarts)
  ended       \* how the last process ended

vars == <<disk, pc, cfg, h, name, target, after, model, probe,
          stage, signals, cancelled, acked, count, starts, ended>>

chat == <<h, name>>
saving == <<target, after>>
modelVars == <<model, probe>>
process == <<cfg, stage, signals, starts>>
kept == <<cfg, starts, count>>   \* by a step that ends an input

Context == IF stage = "cancelled" \/ cancelled THEN "cancelled" ELSE "live"

Init ==
  /\ disk = [n \in Names |-> Absent]
  /\ pc = "off" /\ ended = "never"
  /\ cfg \in {Config(f) : f \in {f \in CommandLines : Accepts(f)}}
  /\ h = Empty /\ name = NoName /\ target = NoName /\ after = "turn"
  /\ model = Chosen /\ probe = "none"
  /\ stage = "armed" /\ signals = 0 /\ cancelled = FALSE
  /\ acked = [n \in Names |-> {}]
  /\ count = 0 /\ starts = 0
-----------------------------------------------------------------------------
(* Starting and ending a process. *)

\* The process's memory goes with it; h and name are kept for what is said of
\* the conversation it left.
Ends(how) ==
  /\ pc' = "off" /\ ended' = how
  /\ stage' = "armed" /\ signals' = 0 /\ cancelled' = FALSE
  /\ probe' = "none" /\ model' = Chosen
  /\ target' = NoName /\ after' = "turn"

\* The driver goes on: to its next input, or to a save.
GoesOn(next, n, for) ==
  /\ pc' = next /\ target' = n /\ after' = for /\ cancelled' = FALSE
  /\ UNCHANGED <<ended, stage, signals, modelVars>>

GoesIdle == GoesOn("idle", NoName, "turn")
Saves(n, for) == GoesOn("save", n, for)

\* loadOrCreateHistory: a named session resumes if its file is there.
LoadOrCreate(n) == IF n # NoName /\ disk[n].is = "whole" THEN disk[n].holds ELSE Empty

Start(f, n) ==
  /\ pc = "off" /\ starts < MaxStarts
  /\ starts' = starts + 1
  /\ Accepts(f)
  /\ cfg' = Config(f)
  /\ stage' = "armed" /\ signals' = 0 /\ cancelled' = FALSE
  /\ model' = Chosen /\ probe' = "none"
  /\ IF n # NoName /\ disk[n] = Torn
     THEN pc' = "off" /\ ended' = "corrupt" /\ UNCHANGED chat
     ELSE pc' = "idle" /\ ended' = "running" /\ h' = LoadOrCreate(n) /\ name' = n
  /\ UNCHANGED <<disk, saving, acked, count>>

\* An error of config.Load or resolveProvider ends the process at once.
RefusedAtStart(f) ==
  /\ pc = "off" /\ starts < MaxStarts
  /\ starts' = starts + 1
  /\ ~Accepts(f)
  /\ Ends("refused")
  /\ UNCHANGED <<disk, cfg, chat, acked, count>>

\* End of input at the REPL's prompt, or nothing at all on a piped stdin.
EndOfInput ==
  /\ pc = "idle" /\ cfg.ui # "tui"
  /\ Ends("eof")
  /\ UNCHANGED <<disk, chat, acked, kept>>

\* Ctrl+D in the TUI: program.Run returns and the process exits, whatever the
\* driver goroutine is doing.
Quit ==
  /\ pc # "off" /\ cfg.ui = "tui"
  /\ Ends("quit")
  /\ UNCHANGED <<disk, chat, acked, kept>>

Kill ==
  /\ pc # "off"
  /\ Ends("killed")
  /\ UNCHANGED <<disk, chat, acked, kept>>

Interrupt ==
  /\ pc # "off" /\ signals < 2
  /\ signals' = signals + 1
  /\ UNCHANGED <<disk, pc, cfg, chat, saving, modelVars, stage, cancelled, acked,
                 count, starts, ended>>

\* newShutdownContext: the first signal cancels, the second exits.
FirstSignal ==
  /\ pc # "off" /\ stage = "armed" /\ signals > 0
  /\ stage' = "cancelled"
  /\ UNCHANGED <<disk, pc, cfg, chat, saving, modelVars, signals, cancelled, acked,
                 count, starts, ended>>

\* Mutant: the goroutine forgets to wait for a second signal.
SecondSignalIgnored == FALSE /\ UNCHANGED vars

SecondSignal ==
  /\ pc # "off" /\ stage = "cancelled" /\ signals > 1
  /\ Ends("signals")
  /\ UNCHANGED <<disk, chat, acked, kept>>

\* tea.WithContext: the program stops when the process's context is cancelled.
ProgramStops ==
  /\ pc # "off" /\ cfg.ui = "tui" /\ stage = "cancelled"
  /\ Ends("cancelled")
  /\ UNCHANGED <<disk, chat, acked, kept>>
-----------------------------------------------------------------------------
(* A turn. *)

RunTurn ==
  /\ pc = "idle" /\ count < MaxTurns
  /\ count' = count + 1
  /\ h' = [h EXCEPT !.turns = @ \cup {count + 1}]
  /\ pc' = "turn" /\ cancelled' = FALSE
  /\ UNCHANGED <<disk, process, name, saving, modelVars, acked, ended>>

\* Ctrl+C in the TUI cancels the turn's context only.
CancelTurn ==
  /\ pc = "turn" /\ cfg.ui = "tui" /\ ~cancelled
  /\ cancelled' = TRUE
  /\ UNCHANGED <<disk, pc, process, chat, saving, modelVars, acked, count, ended>>

\* checkToolSupport asks only the Ollama adapter, and only for a request that
\* carries tools; in prompted mode it never does.
ChecksSupport == cfg.provider = "ollama" /\ cfg.tools = "native" /\ Offered(cfg) # {}

\* supportsTools: the first answer or error stays for the provider's life.
Probe(answer) ==
  /\ pc = "turn" /\ ChecksSupport /\ probe = "none"
  /\ \/ answer = (IF model \in Capable THEN "yes" ELSE "no")
     \/ answer = "unreachable"
     \/ answer = "cancelled" /\ Context = "cancelled"
  /\ probe' = answer
  /\ UNCHANGED <<disk, pc, process, chat, saving, model, cancelled,
                 acked, count, ended>>

\* No turn succeeds with a model that takes no tools, or with the prompted
\* decorator if it were asked for a stream, which it does not implement.
Refused == \/ ChecksSupport /\ probe # "yes"
           \/ Streams(cfg) /\ cfg.tools = "prompted"

\* ConsoleApprover waits for a line on the terminal, and not for its context.
\* (The TUI's approver waits for both: TuiModel.  Of a pipe nothing is left.)
Asks ==
  /\ pc = "turn" /\ cfg.ui = "repl" /\ (cfg.write \/ cfg.commands) /\ ~Refused
  /\ pc' = "asking"
  /\ UNCHANGED <<disk, process, chat, saving, modelVars, cancelled, acked, count, ended>>

UserAnswers ==
  /\ pc = "asking"
  /\ pc' = "turn"
  /\ UNCHANGED <<disk, process, chat, saving, modelVars, cancelled, acked, count, ended>>

\* Mutant: the turn is reported as done before it is saved.
TurnDoneFirst ==
  /\ pc = "turn" /\ ~Refused
  /\ IF name # NoName
     THEN Saves(name, "turn") /\ acked' = [acked EXCEPT ![name] = @ \cup {count}]
     ELSE GoesIdle /\ UNCHANGED acked
  /\ UNCHANGED <<disk, chat, kept>>

\* Mutant: runREPL does not look at its context after a turn.
TurnSucceedsIgnoringCancel ==
  /\ pc = "turn" /\ ~Refused
  /\ IF name # NoName THEN Saves(name, "turn") ELSE GoesIdle
  /\ UNCHANGED <<disk, chat, acked, kept>>

\* What every driver does with the text of a turn that succeeded.
TurnSucceeds ==
  /\ pc = "turn" /\ ~Refused
  /\ IF cfg.ui = "repl" /\ stage = "cancelled" THEN Ends("cancelled")
     ELSE IF name # NoName THEN Saves(name, "turn")
     ELSE IF cfg.ui = "pipe" THEN Ends("done") ELSE GoesIdle
  /\ UNCHANGED <<disk, chat, acked, kept>>

\* RunStream or Run returns an error: the plain drivers end with it.
TurnFails ==
  /\ pc = "turn" /\ (ChecksSupport => probe # "none")
  /\ IF cfg.ui = "tui" THEN GoesIdle ELSE Ends("error")
  /\ UNCHANGED <<disk, chat, acked, kept>>
-----------------------------------------------------------------------------
(* Slash commands that touch the conversation or the model. *)

New ==
  /\ pc = "idle" /\ cfg.ui # "pipe"
  /\ h' = Empty /\ name' = NoName
  /\ UNCHANGED <<disk, pc, process, saving, modelVars, cancelled, acked, count, ended>>

\* /save [name]; with neither a name nor an active session it only says so.
Save(n) ==
  /\ pc = "idle" /\ cfg.ui # "pipe"
  /\ n # NoName \/ name # NoName
  /\ Saves(IF n = NoName THEN name ELSE n, "save")
  /\ UNCHANGED <<disk, chat, acked, kept>>

\* Mutant: the session is renamed although the file does not load.
LoadRenaming(n) ==
  /\ pc = "idle" /\ cfg.ui # "pipe"
  /\ name' = n
  /\ h' = IF disk[n].is = "whole" THEN disk[n].holds ELSE h
  /\ UNCHANGED <<disk, pc, process, saving, modelVars, cancelled, acked, count, ended>>

\* /load: on an error the conversation and the name are left as they were.
Load(n) ==
  /\ pc = "idle" /\ cfg.ui # "pipe"
  /\ disk[n].is = "whole"
  /\ h' = disk[n].holds /\ name' = n
  /\ UNCHANGED <<disk, pc, process, saving, modelVars, cancelled, acked, count, ended>>

\* /compact: a summary stands for the turns before the latest ones.
Compact ==
  /\ pc = "idle" /\ cfg.ui # "pipe"
  /\ \E t, u \in h.turns : h.summed < t /\ t < u /\ h' = [h EXCEPT !.summed = t]
  /\ UNCHANGED <<disk, pc, process, name, saving, modelVars, cancelled, acked, count, ended>>

Exit ==
  /\ pc = "idle" /\ cfg.ui # "pipe"
  /\ IF name = NoName THEN Ends("exit") ELSE Saves(name, "exit")
  /\ UNCHANGED <<disk, chat, acked, kept>>

\* /model <name> [window]: a name the provider does not know or a window that
\* is not a number changes nothing.  The window moves the threshold of automatic
\* compaction, which AgentLoop leaves to a free choice.
Model(m) ==
  /\ pc = "idle" /\ cfg.ui # "pipe" /\ SwitchesModels(cfg)
  /\ model' = m
  /\ UNCHANGED <<disk, pc, process, chat, saving, probe, cancelled, acked, count, ended>>
-----------------------------------------------------------------------------
(* History.Save: os.WriteFile truncates the file and then fills it. *)

SaveOpens ==
  /\ pc = "save"
  /\ pc' = "write"
  /\ disk' = [disk EXCEPT ![target] = Torn]
  /\ UNCHANGED <<process, chat, saving, modelVars, cancelled, acked, count, ended>>

Saved ==
  /\ pc = "write"
  /\ disk' = [disk EXCEPT ![target] = File(h)]
  /\ acked' = [acked EXCEPT ![target] = CASE after = "turn" -> @ \cup {count}
                                           [] after = "save" -> h.turns
                                           [] after = "exit" -> @]
  /\ name' = target        \* only /save names another file than the active one
  /\ IF after = "exit" THEN Ends("exit")
     ELSE IF after = "turn" /\ cfg.ui = "pipe" THEN Ends("done")
     ELSE GoesIdle
  /\ UNCHANGED <<h, kept>>

\* Mutant: /exit leaves although the save failed.
ExitAnyway ==
  /\ pc \in {"save", "write"}
  /\ IF after = "exit" THEN Ends("exit") ELSE GoesIdle
  /\ UNCHANGED <<disk, chat, acked, kept>>

\* The file cannot be opened, or not be written to the end.
SaveFails ==
  /\ pc \in {"save", "write"}
  /\ IF after = "turn" /\ cfg.ui # "tui" THEN Ends("error") ELSE GoesIdle
  /\ UNCHANGED <<disk, chat, acked, kept>>
-----------------------------------------------------------------------------
Starting == \/ \E f \in CommandLines, n \in Names \cup {NoName} : Start(f, n)
            \/ \E f \in CommandLines : RefusedAtStart(f)

Turn == \/ RunTurn \/ CancelTurn \/ Asks \/ UserAnswers \/ TurnSucceeds \/ TurnFails
        \/ \E a \in {"yes", "no", "unreachable", "cancelled"} : Probe(a)

Command == \/ New \/ Compact \/ Exit
           \/ \E n \in Names \cup {NoName} : Save(n)
           \/ \E n \in Names : Load(n)
           \/ \E m \in Models : Model(m)

Saving == SaveOpens \/ Saved \/ SaveFails

Ending == EndOfInput \/ Quit \/ Kill \/ Interrupt \/ FirstSignal \/ SecondSignal \/ ProgramStops

Next == Starting \/ Turn \/ Command \/ Saving \/ Ending

Spec == Init /\ [][Next]_vars

\* The goroutine that waits for signals, the program that waits for its
\* context, a turn (which AgentLoop shows to end once cancelled) and a write go
\* on (strongly fair, since a turn can ask only as often as its guards let it);
\* nobody has to send a signal, start a process, type or answer.
FairSpec ==
  /\ Spec
  /\ WF_vars(FirstSignal) /\ WF_vars(SecondSignal) /\ WF_vars(ProgramStops)
  /\ SF_vars(TurnSucceeds \/ TurnFails) /\ WF_vars(Saving)
  /\ WF_vars(\E a \in {"yes", "no", "unreachable", "cancelled"} : Probe(a))
-----------------------------------------------------------------------------
\* The type of every variable; a save knows its file.
TypeOK ==
  /\ disk \in [Names -> Files]
  /\ pc \in {"off", "idle", "turn", "asking", "save", "write"}
  /\ h \in Conversation /\ name \in Names \cup {NoName}
  /\ target \in Names \cup {NoName} /\ (target = NoName <=> pc \notin {"save", "write"})
  /\ after \in {"turn", "save", "exit"}
  /\ model \in Models
  /\ probe \in {"none", "yes", "no", "unreachable", "cancelled"}
  /\ stage \in {"armed", "cancelled"} /\ signals \in 0 .. 2 /\ cancelled \in BOOLEAN
  /\ acked \in [Names -> SUBSET (1 .. MaxTurns)]
  /\ count \in 0 .. MaxTurns /\ starts \in 0 .. MaxStarts

\* A session file that loads holds every turn the user was told of as done while
\* that session was active, through failed turns, failed saves, /load, /new,
\* /save under another name, kills and restarts.
\* Mutants: LoadRenaming, TurnDoneFirst.
AckedTurnsKept ==
  \A n \in Names : disk[n].is = "whole" => acked[n] \subseteq disk[n].holds.turns

\* /exit never drops the active session: when it has ended the process, the
\* session's file is the conversation, compactions and failed turns included.
\* Mutant: ExitAnyway.
ExitKeepsSession ==
  ended = "exit" /\ name # NoName => disk[name] = File(h)

\* "one Ctrl+C asks the agent loop to stop, two insist": two interrupts end the
\* process wherever it is, a prompt that waits for input included.
\* Mutant: SecondSignalIgnored.
TwoSignalsEnd == (pc # "off" /\ signals = 2) ~> (pc = "off")

\* One interrupt during a turn ends a plain driver, whether the turn then fails
\* or still succeeds, provided the user does not leave it waiting at an approval
\* for ever.  Mutant: TurnSucceedsIgnoringCancel.
Attended == []<>(pc # "asking")
InterruptedTurnEnds ==
  Attended => ((pc \in {"turn", "asking"} /\ cfg.ui # "tui" /\ stage = "cancelled")
               ~> (pc = "off"))

\* README.md:185-187: kill the process and --session picks up where it left off.
KilledSessionResumes == ended # "corrupt"

\* README.md:205-207: Ctrl+C in the TUI cancels only the in-flight turn.  A later
\* turn never finds the cancellation of an earlier one in the provider's cache.
CancelOnlyThatTurn == pc = "turn" /\ probe = "cancelled" => Context = "cancelled"
=============================================================================
