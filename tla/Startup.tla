------------------------------ MODULE Startup ------------------------------
(***************************************************************************)
(* How cmd/pico turns a command line into a running configuration: the     *)
(* defaults of configureChat, the validation of config.Load, the provider   *)
(* that resolveProvider wraps or refuses, the tools that buildRegistry      *)
(* offers and the runner that newTurnRunner picks.                          *)
(*                                                                         *)
(* Flags that nothing below branches on (the workspace, the guards' limits, *)
(* the credentials) are left out.  "unset" is a flag that was not given.    *)
(***************************************************************************)
EXTENDS FiniteSets

Providers  == {"anthropic", "ollama", "openai"}
ToolsModes == {"native", "prompted"}
LogLevels  == {"debug", "info", "warn", "error"}

\* The flags, with the environment's PICO_CODE_PROVIDER and what stdin is.
Flags == [provider : Providers \cup {"unset", "unknown"},
          env      : Providers \cup {"unset", "unknown"},
          model    : BOOLEAN,                 \* --model names something
          tools    : ToolsModes \cup {"unset", "unknown"},
          log      : LogLevels \cup {"unknown"},
          stream   : BOOLEAN, tui : BOOLEAN, write : BOOLEAN, commands : BOOLEAN,
          terminal : BOOLEAN]                 \* stdin is a terminal

ResolvedProvider(f) == IF f.provider # "unset" THEN f.provider
                       ELSE IF f.env # "unset" THEN f.env ELSE "anthropic"

ResolvedTools(f) == IF f.tools # "unset" THEN f.tools
                    ELSE IF ResolvedProvider(f) = "ollama" THEN "prompted" ELSE "native"

\* config.Load: what it accepts, and the Config it makes of it.
Loads(f) == /\ ResolvedProvider(f) \in Providers
            /\ f.model
            /\ ResolvedTools(f) \in ToolsModes
            /\ f.log \in LogLevels

Config(f) == [provider |-> ResolvedProvider(f), tools |-> ResolvedTools(f),
              stream |-> f.stream, write |-> f.write, commands |-> f.commands,
              ui |-> IF f.tui THEN "tui" ELSE IF f.terminal THEN "repl" ELSE "pipe"]

\* resolveProvider refuses a TUI over prompted tools: it could not stream.
ResolvesProvider(c) == ~(c.tools = "prompted" /\ c.ui = "tui")

Accepts(f) == Loads(f) /\ ResolvesProvider(Config(f))

\* newTurnRunner for the plain drivers; runTUIChat always calls RunStream.
Streams(c) == c.ui = "tui" \/ (c.stream /\ c.tools # "prompted")

\* Only the Anthropic and Ollama adapters switch models, and the prompted
\* decorator hides that they do.
SwitchesModels(c) == c.provider \in {"anthropic", "ollama"} /\ c.tools = "native"

ReadOnly == {"read_file", "list_dir", "search_files", "glob_files"}

BuildRegistry(c) ==
  ReadOnly \cup (IF c.write THEN {"write_file", "edit_file"} ELSE {})
           \cup (IF c.commands THEN {"run_command"} ELSE {})

\* The whole of what the agent is offered once wireSubAgent has run.
Offered(c) == BuildRegistry(c) \cup {"sub_agent"}
=============================================================================
