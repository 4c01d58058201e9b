----------------------------- MODULE MCSession -----------------------------
EXTENDS Session

Line == [provider |-> "anthropic", env |-> "unset", model |-> TRUE, tools |-> "unset",
         log |-> "info", stream |-> TRUE, tui |-> FALSE, write |-> TRUE,
         commands |-> FALSE, terminal |-> TRUE]

\* The plain REPL, piped input, the TUI; the Ollama adapter with and without
\* native tools, from the flag and from the environment; and lines refused.
Lines == {Line,
          [Line EXCEPT !.terminal = FALSE, !.provider = "openai", !.stream = FALSE],
          [Line EXCEPT !.tui = TRUE, !.provider = "ollama", !.tools = "native"],
          [Line EXCEPT !.provider = "unset", !.env = "ollama"],
          [Line EXCEPT !.tui = TRUE, !.provider = "unset", !.env = "ollama"],
          [Line EXCEPT !.model = FALSE]}

\* The lines of the counterexamples: a TUI over the Ollama adapter.
TuiLines == {[Line EXCEPT !.tui = TRUE, !.provider = "ollama", !.tools = "native"]}
=============================================================================
