------------------------------- MODULE MCTui -------------------------------
(* Instances of TuiModel for TLC. *)
EXTENDS TuiModel

\* One gated call, two read-only calls, one of each, and two gated calls.
AnyRounds == {<<TRUE>>, <<FALSE, FALSE>>, <<FALSE, TRUE>>, <<TRUE, TRUE>>}
=============================================================================
