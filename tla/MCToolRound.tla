---------------------------- MODULE MCToolRound ----------------------------
EXTENDS ToolRound, TLC

CONSTANTS here, there, e1, e2, w1, r1, s1, g1, l1, x1, x2, a1, a2

CallTools == e1 :> "edit_file" @@ e2 :> "edit_file" @@ w1 :> "write_file" @@ r1 :> "read_file"
             @@ s1 :> "search_files" @@ g1 :> "glob_files" @@ l1 :> "list_dir"
             @@ x1 :> "run_command" @@ x2 :> "run_command" @@ a1 :> "sub_agent" @@ a2 :> "sub_agent"

Nothing == [path |-> 1, old |-> "p", new |-> "q", all |-> FALSE, text |-> <<>>, names |-> {}]

\* e1 and e2 edit different lines of one file, w1 replaces it, and a read, a
\* search and the other walks look at it and at its neighbours.
Inputs == [c \in Calls |->
  CASE c = e2 -> [Nothing EXCEPT !.old = "r", !.new = "p", !.all = TRUE]
    [] c = w1 -> [Nothing EXCEPT !.text = <<"q", "p">>]
    [] c = g1 -> [Nothing EXCEPT !.names = {1, 2}]
    [] OTHER -> Nothing]

Workspace(one, two) ==
  [f \in Roots \X FileNames |->
     CASE f[1] = there -> (IF f[2] = 1 THEN <<"p", "r">> ELSE Missing)
       [] f[2] = 1 -> one [] f[2] = 2 -> two [] OTHER -> <<"p", "p">>]

\* A search of the first finds three matches, one more than MatchCap.
Workspaces == {Workspace(<<"p", "r">>, <<"p", "p">>), Workspace(Missing, <<"q", "p">>)}

Rounds == {<<{e1, e2}>>, <<{e1}, {w1}>>, <<{w1}, {e1}>>, <<{w1, r1}>>, <<{w1, s1}>>,
           <<{x1, g1}, {x2, l1}>>, <<{a1, a2}>>}

\* Only sub-agents look at what was spent, only the file tools at the files.
Delegates == \E k \in DOMAIN todo : a1 \in todo[k]

MCInit == /\ Init
          /\ IF Delegates THEN files = Workspace(Missing, <<"q", "p">>) ELSE spent = 0
          /\ root = here

\* Every two texts of at most three lines, of two kinds of line, of which a preview may be
\* cut; and longer ones, whose preview is the fallback, whole or cut.
SmallTexts == UNION {[1 .. n -> {"p", "q"}] : n \in 0 .. 3}
              \cup {<<"p", "q", "p", "q">>, <<"q", "q", "q", "p">>}

MCSpec == MCInit /\ [][Next]_vars /\ Fairness
=============================================================================
