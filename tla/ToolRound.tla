----------------------------- MODULE ToolRound -----------------------------
(***************************************************************************)
(* The calls of a round, with whatever tools they call, beside each other   *)
(* and beside the tools that earlier rounds abandoned; between rounds the   *)
(* user may move the sandbox with /cd.                                      *)
(***************************************************************************)
EXTENDS FileTools, SubAgent

CONSTANT Samples   \* texts between which previews are shown, beside those in files

ASSUME SampleAssumption == Samples \subseteq Seq(STRING)

vars == <<plan, callVars, contexts, console, fileVars, childVars>>

Init == RoundInit /\ FileInit /\ SubAgentInit

ToolStep(c) == \/ FileStep(c) /\ UNCHANGED childVars
               \/ SubAgentStep(c) /\ UNCHANGED fileVars

Asking(c) == \/ NeedsNoApproval(c) /\ UNCHANGED fileVars
             \/ Preview(c)
             \/ ReadLine(c) /\ UNCHANGED fileVars

Answering(c) == (Collect(c) \/ Abandon(c)) /\ UNCHANGED <<fileVars, childVars>>

Next ==
  \/ (BeginRound \/ UserTypes \/ Cancel) /\ UNCHANGED <<fileVars, childVars>>
  \/ \E r \in Roots \ {root} : Cd(r) /\ UNCHANGED childVars
  \/ \E c \in Calls : \/ Asking(c) /\ UNCHANGED childVars
                      \/ Deadline(c) /\ UNCHANGED <<fileVars, childVars>>
                      \/ Answering(c)
                      \/ ToolStep(c)
                      \/ CommandExits(c) /\ UNCHANGED childVars

Spec == Init /\ [][Next]_vars

\* A tool's own goroutine runs, its deadline passes, and a call whose goroutine
\* can be answered is; a user need not type, nor a command exit by itself.
Fairness ==
  \A c \in Calls : /\ WF_vars(ToolStep(c))
                   /\ WF_vars(Deadline(c) /\ UNCHANGED <<fileVars, childVars>>)
                   /\ WF_vars(Answering(c))

FairSpec == Spec /\ Fairness
-----------------------------------------------------------------------------
\* The type of every variable; no tool leaves a temporary file behind.
TypeOK ==
  /\ phase \in [Calls -> {"later", "approval", "asking", "running", "over"}]
  /\ work \in [Calls -> {"start", "temp", "looked", "walking", "child", "chat", "tools"} \cup Outcomes]
  /\ answer \in [Calls -> Outcomes \cup {None, "denied", "abandoned"}]
  /\ stopped \subseteq Calls /\ cancelled \in BOOLEAN
  /\ prompts \in Seq(Calls) /\ read <= lines /\ lines <= Len(prompts)
  /\ \A f \in DOMAIN files : files[f] = Missing \/ files[f] \in Seq(STRING)
  /\ root \in Roots
  /\ \A c \in Calls : tmp[c] # None => work[c] \in {"temp", "looked"}

RenamedBy(c) == {i \in DOMAIN done : done[i].call = c}

\* What the record says of a call is what became of the workspace: a call that
\* was denied, or failed, has changed nothing and left no temporary file; one
\* that succeeded has changed its file once; and a sub-agent that a guard cut
\* off never counts as done.  (An abandoned call may do either: its answer says
\* only that nobody waited.)  Mutants: RenameThenLook, ChildToolsCutOff.
AnswersAreTrue ==
  \A c \in Calls :
    /\ answer[c] \in {"denied", "error"} => RenamedBy(c) = {} /\ tmp[c] = None
    /\ answer[c] = "ok" /\ Tool[c] \in {"write_file", "edit_file"} => Cardinality(RenamedBy(c)) = 1
    /\ answer[c] = "ok" /\ Tool[c] = "sub_agent" => child[c].final

\* The calls of one round run at the same time.
SameRound(c, d) == \E s \in Scenarios : \E k \in DOMAIN s : {c, d} \subseteq s[k]

Overlap(c, d) == SameRound(c, d) \/ "abandoned" \in {answer[c], answer[d]}

\* edit_file, Run: the file is read, and written back later without another look, so that
\* an edit can undo a change made in between.  It is never one that the model has seen the
\* answer of: only a call of the same round can lose its change, or one that was abandoned,
\* or have it lost to an edit that was.  Mutant: BeginRoundEarly.
OnlyOverlapsLose ==
  \A i \in DOMAIN done :
    LET d == done[i]
    IN Tool[d.call] = "edit_file" /\ d.was # seen[d.call] =>
         \E j \in 1 .. i - 1 : /\ at[done[j].call] = at[d.call]
                               /\ Overlap(done[j].call, d.call)

\* diff.go, lineDiff: the preview of any change from one text to another keeps to its
\* budget and says that there is a change; unless it was cut it tells what is there and
\* what will be, and, below maxDiffLines, changes no more lines than it has to.  It depends
\* on no state and is looked at before the first round.  Mutant: EagerlyPrinted.
PreviewsTellChange ==
  round = {} => \A a, b \in Samples : TellsChange(LineDiff(a, b), a, b)

\* The diff the user said yes to is of the file that is changed, in the directory it was
\* shown for, and, if nobody changed that file in between and nothing was cut out of the
\* diff, it is what happens to it: through concurrent calls, abandoned tools and /cd.
\* Mutants: CdAnyTime, EagerlyPrinted.
ApprovedIsDone ==
  \A i \in DOMAIN done :
    LET d == done[i]
        s == shown[d.call]
    IN s # None =>
         /\ at[d.call] = s.file
         /\ Readable(s.diff) /\ d.was = seen[d.call] /\ TextOf(d.was) = Before(s.diff) =>
              d.now = After(s.diff)

\* A walk reports, of a file that no call has changed, every match up to the cap
\* and nothing else, whatever happens to other files meanwhile.
\* Mutant: VisitOneLess.
WalkFindsAll ==
  \A c \in Calls : Tool[c] = "search_files" /\ work[c] = "ok" =>
    \A n \in FileNames :
      LET file == <<at[c][1], n>>
          hits == {k \in DOMAIN files[file] : files[file][k] = Input[c].old}
          got == {found[c][k][2] : k \in {k \in DOMAIN found[c] : found[c][k][1] = n}}
      IN files[file] # Missing /\ (\A i \in DOMAIN done : at[done[i].call] # file) =>
           /\ got \subseteq hits /\ (n \in Denied => got = {})
           /\ n \notin Denied => got = hits \/ Len(found[c]) = MatchCap

\* A gated tool that began was let in by a yes, and by the user's answer to its
\* own prompt unless two prompts waited at once.  Mutant: ReadAnyLine.
QuietConsent ==
  \A c \in Calls : Tool[c] \in Gated /\ work[c] # "start" =>
    consent[c] \in Wanted /\ (crossed \/ consent[c] = c)

\* subagent.go, childGuards: what the sub-agents of a round spend together is at
\* most once per sub-agent what is left of the parent's budget, and less than
\* one reply more; with nothing left, a reply each.  Mutant: ChildBudgetOfNothing.
LargestReply == CHOOSE n \in Replies : \A k \in Replies : k <= n
Left == IF spent < ParentBudget THEN ParentBudget - spent ELSE 1
DelegationBound ==
  ParentBudget > 0 =>
    \A c \in Calls : child[c].tokens < Left + LargestReply

\* Tools that were abandoned do not go on for ever: their contexts end with them,
\* a command is killed, a walk is finite, a sub-agent runs out of turns.
\* Mutant: KillCommandInRound.
AbandonedToolsStop ==
  []<>(\A c \in Calls : answer[c] = "abandoned" => work[c] \in Outcomes)
=============================================================================
